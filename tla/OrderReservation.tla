------------------------- MODULE OrderReservation -------------------------
(***************************************************************************)
(* The Order aggregate of backend/apps/orders: orders, their payment       *)
(* attempts, the licence keys assigned to them and the payment attempt     *)
(* (authority) that may finalise or release a temporary reservation.       *)
(*                                                                         *)
(* One action is one committed database transaction of services.py or     *)
(* payment_services.py: each starts by locking the order row, so           *)
(* transactions of one order are serial, and keys are taken under row      *)
(* locks.  A code path that raises rolls its transaction back and is the   *)
(* absence of a step.  Which request runs the transaction, and what it     *)
(* remembers between two of them, is in PaymentSaga.                       *)
(*                                                                         *)
(* An OrderItem row is the pair (order, product): a product appears at     *)
(* most once in an order.  LegacyOrders are direct orders that predate     *)
(* OrderItem rows and are normalised by the first transaction that needs   *)
(* their items.                                                            *)
(***************************************************************************)
EXTENDS Naturals, FiniteSets

CONSTANTS Orders,          \* orders, placed before the behaviour starts
          DirectOrders,    \* orders whose source is DIRECT
          LegacyOrders,    \* direct orders without OrderItem rows
          UnpricedOrders,  \* orders without an authoritative total
          Payments,        \* identities of Payment rows
          Keys,            \* identities of LicenseKey rows
          Products,
          KeyProduct,      \* the product a key unlocks
          Quantity,        \* units of each product an order contains
          Nobody           \* null

ASSUME KeyProductAssumption == KeyProduct \in [Keys -> Products]
ASSUME QuantityAssumption == Quantity \in [Orders -> [Products -> Nat]]
ASSUME OrderKindsAssumption ==
    /\ DirectOrders \subseteq Orders
    /\ LegacyOrders \subseteq DirectOrders
    /\ UnpricedOrders \subseteq Orders
ASSUME LegacyUnitsAssumption ==    \* such an order is for one unit at most
    \A o \in LegacyOrders : \A r, q \in Products :
        /\ Quantity[o][r] <= 1
        /\ Quantity[o][r] > 0 /\ Quantity[o][q] > 0 => r = q
ASSUME NobodyAssumption == /\ Nobody \notin Orders
                           /\ Nobody \notin Payments
                           /\ Nobody \notin Keys

VARIABLES orderStatus,   \* Order.status
          authority,     \* Order.reservation_payment_attempt
          licenseKey,    \* Order.license_key
          itemised,      \* the order's OrderItem rows exist
          payStatus,     \* Payment.status, "ABSENT" before the row exists
          payOrder,      \* Payment.order
          keyStatus,     \* LicenseKey.status, "ABSENT" without a row
          assignedTo     \* the order of the key's LicenseAssignment

orderVars == <<orderStatus, authority, licenseKey, itemised>>
payVars == <<payStatus, payOrder>>
keyVars == <<keyStatus, assignedTo>>
vars == <<orderStatus, authority, licenseKey, itemised,
          payStatus, payOrder, keyStatus, assignedTo>>

ActiveStatuses == {"CREATED", "PENDING"}
TerminalStatuses == {"FAILED", "CANCELLED", "EXPIRED"}
PaymentStatuses == ActiveStatuses \cup TerminalStatuses \cup {"ABSENT", "PAID"}
KeyStatuses == {"ABSENT", "AVAILABLE", "RESERVED", "SOLD"}

TypeOK ==
    /\ orderStatus \in [Orders -> {"CREATED", "PAID"}]
    /\ authority \in [Orders -> Payments \cup {Nobody}]
    /\ licenseKey \in [Orders -> Keys \cup {Nobody}]
    /\ itemised \in [Orders -> BOOLEAN]
    /\ payStatus \in [Payments -> PaymentStatuses]
    /\ payOrder \in [Payments -> Orders \cup {Nobody}]
    /\ keyStatus \in [Keys -> KeyStatuses]
    /\ assignedTo \in [Keys -> Orders \cup {Nobody}]

Init ==
    /\ orderStatus = [o \in Orders |-> "CREATED"]
    /\ authority = [o \in Orders |-> Nobody]
    /\ licenseKey = [o \in Orders |-> Nobody]
    /\ itemised = [o \in Orders |-> o \notin LegacyOrders]
    /\ payStatus = [p \in Payments |-> "ABSENT"]
    /\ payOrder = [p \in Payments |-> Nobody]
    /\ keyStatus = [k \in Keys |-> "ABSENT"]
    /\ assignedTo = [k \in Keys |-> Nobody]

-----------------------------------------------------------------------------
(* What a transaction reads once it holds the order's row lock.            *)

\* The keys an order's LicenseAssignment rows name, temporary or permanent.
Held(o) == {k \in Keys : assignedTo[k] = o}

\* A set of keys supplies exactly the quantity of every item of the order.
Covers(S, o) ==
    \A r \in Products : Cardinality({k \in S : KeyProduct[k] = r}) = Quantity[o][r]

\* _locked_reservation_assignments returns the rows of a complete temporary
\* reservation; it raises when the assigned keys are anything else.
HasReservation(o) ==
    /\ Held(o) # {}
    /\ Covers(Held(o), o)
    /\ \A k \in Held(o) : keyStatus[k] = "RESERVED"

\* get_or_create_order_items_for_fulfilment has items to return.
HasItems(o) == \E r \in Products : Quantity[o][r] > 0

Payable(o) == orderStatus[o] # "PAID" /\ o \notin UnpricedOrders

ActiveAttempts(o) ==
    {p \in Payments : payOrder[p] = o /\ payStatus[p] \in ActiveStatuses}

FreeKeys == {k \in Keys : keyStatus[k] = "AVAILABLE" /\ assignedTo[k] = Nobody}

\* Fault variant: any unsuccessful attempt releases.
MayReleaseAnyway(o, p) == orderStatus[o] # "PAID"

\* terminate_payment touches the reservation only for its own authority.
MayRelease(o, p) == orderStatus[o] # "PAID" /\ authority[o] \in {Nobody, p}

-----------------------------------------------------------------------------
(* Effects on the inventory.                                               *)

\* Fault variant: the payment's status is written to the key.
AssignKeysPaid(S, o, status) ==
    /\ keyStatus' = [k \in Keys |-> IF k \in S THEN "PAID" ELSE keyStatus[k]]
    /\ assignedTo' = [k \in Keys |-> IF k \in S THEN o ELSE assignedTo[k]]

AssignKeys(S, o, status) ==
    /\ keyStatus' = [k \in Keys |-> IF k \in S THEN status ELSE keyStatus[k]]
    /\ assignedTo' = [k \in Keys |-> IF k \in S THEN o ELSE assignedTo[k]]

\* Fault variant: the attempt ends and the keys stay.
ReleaseNothing(o) == UNCHANGED keyVars

\* Fault variant: the keys go back on sale and their assignments stay.
ReleaseStatusesOnly(o) ==
    /\ Held(o) # {} => HasReservation(o)
    /\ keyStatus' = [k \in Keys |-> IF k \in Held(o) THEN "AVAILABLE" ELSE keyStatus[k]]
    /\ UNCHANGED assignedTo

ReleaseReservation(o) ==
    /\ Held(o) # {} => HasReservation(o)
    /\ keyStatus' = [k \in Keys |-> IF k \in Held(o) THEN "AVAILABLE" ELSE keyStatus[k]]
    /\ assignedTo' = [k \in Keys |-> IF k \in Held(o) THEN Nobody ELSE assignedTo[k]]

\* Fault variant: what there is of an order is reserved.
ReservePartially(o) ==
    \/ HasReservation(o) /\ UNCHANGED keyVars
    \/ /\ Held(o) = {}
       /\ \E S \in SUBSET FreeKeys :
              /\ S # {}
              /\ \A r \in Products :
                     Cardinality({k \in S : KeyProduct[k] = r}) <= Quantity[o][r]
              /\ AssignKeys(S, o, "RESERVED")

\* Fault variant: the stock is looked at and nothing is taken.
ReserveNothing(o) ==
    /\ \E S \in SUBSET FreeKeys : Covers(S, o)
    /\ UNCHANGED keyVars

\* reserve_order_licenses: reuse the complete reservation or take every key.
ReserveKeys(o) ==
    \/ HasReservation(o) /\ UNCHANGED keyVars
    \/ /\ Held(o) = {}
       /\ \E S \in SUBSET FreeKeys : Covers(S, o) /\ AssignKeys(S, o, "RESERVED")

\* The part of an establishing transaction that create_payment and pay_order
\* share: reserve, bind the reservation to the attempt, normalise the items.
EstablishReservation(o, p) ==
    /\ Payable(o)
    /\ HasItems(o)
    /\ authority[o] \in {Nobody, p}
    /\ ReserveKeys(o)
    /\ authority' = [authority EXCEPT ![o] = p]
    /\ itemised' = [itemised EXCEPT ![o] = TRUE]
    /\ UNCHANGED <<orderStatus, licenseKey>>

-----------------------------------------------------------------------------
(* Transactions.                                                           *)

\* create_payment, and pay_order when the order has no active attempt.
NewAttempt(o, p) ==
    /\ payStatus[p] = "ABSENT"
    /\ ActiveAttempts(o) = {}
    /\ EstablishReservation(o, p)
    /\ payStatus' = [payStatus EXCEPT ![p] = "CREATED"]
    /\ payOrder' = [payOrder EXCEPT ![p] = o]

\* pay_order when the order has an active attempt.
ResumeAttempt(o, p) ==
    /\ p \in ActiveAttempts(o)
    /\ EstablishReservation(o, p)
    /\ UNCHANGED payVars

\* Fault variant: the reservation is released and the outcome not saved.
TerminateUnsaved(o, p, status) ==
    /\ payOrder[p] = o
    /\ payStatus[p] # "PAID"
    /\ MayRelease(o, p)
    /\ ReleaseReservation(o)
    /\ authority' = [authority EXCEPT ![o] = Nobody]
    /\ UNCHANGED <<orderStatus, licenseKey, itemised, payVars>>

\* terminate_payment: an unsuccessful outcome of one attempt.  An attempt that
\* is not the authority, or a paid order, keeps everything but its own status.
TerminatePayment(o, p, status) ==
    /\ payOrder[p] = o
    /\ payStatus[p] # "PAID"
    /\ payStatus' = [payStatus EXCEPT ![p] = status]
    /\ IF MayRelease(o, p)
       THEN /\ ReleaseReservation(o)
            /\ authority' = [authority EXCEPT ![o] = Nobody]
       ELSE UNCHANGED <<keyVars, authority>>
    /\ UNCHANGED <<orderStatus, licenseKey, itemised, payOrder>>

\* The provider refused an attempt whose transaction had created the item row
\* of a legacy order: fail_payment, then the row is deleted and its
\* assignments with it, whatever the order's state is by now.
RejectLegacyAttempt(o, p) ==
    /\ o \in LegacyOrders /\ itemised[o]
    /\ payOrder[p] = o
    /\ payStatus' = [payStatus EXCEPT ![p] = IF @ = "PAID" THEN @ ELSE "FAILED"]
    /\ IF payStatus[p] # "PAID" /\ MayRelease(o, p)
       THEN /\ ReleaseReservation(o)
            /\ authority' = [authority EXCEPT ![o] = Nobody]
       ELSE /\ assignedTo' = [k \in Keys |-> IF k \in Held(o) THEN Nobody ELSE assignedTo[k]]
            /\ UNCHANGED <<keyStatus, authority>>
    /\ itemised' = [itemised EXCEPT ![o] = FALSE]
    /\ UNCHANGED <<orderStatus, licenseKey, payOrder>>

\* _fulfil_order: sell the reservation, or search the stock when there is no
\* reservation and no authority requires one.
SellKeys(o, S) ==
    \/ HasReservation(o) /\ S = Held(o) /\ AssignKeys(S, o, "SOLD")
    \/ /\ Held(o) = {} /\ authority[o] = Nobody
       /\ S \subseteq FreeKeys
       /\ Covers(S, o)
       /\ AssignKeys(S, o, "SOLD")

MayComplete(o, p) ==
    /\ Payable(o)
    /\ payStatus[p] \in ActiveStatuses \cup {"FAILED"}
    /\ authority[o] \in {Nobody, p}

\* complete_payment: fulfil the order for a confirmed payment.
CompletePayment(o, p) ==
    /\ payOrder[p] = o
    /\ MayComplete(o, p)
    /\ HasItems(o)
    /\ \E S \in SUBSET Keys :
          /\ SellKeys(o, S)
          /\ \E k \in S : licenseKey' = IF o \in DirectOrders
                                        THEN [licenseKey EXCEPT ![o] = k]
                                        ELSE licenseKey
    /\ orderStatus' = [orderStatus EXCEPT ![o] = "PAID"]
    /\ authority' = [authority EXCEPT ![o] = Nobody]
    /\ itemised' = [itemised EXCEPT ![o] = TRUE]
    /\ payStatus' = [payStatus EXCEPT ![p] = "PAID"]
    /\ UNCHANGED payOrder

\* The last transaction of pay_order when the provider reports neither success
\* nor failure.  Only the partial unique constraint stands in its way.
RecordPending(o, p) ==
    /\ payOrder[p] = o
    /\ ActiveAttempts(o) \subseteq {p}
    /\ payStatus' = [payStatus EXCEPT ![p] = "PENDING"]
    /\ UNCHANGED <<orderVars, keyVars, payOrder>>

\* An administrator imports a key, or deletes one that is neither sold nor
\* protected by an assignment.
ImportKey(k) ==
    /\ keyStatus[k] = "ABSENT"
    /\ keyStatus' = [keyStatus EXCEPT ![k] = "AVAILABLE"]
    /\ UNCHANGED <<orderVars, payVars, assignedTo>>

\* Fault variant: deletion cascades to assignments and spares no status.
DeleteAnyKey(k) ==
    /\ keyStatus[k] # "ABSENT"
    /\ keyStatus' = [keyStatus EXCEPT ![k] = "ABSENT"]
    /\ assignedTo' = [assignedTo EXCEPT ![k] = Nobody]
    /\ UNCHANGED <<orderVars, payVars>>

DeleteKey(k) ==
    /\ keyStatus[k] \in {"AVAILABLE", "RESERVED"}
    /\ assignedTo[k] = Nobody
    /\ keyStatus' = [keyStatus EXCEPT ![k] = "ABSENT"]
    /\ UNCHANGED <<orderVars, payVars, assignedTo>>

-----------------------------------------------------------------------------
OrderStep(o) ==
    \E p \in Payments :
        \/ NewAttempt(o, p)
        \/ ResumeAttempt(o, p)
        \/ \E status \in TerminalStatuses : TerminatePayment(o, p, status)
        \/ RejectLegacyAttempt(o, p)
        \/ CompletePayment(o, p)

StockStep == \E k \in Keys : ImportKey(k) \/ DeleteKey(k)

\* The providers in the repository confirm or reject; none reports PENDING.
ShippedNext == StockStep \/ \E o \in Orders : OrderStep(o)

Next == ShippedNext \/ \E o \in Orders, p \in Payments : RecordPending(o, p)

ShippedSpec == Init /\ [][ShippedNext]_vars
Spec == Init /\ [][Next]_vars

-----------------------------------------------------------------------------
(* Safety.  A legacy order whose item row is deleted under another attempt  *)
(* loses its assignments, so that an authority holds keys is said of others.*)

ItemisedOrders == Orders \ LegacyOrders

\* An unpaid order holds keys exactly while some attempt has the authority to
\* finalise or release them, and a paid order has no authority left: reserve,
\* authorise, release and complete never commit one without the other.
ReservationMatchesAuthority ==
    \A o \in Orders :
        IF orderStatus[o] = "PAID"
        THEN authority[o] = Nobody
        ELSE /\ Held(o) # {} => authority[o] # Nobody
             /\ o \in ItemisedOrders /\ authority[o] # Nobody => Held(o) # {}

\* No order is ever left with part of the keys it needs, or with more: what an
\* order holds is nothing or one key per unit of every item.
AllOrNothing ==
    \A o \in Orders : Held(o) = {} \/ Covers(Held(o), o)

\* The authority is an attempt of the same order that is still active, so a
\* terminated or superseded attempt never keeps it.
AuthorityIsOwnActiveAttempt ==
    \A o \in Orders : authority[o] # Nobody => authority[o] \in ActiveAttempts(o)

\* A key's status and its assignment agree with the state of the order that
\* holds it: temporary while the order is unpaid, sold once it is paid, and a
\* key on sale is promised to nobody.
AssignmentFollowsOrder ==
    \A k \in Keys :
        IF assignedTo[k] = Nobody
        THEN LegacyOrders = {} => keyStatus[k] \in {"ABSENT", "AVAILABLE"}
        ELSE keyStatus[k] = IF orderStatus[assignedTo[k]] = "PAID" THEN "SOLD" ELSE "RESERVED"

\* Reservations, authorities and key states never disagree, whichever
\* transactions of whichever orders came before.
ReservationConsistent ==
    /\ AllOrNothing
    /\ AuthorityIsOwnActiveAttempt
    /\ AssignmentFollowsOrder

\* A paid order was fulfilled in full, and the key shown for a direct order is
\* one of the keys assigned to it.
Delivered(o) ==
    /\ Held(o) # {} /\ Covers(Held(o), o)
    /\ o \in DirectOrders => licenseKey[o] \in Held(o)

PaidOrdersDelivered == \A o \in ItemisedOrders : orderStatus[o] = "PAID" => Delivered(o)

\* With the providers of the repository, exactly one attempt paid a paid order
\* and no attempt on it is still open; the open attempt of an unpaid order is
\* always the authority, so no open checkout lacks its reserved keys.
OneSettlement ==
    \A o \in Orders :
        IF orderStatus[o] = "PAID"
        THEN /\ \E p \in Payments : payOrder[p] = o /\ payStatus[p] = "PAID"
             /\ \A p, q \in Payments :
                    payOrder[p] = o /\ payOrder[q] = o /\ payStatus[p] = "PAID" =>
                        q = p \/ payStatus[q] \in TerminalStatuses
        ELSE \A p \in Payments :
                payOrder[p] = o => /\ payStatus[p] # "PAID"
                                   /\ payStatus[p] \in ActiveStatuses => authority[o] = p

-----------------------------------------------------------------------------
(* What a step may never do.                                               *)

\* A sold key is never put back, deleted or assigned to another order, by late
\* failures and duplicates included.
SoldIsFinal ==
    [][\A k \in Keys : keyStatus[k] = "SOLD" =>
            /\ keyStatus'[k] = "SOLD"
            /\ assignedTo[k] \in ItemisedOrders => assignedTo'[k] = assignedTo[k]]_vars

\* An event of an attempt that is not the authority changes that attempt at
\* most: the order, its authority and its keys stay as they were.
HistoricalAttemptsHarmless ==
    [][\A p \in Payments, o \in ItemisedOrders :
            /\ payOrder[p] = o /\ payStatus'[p] # payStatus[p]
            /\ authority[o] \notin {Nobody, p}
            => /\ orderStatus'[o] = orderStatus[o]
               /\ authority'[o] = authority[o]
               /\ \A k \in Held(o) : /\ keyStatus'[k] = keyStatus[k]
                                     /\ assignedTo'[k] = o]_vars

\* Reserved keys return to the stock only in the step that ends the attempt
\* holding the authority: an open checkout never loses its keys.
ReleaseEndsTheAttempt ==
    [][\A k \in Keys :
            /\ keyStatus[k] = "RESERVED" /\ assignedTo[k] # Nobody
            /\ keyStatus'[k] = "AVAILABLE"
            => payStatus'[authority[assignedTo[k]]] \in TerminalStatuses]_vars

-----------------------------------------------------------------------------
(* Refinement.                                                             *)

Allocation == INSTANCE LicenseAllocation WITH
    Supplies <- Covers,
    stock <- FreeKeys,
    held <- [o \in Orders |-> IF orderStatus[o] = "PAID" THEN {} ELSE Held(o)],
    sold <- [o \in Orders |-> IF orderStatus[o] = "PAID" THEN Held(o) ELSE {}]

\* Whatever the attempts, outcomes and administrators do, orders with items
\* are served as the allocation specification promises.
ImplementsAllocation == Allocation!AllocSpec

=============================================================================
