---------------------------- MODULE AdminConsole ----------------------------
(***************************************************************************)
(* The administration (games/admin.py, orders/admin.py) beside the live    *)
(* Order aggregate.                                                        *)
(*                                                                         *)
(* A change form's POST reads its row without a lock and later writes all  *)
(* of its columns, the read-only ones as they were read.  One such POST is *)
(* in progress at a time: there is one administrator.  An import reads the *)
(* keys that exist and then inserts the others, beside a second importer.  *)
(***************************************************************************)
EXTENDS OrderReservation

CONSTANT MaxOverwritten  \* bound: rows the forms may have set back or edited

ASSUME MaxOverwrittenAssumption == MaxOverwritten \in Nat
ASSUME RowsAssumption == /\ Orders \cap Payments = {}
                         /\ Orders \cap Keys = {}
                         /\ Payments \cap Keys = {}

VARIABLES form,         \* the row a change form's POST has read
          batch,        \* the keys an import is about to insert
          overwritten,  \* history: rows a form has set back or edited
          delivered     \* history: the keys each order was paid with

formVars == <<form, batch, overwritten>>
adminVars == <<vars, form, batch, overwritten, delivered>>

NoForm == [row |-> Nobody]
Rows == Orders \cup Payments \cup Keys

AdminTypeOK ==
    /\ TypeOK
    /\ form \in {NoForm}
                \cup [row : Keys, status : KeyStatuses]
                \cup [row : Payments, status : PaymentStatuses]
                \cup [row : Orders, status : {"CREATED", "PAID"}, licenseKey : Keys \cup {Nobody}]
    /\ batch \subseteq Keys
    /\ overwritten \subseteq Rows
    /\ delivered \in [Orders -> SUBSET Keys]

AdminInit ==
    /\ Init
    /\ form = NoForm
    /\ batch = {}
    /\ overwritten = {}
    /\ delivered = [o \in Orders |-> {}]

-----------------------------------------------------------------------------
(* Change forms: get_object, then save_model.                              *)

MayOpen == form = NoForm /\ Cardinality(overwritten) < MaxOverwritten

\* LicenseKeyAdmin: status, sold_at and created_at are read-only.
OpenKeyForm(k) ==
    /\ MayOpen
    /\ keyStatus[k] # "ABSENT"
    /\ form' = [row |-> k, status |-> keyStatus[k]]
    /\ UNCHANGED <<vars, batch, overwritten, delivered>>

\* A row deleted meanwhile is inserted again.
SaveKeyForm(k) ==
    /\ form.row = k
    /\ keyStatus' = [keyStatus EXCEPT ![k] = form.status]
    /\ overwritten' = overwritten \cup IF keyStatus[k] = form.status THEN {} ELSE {k}
    /\ form' = NoForm
    /\ UNCHANGED <<orderVars, payVars, assignedTo, batch, delivered>>

\* PaymentAdmin: everything but the checkout URL is read-only.
OpenPaymentForm(p) ==
    /\ MayOpen
    /\ payStatus[p] # "ABSENT"
    /\ form' = [row |-> p, status |-> payStatus[p]]
    /\ UNCHANGED <<vars, batch, overwritten, delivered>>

\* The unique active payment of an order is also a constraint of this save.
SavePaymentForm(p) ==
    /\ form.row = p
    /\ form.status \in ActiveStatuses => ActiveAttempts(payOrder[p]) \subseteq {p}
    /\ payStatus' = [payStatus EXCEPT ![p] = form.status]
    /\ overwritten' = overwritten \cup IF payStatus[p] = form.status THEN {} ELSE {p}
    /\ form' = NoForm
    /\ UNCHANGED <<orderVars, keyVars, payOrder, batch, delivered>>

\* OrderAdmin: the authority is the one editable field; the posted value is
\* what the page showed or any other payment.
OpenOrderForm(o) ==
    /\ MayOpen
    /\ form' = [row |-> o, status |-> orderStatus[o], licenseKey |-> licenseKey[o]]
    /\ UNCHANGED <<vars, batch, overwritten, delivered>>

SaveOrderForm(o) ==
    /\ form.row = o
    /\ \E p \in {q \in Payments : payStatus[q] # "ABSENT"} \cup {Nobody} :
          /\ authority' = [authority EXCEPT ![o] = p]
          /\ overwritten' = overwritten \cup
                IF /\ authority[o] = p
                   /\ orderStatus[o] = form.status
                   /\ licenseKey[o] = form.licenseKey
                THEN {} ELSE {o}
    /\ orderStatus' = [orderStatus EXCEPT ![o] = form.status]
    /\ licenseKey' = [licenseKey EXCEPT ![o] = form.licenseKey]
    /\ form' = NoForm
    /\ UNCHANGED <<itemised, payVars, keyVars, batch, delivered>>

\* A validation error, a refused constraint or a lost connection.
AbandonForm ==
    /\ form # NoForm
    /\ form' = NoForm
    /\ UNCHANGED <<vars, batch, overwritten, delivered>>

-----------------------------------------------------------------------------
(* import_license_keys_view.                                               *)

\* The values of the file that the product's keys do not have yet.
ReadFile(S) ==
    /\ batch = {}
    /\ batch' = {k \in S : keyStatus[k] = "ABSENT"}
    /\ UNCHANGED <<vars, form, overwritten, delivered>>

\* Fault variant: a value that exists by now is overwritten.
InsertOrReplace ==
    /\ batch # {}
    /\ keyStatus' = [k \in Keys |-> IF k \in batch THEN "AVAILABLE" ELSE keyStatus[k]]
    /\ batch' = {}
    /\ UNCHANGED <<orderVars, payVars, assignedTo, form, overwritten, delivered>>

\* bulk_create: all of them, or none if one exists by now.
InsertKeys ==
    /\ batch # {}
    /\ keyStatus' = IF \A k \in batch : keyStatus[k] = "ABSENT"
                    THEN [k \in Keys |-> IF k \in batch THEN "AVAILABLE" ELSE keyStatus[k]]
                    ELSE keyStatus
    /\ batch' = {}
    /\ UNCHANGED <<orderVars, payVars, assignedTo, form, overwritten, delivered>>

-----------------------------------------------------------------------------
\* The shop goes on; what is sold is remembered.
ShopStep ==
    /\ ShippedNext
    /\ delivered' = [o \in Orders |->
           IF orderStatus[o] # "PAID" /\ orderStatus'[o] = "PAID"
           THEN {k \in Keys : assignedTo'[k] = o}
           ELSE delivered[o]]
    /\ UNCHANGED formVars

FormStep ==
    \/ \E k \in Keys : OpenKeyForm(k) \/ SaveKeyForm(k)
    \/ \E p \in Payments : OpenPaymentForm(p) \/ SavePaymentForm(p)
    \/ \E o \in Orders : OpenOrderForm(o) \/ SaveOrderForm(o)
    \/ AbandonForm

ImportStep == (\E S \in SUBSET Keys : ReadFile(S)) \/ InsertKeys

AdminNext == ShopStep \/ FormStep \/ ImportStep

AdminSpec == AdminInit /\ [][AdminNext]_adminVars

-----------------------------------------------------------------------------
(* Properties.                                                             *)

\* Whatever a stale form sets back, a key once sold with an order is never
\* taken from it, resold or deleted: the assignment row, which no form writes,
\* protects the key even where its status says it is on sale.
DeliveredKeysStay == \A o \in ItemisedOrders : delivered[o] \subseteq Held(o)

\* What the transactions of an order rely on.
Sound(o) ==
    IF orderStatus[o] = "PAID"
    THEN /\ authority[o] = Nobody
         /\ Held(o) # {} /\ Covers(Held(o), o)
         /\ \A k \in Held(o) : keyStatus[k] = "SOLD"
    ELSE IF authority[o] = Nobody
         THEN Held(o) = {}
         ELSE authority[o] \in ActiveAttempts(o) /\ HasReservation(o)

Untouched(o) ==
    overwritten \cap ({o} \cup Held(o) \cup {p \in Payments : payOrder[p] = o}) = {}

\* The damage of a stale form stays with its row: an order is inconsistent only
\* if a form set back or edited the order, one of its payments or a key it holds.
DamageIsContained == \A o \in ItemisedOrders : Untouched(o) => Sound(o)

=============================================================================
