----------------------------- MODULE Migrations -----------------------------
(***************************************************************************)
(* The data migrations 0007 to 0011 of backend/apps/orders over a database *)
(* of the release before them, and the live Order aggregate afterwards.    *)
(*                                                                         *)
(* Each migration is one transaction; a deployment may stop after any of   *)
(* them, be rolled back and be repeated, while administrators reprice      *)
(* products.  The previous release's tables are the same columns that      *)
(* OrderReservation has, without assignments and authorities, so the       *)
(* migrations act on its variables.  What only the migrations read (books, *)
(* amounts) is dropped when the application goes live.  An old order names *)
(* a product itself; its item rows, if it has any, may say otherwise.      *)
(***************************************************************************)
EXTENDS OrderReservation, Integers

CONSTANTS HistoricOrders,    \* direct orders of the previous releases
          HistoricPayments,  \* payment attempts of the previous releases
          HistoricKeys,      \* keys imported before the deployment
          OrderProduct,      \* Order.product of an old order, Nobody for null
          Untitled,          \* orders whose product has a blank title
          Amounts,           \* what an old row may hold as an amount
          Prices,            \* what each product may cost
          OldBooks,          \* bound: the amounts an old order may have
          OldCharges         \* bound: the amount an old attempt may have

ASSUME HistoryAssumption ==
    /\ HistoricOrders \subseteq DirectOrders
    /\ LegacyOrders \subseteq HistoricOrders
    /\ HistoricPayments \subseteq Payments
    /\ HistoricKeys \subseteq Keys
    /\ OrderProduct \in [HistoricOrders -> Products \cup {Nobody}]
    /\ Nobody \notin Products
    /\ Prices \in [Products -> SUBSET Nat]
    /\ Amounts \subseteq Int
    /\ OldCharges \subseteq Amounts
    /\ Nobody \notin Nat \cup Amounts

VARIABLES stage,      \* the last migration applied
          books,      \* total_price, price_paid and the items' sum of an order
          amount,     \* Payment.amount
          price,      \* Product.price
          mismatched, \* attempts whose amount is not the order's total
          soldBefore  \* history: the key of each order the old release sold

historyVars == <<books, amount, price, mismatched, soldBefore>>
migrationVars == <<vars, stage, historyVars>>

Stages == {"0006", "0007", "0008", "0009", "live"}
Unknown == Nobody
OldAmount == Amounts \cup {Unknown}
Total == Amounts \cup UNION {Prices[r] : r \in Products}
Book == [total : OldAmount, pricePaid : OldAmount, snapshot : OldAmount]
Forgotten == [total |-> Unknown, pricePaid |-> Unknown, snapshot |-> Unknown]

ASSUME OldBooksAssumption == OldBooks \in [HistoricOrders -> SUBSET Book]

\* The products of an order's item rows.
ItemRows(o) == {r \in Products : Quantity[o][r] > 0}

\* What an item created from the order's own product would be.
OneUnit(o) == \A r \in Products : Quantity[o][r] = IF r = OrderProduct[o] THEN 1 ELSE 0

-----------------------------------------------------------------------------
(* 0007: what an order cost, from the most to the least reliable source.   *)

HasProduct(o) == OrderProduct[o] # Nobody

PaidAmounts(o) ==
    {amount[p] : p \in {q \in Payments : payOrder[q] = o /\ payStatus[q] = "PAID"}}

CataloguePrice(o) ==
    IF orderStatus[o] # "PAID" /\ PaidAmounts(o) = {} /\ HasProduct(o)
    THEN {price[OrderProduct[o]]}
    ELSE {}

\* Fault variant: the catalogue is asked first, also about a total that is known.
CatalogueFirst(o) ==
    <<CataloguePrice(o), {books[o].total}, {books[o].pricePaid}, PaidAmounts(o),
      {books[o].snapshot}>>

Evidence(o) ==
    <<{books[o].total}, {books[o].pricePaid}, PaidAmounts(o), {books[o].snapshot},
      CataloguePrice(o)>>

FirstKnown(sources) ==
    {a \in Total : \E i \in 1 .. 5 :
        /\ a \in sources[i]
        /\ \A j \in 1 .. i - 1 : sources[j] \subseteq {Unknown}}

\* The most reliable amount known; which of several completed payments is the
\* latest is left open.  Empty: the total stays unresolved.
Totals(o) == FirstKnown(Evidence(o))

NeedsItem(o) == ~itemised[o] /\ HasProduct(o) /\ o \notin Untitled

-----------------------------------------------------------------------------
(* The previous release's tables (0006).  What they cannot hold: two orders *)
(* that name one key, and a key that an order names but that is deleted.   *)
(* That the old release sold the key in the transaction which paid the     *)
(* order is assumed; nothing else ties an order to its key, its items, its *)
(* product or its payments.  The status CANCELLED, which no code writes or *)
(* reads, counts as CREATED.                                               *)

Catalogues == {f \in [Products -> Total] : \A r \in Products : f[r] \in Prices[r]}

OldOrders ==
    /\ \E paid \in SUBSET HistoricOrders :
          orderStatus = [o \in Orders |-> IF o \in paid THEN "PAID" ELSE "CREATED"]
    /\ \E made \in SUBSET HistoricOrders :
          itemised = [o \in Orders |-> o \in made \/ o \notin HistoricOrders]
    /\ \A o \in HistoricOrders : IF itemised[o] THEN ItemRows(o) # {} ELSE OneUnit(o)
    /\ authority = [o \in Orders |-> Nobody]

OldPayments ==
    /\ payOrder \in {f \in [Payments -> HistoricOrders \cup {Nobody}] :
                        \A p \in Payments \ HistoricPayments : f[p] = Nobody}
    /\ payStatus \in {f \in [Payments -> ActiveStatuses \cup {"ABSENT", "FAILED", "PAID"}] :
                        \A p \in Payments : (f[p] = "ABSENT") <=> (payOrder[p] = Nobody)}
    /\ amount \in {f \in [Payments -> OldCharges \cup {Unknown}] :
                        \A p \in Payments : (f[p] = Unknown) <=> (payOrder[p] = Nobody)}

OldKeys ==
    /\ licenseKey \in {f \in [Orders -> HistoricKeys \cup {Nobody}] :
          /\ \A o \in Orders \ HistoricOrders : f[o] = Nobody
          /\ \A o, q \in Orders : f[o] = f[q] /\ f[o] # Nobody => o = q}
    /\ keyStatus \in {f \in [Keys -> KeyStatuses] :
          /\ \A k \in Keys \ HistoricKeys : f[k] = "ABSENT"
          /\ \A o \in Orders : licenseKey[o] # Nobody =>
                f[licenseKey[o]] \in IF orderStatus[o] = "PAID"
                                     THEN {"SOLD"} ELSE KeyStatuses \ {"ABSENT"}}
    /\ assignedTo = [k \in Keys |-> Nobody]

OldAmounts ==
    /\ price \in Catalogues
    /\ \E old \in [HistoricOrders -> UNION {OldBooks[o] : o \in HistoricOrders}] :
          /\ \A o \in HistoricOrders :
                /\ old[o] \in OldBooks[o]
                /\ IF itemised[o] THEN old[o].snapshot \in Nat ELSE old[o].snapshot = Unknown
          /\ books = [o \in Orders |-> IF o \in HistoricOrders THEN old[o] ELSE Forgotten]

\* Any database that these tables can hold, as assumed, in which the orders the constants name
\* are those that migration leaves without a total or without items.
MigrationInit ==
    /\ stage = "0006"
    /\ mismatched = {}
    /\ OldOrders /\ OldPayments /\ OldAmounts
    /\ \A o \in HistoricOrders :
          /\ (o \in UnpricedOrders) <=> (Totals(o) = {})
          /\ (o \in LegacyOrders) <=> (~itemised[o] /\ (~NeedsItem(o) \/ Totals(o) = {}))
    /\ OldKeys
    /\ soldBefore = [o \in {q \in Orders : orderStatus[q] = "PAID"} |-> licenseKey[o]]

-----------------------------------------------------------------------------
(* The migrations.                                                         *)

NewTotals(o) ==
    IF o \in HistoricOrders /\ Totals(o) # {} THEN Totals(o) ELSE {books[o].total}

\* 0007, backfill_direct_orders: a missing total is resolved (one that exists is
\* its own first evidence and stays), and a missing
\* item is created from it; an item's price cannot be negative.
BackfillOrders ==
    /\ stage = "0006" /\ stage' = "0007"
    /\ \E total \in [Orders -> UNION {NewTotals(o) : o \in Orders}] :
          /\ \A o \in Orders : total[o] \in NewTotals(o)
          /\ \A o \in HistoricOrders :
                NeedsItem(o) /\ total[o] # Unknown => total[o] >= 0
          /\ books' = [o \in Orders |->
                [books[o] EXCEPT !.total = total[o],
                                 !.snapshot = IF o \in HistoricOrders /\ NeedsItem(o)
                                              THEN total[o] ELSE books[o].snapshot]]
          /\ itemised' = [o \in Orders |->
                itemised[o] \/ (o \in HistoricOrders /\ NeedsItem(o) /\ total[o] # Unknown)]
    /\ UNCHANGED <<orderStatus, authority, licenseKey, payVars, keyVars,
                   amount, price, mismatched, soldBefore>>

\* 0008: refuses a database with negative amounts.
ConstrainAmounts ==
    /\ stage = "0007" /\ stage' = "0008"
    /\ \A o \in Orders : \A a \in {books[o].total, books[o].pricePaid} \ {Unknown} : a >= 0
    /\ \A p \in Payments : amount[p] # Unknown => amount[p] >= 0
    /\ UNCHANGED <<vars, historyVars>>

\* Fault variant: takes the first of the item rows, however many there are.
AssignsToFirstItem(o) == orderStatus[o] = "PAID" /\ licenseKey[o] # Nobody /\ itemised[o]

\* The orders that 0009 gives an assignment: paid, with a key and one item row.
\* Others are malformed; they are reported and left as they are.
Assignable(o) ==
    /\ orderStatus[o] = "PAID"
    /\ licenseKey[o] # Nobody
    /\ itemised[o] /\ Cardinality(ItemRows(o)) = 1

\* 0009, backfill_direct_order_license_assignments.
AssignKeysOfPaidOrders ==
    /\ stage = "0008" /\ stage' = "0009"
    /\ assignedTo' = [k \in Keys |->
          IF \E o \in HistoricOrders : Assignable(o) /\ licenseKey[o] = k
          THEN CHOOSE o \in HistoricOrders : Assignable(o) /\ licenseKey[o] = k
          ELSE Nobody]
    /\ UNCHANGED <<orderVars, payVars, keyStatus, historyVars>>

\* 0011: refuses an order with two active attempts; then the release that
\* OrderReservation models goes live.
GoLive ==
    /\ stage = "0009" /\ stage' = "live"
    /\ \A o \in Orders : Cardinality(ActiveAttempts(o)) <= 1
    /\ mismatched' = {p \in Payments : /\ payStatus[p] # "ABSENT"
                                       /\ amount[p] # books[payOrder[p]].total}
    /\ books' = [o \in Orders |-> Forgotten]
    /\ amount' = [p \in Payments |-> Unknown]
    /\ UNCHANGED <<vars, price, soldBefore>>

\* A deployment is rolled back: the assignments' table is dropped, the other
\* data stay (preserve_normalized_data).
RollBack ==
    /\ \/ stage = "0009" /\ stage' = "0008" /\ assignedTo' = [k \in Keys |-> Nobody]
       \/ stage = "0008" /\ stage' = "0007" /\ UNCHANGED assignedTo
       \/ stage = "0007" /\ stage' = "0006" /\ UNCHANGED assignedTo
    /\ UNCHANGED <<orderVars, payVars, keyStatus, historyVars>>

\* An administrator changes a price during the deployment.
Reprice(r) ==
    /\ stage # "live"
    /\ \E new \in Prices[r] : price' = [price EXCEPT ![r] = new]
    /\ UNCHANGED <<vars, stage, books, amount, mismatched, soldBefore>>

\* The live aggregate.  An attempt of another amount than its order's total is
\* never completed ("Payment amount does not match order total"), and what would
\* make two orders name one key, or delete a key that an order names, is refused.
Live ==
    /\ stage = "live"
    /\ Next
    /\ \A p \in mismatched : payStatus'[p] = "PAID" => payStatus[p] = "PAID"
    /\ \A o, q \in Orders : licenseKey'[o] = licenseKey'[q] /\ licenseKey'[o] # Nobody => o = q
    /\ \A o \in Orders : licenseKey'[o] # Nobody => keyStatus'[licenseKey'[o]] # "ABSENT"
    /\ UNCHANGED <<stage, historyVars>>

MigrationNext ==
    \/ BackfillOrders \/ ConstrainAmounts \/ AssignKeysOfPaidOrders \/ GoLive
    \/ RollBack
    \/ \E r \in Products : Reprice(r)
    \/ Live

MigrationSpec == MigrationInit /\ [][MigrationNext]_migrationVars

-----------------------------------------------------------------------------
(* Properties.                                                             *)

\* Repeating a deployment changes nothing it or the customer has settled: a total
\* or an item once written stays, whatever happens to the catalogue meanwhile.
BackfillIsStable ==
    [][stage' # "live" =>
          \A o \in HistoricOrders :
              /\ books[o].total # Unknown => books'[o].total = books[o].total
              /\ itemised[o] => itemised'[o] /\ books'[o].snapshot = books[o].snapshot]_migrationVars

\* An order the old release sold: it names the key it was sold with, no other
\* order holds that key, and it is assigned nothing else; a well-formed one
\* (one item row) is assigned that key.
KeptAsSold(o) ==
    /\ licenseKey[o] = soldBefore[o]
    /\ Held(o) = IF licenseKey[o] # Nobody /\ itemised[o] /\ Cardinality(ItemRows(o)) = 1
                 THEN {licenseKey[o]} ELSE {}
    /\ licenseKey[o] # Nobody => /\ keyStatus[licenseKey[o]] = "SOLD"
                                 /\ assignedTo[licenseKey[o]] \in {o, Nobody}

\* Old customers keep exactly the keys they were sold, with or without items,
\* beside new orders that compete for keys; every other paid order, the unpaid
\* ones of the previous release included, is delivered in full.
MigratedOrdersDelivered ==
    stage = "live" =>
        \A o \in Orders : orderStatus[o] = "PAID" =>
            IF o \in DOMAIN soldBefore
            THEN KeptAsSold(o)
            ELSE o \in ItemisedOrders => Delivered(o)

\* Whatever the previous release left behind, an order it had not sold is
\* reserved and sold all or nothing, under an authority of its own.
UnsoldOrdersConsistent ==
    \A o \in Orders \ DOMAIN soldBefore :
        /\ Held(o) = {} \/ Covers(Held(o), o)
        /\ authority[o] # Nobody => authority[o] \in ActiveAttempts(o)
        /\ \A k \in Held(o) :
              keyStatus[k] = IF orderStatus[o] = "PAID" THEN "SOLD" ELSE "RESERVED"

=============================================================================
