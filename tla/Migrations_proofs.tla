-------------------------- MODULE Migrations_proofs --------------------------
(***************************************************************************)
(* In every database that the migrations bring to the live release, each   *)
(* order is either one the old release sold, which stays as it was sold,   *)
(* or satisfies the inductive invariant of the Order aggregate; a          *)
(* deployment that stops, is rolled back and is repeated loses nothing it  *)
(* had written.                                                            *)
(***************************************************************************)
EXTENDS Migrations, OrderReservation_proofs

-----------------------------------------------------------------------------
(* Before the application goes live.                                       *)

\* Every order but those that are left without items can get its item.
CanBeItemised(o) ==
    itemised[o] \/ (o \in HistoricOrders /\ NeedsItem(o) /\ Totals(o) # {})

KeysBefore ==
    /\ \A o \in Orders : authority[o] = Nobody
    /\ \A o \in Orders : orderStatus[o] = "PAID" => o \in HistoricOrders
    /\ soldBefore = [o \in {q \in Orders : orderStatus[q] = "PAID"} |-> licenseKey[o]]
    /\ \A o, q \in Orders : licenseKey[o] = licenseKey[q] /\ licenseKey[o] # Nobody => o = q
    /\ \A o \in Orders : orderStatus[o] = "PAID" /\ licenseKey[o] # Nobody =>
                            keyStatus[licenseKey[o]] = "SOLD"

KnownAmount == Total \cup {Unknown}

ItemsBefore ==
    /\ price \in Catalogues
    /\ books \in [Orders -> [total : KnownAmount, pricePaid : OldAmount, snapshot : KnownAmount]]
    /\ \A o \in Orders : ~itemised[o] => books[o].snapshot = Unknown
    /\ \A o \in Orders : CanBeItemised(o) <=> o \in ItemisedOrders
    /\ stage # "0006" => \A o \in ItemisedOrders : itemised[o]

AssignmentsBefore ==
    \A k \in Keys, o \in Orders :
        assignedTo[k] = o <=> stage = "0009" /\ Assignable(o) /\ licenseKey[o] = k

BeforeInv == TypeOK /\ KeysBefore /\ ItemsBefore /\ AssignmentsBefore

(* Afterwards: what the old release sold, and the other orders.            *)
KeptInv(o) ==
    /\ orderStatus[o] = "PAID" /\ authority[o] = Nobody
    /\ KeptAsSold(o)
    /\ o \in LegacyOrders => ~itemised[o]

LiveInv ==
    /\ TypeOK
    /\ \A o \in DOMAIN soldBefore : o \in Orders /\ KeptInv(o)
    /\ \A o \in Orders \ DOMAIN soldBefore : OrderInv(o)

MigrationInv ==
    /\ stage \in Stages
    /\ IF stage = "live" THEN LiveInv ELSE BeforeInv

\* A known amount is no stand-in for null.
LEMMA UnknownIsNoTotal == Unknown \notin Total
BY HistoryAssumption DEF Total, Unknown

\* Whether an amount is known depends on the catalogue only in that it has a price.
LEMMA KnownStays ==
  ASSUME NEW E, NEW F, \A j \in 1 .. 4 : F[j] = E[j],
         E[5] # {} => F[5] \cap Total # {}, FirstKnown(E) # {}
  PROVE  FirstKnown(F) # {}
<1>1. PICK a \in Total, i \in 1 .. 5 : /\ a \in E[i]
                                       /\ \A j \in 1 .. i - 1 : E[j] \subseteq {Unknown}
  BY DEF FirstKnown
<1>2. CASE i \in 1 .. 4
  <2>1. a \in F[i] /\ \A j \in 1 .. i - 1 : F[j] \subseteq {Unknown}
    BY <1>1, <1>2
  <2> QED
    BY <2>1 DEF FirstKnown
<1>3. CASE i = 5
  <2>1. PICK b \in Total : b \in F[5]
    BY <1>1, <1>3
  <2>2. \A j \in 1 .. 5 - 1 : F[j] \subseteq {Unknown}
    BY <1>1, <1>3
  <2> QED
    BY <2>1, <2>2 DEF FirstKnown
<1> QED
  BY <1>2, <1>3

\* A catalogue price may change; that there is one cannot.
LEMMA TotalsStay ==
  ASSUME UNCHANGED <<vars, books, amount>>, NEW o \in HistoricOrders,
         price \in Catalogues, price' \in Catalogues
  PROVE  Totals(o)' # {} <=> Totals(o) # {}
<1>1. PaidAmounts(o)' = PaidAmounts(o)
  BY DEF vars, PaidAmounts
<1>2. /\ Evidence(o)'[1] = Evidence(o)[1] /\ Evidence(o)'[2] = Evidence(o)[2]
      /\ Evidence(o)'[3] = Evidence(o)[3] /\ Evidence(o)'[4] = Evidence(o)[4]
      /\ Evidence(o)[5] = CataloguePrice(o) /\ Evidence(o)'[5] = CataloguePrice(o)'
  BY <1>1 DEF Evidence
<1>3. \A j \in 1 .. 4 : Evidence(o)'[j] = Evidence(o)[j]
  <2>1. \A j \in 1 .. 4 : j = 1 \/ j = 2 \/ j = 3 \/ j = 4
    OBVIOUS
  <2> HIDE DEF Evidence
  <2> QED
    BY <1>2, <2>1
<1>4. /\ CataloguePrice(o) # {} => CataloguePrice(o)' \cap Total # {}
      /\ CataloguePrice(o)' # {} => CataloguePrice(o) \cap Total # {}
  <2>1. /\ CataloguePrice(o)' # {} <=> CataloguePrice(o) # {}
        /\ CataloguePrice(o) # {} => HasProduct(o)
    BY <1>1 DEF CataloguePrice, vars, HasProduct
  <2>2. HasProduct(o) => OrderProduct[o] \in Products
    BY HistoryAssumption DEF HasProduct
  <2>3. CataloguePrice(o) # {} => CataloguePrice(o) = {price[OrderProduct[o]]}
    BY DEF CataloguePrice
  <2>4. CataloguePrice(o)' # {} => CataloguePrice(o)' = {price'[OrderProduct[o]]}
    BY DEF CataloguePrice
  <2>5. HasProduct(o) => price[OrderProduct[o]] \in Total /\ price'[OrderProduct[o]] \in Total
    BY <2>2 DEF Catalogues
  <2> QED
    BY <2>1, <2>3, <2>4, <2>5
<1>5. Totals(o) = FirstKnown(Evidence(o)) /\ Totals(o)' = FirstKnown(Evidence(o)')
  BY DEF Totals, FirstKnown
<1>6. Totals(o) # {} => Totals(o)' # {}
  BY <1>2, <1>3, <1>4, <1>5, KnownStays
<1>7. Totals(o)' # {} => Totals(o) # {}
  BY <1>2, <1>3, <1>4, <1>5, KnownStays
<1> QED
  BY <1>6, <1>7

LEMMA MigrationStarts == MigrationInit => MigrationInv
<1> SUFFICES ASSUME MigrationInit PROVE MigrationInv
  OBVIOUS
<1> USE HistoryAssumption, NobodyAssumption, OrderKindsAssumption
<1>1. stage = "0006" /\ stage \in Stages
  BY DEF MigrationInit, Stages
<1>2. TypeOK
  <2>1. orderStatus \in [Orders -> {"CREATED", "PAID"}] /\ itemised \in [Orders -> BOOLEAN]
    BY DEF MigrationInit, OldOrders
  <2>2. /\ authority \in [Orders -> Payments \cup {Nobody}]
        /\ licenseKey \in [Orders -> Keys \cup {Nobody}]
        /\ assignedTo \in [Keys -> Orders \cup {Nobody}]
    BY DEF MigrationInit, OldOrders, OldKeys
  <2>3. /\ payStatus \in [Payments -> PaymentStatuses]
        /\ payOrder \in [Payments -> Orders \cup {Nobody}]
    BY DEF MigrationInit, OldPayments, PaymentStatuses, ActiveStatuses, TerminalStatuses
  <2>4. keyStatus \in [Keys -> KeyStatuses]
    BY DEF MigrationInit, OldKeys
  <2> QED
    BY <2>1, <2>2, <2>3, <2>4 DEF TypeOK
<1>3. KeysBefore
  <2>1. \A o \in Orders : authority[o] = Nobody /\ (orderStatus[o] = "PAID" => o \in HistoricOrders)
    BY DEF MigrationInit, OldOrders
  <2>2. /\ \A o, q \in Orders : licenseKey[o] = licenseKey[q] /\ licenseKey[o] # Nobody => o = q
        /\ \A o \in Orders : orderStatus[o] = "PAID" /\ licenseKey[o] # Nobody =>
                                keyStatus[licenseKey[o]] = "SOLD"
    BY DEF MigrationInit, OldKeys
  <2> QED
    BY <2>1, <2>2 DEF MigrationInit, KeysBefore
<1>4. ItemsBefore
  <2>1. price \in Catalogues
    BY DEF MigrationInit, OldAmounts
  <2>2. PICK old \in [HistoricOrders -> UNION {OldBooks[o] : o \in HistoricOrders}] :
          /\ \A o \in HistoricOrders :
                /\ old[o] \in OldBooks[o]
                /\ IF itemised[o] THEN old[o].snapshot \in Nat ELSE old[o].snapshot = Unknown
          /\ books = [o \in Orders |-> IF o \in HistoricOrders THEN old[o] ELSE Forgotten]
    BY DEF MigrationInit, OldAmounts
  <2>3. \A o \in HistoricOrders : old[o] \in Book
    BY <2>2, OldBooksAssumption
  <2>4. \A o \in Orders : books[o] \in Book
    BY <2>2, <2>3 DEF Book, OldAmount, Forgotten, Unknown
  <2>5. books \in [Orders -> [total : KnownAmount, pricePaid : OldAmount, snapshot : KnownAmount]]
    BY <2>2, <2>4 DEF Book, OldAmount, KnownAmount, Total
  <2>6. \A o \in Orders \ HistoricOrders : itemised[o]
    BY DEF MigrationInit, OldOrders
  <2>7. \A o \in HistoricOrders :
          (o \in LegacyOrders) <=> (~itemised[o] /\ (~NeedsItem(o) \/ Totals(o) = {}))
    BY DEF MigrationInit
  <2>8. \A o \in Orders : CanBeItemised(o) <=> o \in ItemisedOrders
    BY <2>6, <2>7 DEF ItemisedOrders, CanBeItemised
  <2>9. \A o \in Orders : ~itemised[o] => books[o].snapshot = Unknown
    BY <2>2, <2>6
  <2> QED
    BY <1>1, <2>1, <2>5, <2>8, <2>9 DEF ItemsBefore
<1>5. AssignmentsBefore
  BY <1>1 DEF MigrationInit, OldKeys, AssignmentsBefore
<1> QED
  BY <1>1, <1>2, <1>3, <1>4, <1>5 DEF MigrationInv, BeforeInv

-----------------------------------------------------------------------------
(* The migrations.                                                         *)

LEMMA BackfillInv ==
  ASSUME BeforeInv, BackfillOrders PROVE BeforeInv' /\ stage' \in Stages \ {"live"}
<1> USE HistoryAssumption, OrderKindsAssumption
<1>1. /\ stage = "0006" /\ stage' = "0007"
      /\ UNCHANGED <<orderStatus, authority, licenseKey, payVars, keyVars, amount, price,
                     soldBefore>>
  BY DEF BackfillOrders
<1>2. PICK total \in [Orders -> UNION {NewTotals(o) : o \in Orders}] :
          /\ \A o \in Orders : total[o] \in NewTotals(o)
          /\ books' = [o \in Orders |->
                [books[o] EXCEPT !.total = total[o],
                                 !.snapshot = IF o \in HistoricOrders /\ NeedsItem(o)
                                              THEN total[o] ELSE books[o].snapshot]]
          /\ itemised' = [o \in Orders |->
                itemised[o] \/ (o \in HistoricOrders /\ NeedsItem(o) /\ total[o] # Unknown)]
  BY DEF BackfillOrders
<1>3. TypeOK'
  BY <1>1, <1>2 DEF BeforeInv, TypeOK, payVars, keyVars
<1>4. KeysBefore'
  BY <1>1 DEF BeforeInv, KeysBefore, keyVars
<1>5. ASSUME NEW o \in Orders
      PROVE  /\ books[o] \in [total : KnownAmount, pricePaid : OldAmount, snapshot : KnownAmount]
             /\ total[o] \in KnownAmount
             /\ Totals(o) # {} /\ o \in HistoricOrders => total[o] # Unknown
             /\ Totals(o) = {} => total[o] = books[o].total
  <2>1. books[o] \in [total : KnownAmount, pricePaid : OldAmount, snapshot : KnownAmount]
    BY DEF BeforeInv, ItemsBefore
  <2>2. Totals(o) \subseteq Total
    BY DEF Totals, FirstKnown
  <2> QED
    BY <1>2, <2>1, <2>2, UnknownIsNoTotal DEF NewTotals, KnownAmount
<1>6. ASSUME NEW o \in ItemisedOrders PROVE itemised'[o]
  <2>1. o \in Orders /\ CanBeItemised(o)
    BY DEF ItemisedOrders, BeforeInv, ItemsBefore
  <2> QED
    BY <1>2, <1>5, <2>1 DEF CanBeItemised
<1>7. ASSUME NEW o \in Orders, o \notin ItemisedOrders PROVE ~CanBeItemised(o)'
  <2>1. ~itemised[o] /\ (o \in HistoricOrders /\ NeedsItem(o) => Totals(o) = {})
    BY <1>7 DEF BeforeInv, ItemsBefore, CanBeItemised
  <2>2. CASE ~(o \in HistoricOrders /\ NeedsItem(o))
    <3>1. ~itemised'[o]
      BY <1>2, <2>1, <2>2
    <3> QED
      BY <2>1, <2>2, <3>1 DEF CanBeItemised, NeedsItem
  <2>3. CASE o \in HistoricOrders /\ NeedsItem(o)
    <3>1. Totals(o) = {}
      BY <2>1, <2>3
    <3>2. books[o].total = Unknown
      <4>1. ASSUME books[o].total # Unknown PROVE FALSE
        <5>1. books[o].total \in Total
          BY <1>5, <4>1 DEF KnownAmount
        <5>2. Evidence(o)[1] = {books[o].total}
          BY DEF Evidence
        <5>3. books[o].total \in Totals(o)
          BY <5>1, <5>2 DEF Totals, FirstKnown
        <5> QED
          BY <3>1, <5>3
      <4> QED
        BY <4>1
    <3>3. total[o] = Unknown /\ books[o].snapshot = Unknown
      BY <1>5, <2>1, <3>1, <3>2 DEF BeforeInv, ItemsBefore
    <3>4. books'[o] = books[o] /\ itemised'[o] = itemised[o]
      <4>1. itemised'[o] = itemised[o]
        <5>1. ~itemised'[o]
          BY <1>2, <2>1, <3>3
        <5>2. itemised[o] \in BOOLEAN /\ itemised'[o] \in BOOLEAN
          BY <1>3 DEF BeforeInv, TypeOK
        <5> QED
          BY <2>1, <5>1, <5>2
      <4>2. books'[o] = [books[o] EXCEPT !.total = Unknown, !.snapshot = Unknown]
        BY <1>2, <2>3, <3>3
      <4> QED
        BY <1>5, <3>2, <3>3, <4>1, <4>2
    <3>5. PaidAmounts(o)' = PaidAmounts(o)
      BY <1>1 DEF PaidAmounts, payVars
    <3>6. CataloguePrice(o)' = CataloguePrice(o)
      BY <1>1, <3>5 DEF CataloguePrice, HasProduct
    <3>7. Evidence(o)' = Evidence(o)
      BY <3>4, <3>5, <3>6 DEF Evidence
    <3>8. Totals(o)' = {}
      BY <3>1, <3>7 DEF Totals, FirstKnown
    <3> QED
      BY <2>1, <3>4, <3>8 DEF CanBeItemised
  <2> QED
    BY <2>2, <2>3
<1>8. ItemsBefore'
  <2>1. price' \in Catalogues
    BY <1>1 DEF BeforeInv, ItemsBefore
  <2>2. books' \in [Orders -> [total : KnownAmount, pricePaid : OldAmount, snapshot : KnownAmount]]
    BY <1>2, <1>5
  <2>3. ASSUME NEW o \in Orders, ~itemised'[o] PROVE books'[o].snapshot = Unknown
    <3>1. ~itemised[o] /\ (o \in HistoricOrders /\ NeedsItem(o) => total[o] = Unknown)
      BY <1>2, <2>3
    <3>2. books[o].snapshot = Unknown
      BY <3>1 DEF BeforeInv, ItemsBefore
    <3> QED
      BY <1>2, <1>5, <3>1, <3>2
  <2>4. \A o \in Orders : CanBeItemised(o)' <=> o \in ItemisedOrders
    BY <1>6, <1>7 DEF CanBeItemised
  <2>5. ItemisedOrders' = ItemisedOrders
    BY DEF ItemisedOrders
  <2> QED
    BY <1>6, <2>1, <2>2, <2>3, <2>4, <2>5 DEF ItemsBefore
<1>9. AssignmentsBefore'
  BY <1>1 DEF BeforeInv, AssignmentsBefore, keyVars
<1> QED
  BY <1>1, <1>3, <1>4, <1>8, <1>9 DEF BeforeInv, Stages

LEMMA AssignInv ==
  ASSUME BeforeInv, AssignKeysOfPaidOrders PROVE BeforeInv' /\ stage' \in Stages \ {"live"}
<1> USE HistoryAssumption, OrderKindsAssumption, NobodyAssumption
<1>1. /\ stage = "0008" /\ stage' = "0009"
      /\ UNCHANGED <<orderStatus, authority, licenseKey, itemised, payStatus, payOrder,
                     keyStatus, books, amount, price, soldBefore>>
  BY DEF AssignKeysOfPaidOrders, orderVars, payVars, historyVars
<1>2. ASSUME NEW k \in Keys
      PROVE  /\ assignedTo'[k] \in Orders \cup {Nobody}
             /\ \A o \in Orders : assignedTo'[k] = o <=> Assignable(o) /\ licenseKey[o] = k
  <2>1. CASE \E o \in HistoricOrders : Assignable(o) /\ licenseKey[o] = k
    <3>1. PICK o \in HistoricOrders : Assignable(o) /\ licenseKey[o] = k
      BY <2>1
    <3>2. assignedTo'[k] = CHOOSE x \in HistoricOrders : Assignable(x) /\ licenseKey[x] = k
      BY <2>1 DEF AssignKeysOfPaidOrders
    <3>3. /\ assignedTo'[k] \in HistoricOrders
          /\ Assignable(assignedTo'[k]) /\ licenseKey[assignedTo'[k]] = k
      BY <3>1, <3>2
    <3>4. \A x \in Orders : licenseKey[x] = k => x = assignedTo'[k]
      BY <3>3 DEF BeforeInv, KeysBefore
    <3> QED
      BY <3>3, <3>4
  <2>2. CASE ~\E o \in HistoricOrders : Assignable(o) /\ licenseKey[o] = k
    <3>1. assignedTo'[k] = Nobody
      BY <2>2 DEF AssignKeysOfPaidOrders
    <3>2. \A o \in Orders : ~(Assignable(o) /\ licenseKey[o] = k)
      BY <2>2 DEF Assignable, BeforeInv, KeysBefore
    <3> QED
      BY <3>1, <3>2
  <2> QED
    BY <2>1, <2>2
<1>3. TypeOK'
  <2>1. assignedTo' \in [Keys -> Orders \cup {Nobody}]
    BY <1>2 DEF AssignKeysOfPaidOrders
  <2> QED
    BY <1>1, <2>1 DEF BeforeInv, TypeOK
<1>4. KeysBefore'
  BY <1>1 DEF BeforeInv, KeysBefore
<1>5. \A o \in Orders : CanBeItemised(o)' <=> CanBeItemised(o)
  <2>1. ASSUME NEW o \in Orders PROVE Totals(o)' = Totals(o)
    BY <1>1 DEF Totals, FirstKnown, Evidence, PaidAmounts, CataloguePrice
  <2> QED
    BY <1>1, <2>1 DEF CanBeItemised, NeedsItem
<1>6. ItemsBefore'
  BY <1>1, <1>5 DEF BeforeInv, ItemsBefore, ItemisedOrders
<1>7. AssignmentsBefore'
  BY <1>1, <1>2 DEF AssignmentsBefore, Assignable
<1> QED
  BY <1>1, <1>3, <1>4, <1>6, <1>7 DEF BeforeInv, Stages

\* A migration or a rollback that changes no order.
LEMMA StageInv ==
  ASSUME BeforeInv,
         UNCHANGED <<orderVars, payVars, keyStatus, books, amount, price, soldBefore>>,
         stage' \in {"0006", "0007", "0008"},
         stage' = "0006" \/ stage # "0006",
         IF stage = "0009" THEN assignedTo' = [k \in Keys |-> Nobody] ELSE UNCHANGED assignedTo
  PROVE  BeforeInv' /\ stage' \in Stages \ {"live"}
<1> USE NobodyAssumption
<1>1. UNCHANGED <<orderStatus, authority, licenseKey, itemised, payStatus, payOrder>>
  BY DEF orderVars, payVars
<1>2. TypeOK'
  BY <1>1 DEF BeforeInv, TypeOK
<1>3. KeysBefore'
  BY <1>1 DEF BeforeInv, KeysBefore
<1>4. \A o \in Orders : CanBeItemised(o)' <=> CanBeItemised(o)
  <2>1. ASSUME NEW o \in Orders PROVE Totals(o)' = Totals(o)
    BY <1>1 DEF Totals, FirstKnown, Evidence, PaidAmounts, CataloguePrice
  <2> QED
    BY <1>1, <2>1 DEF CanBeItemised, NeedsItem
<1>5. ItemsBefore'
  BY <1>1, <1>4 DEF BeforeInv, ItemsBefore, ItemisedOrders
<1>6. AssignmentsBefore'
  BY <1>1 DEF BeforeInv, AssignmentsBefore
<1> QED
  BY <1>2, <1>3, <1>5, <1>6 DEF BeforeInv, Stages

\* A price change, or nothing at all.
LEMMA RepriceInv ==
  ASSUME BeforeInv, UNCHANGED <<vars, stage, books, amount, soldBefore>>, price' \in Catalogues
  PROVE  BeforeInv'
<1> USE OrderKindsAssumption
<1>1. UNCHANGED <<orderStatus, authority, licenseKey, itemised, payStatus, payOrder,
                  keyStatus, assignedTo>>
  BY DEF vars
<1>2. TypeOK' /\ KeysBefore' /\ AssignmentsBefore'
  BY <1>1 DEF BeforeInv, TypeOK, KeysBefore, AssignmentsBefore, Assignable
<1>3. \A o \in Orders : CanBeItemised(o)' <=> CanBeItemised(o)
  BY <1>1, TotalsStay DEF BeforeInv, ItemsBefore, CanBeItemised, NeedsItem
<1>4. ItemsBefore'
  BY <1>1, <1>3 DEF BeforeInv, ItemsBefore, ItemisedOrders
<1> QED
  BY <1>2, <1>4 DEF BeforeInv

-----------------------------------------------------------------------------
(* Going live.                                                             *)

\* What the orders hold when the migrations have run.
LEMMA AssignedOnce ==
  ASSUME BeforeInv, stage = "0009", NEW o \in Orders
  PROVE  Held(o) = IF Assignable(o) THEN {licenseKey[o]} ELSE {}
<1>1. \A k \in Keys : k \in Held(o) <=> Assignable(o) /\ licenseKey[o] = k
  BY DEF BeforeInv, AssignmentsBefore, Held
<1>2. Assignable(o) => licenseKey[o] \in Keys
  BY DEF Assignable, BeforeInv, TypeOK
<1> QED
  BY <1>1, <1>2 DEF Held

LEMMA GoLiveInv ==
  ASSUME BeforeInv, GoLive PROVE LiveInv' /\ stage' = "live"
<1> USE NobodyAssumption
<1>1. /\ stage = "0009" /\ stage' = "live" /\ UNCHANGED <<vars, soldBefore>>
  BY DEF GoLive
<1>2. TypeOK /\ KeysBefore
  BY DEF BeforeInv
<1>3. DOMAIN soldBefore = {q \in Orders : orderStatus[q] = "PAID"}
  BY <1>2 DEF KeysBefore
<1>4. ASSUME NEW o \in DOMAIN soldBefore PROVE o \in Orders /\ KeptInv(o)
  <2>1. /\ o \in Orders /\ orderStatus[o] = "PAID" /\ authority[o] = Nobody
        /\ licenseKey[o] = soldBefore[o]
        /\ licenseKey[o] # Nobody => keyStatus[licenseKey[o]] = "SOLD" /\ licenseKey[o] \in Keys
    BY <1>2, <1>3 DEF KeysBefore, TypeOK
  <2>2. licenseKey[o] # Nobody => assignedTo[licenseKey[o]] \in {o, Nobody}
    <3> SUFFICES ASSUME licenseKey[o] # Nobody, assignedTo[licenseKey[o]] # Nobody
                 PROVE  assignedTo[licenseKey[o]] = o
      OBVIOUS
    <3>1. assignedTo[licenseKey[o]] \in Orders
      BY <1>2, <2>1 DEF TypeOK
    <3>2. licenseKey[assignedTo[licenseKey[o]]] = licenseKey[o]
      BY <2>1, <3>1 DEF BeforeInv, AssignmentsBefore
    <3> QED
      BY <1>2, <2>1, <3>1, <3>2 DEF KeysBefore
  <2>3. o \in LegacyOrders => ~itemised[o]
    BY <2>1 DEF BeforeInv, ItemsBefore, CanBeItemised, ItemisedOrders
  <2> QED
    BY <1>1, <2>1, <2>2, <2>3, AssignedOnce DEF KeptInv, KeptAsSold, Assignable
<1>5. ASSUME NEW o \in Orders \ DOMAIN soldBefore PROVE OrderInv(o)
  <2>1. orderStatus[o] # "PAID" /\ authority[o] = Nobody
    BY <1>2, <1>3 DEF KeysBefore
  <2>2. Held(o) = {}
    BY <1>1, <2>1, AssignedOnce DEF Assignable
  <2> QED
    BY <2>1, <2>2 DEF OrderInv
<1>6. \A o : Held(o)' = Held(o) /\ ActiveAttempts(o)' = ActiveAttempts(o)
  BY <1>1 DEF vars, Held, ActiveAttempts
<1>7. TypeOK'
  BY <1>1, <1>2 DEF vars, TypeOK
<1>8. ASSUME NEW o \in DOMAIN soldBefore PROVE KeptInv(o)'
  BY <1>1, <1>4, <1>6 DEF vars, KeptInv, KeptAsSold, ItemRows
<1>9. ASSUME NEW o \in Orders \ DOMAIN soldBefore PROVE OrderInv(o)'
  <2>1. orderStatus'[o] # "PAID" /\ authority'[o] = Nobody /\ Held(o)' = {}
    <3>1. orderStatus[o] # "PAID" /\ authority[o] = Nobody
      BY <1>2, <1>3 DEF KeysBefore
    <3> QED
      BY <1>1, <1>6, <3>1, AssignedOnce DEF vars, Assignable
  <2> QED
    BY <2>1 DEF OrderInv
<1> QED
  BY <1>1, <1>4, <1>7, <1>8, <1>9 DEF LiveInv

-----------------------------------------------------------------------------
(* The live release.                                                       *)

\* No transaction touches an order that is paid, except to end one of its
\* attempts, nor a sold key that is this order's or nobody's.
LEMMA SoldOrderStays ==
  ASSUME TypeOK, [Next]_vars, NEW o \in Orders,
         orderStatus[o] = "PAID", authority[o] = Nobody, o \in LegacyOrders => ~itemised[o],
         \A k \in Held(o) : keyStatus[k] = "SOLD"
  PROVE  /\ orderStatus'[o] = "PAID" /\ authority'[o] = Nobody
         /\ licenseKey'[o] = licenseKey[o] /\ itemised'[o] = itemised[o]
         /\ Held(o)' = Held(o)
         /\ \A k \in Keys : keyStatus[k] = "SOLD" /\ assignedTo[k] \in {o, Nobody} =>
                keyStatus'[k] = "SOLD" /\ assignedTo'[k] = assignedTo[k]
<1> DEFINE Stays == /\ orderStatus'[o] = "PAID" /\ authority'[o] = Nobody
                    /\ licenseKey'[o] = licenseKey[o] /\ itemised'[o] = itemised[o]
                    /\ Held(o)' = Held(o)
                    /\ \A k \in Keys : keyStatus[k] = "SOLD" /\ assignedTo[k] \in {o, Nobody} =>
                           keyStatus'[k] = "SOLD" /\ assignedTo'[k] = assignedTo[k]
<1> USE NobodyAssumption DEF TypeOK
<1>1. ASSUME NEW k \in Keys, ImportKey(k) \/ DeleteKey(k) PROVE Stays
  BY <1>1 DEF ImportKey, DeleteKey, orderVars, Held
<1>2. ASSUME NEW x \in Orders, NEW S \in SUBSET Keys, NEW status, x # o, AssignKeys(S, x, status),
             \/ S \subseteq FreeKeys
             \/ HasReservation(x) /\ S = Held(x)
      PROVE  /\ Held(o)' = Held(o)
             /\ \A k \in Keys : keyStatus[k] = "SOLD" /\ assignedTo[k] \in {o, Nobody} =>
                    keyStatus'[k] = "SOLD" /\ assignedTo'[k] = assignedTo[k]
  BY <1>2 DEF AssignKeys, FreeKeys, HasReservation, Held
<1>3. ASSUME NEW x \in Orders, x # o, ReleaseReservation(x)
      PROVE  /\ Held(o)' = Held(o)
             /\ \A k \in Keys : keyStatus[k] = "SOLD" /\ assignedTo[k] \in {o, Nobody} =>
                    keyStatus'[k] = "SOLD" /\ assignedTo'[k] = assignedTo[k]
  BY <1>3 DEF ReleaseReservation, HasReservation, Held
<1>4. ASSUME UNCHANGED keyVars
      PROVE  /\ Held(o)' = Held(o)
             /\ \A k \in Keys : keyStatus[k] = "SOLD" /\ assignedTo[k] \in {o, Nobody} =>
                    keyStatus'[k] = "SOLD" /\ assignedTo'[k] = assignedTo[k]
  BY <1>4 DEF keyVars, Held
<1>5. ASSUME NEW x \in Orders, NEW p \in Payments, NewAttempt(x, p) \/ ResumeAttempt(x, p)
      PROVE Stays
  <2>1. EstablishReservation(x, p)
    BY <1>5 DEF NewAttempt, ResumeAttempt
  <2>2. x # o
    BY <2>1 DEF EstablishReservation, Payable
  <2>3. /\ orderStatus'[o] = "PAID" /\ authority'[o] = Nobody
        /\ licenseKey'[o] = licenseKey[o] /\ itemised'[o] = itemised[o]
    BY <2>1, <2>2 DEF EstablishReservation
  <2>4. UNCHANGED keyVars \/ \E S \in SUBSET FreeKeys : AssignKeys(S, x, "RESERVED")
    BY <2>1 DEF EstablishReservation, ReserveKeys
  <2>5. \A S \in SUBSET FreeKeys : S \in SUBSET Keys
    BY DEF FreeKeys
  <2> QED
    BY <1>2, <1>4, <2>2, <2>3, <2>4, <2>5
<1>6. ASSUME NEW x \in Orders, NEW p \in Payments, NEW status, TerminatePayment(x, p, status)
      PROVE Stays
  <2>1. CASE MayRelease(x, p)
    <3>1. x # o /\ ReleaseReservation(x)
      BY <1>6, <2>1 DEF MayRelease, TerminatePayment
    <3> QED
      BY <1>3, <1>6, <2>1, <3>1 DEF TerminatePayment
  <2>2. CASE ~MayRelease(x, p)
    BY <1>4, <1>6, <2>2 DEF TerminatePayment
  <2> QED
    BY <2>1, <2>2
<1>7. ASSUME NEW x \in Orders, NEW p \in Payments, RejectLegacyAttempt(x, p) PROVE Stays
  <2>1. x # o
    BY <1>7 DEF RejectLegacyAttempt
  <2>2. /\ orderStatus'[o] = "PAID" /\ authority'[o] = Nobody
        /\ licenseKey'[o] = licenseKey[o] /\ itemised'[o] = itemised[o]
    BY <1>7, <2>1 DEF RejectLegacyAttempt
  <2>3. CASE ReleaseReservation(x)
    BY <1>3, <2>1, <2>2, <2>3
  <2>4. CASE /\ assignedTo' = [k \in Keys |-> IF k \in Held(x) THEN Nobody ELSE assignedTo[k]]
             /\ UNCHANGED keyStatus
    BY <2>1, <2>2, <2>4 DEF Held
  <2> QED
    BY <1>7, <2>3, <2>4 DEF RejectLegacyAttempt
<1>8. ASSUME NEW x \in Orders, NEW p \in Payments, CompletePayment(x, p) PROVE Stays
  <2>1. x # o
    BY <1>8 DEF CompletePayment, MayComplete, Payable
  <2>2. PICK S \in SUBSET Keys :
           /\ SellKeys(x, S)
           /\ \E k \in S : licenseKey' = IF x \in DirectOrders
                                         THEN [licenseKey EXCEPT ![x] = k]
                                         ELSE licenseKey
    BY <1>8 DEF CompletePayment
  <2>3. /\ orderStatus'[o] = "PAID" /\ authority'[o] = Nobody
        /\ licenseKey'[o] = licenseKey[o] /\ itemised'[o] = itemised[o]
    BY <1>8, <2>1, <2>2 DEF CompletePayment
  <2>4. /\ AssignKeys(S, x, "SOLD")
        /\ S \subseteq FreeKeys \/ (HasReservation(x) /\ S = Held(x))
    BY <2>2 DEF SellKeys
  <2> QED
    BY <1>2, <2>1, <2>3, <2>4
<1>9. ASSUME NEW x \in Orders, NEW p \in Payments, RecordPending(x, p) PROVE Stays
  BY <1>4, <1>9 DEF RecordPending, orderVars
<1>10. CASE UNCHANGED vars
  BY <1>4, <1>10 DEF vars, keyVars
<1> QED
  BY <1>1, <1>5, <1>6, <1>7, <1>8, <1>9, <1>10 DEF Next, ShippedNext, StockStep, OrderStep

LEMMA LiveStays ==
  ASSUME LiveInv, [Next]_vars, UNCHANGED soldBefore PROVE LiveInv'
<1>1. TypeOK'
  BY TypeInductive DEF LiveInv
<1>2. ASSUME NEW o \in DOMAIN soldBefore PROVE KeptInv(o)'
  <2>1. /\ o \in Orders /\ KeptInv(o) /\ TypeOK
        /\ licenseKey[o] \in Keys \cup {Nobody}
    BY DEF LiveInv, TypeOK
  <2>2. \A k \in Held(o) : keyStatus[k] = "SOLD"
    BY <2>1 DEF KeptInv, KeptAsSold
  <2>3. /\ orderStatus'[o] = "PAID" /\ authority'[o] = Nobody
        /\ licenseKey'[o] = licenseKey[o] /\ itemised'[o] = itemised[o]
        /\ Held(o)' = Held(o)
        /\ \A k \in Keys : keyStatus[k] = "SOLD" /\ assignedTo[k] \in {o, Nobody} =>
               keyStatus'[k] = "SOLD" /\ assignedTo'[k] = assignedTo[k]
    BY <2>1, <2>2, SoldOrderStays DEF KeptInv
  <2> QED
    BY <2>1, <2>3 DEF KeptInv, KeptAsSold, ItemRows
<1>3. \A o \in Orders \ DOMAIN soldBefore : OrderInv(o)'
  BY OrderInvInductive DEF LiveInv
<1> QED
  BY <1>1, <1>2, <1>3 DEF LiveInv

LEMMA MigrationInductive == MigrationInv /\ [MigrationNext]_migrationVars => MigrationInv'
<1> SUFFICES ASSUME MigrationInv, [MigrationNext]_migrationVars PROVE MigrationInv'
  OBVIOUS
<1>1. CASE UNCHANGED migrationVars
  <2>1. UNCHANGED <<vars, stage, books, amount, price, soldBefore>>
    BY <1>1 DEF migrationVars, historyVars
  <2>2. CASE stage = "live"
    BY <2>1, <2>2, LiveStays DEF MigrationInv
  <2>3. CASE stage # "live"
    <3>1. BeforeInv /\ price' \in Catalogues
      BY <2>1, <2>3 DEF MigrationInv, BeforeInv, ItemsBefore
    <3> QED
      BY <2>1, <2>3, <3>1, RepriceInv DEF MigrationInv
  <2> QED
    BY <2>2, <2>3
<1>2. CASE BackfillOrders
  BY <1>2, BackfillInv DEF MigrationInv, BackfillOrders
<1>3. CASE ConstrainAmounts
  <2>1. /\ BeforeInv /\ stage = "0007" /\ stage' = "0008"
        /\ UNCHANGED <<orderVars, payVars, keyStatus, books, amount, price, soldBefore>>
        /\ UNCHANGED assignedTo
    BY <1>3 DEF ConstrainAmounts, MigrationInv, vars, historyVars, orderVars, payVars
  <2> QED
    BY <2>1, StageInv DEF MigrationInv
<1>4. CASE AssignKeysOfPaidOrders
  BY <1>4, AssignInv DEF MigrationInv, AssignKeysOfPaidOrders
<1>5. CASE GoLive
  BY <1>5, GoLiveInv DEF MigrationInv, GoLive, Stages
<1>6. CASE RollBack
  <2>1. /\ BeforeInv /\ stage' \in {"0006", "0007", "0008"}
        /\ stage' = "0006" \/ stage # "0006"
        /\ UNCHANGED <<orderVars, payVars, keyStatus, books, amount, price, soldBefore>>
        /\ IF stage = "0009" THEN assignedTo' = [k \in Keys |-> Nobody] ELSE UNCHANGED assignedTo
    BY <1>6 DEF RollBack, MigrationInv, historyVars
  <2> QED
    BY <2>1, StageInv DEF MigrationInv
<1>7. ASSUME NEW r \in Products, Reprice(r) PROVE MigrationInv'
  <2>1. BeforeInv /\ stage # "live" /\ stage \in Stages
    BY <1>7 DEF Reprice, MigrationInv
  <2>2. UNCHANGED <<vars, stage, books, amount, soldBefore>>
    BY <1>7 DEF Reprice
  <2>3. price' \in Catalogues
    <3>1. PICK new \in Prices[r] : price' = [price EXCEPT ![r] = new]
      BY <1>7 DEF Reprice
    <3>2. price \in Catalogues /\ new \in Total
      BY <2>1 DEF BeforeInv, ItemsBefore, Total
    <3> QED
      BY <3>1, <3>2 DEF Catalogues
  <2> QED
    BY <2>1, <2>2, <2>3, RepriceInv DEF MigrationInv
<1>8. CASE Live
  BY <1>8, LiveStays DEF Live, MigrationInv, historyVars
<1> QED
  BY <1>1, <1>2, <1>3, <1>4, <1>5, <1>6, <1>7, <1>8 DEF MigrationNext

-----------------------------------------------------------------------------
\* Old customers keep their keys, whatever state the previous release left their
\* orders in, and every order paid since is delivered in full.
THEOREM MigrationSafe == MigrationSpec => []MigratedOrdersDelivered
<1>1. MigrationInv => MigratedOrdersDelivered
  BY DEF MigrationInv, LiveInv, KeptInv, OrderInv, MigratedOrdersDelivered, Delivered,
         ItemisedOrders
<1> QED
  BY <1>1, MigrationStarts, MigrationInductive, PTL DEF MigrationSpec

\* Orders that the previous release had not sold are all-or-nothing beside those
\* it had, malformed ones included.
THEOREM UnsoldSafe == MigrationSpec => []UnsoldOrdersConsistent
<1>1. ASSUME MigrationInv PROVE UnsoldOrdersConsistent
  <2>1. CASE stage = "live"
    BY <1>1, <2>1 DEF MigrationInv, LiveInv, OrderInv, UnsoldOrdersConsistent
  <2>2. CASE stage # "live"
    <3>1. BeforeInv
      BY <1>1, <2>2 DEF MigrationInv
    <3>2. ASSUME NEW o \in Orders \ DOMAIN soldBefore
          PROVE  authority[o] = Nobody /\ Held(o) = {}
      <4>1. authority[o] = Nobody /\ orderStatus[o] # "PAID"
        BY <3>1 DEF BeforeInv, KeysBefore
      <4>2. \A k \in Keys : assignedTo[k] # o
        BY <3>1, <4>1 DEF BeforeInv, AssignmentsBefore, Assignable
      <4> QED
        BY <4>1, <4>2 DEF Held
    <3> QED
      BY <3>2 DEF UnsoldOrdersConsistent
  <2> QED
    BY <2>1, <2>2
<1> QED
  BY <1>1, MigrationStarts, MigrationInductive, PTL DEF MigrationSpec

LEMMA StableStep ==
  ASSUME MigrationInv, [MigrationNext]_migrationVars, stage' # "live",
         NEW o \in HistoricOrders
  PROVE  /\ books[o].total # Unknown => books'[o].total = books[o].total
         /\ itemised[o] => itemised'[o] /\ books'[o].snapshot = books[o].snapshot
<1> USE HistoryAssumption, OrderKindsAssumption
<1>1. o \in Orders
  OBVIOUS
<1>2. CASE UNCHANGED <<books, itemised>>
  BY <1>2
<1>3. CASE BackfillOrders
  <2>1. PICK total \in [Orders -> UNION {NewTotals(q) : q \in Orders}] :
          /\ \A q \in Orders : total[q] \in NewTotals(q)
          /\ books' = [q \in Orders |->
                [books[q] EXCEPT !.total = total[q],
                                 !.snapshot = IF q \in HistoricOrders /\ NeedsItem(q)
                                              THEN total[q] ELSE books[q].snapshot]]
          /\ itemised' = [q \in Orders |->
                itemised[q] \/ (q \in HistoricOrders /\ NeedsItem(q) /\ total[q] # Unknown)]
    BY <1>3 DEF BackfillOrders
  <2>2. BeforeInv
    BY <1>3 DEF BackfillOrders, MigrationInv
  <2>3. books[o] \in [total : KnownAmount, pricePaid : OldAmount, snapshot : KnownAmount]
    BY <1>1, <2>2 DEF BeforeInv, ItemsBefore
  <2>4. books'[o].total = total[o]
    BY <1>1, <2>1, <2>3
  <2>5. ASSUME books[o].total # Unknown PROVE total[o] = books[o].total
    <3>1. CASE Totals(o) = {}
      BY <1>1, <2>1, <3>1 DEF NewTotals
    <3>2. CASE Totals(o) # {}
      <4>1. total[o] \in Totals(o)
        BY <1>1, <2>1, <3>2 DEF NewTotals
      <4>2. PICK i \in 1 .. 5 : /\ total[o] \in Evidence(o)[i]
                                /\ \A j \in 1 .. i - 1 : Evidence(o)[j] \subseteq {Unknown}
        BY <4>1 DEF Totals, FirstKnown
      <4>3. Evidence(o)[1] = {books[o].total}
        BY DEF Evidence
      <4>4. i = 1
        <5>1. ASSUME i # 1 PROVE FALSE
          <6>1. 1 \in 1 .. i - 1
            BY <4>2, <5>1
          <6>2. Evidence(o)[1] \subseteq {Unknown}
            BY <4>2, <6>1
          <6> QED
            BY <2>5, <4>3, <6>2
        <5> QED
          BY <5>1
      <4> QED
        BY <4>2, <4>3, <4>4
    <3> QED
      BY <3>1, <3>2
  <2>6. ASSUME itemised[o] PROVE itemised'[o] /\ books'[o].snapshot = books[o].snapshot
    <3>1. ~NeedsItem(o)
      BY <2>6 DEF NeedsItem
    <3> QED
      BY <1>1, <2>1, <2>3, <2>6, <3>1
  <2> QED
    BY <2>4, <2>5, <2>6
<1>4. CASE ~BackfillOrders
  <2>1. UNCHANGED <<books, itemised>>
    BY <1>4 DEF MigrationNext, migrationVars, historyVars, ConstrainAmounts,
       AssignKeysOfPaidOrders, GoLive, RollBack, Reprice, Live, vars, orderVars
  <2> QED
    BY <1>2, <2>1
<1> QED
  BY <1>3, <1>4

\* Deployments that stop, are rolled back and repeated write nothing twice.
THEOREM BackfillRepeats == MigrationSpec => BackfillIsStable
<1>1. MigrationInv /\ [MigrationNext]_migrationVars =>
        [stage' # "live" =>
          \A o \in HistoricOrders :
              /\ books[o].total # Unknown => books'[o].total = books[o].total
              /\ itemised[o] => itemised'[o] /\ books'[o].snapshot = books[o].snapshot]_migrationVars
  BY StableStep
<1> QED
  BY <1>1, MigrationStarts, MigrationInductive, PTL DEF MigrationSpec, BackfillIsStable

=============================================================================
