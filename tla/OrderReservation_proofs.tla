---------------------- MODULE OrderReservation_proofs ----------------------
(***************************************************************************)
(* Proofs about OrderReservation for every set of orders, payments, keys   *)
(* and products.                                                           *)
(***************************************************************************)
EXTENDS OrderReservation, FiniteSetTheorems, TLAPS

(***************************************************************************)
(* Every variable keeps its type.                                          *)
(***************************************************************************)
LEMMA TypeInductive == TypeOK /\ [Next]_vars => TypeOK'
<1> SUFFICES ASSUME TypeOK, [Next]_vars PROVE TypeOK'
  OBVIOUS
<1> USE DEF TypeOK
<1>1. ASSUME NEW k \in Keys, ImportKey(k) \/ DeleteKey(k) PROVE TypeOK'
  BY <1>1 DEF ImportKey, DeleteKey, orderVars, payVars, KeyStatuses
<1>2. ASSUME NEW o \in Orders, NEW p \in Payments, EstablishReservation(o, p)
      PROVE /\ orderStatus' = orderStatus /\ licenseKey' = licenseKey
            /\ authority' \in [Orders -> Payments \cup {Nobody}]
            /\ itemised' \in [Orders -> BOOLEAN]
            /\ keyStatus' \in [Keys -> KeyStatuses]
            /\ assignedTo' \in [Keys -> Orders \cup {Nobody}]
  <2>1. CASE UNCHANGED keyVars
    BY <1>2, <2>1 DEF EstablishReservation, keyVars
  <2>2. CASE \E S \in SUBSET FreeKeys : AssignKeys(S, o, "RESERVED")
    BY <1>2, <2>2 DEF EstablishReservation, AssignKeys, KeyStatuses
  <2> QED
    BY <1>2, <2>1, <2>2 DEF EstablishReservation, ReserveKeys
<1>3. ASSUME NEW o \in Orders, NEW p \in Payments, NewAttempt(o, p) PROVE TypeOK'
  BY <1>2, <1>3 DEF NewAttempt, PaymentStatuses, ActiveStatuses
<1>4. ASSUME NEW o \in Orders, NEW p \in Payments, ResumeAttempt(o, p) PROVE TypeOK'
  BY <1>2, <1>4 DEF ResumeAttempt, payVars
<1>5. ASSUME NEW o \in Orders, NEW p \in Payments, NEW status \in TerminalStatuses,
             TerminatePayment(o, p, status)
      PROVE TypeOK'
  BY <1>5 DEF TerminatePayment, ReleaseReservation, keyVars, KeyStatuses, PaymentStatuses
<1>6. ASSUME NEW o \in Orders, NEW p \in Payments, RejectLegacyAttempt(o, p) PROVE TypeOK'
  BY <1>6 DEF RejectLegacyAttempt, ReleaseReservation, KeyStatuses, PaymentStatuses,
              TerminalStatuses
<1>7. ASSUME NEW o \in Orders, NEW p \in Payments, CompletePayment(o, p) PROVE TypeOK'
  <2>1. PICK S \in SUBSET Keys : AssignKeys(S, o, "SOLD")
               /\ \E k \in S : licenseKey' = IF o \in DirectOrders
                                             THEN [licenseKey EXCEPT ![o] = k]
                                             ELSE licenseKey
    BY <1>7 DEF CompletePayment, SellKeys
  <2>2. /\ keyStatus' \in [Keys -> KeyStatuses]
        /\ assignedTo' \in [Keys -> Orders \cup {Nobody}]
        /\ licenseKey' \in [Orders -> Keys \cup {Nobody}]
    BY <2>1 DEF AssignKeys, KeyStatuses
  <2> QED
    BY <1>7, <2>2 DEF CompletePayment, PaymentStatuses
<1>8. ASSUME NEW o \in Orders, NEW p \in Payments, RecordPending(o, p) PROVE TypeOK'
  BY <1>8 DEF RecordPending, orderVars, keyVars, PaymentStatuses, ActiveStatuses
<1>9. CASE UNCHANGED vars
  BY <1>9 DEF vars
<1> QED
  BY <1>1, <1>3, <1>4, <1>5, <1>6, <1>7, <1>8, <1>9
  DEF Next, ShippedNext, StockStep, OrderStep

\* The types of the variables are those the tables' columns admit.
THEOREM TypeCorrect == Spec => []TypeOK
<1>1. Init => TypeOK
  BY DEF Init, TypeOK, PaymentStatuses, KeyStatuses
<1> QED
  BY <1>1, TypeInductive, PTL DEF Spec

-----------------------------------------------------------------------------
(***************************************************************************)
(* The inductive invariant, order by order.  It is the conjunction of the  *)
(* safety invariants regrouped so that a step can be followed for the one  *)
(* order it works on and framed for the others.                            *)
(***************************************************************************)
OrderInv(o) ==
    /\ IF orderStatus[o] = "PAID"
       THEN authority[o] = Nobody
       ELSE /\ Held(o) # {} => authority[o] # Nobody
            /\ o \in ItemisedOrders /\ authority[o] # Nobody => Held(o) # {}
    /\ Held(o) = {} \/ Covers(Held(o), o)
    /\ authority[o] # Nobody => authority[o] \in ActiveAttempts(o)
    /\ \A k \in Held(o) :
          keyStatus[k] = IF orderStatus[o] = "PAID" THEN "SOLD" ELSE "RESERVED"
    /\ o \in ItemisedOrders /\ orderStatus[o] = "PAID" =>
          /\ Held(o) # {} /\ Covers(Held(o), o)
          /\ o \in DirectOrders => licenseKey[o] \in Held(o)

UnassignedInv ==
    \A k \in Keys : assignedTo[k] = Nobody =>
        (LegacyOrders = {} => keyStatus[k] \in {"ABSENT", "AVAILABLE"})

IInv == TypeOK /\ UnassignedInv /\ \A o \in Orders : OrderInv(o)

\* The inductive invariant is the conjunction of the invariants it regroups.
LEMMA IInvImplies ==
    IInv => /\ TypeOK /\ ReservationMatchesAuthority /\ AllOrNothing
            /\ AuthorityIsOwnActiveAttempt /\ AssignmentFollowsOrder
            /\ PaidOrdersDelivered
<1> SUFFICES ASSUME IInv PROVE
        /\ ReservationMatchesAuthority /\ AllOrNothing
        /\ AuthorityIsOwnActiveAttempt /\ AssignmentFollowsOrder
        /\ PaidOrdersDelivered
  BY DEF IInv
<1>1. /\ ReservationMatchesAuthority /\ AllOrNothing
      /\ AuthorityIsOwnActiveAttempt /\ PaidOrdersDelivered
  BY DEF IInv, OrderInv, ReservationMatchesAuthority, AllOrNothing,
         AuthorityIsOwnActiveAttempt, PaidOrdersDelivered, Delivered, ItemisedOrders
<1>2. AssignmentFollowsOrder
  BY DEF IInv, OrderInv, UnassignedInv, AssignmentFollowsOrder, TypeOK, Held
<1> QED
  BY <1>1, <1>2

\* An order's items are covered by what it holds as long as that is the same.
LEMMA CoversStep ==
    ASSUME NEW o, Held(o)' = Held(o)
    PROVE  Covers(Held(o), o)' <=> Covers(Held(o), o)
BY DEF Covers

\* Orders a step does not work on keep their part of the invariant.
LEMMA Frame ==
    ASSUME NEW o \in Orders, OrderInv(o),
           Held(o)' = Held(o),
           orderStatus'[o] = orderStatus[o],
           authority'[o] = authority[o],
           licenseKey'[o] = licenseKey[o],
           \A k \in Held(o) : keyStatus'[k] = keyStatus[k],
           authority[o] # Nobody => authority[o] \in ActiveAttempts(o)'
    PROVE  OrderInv(o)'
BY CoversStep DEF OrderInv, ItemisedOrders

\* Assigning keys changes what one order holds.
LEMMA AssignedHeld ==
    ASSUME TypeOK, NEW o \in Orders, NEW S \in SUBSET Keys, NEW status,
           Held(o) \subseteq S, \A k \in S : assignedTo[k] \in {o, Nobody},
           AssignKeys(S, o, status)
    PROVE  /\ Held(o)' = S
           /\ \A x \in Orders \ {o} :
                 Held(x)' = Held(x) /\ \A k \in Held(x) : keyStatus'[k] = keyStatus[k]
BY NobodyAssumption DEF TypeOK, Held, AssignKeys

\* Dropping an order's assignments leaves the other orders' alone.
LEMMA ReleasedHeld ==
    ASSUME TypeOK, NEW o \in Orders,
           assignedTo' = [k \in Keys |-> IF k \in Held(o) THEN Nobody ELSE assignedTo[k]]
    PROVE  /\ Held(o)' = {}
           /\ \A x \in Orders \ {o} : Held(x)' = Held(x)
BY NobodyAssumption DEF TypeOK, Held

\* Two orders hold no key in common.
LEMMA HeldDisjoint ==
    ASSUME NEW o, NEW x, o # x PROVE Held(o) \cap Held(x) = {}
BY DEF Held

\* An attempt that is active and whose row a step leaves alone stays active.
LEMMA ActiveStays ==
    ASSUME NEW o, NEW p \in ActiveAttempts(o),
           payStatus'[p] = payStatus[p], payOrder'[p] = payOrder[p]
    PROVE  p \in ActiveAttempts(o)'
BY DEF ActiveAttempts

\* The invariant holds initially: nothing is reserved and nobody is charged.
LEMMA InvInit == Init => IInv
<1> SUFFICES ASSUME Init PROVE IInv
  OBVIOUS
<1>1. TypeOK
  BY DEF Init, TypeOK, PaymentStatuses, KeyStatuses
<1>2. \A o \in Orders : Held(o) = {}
  BY NobodyAssumption DEF Init, Held
<1> QED
  BY <1>1, <1>2 DEF Init, IInv, OrderInv, UnassignedInv

\* The keys nobody holds are on sale or absent, when no order is legacy.
LEMMA UnassignedStays == TypeOK /\ UnassignedInv /\ [Next]_vars => UnassignedInv'
<1> SUFFICES ASSUME TypeOK, UnassignedInv, [Next]_vars, LegacyOrders = {},
                    NEW k \in Keys, assignedTo'[k] = Nobody
             PROVE  keyStatus'[k] \in {"ABSENT", "AVAILABLE"}
  BY DEF UnassignedInv
<1> USE NobodyAssumption DEF TypeOK
<1>1. CASE assignedTo[k] = Nobody /\ keyStatus'[k] = keyStatus[k]
  BY <1>1 DEF UnassignedInv
<1>2. ASSUME NEW j \in Keys, ImportKey(j) \/ DeleteKey(j)
      PROVE keyStatus'[k] \in {"ABSENT", "AVAILABLE"}
  BY <1>2 DEF ImportKey, DeleteKey, UnassignedInv
<1>3. ASSUME NEW o \in Orders, NEW S \in SUBSET Keys, NEW status, AssignKeys(S, o, status)
      PROVE assignedTo[k] = Nobody /\ keyStatus'[k] = keyStatus[k]
  BY <1>3 DEF AssignKeys
<1>4. ASSUME NEW o \in Orders, ReleaseReservation(o)
      PROVE keyStatus'[k] \in {"ABSENT", "AVAILABLE"}
  BY <1>4 DEF ReleaseReservation, UnassignedInv
<1>5. ASSUME NEW o \in Orders, NEW p \in Payments, NewAttempt(o, p) \/ ResumeAttempt(o, p)
      PROVE keyStatus'[k] \in {"ABSENT", "AVAILABLE"}
  BY <1>1, <1>3, <1>5
  DEF NewAttempt, ResumeAttempt, EstablishReservation, ReserveKeys, FreeKeys, keyVars
<1>6. ASSUME NEW o \in Orders, NEW p \in Payments, NEW status, TerminatePayment(o, p, status)
      PROVE keyStatus'[k] \in {"ABSENT", "AVAILABLE"}
  BY <1>1, <1>4, <1>6 DEF TerminatePayment, keyVars
<1>7. ASSUME NEW o \in Orders, NEW p \in Payments, CompletePayment(o, p)
      PROVE keyStatus'[k] \in {"ABSENT", "AVAILABLE"}
  BY <1>1, <1>3, <1>7 DEF CompletePayment, SellKeys
<1>8. ASSUME NEW o \in Orders, NEW p \in Payments, RecordPending(o, p)
      PROVE keyStatus'[k] \in {"ABSENT", "AVAILABLE"}
  BY <1>1, <1>8 DEF RecordPending, keyVars
<1>9. CASE UNCHANGED vars
  BY <1>1, <1>9 DEF vars
<1>10. ASSUME NEW o \in Orders, NEW p \in Payments PROVE ~RejectLegacyAttempt(o, p)
  BY DEF RejectLegacyAttempt
<1> QED
  BY <1>2, <1>5, <1>6, <1>7, <1>8, <1>9, <1>10 DEF Next, ShippedNext, StockStep, OrderStep

-----------------------------------------------------------------------------
(***************************************************************************)
(* Each transaction preserves each order's part of the invariant, whatever *)
(* state the other orders are in.                                          *)
(***************************************************************************)

\* reserve_order_licenses and authorize_order_reservation, before the payment
\* row is considered: the order ends up holding exactly what it needs.
LEMMA EstablishKeepsKeys ==
    ASSUME TypeOK, NEW o \in Orders, NEW p \in Payments, EstablishReservation(o, p)
    PROVE  /\ Covers(Held(o), o)' /\ Held(o)' # {}
           /\ \A k \in Held(o)' : keyStatus'[k] = "RESERVED"
           /\ \A x \in Orders \ {o} :
                 Held(x)' = Held(x) /\ \A k \in Held(x) : keyStatus'[k] = keyStatus[k]
<1>1. CASE HasReservation(o) /\ UNCHANGED keyVars
  <2>1. \A x \in Orders : Held(x)' = Held(x)
    BY <1>1 DEF keyVars, Held
  <2> QED
    BY <1>1, <2>1, CoversStep DEF keyVars, HasReservation, Held
<1>2. ASSUME Held(o) = {}, NEW S \in SUBSET FreeKeys, Covers(S, o),
             AssignKeys(S, o, "RESERVED")
      PROVE  /\ Covers(Held(o), o)' /\ Held(o)' # {}
             /\ \A k \in Held(o)' : keyStatus'[k] = "RESERVED"
             /\ \A x \in Orders \ {o} :
                   Held(x)' = Held(x) /\ \A k \in Held(x) : keyStatus'[k] = keyStatus[k]
  <2>1. S \subseteq Keys /\ \A k \in S : assignedTo[k] \in {o, Nobody}
    BY DEF FreeKeys
  <2>2. /\ Held(o)' = S
        /\ \A x \in Orders \ {o} :
              Held(x)' = Held(x) /\ \A k \in Held(x) : keyStatus'[k] = keyStatus[k]
    BY <1>2, <2>1, AssignedHeld
  <2>3. Covers(Held(o), o)'
    BY <1>2, <2>2 DEF Covers
  <2>4. S # {}
    <3> SUFFICES ASSUME S = {} PROVE FALSE
      OBVIOUS
    <3>1. PICK r \in Products : Quantity[o][r] > 0
      BY DEF EstablishReservation, HasItems
    <3>2. {k \in S : KeyProduct[k] = r} = {}
      OBVIOUS
    <3>3. Cardinality({k \in S : KeyProduct[k] = r}) = 0
      BY <3>2, FS_EmptySet
    <3>4. Quantity[o][r] = 0
      BY <1>2, <3>3 DEF Covers
    <3> QED
      BY <3>1, <3>4
  <2>5. \A k \in S : keyStatus'[k] = "RESERVED"
    BY <1>2, <2>1 DEF AssignKeys
  <2> QED
    BY <2>2, <2>3, <2>4, <2>5
<1> QED
  BY <1>1, <1>2 DEF EstablishReservation, ReserveKeys

\* After an establishing transaction the order's part of the invariant holds
\* with the attempt as its authority.
LEMMA EstablishInv ==
    ASSUME TypeOK, NEW x \in Orders, OrderInv(x),
           NEW o \in Orders, NEW p \in Payments, EstablishReservation(o, p),
           p \in ActiveAttempts(o)',
           x # o => \A q \in ActiveAttempts(x) : q \in ActiveAttempts(x)'
    PROVE  OrderInv(x)'
<1>1. CASE x = o
  <2>1. orderStatus'[o] # "PAID" /\ authority'[o] = p
    BY DEF TypeOK, EstablishReservation, Payable
  <2> QED
    BY <1>1, <2>1, EstablishKeepsKeys, NobodyAssumption DEF OrderInv
<1>2. CASE x # o
  <2>1. /\ orderStatus'[x] = orderStatus[x] /\ authority'[x] = authority[x]
        /\ licenseKey'[x] = licenseKey[x]
    BY <1>2 DEF TypeOK, EstablishReservation
  <2>2. authority[x] # Nobody => authority[x] \in ActiveAttempts(x)'
    BY <1>2 DEF OrderInv
  <2> QED
    BY <1>2, <2>1, <2>2, Frame, EstablishKeepsKeys
<1> QED
  BY <1>1, <1>2

\* create_payment and pay_order without an active attempt.
LEMMA NewAttemptInv ==
    ASSUME TypeOK, NEW x \in Orders, OrderInv(x),
           NEW o \in Orders, NEW p \in Payments, NewAttempt(o, p)
    PROVE  OrderInv(x)'
<1>1. p \in ActiveAttempts(o)'
  BY DEF NewAttempt, TypeOK, ActiveAttempts, ActiveStatuses
<1>2. ASSUME x # o, NEW q \in ActiveAttempts(x)
      PROVE q \in ActiveAttempts(x)'
  BY <1>2 DEF NewAttempt, TypeOK, ActiveAttempts, ActiveStatuses
<1> QED
  BY <1>1, <1>2, EstablishInv DEF NewAttempt

\* pay_order with an active attempt.
LEMMA ResumeAttemptInv ==
    ASSUME TypeOK, NEW x \in Orders, OrderInv(x),
           NEW o \in Orders, NEW p \in Payments, ResumeAttempt(o, p)
    PROVE  OrderInv(x)'
<1>1. \A y \in Orders : ActiveAttempts(y)' = ActiveAttempts(y)
  BY DEF ResumeAttempt, payVars, ActiveAttempts
<1> QED
  BY <1>1, EstablishInv DEF ResumeAttempt

\* Releasing an order's reservation empties it and touches no other order.
LEMMA ReleaseKeepsKeys ==
    ASSUME TypeOK, NEW o \in Orders, ReleaseReservation(o)
    PROVE  /\ Held(o)' = {}
           /\ \A x \in Orders \ {o} :
                 Held(x)' = Held(x) /\ \A k \in Held(x) : keyStatus'[k] = keyStatus[k]
<1>1. /\ Held(o)' = {}
      /\ \A x \in Orders \ {o} : Held(x)' = Held(x)
  BY ReleasedHeld DEF ReleaseReservation
<1>2. \A x \in Orders \ {o} : \A k \in Held(x) : keyStatus'[k] = keyStatus[k]
  BY DEF ReleaseReservation, Held
<1> QED
  BY <1>1, <1>2

\* The authorities of the other orders survive a change of one attempt's row.
LEMMA OtherAuthorities ==
    ASSUME NEW x \in Orders, OrderInv(x), NEW o \in Orders, NEW p \in Payments,
           payOrder[p] = o, UNCHANGED payOrder,
           \A q \in Payments \ {p} : payStatus'[q] = payStatus[q],
           x # o \/ authority[x] # p, authority[x] # Nobody
    PROVE  authority[x] \in ActiveAttempts(x)'
<1>1. authority[x] \in ActiveAttempts(x)
  BY DEF OrderInv
<1>2. authority[x] \in Payments \ {p}
  BY <1>1 DEF ActiveAttempts
<1> QED
  BY <1>1, <1>2, ActiveStays

\* terminate_payment.
LEMMA TerminateInv ==
    ASSUME TypeOK, NEW x \in Orders, OrderInv(x),
           NEW o \in Orders, NEW p \in Payments,
           NEW status \in TerminalStatuses, TerminatePayment(o, p, status)
    PROVE  OrderInv(x)'
<1>1. /\ payOrder[p] = o /\ UNCHANGED <<orderStatus, licenseKey, payOrder>>
      /\ \A q \in Payments \ {p} : payStatus'[q] = payStatus[q]
  BY DEF TerminatePayment, TypeOK
<1>2. CASE MayRelease(o, p)
  <2>1. ReleaseReservation(o) /\ authority' = [authority EXCEPT ![o] = Nobody]
    BY <1>2 DEF TerminatePayment
  <2>2. CASE x = o
    BY <1>1, <1>2, <2>1, <2>2, ReleaseKeepsKeys DEF OrderInv, MayRelease, TypeOK
  <2>3. CASE x # o
    BY <1>1, <2>1, <2>3, ReleaseKeepsKeys, OtherAuthorities, Frame DEF TypeOK
  <2> QED
    BY <2>2, <2>3
<1>3. CASE ~MayRelease(o, p)
  <2>1. UNCHANGED <<keyVars, authority>>
    BY <1>3 DEF TerminatePayment
  <2>2. Held(x)' = Held(x)
    BY <2>1 DEF keyVars, Held
  <2>3. x # o \/ authority[x] # p
    BY <1>3, NobodyAssumption DEF MayRelease, OrderInv
  <2>4. authority[x] # Nobody => authority[x] \in ActiveAttempts(x)'
    BY <1>1, <2>3, OtherAuthorities
  <2> QED
    BY <1>1, <2>1, <2>2, <2>4, Frame DEF keyVars
<1> QED
  BY <1>2, <1>3

\* The provider's refusal of an attempt that had normalised a legacy order.
LEMMA RejectLegacyInv ==
    ASSUME TypeOK, NEW x \in Orders, OrderInv(x),
           NEW o \in Orders, NEW p \in Payments, RejectLegacyAttempt(o, p)
    PROVE  OrderInv(x)'
<1>1. /\ o \in LegacyOrders /\ payOrder[p] = o
      /\ UNCHANGED <<orderStatus, licenseKey, payOrder>>
      /\ \A q \in Payments \ {p} : payStatus'[q] = payStatus[q]
  BY DEF RejectLegacyAttempt, TypeOK
<1>2. CASE payStatus[p] # "PAID" /\ MayRelease(o, p)
  <2>1. ReleaseReservation(o) /\ authority' = [authority EXCEPT ![o] = Nobody]
    BY <1>2 DEF RejectLegacyAttempt
  <2>2. CASE x = o
    BY <1>1, <1>2, <2>1, <2>2, ReleaseKeepsKeys DEF OrderInv, MayRelease, TypeOK
  <2>3. CASE x # o
    BY <1>1, <2>1, <2>3, ReleaseKeepsKeys, OtherAuthorities, Frame DEF TypeOK
  <2> QED
    BY <2>2, <2>3
<1>3. CASE ~(payStatus[p] # "PAID" /\ MayRelease(o, p))
  <2>1. /\ assignedTo' = [k \in Keys |-> IF k \in Held(o) THEN Nobody ELSE assignedTo[k]]
        /\ UNCHANGED <<keyStatus, authority>>
    BY <1>3 DEF RejectLegacyAttempt
  <2>2. Held(o)' = {} /\ \A y \in Orders \ {o} : Held(y)' = Held(y)
    BY <2>1, ReleasedHeld
  <2>3. x # o \/ authority[x] # p
    BY <1>3, NobodyAssumption
    DEF MayRelease, OrderInv, ActiveAttempts, ActiveStatuses
  <2>4. authority[x] # Nobody => authority[x] \in ActiveAttempts(x)'
    BY <1>1, <2>3, OtherAuthorities
  <2>5. CASE x = o
    BY <1>1, <2>1, <2>2, <2>4, <2>5 DEF OrderInv, ItemisedOrders
  <2>6. CASE x # o
    BY <1>1, <2>1, <2>2, <2>4, <2>6, Frame
  <2> QED
    BY <2>5, <2>6
<1> QED
  BY <1>2, <1>3

\* _fulfil_order: what it sells is exactly what the order needs.
LEMMA SellKeepsKeys ==
    ASSUME TypeOK, NEW o \in Orders, NEW S \in SUBSET Keys, SellKeys(o, S)
    PROVE  /\ Held(o)' = S /\ Covers(Held(o), o)'
           /\ \A k \in S : keyStatus'[k] = "SOLD"
           /\ \A x \in Orders \ {o} :
                 Held(x)' = Held(x) /\ \A k \in Held(x) : keyStatus'[k] = keyStatus[k]
<1>1. /\ Held(o) \subseteq S /\ \A k \in S : assignedTo[k] \in {o, Nobody}
      /\ AssignKeys(S, o, "SOLD") /\ Covers(S, o)
  BY DEF SellKeys, HasReservation, FreeKeys, Held
<1>2. /\ Held(o)' = S
      /\ \A x \in Orders \ {o} :
            Held(x)' = Held(x) /\ \A k \in Held(x) : keyStatus'[k] = keyStatus[k]
  BY <1>1, AssignedHeld
<1>3. Covers(Held(o), o)'
  BY <1>1, <1>2 DEF Covers
<1>4. \A k \in S : keyStatus'[k] = "SOLD"
  BY <1>1 DEF AssignKeys
<1> QED
  BY <1>2, <1>3, <1>4

\* complete_payment.
LEMMA CompleteInv ==
    ASSUME TypeOK, NEW x \in Orders, OrderInv(x),
           NEW o \in Orders, NEW p \in Payments, CompletePayment(o, p)
    PROVE  OrderInv(x)'
<1>1. PICK S \in SUBSET Keys :
         /\ SellKeys(o, S)
         /\ \E k \in S : licenseKey' = IF o \in DirectOrders
                                       THEN [licenseKey EXCEPT ![o] = k]
                                       ELSE licenseKey
  BY DEF CompletePayment
<1>2. /\ payOrder[p] = o /\ UNCHANGED payOrder
      /\ orderStatus' = [orderStatus EXCEPT ![o] = "PAID"]
      /\ authority' = [authority EXCEPT ![o] = Nobody]
      /\ \A q \in Payments \ {p} : payStatus'[q] = payStatus[q]
  BY DEF CompletePayment, TypeOK
<1>3. CASE x = o
  <2>1. orderStatus'[o] = "PAID" /\ authority'[o] = Nobody
    BY <1>2 DEF TypeOK
  <2>2. S # {} /\ (o \in DirectOrders => licenseKey'[o] \in S)
    BY <1>1 DEF TypeOK
  <2> QED
    BY <1>1, <1>3, <2>1, <2>2, SellKeepsKeys DEF OrderInv
<1>4. CASE x # o
  <2>1. /\ orderStatus'[x] = orderStatus[x] /\ authority'[x] = authority[x]
        /\ licenseKey'[x] = licenseKey[x]
    BY <1>1, <1>2, <1>4 DEF TypeOK
  <2>2. authority[x] # Nobody => authority[x] \in ActiveAttempts(x)'
    BY <1>2, <1>4, OtherAuthorities
  <2> QED
    BY <1>1, <1>4, <2>1, <2>2, SellKeepsKeys, Frame
<1> QED
  BY <1>3, <1>4

\* The pending outcome of pay_order changes one payment row, to active.
LEMMA RecordPendingInv ==
    ASSUME TypeOK, NEW x \in Orders, OrderInv(x),
           NEW o \in Orders, NEW p \in Payments, RecordPending(o, p)
    PROVE  OrderInv(x)'
<1>1. UNCHANGED <<orderVars, keyVars, payOrder>>
  BY DEF RecordPending
<1>2. Held(x)' = Held(x)
  BY <1>1 DEF keyVars, Held
<1>3. ActiveAttempts(x) \subseteq ActiveAttempts(x)'
  BY <1>1 DEF RecordPending, ActiveAttempts, ActiveStatuses, TypeOK
<1> QED
  BY <1>1, <1>2, <1>3, Frame DEF orderVars, keyVars, OrderInv

\* Imports and deletions of keys nobody holds.
LEMMA StockInv ==
    ASSUME TypeOK, NEW x \in Orders, OrderInv(x),
           NEW k \in Keys, ImportKey(k) \/ DeleteKey(k)
    PROVE  OrderInv(x)'
<1>1. UNCHANGED <<orderVars, payVars, assignedTo>>
  BY DEF ImportKey, DeleteKey
<1>2. k \notin Held(x)
  <2>1. k \in Held(x) => keyStatus[k] \in {"SOLD", "RESERVED"}
    BY DEF OrderInv
  <2> QED
    BY <2>1, NobodyAssumption DEF ImportKey, DeleteKey, Held
<1>3. \A j \in Keys \ {k} : keyStatus'[j] = keyStatus[j]
  BY DEF ImportKey, DeleteKey, TypeOK
<1>4. /\ Held(x)' = Held(x)
      /\ \A j \in Held(x) : keyStatus'[j] = keyStatus[j]
      /\ ActiveAttempts(x)' = ActiveAttempts(x)
  BY <1>1, <1>2, <1>3 DEF payVars, Held, ActiveAttempts
<1> QED
  BY <1>1, <1>4, Frame DEF orderVars, OrderInv

\* Every transaction preserves every order's part of the invariant.
LEMMA OrderInvInductive ==
    ASSUME TypeOK, [Next]_vars, NEW x \in Orders, OrderInv(x) PROVE OrderInv(x)'
<1>1. CASE UNCHANGED vars
  <2>1. Held(x)' = Held(x) /\ ActiveAttempts(x)' = ActiveAttempts(x)
    BY <1>1 DEF vars, Held, ActiveAttempts
  <2> QED
    BY <1>1, <2>1, Frame DEF vars, OrderInv
<1>2. CASE StockStep
  BY <1>2, StockInv DEF StockStep
<1>3. ASSUME NEW o \in Orders, OrderStep(o) PROVE OrderInv(x)'
  BY <1>3, NewAttemptInv, ResumeAttemptInv, TerminateInv, RejectLegacyInv, CompleteInv
  DEF OrderStep
<1>4. ASSUME NEW o \in Orders, NEW p \in Payments, RecordPending(o, p) PROVE OrderInv(x)'
  BY <1>4, RecordPendingInv
<1> QED
  BY <1>1, <1>2, <1>3, <1>4 DEF Next, ShippedNext

\* Every transaction preserves the inductive invariant.
LEMMA InvInductive == IInv /\ [Next]_vars => IInv'
BY TypeInductive, UnassignedStays, OrderInvInductive DEF IInv

\* ADR-001's invariants of a reservation, for every interleaving of attempts,
\* outcomes (pending ones included), legacy orders and stock changes.
THEOREM ReservationSafe ==
    Spec => [](/\ ReservationMatchesAuthority /\ AllOrNothing
               /\ AuthorityIsOwnActiveAttempt /\ AssignmentFollowsOrder
               /\ PaidOrdersDelivered)
BY InvInit, InvInductive, IInvImplies, PTL DEF Spec

\* Reservations are complete or empty, their authority is an open attempt of the
\* same order, and the keys' states follow the orders that hold them.
THEOREM ReservationAgrees == Spec => []ReservationConsistent
BY ReservationSafe, PTL DEF ReservationConsistent

-----------------------------------------------------------------------------
(***************************************************************************)
(* Consequences for single steps.                                          *)
(***************************************************************************)

\* A sold key stays sold, and is never given to another order.
LEMMA SoldKeyStays ==
    ASSUME IInv, [Next]_vars, NEW k \in Keys, keyStatus[k] = "SOLD"
    PROVE  /\ keyStatus'[k] = "SOLD"
           /\ assignedTo[k] \in ItemisedOrders => assignedTo'[k] = assignedTo[k]
           /\ assignedTo'[k] \in {assignedTo[k], Nobody}
<1>1. ASSUME NEW o \in Orders, k \in Held(o)
      PROVE orderStatus[o] = "PAID" /\ authority[o] = Nobody
  BY <1>1 DEF IInv, OrderInv
<1>2. \A o \in Orders : ~HasReservation(o) \/ k \notin Held(o)
  BY DEF HasReservation
<1>3. k \notin FreeKeys
  BY DEF FreeKeys
<1>4. ASSUME NEW j \in Keys, ImportKey(j) \/ DeleteKey(j)
      PROVE keyStatus'[k] = "SOLD" /\ assignedTo'[k] = assignedTo[k]
  BY <1>4 DEF ImportKey, DeleteKey, IInv, TypeOK
<1>5. ASSUME NEW o \in Orders, NEW p \in Payments,
             NewAttempt(o, p) \/ ResumeAttempt(o, p)
      PROVE keyStatus'[k] = "SOLD" /\ assignedTo'[k] = assignedTo[k]
  BY <1>3, <1>5 DEF NewAttempt, ResumeAttempt, EstablishReservation, ReserveKeys,
                    AssignKeys, keyVars
<1>6. ASSUME NEW o \in Orders, ReleaseReservation(o)
      PROVE keyStatus'[k] = "SOLD" /\ assignedTo'[k] = assignedTo[k]
  BY <1>2, <1>6 DEF ReleaseReservation
<1>7. ASSUME NEW o \in Orders, NEW p \in Payments, NEW status \in TerminalStatuses,
             TerminatePayment(o, p, status)
      PROVE keyStatus'[k] = "SOLD" /\ assignedTo'[k] = assignedTo[k]
  BY <1>6, <1>7 DEF TerminatePayment, keyVars
<1>8. ASSUME NEW o \in Orders, NEW p \in Payments, RejectLegacyAttempt(o, p)
      PROVE /\ keyStatus'[k] = "SOLD"
            /\ assignedTo[k] \in ItemisedOrders => assignedTo'[k] = assignedTo[k]
            /\ assignedTo'[k] \in {assignedTo[k], Nobody}
  BY <1>6, <1>8 DEF RejectLegacyAttempt, ItemisedOrders, Held
<1>9. ASSUME NEW o \in Orders, NEW p \in Payments, CompletePayment(o, p)
      PROVE keyStatus'[k] = "SOLD" /\ assignedTo'[k] = assignedTo[k]
  <2>1. PICK S \in SUBSET Keys : SellKeys(o, S)
    BY <1>9 DEF CompletePayment
  <2> QED
    BY <2>1, <1>3, <1>2 DEF SellKeys, AssignKeys
<1>10. ASSUME NEW o \in Orders, NEW p \in Payments, RecordPending(o, p)
       PROVE keyStatus'[k] = "SOLD" /\ assignedTo'[k] = assignedTo[k]
  BY <1>10 DEF RecordPending, keyVars
<1>11. CASE UNCHANGED vars
  BY <1>11 DEF vars
<1> QED
  BY <1>4, <1>5, <1>7, <1>8, <1>9, <1>10, <1>11
  DEF Next, ShippedNext, StockStep, OrderStep

\* A sold key keeps its status and its buyer, whatever arrives later.
THEOREM SalesAreFinal == Spec => SoldIsFinal
<1>1. IInv /\ [Next]_vars => [\A k \in Keys : keyStatus[k] = "SOLD" =>
            /\ keyStatus'[k] = "SOLD"
            /\ assignedTo[k] \in ItemisedOrders => assignedTo'[k] = assignedTo[k]]_vars
  BY SoldKeyStays
<1> QED
  BY <1>1, InvInit, InvInductive, PTL DEF Spec, SoldIsFinal

-----------------------------------------------------------------------------
(***************************************************************************)
(* One settlement per order, with the providers of the repository.         *)
(***************************************************************************)
Settled(o) ==
    IF orderStatus[o] = "PAID"
    THEN /\ \E p \in Payments : payOrder[p] = o /\ payStatus[p] = "PAID"
         /\ \A p, q \in Payments :
                payOrder[p] = o /\ payOrder[q] = o /\ payStatus[p] = "PAID" =>
                    q = p \/ payStatus[q] \in TerminalStatuses
    ELSE \A p \in Payments :
            payOrder[p] = o => /\ payStatus[p] # "PAID"
                               /\ payStatus[p] \in ActiveStatuses => authority[o] = p

\* A payment row that does not exist belongs to no order.
RowsExist == \A p \in Payments : payOrder[p] # Nobody => payStatus[p] # "ABSENT"

SettleInv == RowsExist /\ \A o \in Orders : Settled(o)

\* An order whose payment rows and own columns a step leaves alone stays settled.
LEMMA SettledFrame ==
    ASSUME NEW o, Settled(o),
           orderStatus'[o] = orderStatus[o], authority'[o] = authority[o],
           \A q \in Payments : /\ payOrder'[q] = o <=> payOrder[q] = o
                               /\ payOrder[q] = o => payStatus'[q] = payStatus[q]
    PROVE  Settled(o)'
<1>1. CASE orderStatus[o] = "PAID"
  <2>1. PICK p \in Payments : payOrder[p] = o /\ payStatus[p] = "PAID"
    BY <1>1 DEF Settled
  <2>2. payOrder'[p] = o /\ payStatus'[p] = "PAID"
    BY <2>1
  <2>3. ASSUME NEW q \in Payments, NEW r \in Payments,
               payOrder'[q] = o, payOrder'[r] = o, payStatus'[q] = "PAID"
        PROVE r = q \/ payStatus'[r] \in TerminalStatuses
    <3>1. /\ payOrder[q] = o /\ payOrder[r] = o /\ payStatus[q] = "PAID"
          /\ payStatus'[r] = payStatus[r]
      BY <2>3
    <3>2. r = q \/ payStatus[r] \in TerminalStatuses
      BY <1>1, <3>1 DEF Settled
    <3> QED
      BY <3>1, <3>2
  <2>4. orderStatus'[o] = "PAID"
    BY <1>1
  <2>5. TerminalStatuses' = TerminalStatuses
    BY DEF TerminalStatuses
  <2> QED
    BY <2>2, <2>3, <2>4, <2>5 DEF Settled
<1>2. CASE orderStatus[o] # "PAID"
  <2>1. ASSUME NEW p \in Payments, payOrder'[p] = o
        PROVE /\ payStatus'[p] # "PAID"
              /\ payStatus'[p] \in ActiveStatuses => authority'[o] = p
    <3>1. payOrder[p] = o /\ payStatus'[p] = payStatus[p]
      BY <2>1
    <3> QED
      BY <1>2, <3>1 DEF Settled
  <2>2. orderStatus'[o] # "PAID"
    BY <1>2
  <2> QED
    BY <2>1, <2>2 DEF Settled
<1> QED
  BY <1>1, <1>2

\* Every transaction of the shipped system preserves the settlement invariant.
LEMMA SettleInductive == IInv /\ SettleInv /\ [ShippedNext]_vars => SettleInv'
<1> SUFFICES ASSUME IInv, SettleInv, [ShippedNext]_vars PROVE SettleInv'
  OBVIOUS
<1> USE NobodyAssumption DEF IInv, TypeOK
<1>1. CASE UNCHANGED vars \/ StockStep
  <2>1. UNCHANGED <<orderStatus, authority, payStatus, payOrder>>
    BY <1>1 DEF vars, StockStep, ImportKey, DeleteKey, orderVars, payVars
  <2> QED
    BY <2>1 DEF SettleInv, RowsExist, Settled
<1>2. ASSUME NEW o \in Orders, NEW p \in Payments, NewAttempt(o, p) PROVE SettleInv'
  <2>1. /\ orderStatus' = orderStatus /\ orderStatus[o] # "PAID"
        /\ authority' = [authority EXCEPT ![o] = p]
        /\ payStatus[p] = "ABSENT" /\ ActiveAttempts(o) = {}
        /\ payStatus' = [payStatus EXCEPT ![p] = "CREATED"]
        /\ payOrder' = [payOrder EXCEPT ![p] = o]
    BY <1>2 DEF NewAttempt, EstablishReservation, Payable
  <2>2. Settled(o)'
    BY <2>1 DEF SettleInv, Settled, ActiveAttempts
  <2>3. ASSUME NEW x \in Orders \ {o} PROVE Settled(x)'
    <3>1. orderStatus'[x] = orderStatus[x] /\ authority'[x] = authority[x]
      BY <2>1
    <3>2. \A q \in Payments : /\ payOrder'[q] = x <=> payOrder[q] = x
                              /\ payOrder[q] = x => payStatus'[q] = payStatus[q]
      BY <2>1 DEF SettleInv, RowsExist
    <3> QED
      BY <3>1, <3>2, SettledFrame DEF SettleInv
  <2>4. RowsExist'
    BY <2>1 DEF SettleInv, RowsExist
  <2> QED
    BY <2>2, <2>3, <2>4 DEF SettleInv
<1>3. ASSUME NEW o \in Orders, NEW p \in Payments, ResumeAttempt(o, p) PROVE SettleInv'
  <2>1. /\ orderStatus' = orderStatus /\ orderStatus[o] # "PAID"
        /\ authority' = [authority EXCEPT ![o] = p]
        /\ UNCHANGED <<payStatus, payOrder>>
        /\ payOrder[p] = o /\ payStatus[p] \in ActiveStatuses
    BY <1>3 DEF ResumeAttempt, EstablishReservation, Payable, payVars, ActiveAttempts
  <2>2. authority' = authority
    BY <2>1 DEF SettleInv, Settled
  <2> QED
    BY <2>1, <2>2 DEF SettleInv, RowsExist, Settled
<1>4. ASSUME NEW o \in Orders, NEW p \in Payments, NEW status \in TerminalStatuses,
             TerminatePayment(o, p, status)
      PROVE SettleInv'
  <2>1. /\ UNCHANGED <<orderStatus, payOrder>>
        /\ payOrder[p] = o /\ payStatus[p] # "PAID"
        /\ payStatus' = [payStatus EXCEPT ![p] = status]
        /\ \/ MayRelease(o, p) /\ authority' = [authority EXCEPT ![o] = Nobody]
           \/ ~MayRelease(o, p) /\ authority' = authority
        /\ status \notin ActiveStatuses \cup {"PAID", "ABSENT"}
    BY <1>4 DEF TerminatePayment, TerminalStatuses, ActiveStatuses
  <2>2. Settled(o)'
    BY <2>1 DEF SettleInv, Settled, MayRelease
  <2>3. ASSUME NEW x \in Orders \ {o} PROVE Settled(x)'
    <3>1. orderStatus'[x] = orderStatus[x] /\ authority'[x] = authority[x]
      BY <2>1
    <3>2. \A q \in Payments : /\ payOrder'[q] = x <=> payOrder[q] = x
                              /\ payOrder[q] = x => payStatus'[q] = payStatus[q]
      BY <2>1 DEF SettleInv, RowsExist
    <3> QED
      BY <3>1, <3>2, SettledFrame DEF SettleInv
  <2>4. RowsExist'
    BY <2>1 DEF SettleInv, RowsExist
  <2> QED
    BY <2>2, <2>3, <2>4 DEF SettleInv
<1>5. ASSUME NEW o \in Orders, NEW p \in Payments, RejectLegacyAttempt(o, p)
      PROVE SettleInv'
  <2>1. /\ UNCHANGED <<orderStatus, payOrder>>
        /\ payOrder[p] = o
        /\ payStatus' = [payStatus EXCEPT ![p] = IF @ = "PAID" THEN @ ELSE "FAILED"]
        /\ \/ MayRelease(o, p) /\ authority' = [authority EXCEPT ![o] = Nobody]
           \/ /\ payStatus[p] = "PAID" \/ ~MayRelease(o, p)
              /\ authority' = authority
    BY <1>5 DEF RejectLegacyAttempt
  <2>2. Settled(o)'
    BY <2>1 DEF SettleInv, Settled, MayRelease, TerminalStatuses, ActiveStatuses
  <2>3. ASSUME NEW x \in Orders \ {o} PROVE Settled(x)'
    <3>1. orderStatus'[x] = orderStatus[x] /\ authority'[x] = authority[x]
      BY <2>1
    <3>2. \A q \in Payments : /\ payOrder'[q] = x <=> payOrder[q] = x
                              /\ payOrder[q] = x => payStatus'[q] = payStatus[q]
      BY <2>1 DEF SettleInv, RowsExist
    <3> QED
      BY <3>1, <3>2, SettledFrame DEF SettleInv
  <2>4. RowsExist'
    BY <2>1 DEF SettleInv, RowsExist
  <2> QED
    BY <2>2, <2>3, <2>4 DEF SettleInv
<1>6. ASSUME NEW o \in Orders, NEW p \in Payments, CompletePayment(o, p) PROVE SettleInv'
  <2>1. /\ payOrder[p] = o /\ UNCHANGED payOrder
        /\ orderStatus[o] # "PAID" /\ authority[o] \in {Nobody, p}
        /\ orderStatus' = [orderStatus EXCEPT ![o] = "PAID"]
        /\ authority' = [authority EXCEPT ![o] = Nobody]
        /\ payStatus' = [payStatus EXCEPT ![p] = "PAID"]
    BY <1>6 DEF CompletePayment, MayComplete, Payable
  <2>2. Settled(o)'
    <3>1. ASSUME NEW q \in Payments \ {p}, payOrder[q] = o
          PROVE payStatus'[q] \in TerminalStatuses
      BY <2>1, <3>1 DEF SettleInv, Settled, RowsExist, PaymentStatuses
    <3> QED
      BY <2>1, <3>1 DEF Settled, TerminalStatuses
  <2>3. ASSUME NEW x \in Orders \ {o} PROVE Settled(x)'
    <3>1. orderStatus'[x] = orderStatus[x] /\ authority'[x] = authority[x]
      BY <2>1
    <3>2. \A q \in Payments : payOrder[q] = x => payStatus'[q] = payStatus[q]
      BY <2>1
    <3> QED
      BY <2>1, <3>1, <3>2 DEF SettleInv, Settled
  <2>4. RowsExist'
    BY <2>1 DEF SettleInv, RowsExist
  <2> QED
    BY <2>2, <2>3, <2>4 DEF SettleInv
<1> QED
  BY <1>1, <1>2, <1>3, <1>4, <1>5, <1>6 DEF ShippedNext, OrderStep

\* Exactly one attempt settles an order and none stays open behind it.
THEOREM SettledOnce == ShippedSpec => []OneSettlement
<1>1. Init => SettleInv
  BY NobodyAssumption DEF Init, SettleInv, RowsExist, Settled
<1>2. [ShippedNext]_vars => [Next]_vars
  BY DEF Next
<1>3. SettleInv => OneSettlement
  BY DEF SettleInv, Settled, OneSettlement
<1> QED
  BY <1>1, <1>2, <1>3, InvInit, InvInductive, SettleInductive, PTL DEF ShippedSpec

-----------------------------------------------------------------------------
(***************************************************************************)
(* Superseded attempts and released keys.                                  *)
(***************************************************************************)

\* A step that changes a payment which is not its order's authority leaves
\* the order and what it holds alone.
LEMMA HistoricalStep ==
    ASSUME IInv, [Next]_vars, NEW p \in Payments, NEW o \in ItemisedOrders,
           payOrder[p] = o, payStatus'[p] # payStatus[p],
           authority[o] \notin {Nobody, p}
    PROVE  /\ orderStatus'[o] = orderStatus[o]
           /\ authority'[o] = authority[o]
           /\ \A k \in Held(o) : keyStatus'[k] = keyStatus[k] /\ assignedTo'[k] = o
<1> DEFINE Untouched == /\ orderStatus'[o] = orderStatus[o]
                        /\ authority'[o] = authority[o]
                        /\ \A k \in Held(o) : keyStatus'[k] = keyStatus[k] /\ assignedTo'[k] = o
<1> USE NobodyAssumption DEF IInv, TypeOK
<1>1. o \in Orders /\ o \notin LegacyOrders
  BY DEF ItemisedOrders
<1>2. ActiveAttempts(o) # {}
  BY <1>1 DEF OrderInv
<1>3. ~StockStep /\ vars' # vars
  BY DEF StockStep, ImportKey, DeleteKey, payVars, vars
<1>4. ASSUME NEW x \in Orders, NEW q \in Payments, NewAttempt(x, q) PROVE Untouched
  <2>1. x # o
    BY <1>2, <1>4 DEF NewAttempt
  <2>2. \A k \in Held(o) : keyStatus'[k] = keyStatus[k] /\ assignedTo'[k] = o
    BY <1>1, <1>4 DEF NewAttempt, EstablishReservation, ReserveKeys, AssignKeys, keyVars,
                      FreeKeys, Held
  <2> QED
    BY <1>1, <1>4, <2>1, <2>2 DEF NewAttempt, EstablishReservation
<1>5. ASSUME NEW x \in Orders, NEW q \in Payments, ResumeAttempt(x, q) PROVE FALSE
  BY <1>5 DEF ResumeAttempt, payVars
<1>6. ASSUME NEW x \in Orders, NEW q \in Payments, NEW status \in TerminalStatuses,
             TerminatePayment(x, q, status)
      PROVE Untouched
  <2>1. q = p /\ x = o
    BY <1>6 DEF TerminatePayment
  <2>2. ~MayRelease(x, q)
    BY <2>1 DEF MayRelease
  <2>3. UNCHANGED <<orderStatus, keyVars, authority>>
    BY <1>6, <2>2 DEF TerminatePayment
  <2> QED
    BY <2>3 DEF keyVars, Held
<1>7. ASSUME NEW x \in Orders, NEW q \in Payments, RejectLegacyAttempt(x, q) PROVE FALSE
  BY <1>1, <1>7 DEF RejectLegacyAttempt
<1>8. ASSUME NEW x \in Orders, NEW q \in Payments, CompletePayment(x, q) PROVE FALSE
  BY <1>8 DEF CompletePayment, MayComplete
<1>9. ASSUME NEW x \in Orders, NEW q \in Payments, RecordPending(x, q) PROVE Untouched
  BY <1>9 DEF RecordPending, orderVars, keyVars, Held
<1> QED
  BY <1>3, <1>4, <1>5, <1>6, <1>7, <1>8, <1>9 DEF Next, ShippedNext, OrderStep

\* ADR-001: a historical payment event updates that payment at most.
THEOREM HistoryHarmless == Spec => HistoricalAttemptsHarmless
<1>1. IInv /\ [Next]_vars => [\A p \in Payments, o \in ItemisedOrders :
            /\ payOrder[p] = o /\ payStatus'[p] # payStatus[p]
            /\ authority[o] \notin {Nobody, p}
            => /\ orderStatus'[o] = orderStatus[o]
               /\ authority'[o] = authority[o]
               /\ \A k \in Held(o) : /\ keyStatus'[k] = keyStatus[k]
                                     /\ assignedTo'[k] = o]_vars
  BY HistoricalStep
<1> QED
  BY <1>1, InvInit, InvInductive, PTL DEF Spec, HistoricalAttemptsHarmless

\* A reserved key goes back on sale only together with its attempt's end.
LEMMA ReleaseStep ==
    ASSUME IInv, [Next]_vars, NEW k \in Keys,
           keyStatus[k] = "RESERVED", assignedTo[k] # Nobody, keyStatus'[k] = "AVAILABLE"
    PROVE  payStatus'[authority[assignedTo[k]]] \in TerminalStatuses
<1> DEFINE a == assignedTo[k]
<1> USE DEF IInv, TypeOK
<1>1. a \in Orders /\ k \in Held(a) /\ orderStatus[a] # "PAID"
  BY DEF OrderInv, Held
<1>2. authority[a] \in Payments
  BY <1>1 DEF OrderInv
<1>3. ~(StockStep \/ vars' = vars)
  BY DEF StockStep, ImportKey, DeleteKey, vars
<1>4. ASSUME NEW o \in Orders, NEW p \in Payments, NewAttempt(o, p) \/ ResumeAttempt(o, p)
      PROVE FALSE
  BY <1>4 DEF NewAttempt, ResumeAttempt, EstablishReservation, ReserveKeys, AssignKeys, keyVars
<1>5. ASSUME NEW o \in Orders, NEW p \in Payments, NEW status \in TerminalStatuses,
             TerminatePayment(o, p, status)
      PROVE payStatus'[authority[a]] \in TerminalStatuses
  <2>1. MayRelease(o, p) /\ ReleaseReservation(o)
    BY <1>5 DEF TerminatePayment, keyVars
  <2>2. o = a
    BY <2>1 DEF ReleaseReservation, Held
  <2>3. authority[a] = p
    BY <1>2, <2>1, <2>2, NobodyAssumption DEF MayRelease
  <2> QED
    BY <1>5, <2>3 DEF TerminatePayment
<1>6. ASSUME NEW o \in Orders, NEW p \in Payments, RejectLegacyAttempt(o, p)
      PROVE payStatus'[authority[a]] \in TerminalStatuses
  <2>1. payStatus[p] # "PAID" /\ MayRelease(o, p) /\ ReleaseReservation(o)
    BY <1>6 DEF RejectLegacyAttempt
  <2>2. o = a
    BY <2>1 DEF ReleaseReservation, Held
  <2>3. authority[a] = p
    BY <1>2, <2>1, <2>2, NobodyAssumption DEF MayRelease
  <2> QED
    BY <1>6, <2>1, <2>3 DEF RejectLegacyAttempt, TerminalStatuses
<1>7. ASSUME NEW o \in Orders, NEW p \in Payments, CompletePayment(o, p) PROVE FALSE
  <2>1. PICK S \in SUBSET Keys : AssignKeys(S, o, "SOLD")
    BY <1>7 DEF CompletePayment, SellKeys
  <2> QED
    BY <2>1 DEF AssignKeys
<1>8. ASSUME NEW o \in Orders, NEW p \in Payments, RecordPending(o, p) PROVE FALSE
  BY <1>8 DEF RecordPending, keyVars
<1> QED
  BY <1>3, <1>4, <1>5, <1>6, <1>7, <1>8 DEF Next, ShippedNext, OrderStep

\* An open checkout never loses its keys.
THEOREM ReleaseOnlyAtTheEnd == Spec => ReleaseEndsTheAttempt
<1>1. IInv /\ [Next]_vars => [\A k \in Keys :
            /\ keyStatus[k] = "RESERVED" /\ assignedTo[k] # Nobody
            /\ keyStatus'[k] = "AVAILABLE"
            => payStatus'[authority[assignedTo[k]]] \in TerminalStatuses]_vars
  BY ReleaseStep
<1> QED
  BY <1>1, InvInit, InvInductive, PTL DEF Spec, ReleaseEndsTheAttempt

-----------------------------------------------------------------------------
(***************************************************************************)
(* The aggregate implements the allocation promise, when no order is       *)
(* legacy.                                                                 *)
(***************************************************************************)
heldBar == [o \in Orders |-> IF orderStatus[o] = "PAID" THEN {} ELSE Held(o)]
soldBar == [o \in Orders |-> IF orderStatus[o] = "PAID" THEN Held(o) ELSE {}]
allocBar == <<FreeKeys, heldBar, soldBar>>

\* A step that leaves every order's status and keys and the free keys alone is
\* invisible to the allocation specification.
LEMMA InvisibleStep ==
    ASSUME UNCHANGED <<orderStatus, keyStatus, assignedTo>>
    PROVE  UNCHANGED allocBar
<1>1. \A o \in Orders : Held(o)' = Held(o)
  BY DEF Held
<1>2. FreeKeys' = FreeKeys
  BY DEF FreeKeys
<1>3. heldBar' = heldBar /\ soldBar' = soldBar
  BY <1>1 DEF heldBar, soldBar
<1> QED
  BY <1>2, <1>3 DEF allocBar

\* How assigning keys out of the stock looks from outside.
LEMMA TakeFromStock ==
    ASSUME IInv, NEW o \in Orders, NEW S \in SUBSET FreeKeys, Held(o) = {},
           NEW status \in {"RESERVED", "SOLD"}, AssignKeys(S, o, status)
    PROVE  /\ Held(o)' = S /\ \A x \in Orders \ {o} : Held(x)' = Held(x)
           /\ FreeKeys' = FreeKeys \ S
<1>1. S \subseteq Keys /\ \A k \in S : assignedTo[k] \in {o, Nobody}
  BY DEF FreeKeys
<1>2. FreeKeys' = FreeKeys \ S
  BY <1>1, NobodyAssumption DEF FreeKeys, AssignKeys
<1> QED
  BY <1>1, <1>2, AssignedHeld DEF IInv

\* reserve_order_licenses takes a Hold step or nothing.
LEMMA ReserveRefines ==
    ASSUME IInv, NEW o \in Orders, NEW p \in Payments, EstablishReservation(o, p)
    PROVE  [Allocation!AllocNext]_allocBar
<1>1. CASE HasReservation(o) /\ UNCHANGED keyVars
  BY <1>1, InvisibleStep DEF EstablishReservation, keyVars
<1>2. ASSUME Held(o) = {}, NEW S \in SUBSET FreeKeys, Covers(S, o),
             AssignKeys(S, o, "RESERVED")
      PROVE  Allocation!AllocNext
  <2>1. /\ Held(o)' = S /\ \A x \in Orders \ {o} : Held(x)' = Held(x)
        /\ FreeKeys' = FreeKeys \ S
    BY <1>2, TakeFromStock
  <2>2. orderStatus' = orderStatus /\ orderStatus[o] # "PAID"
    BY DEF EstablishReservation, Payable
  <2>3. heldBar' = [heldBar EXCEPT ![o] = S] /\ soldBar' = soldBar
    BY <2>1, <2>2 DEF heldBar, soldBar
  <2>4. heldBar[o] = {} /\ soldBar[o] = {}
    BY <1>2, <2>2 DEF heldBar, soldBar
  <2>5. Allocation!Hold(o, S)
    BY <1>2, <2>1, <2>3, <2>4 DEF Allocation!Hold, Allocation!Waiting, heldBar, soldBar
  <2>6. S \in SUBSET Keys
    BY DEF FreeKeys
  <2> QED
    BY <2>5, <2>6 DEF Allocation!AllocNext
<1> QED
  BY <1>1, <1>2 DEF EstablishReservation, ReserveKeys

\* terminate_payment takes a Release step or nothing.
LEMMA TerminateRefines ==
    ASSUME IInv, LegacyOrders = {}, NEW o \in Orders, NEW p \in Payments,
           NEW status \in TerminalStatuses, TerminatePayment(o, p, status)
    PROVE  [Allocation!AllocNext]_allocBar
<1>1. orderStatus' = orderStatus
  BY DEF TerminatePayment
<1>2. CASE UNCHANGED keyVars
  BY <1>1, <1>2, InvisibleStep DEF keyVars
<1>3. CASE MayRelease(o, p) /\ ReleaseReservation(o) /\ Held(o) = {}
  <2>1. UNCHANGED keyVars
    BY <1>3 DEF ReleaseReservation, keyVars, IInv, TypeOK
  <2> QED
    BY <1>1, <2>1, InvisibleStep DEF keyVars
<1>4. CASE MayRelease(o, p) /\ ReleaseReservation(o) /\ Held(o) # {}
  <2>1. Held(o)' = {} /\ \A x \in Orders \ {o} : Held(x)' = Held(x)
    BY <1>4, ReleaseKeepsKeys DEF IInv
  <2>2. FreeKeys' = FreeKeys \cup Held(o)
    BY <1>4 DEF FreeKeys, Held, ReleaseReservation
  <2>3. orderStatus[o] # "PAID"
    BY <1>4 DEF MayRelease
  <2>4. heldBar' = [heldBar EXCEPT ![o] = {}] /\ soldBar' = soldBar /\ heldBar[o] = Held(o)
    BY <1>1, <2>1, <2>3 DEF heldBar, soldBar
  <2>5. Allocation!Release(o)
    BY <1>4, <2>2, <2>4 DEF Allocation!Release, heldBar, soldBar
  <2> QED
    BY <2>5 DEF Allocation!AllocNext
<1> QED
  BY <1>2, <1>3, <1>4 DEF TerminatePayment

\* complete_payment takes a Sell step, or SellFromStock when nothing is held.
LEMMA CompleteRefines ==
    ASSUME IInv, NEW o \in Orders, NEW p \in Payments, CompletePayment(o, p)
    PROVE  [Allocation!AllocNext]_allocBar
<1>1. PICK S \in SUBSET Keys : SellKeys(o, S)
  BY DEF CompletePayment
<1>2. /\ orderStatus[o] # "PAID" /\ orderStatus'[o] = "PAID"
      /\ \A x \in Orders \ {o} : orderStatus'[x] = orderStatus[x]
  BY DEF CompletePayment, MayComplete, Payable, IInv, TypeOK
<1>3. Held(o)' = S /\ \A x \in Orders \ {o} : Held(x)' = Held(x)
  BY <1>1, SellKeepsKeys DEF IInv
<1>4. soldBar' = [soldBar EXCEPT ![o] = S] /\ heldBar' = [heldBar EXCEPT ![o] = {}]
  <2>1. soldBar' = [soldBar EXCEPT ![o] = S]
    BY <1>2, <1>3 DEF soldBar
  <2>2. heldBar' = [heldBar EXCEPT ![o] = {}]
    BY <1>2, <1>3 DEF heldBar
  <2> QED
    BY <2>1, <2>2
<1>5. heldBar[o] = Held(o) /\ soldBar[o] = {}
  BY <1>2 DEF heldBar, soldBar
<1>6. CASE HasReservation(o) /\ S = Held(o) /\ AssignKeys(S, o, "SOLD")
  <2>1. FreeKeys' = FreeKeys
    BY <1>6, NobodyAssumption DEF FreeKeys, AssignKeys, HasReservation, Held
  <2>2. Allocation!Sell(o)
    BY <1>4, <1>5, <1>6, <2>1 DEF Allocation!Sell, HasReservation, heldBar, soldBar
  <2> QED
    BY <2>2 DEF Allocation!AllocNext
<1>7. CASE Held(o) = {} /\ S \subseteq FreeKeys /\ Covers(S, o) /\ AssignKeys(S, o, "SOLD")
  <2>1. FreeKeys' = FreeKeys \ S
    BY <1>7, TakeFromStock
  <2>2. heldBar' = heldBar
    BY <1>4, <1>5, <1>7 DEF heldBar
  <2>3. Allocation!SellFromStock(o, S)
    BY <1>4, <1>5, <1>7, <2>1, <2>2
    DEF Allocation!SellFromStock, Allocation!Waiting, heldBar, soldBar
  <2> QED
    BY <2>3 DEF Allocation!AllocNext
<1> QED
  BY <1>1, <1>6, <1>7 DEF SellKeys

\* Imports and deletions are Restock and Withdraw steps.
LEMMA StockRefines ==
    ASSUME IInv, LegacyOrders = {}, NEW k \in Keys, ImportKey(k) \/ DeleteKey(k)
    PROVE  [Allocation!AllocNext]_allocBar
<1>1. UNCHANGED <<orderStatus, assignedTo>>
  BY DEF ImportKey, DeleteKey, orderVars
<1>2. assignedTo[k] = Nobody
  <2>1. ASSUME keyStatus[k] = "ABSENT", assignedTo[k] # Nobody PROVE FALSE
    BY <2>1 DEF IInv, TypeOK, OrderInv, Held
  <2> QED
    BY <2>1 DEF ImportKey, DeleteKey
<1>3. heldBar' = heldBar /\ soldBar' = soldBar
  <2>1. \A o \in Orders : Held(o)' = Held(o)
    BY <1>1 DEF Held
  <2> QED
    BY <1>1, <2>1 DEF heldBar, soldBar
<1>4. \A o \in Orders : k \notin heldBar[o] \cup soldBar[o]
  BY <1>2, NobodyAssumption DEF heldBar, soldBar, Held
<1>5. CASE ImportKey(k)
  <2>1. k \notin FreeKeys /\ FreeKeys' = FreeKeys \cup {k}
    BY <1>1, <1>2, <1>5 DEF ImportKey, FreeKeys, IInv, TypeOK
  <2>2. Allocation!Restock(k)
    BY <1>3, <1>4, <2>1 DEF Allocation!Restock, heldBar, soldBar
  <2> QED
    BY <2>2 DEF Allocation!AllocNext
<1>6. CASE DeleteKey(k)
  <2>1. k \in FreeKeys
    BY <1>2, <1>6 DEF DeleteKey, IInv, UnassignedInv, FreeKeys
  <2>2. FreeKeys' = FreeKeys \ {k}
    BY <1>1, <1>6 DEF DeleteKey, FreeKeys, IInv, TypeOK
  <2>3. Allocation!Withdraw(k)
    BY <1>3, <2>1, <2>2 DEF Allocation!Withdraw, heldBar, soldBar
  <2> QED
    BY <2>3 DEF Allocation!AllocNext
<1> QED
  BY <1>5, <1>6

\* Payments, outcomes in any order, retries and administrators together do
\* nothing to the inventory that the allocation specification forbids.
THEOREM AllocationImplemented == ASSUME LegacyOrders = {} PROVE Spec => ImplementsAllocation
<1>1. Init => Allocation!AllocInit
  BY NobodyAssumption DEF Init, Allocation!AllocInit, FreeKeys, Held
<1>2. IInv /\ [Next]_vars => [Allocation!AllocNext]_allocBar
  <2> SUFFICES ASSUME IInv, [Next]_vars PROVE [Allocation!AllocNext]_allocBar
    OBVIOUS
  <2>1. CASE UNCHANGED vars
    BY <2>1, InvisibleStep DEF vars
  <2>2. CASE StockStep
    BY <2>2, StockRefines DEF StockStep
  <2>3. ASSUME NEW o \in Orders, OrderStep(o) PROVE [Allocation!AllocNext]_allocBar
    <3>1. PICK p \in Payments :
             \/ NewAttempt(o, p) \/ ResumeAttempt(o, p)
             \/ \E status \in TerminalStatuses : TerminatePayment(o, p, status)
             \/ CompletePayment(o, p)
      BY <2>3 DEF OrderStep, RejectLegacyAttempt
    <3> QED
      BY <3>1, ReserveRefines, TerminateRefines, CompleteRefines DEF NewAttempt, ResumeAttempt
  <2>4. ASSUME NEW o \in Orders, NEW p \in Payments, RecordPending(o, p)
        PROVE [Allocation!AllocNext]_allocBar
    BY <2>4, InvisibleStep DEF RecordPending, orderVars, keyVars
  <2> QED
    BY <2>1, <2>2, <2>3, <2>4 DEF Next, ShippedNext
<1> QED
  BY <1>1, <1>2, InvInit, InvInductive, PTL
  DEF Spec, ImplementsAllocation, Allocation!AllocSpec, Allocation!allocVars, allocBar,
      heldBar, soldBar

=============================================================================
