---------------------------- MODULE AtomicCart ----------------------------
(***************************************************************************)
(* What the cart endpoints promise: every request takes effect in one      *)
(* step, as if it were alone with the cart, or not at all, and an order is *)
(* the cart of that step at its prices.  Locks, cart rows that are not     *)
(* committed and what a transaction has read so far are not seen.          *)
(* Cart implements this specification.                                     *)
(***************************************************************************)
EXTENDS Naturals

CONSTANTS Users, Products, Requests,
          Rows,         \* item ids
          Inputs,       \* what requests may ask for
          MaxQuantity, Prices, Nobody

VARIABLES item, nextItem, price, active, order,
          asked,        \* what each request asks for
          status        \* unsent, running, succeeded or failed

shopVars == <<item, nextItem, price, active, order>>
atomicVars == <<shopVars, asked, status>>

Contents(u) == {i \in Rows : item[i] # Nobody /\ item[i].user = u}
RowsWith(u, p) == {i \in Contents(u) : item[i].product = p}

AtomicInit ==
    /\ item \in [Rows -> [user : Users, product : Products, quantity : 1 .. MaxQuantity]
                             \cup {Nobody}]
    /\ \A u \in Users, p \in Products : \A i, j \in RowsWith(u, p) : i = j
    /\ \A i \in Rows : item[i] # Nobody => i < nextItem
    /\ price \in [Products -> Prices] /\ active \in [Products -> BOOLEAN]
    /\ order = [r \in Requests |-> Nobody]
    /\ asked = [r \in Requests |-> Nobody]
    /\ status = [r \in Requests |-> "unsent"]

\* A request may be answered on arrival: the cart is shown, or there is none.
Ask(r) ==
    /\ status[r] = "unsent"
    /\ \E in \in Inputs :
          /\ asked' = [asked EXCEPT ![r] = in]
          /\ \E s \in {"running", "failed"} \cup (IF in.kind = "view" THEN {"succeeded"} ELSE {}) :
                status' = [status EXCEPT ![r] = s]
    /\ UNCHANGED shopVars

Fail(r) ==
    /\ status[r] = "running"
    /\ status' = [status EXCEPT ![r] = "failed"]
    /\ UNCHANGED <<shopVars, asked>>

\* Adding to a product that is in the cart, within the limit.
AddToRow(in) ==
    /\ in.kind = "add"
    /\ \E i \in RowsWith(in.user, in.product) :
          LET n == item[i].quantity + in.quantity
          IN n <= MaxQuantity /\ item' = [item EXCEPT ![i].quantity = n]
    /\ UNCHANGED <<nextItem, order>>

\* Adding a new product; the ids of rows are never used again.
AddRow(in) ==
    /\ in.kind = "add"
    /\ RowsWith(in.user, in.product) = {}
    /\ nextItem \in Rows /\ nextItem' = nextItem + 1
    /\ item' = [item EXCEPT ![nextItem] = [user |-> in.user, product |-> in.product,
                                           quantity |-> in.quantity]]
    /\ UNCHANGED order

SetRow(in) ==
    /\ in.kind = "set"
    /\ in.row \in Contents(in.user)
    /\ item' = [item EXCEPT ![in.row].quantity = in.quantity]
    /\ UNCHANGED <<nextItem, order>>

Without(S) == [i \in Rows |-> IF i \in S THEN Nobody ELSE item[i]]

RemoveRow(in) ==
    /\ in.kind = "remove"
    /\ in.row \in Contents(in.user)
    /\ item' = Without({in.row})
    /\ UNCHANGED <<nextItem, order>>

Clear(in) ==
    /\ in.kind = "clear"
    /\ item' = Without(Contents(in.user))
    /\ UNCHANGED <<nextItem, order>>

Purchase(u) ==
    [user |-> u,
     lines |-> [p \in Products |->
         IF RowsWith(u, p) = {} THEN Nobody
         ELSE [quantity |-> item[CHOOSE i \in RowsWith(u, p) : TRUE].quantity,
               price |-> price[p],
               active |-> TRUE]]]

\* The whole cart at the prices of this moment, every product on sale.
Checkout(r, in) ==
    /\ in.kind = "checkout"
    /\ Contents(in.user) # {}
    /\ \A i \in Contents(in.user) : active[item[i].product]
    /\ order' = [order EXCEPT ![r] = Purchase(in.user)]
    /\ item' = Without(Contents(in.user))
    /\ UNCHANGED nextItem

Succeed(r) ==
    /\ status[r] = "running"
    /\ status' = [status EXCEPT ![r] = "succeeded"]
    /\ LET in == asked[r]
       IN \/ AddToRow(in) \/ AddRow(in) \/ SetRow(in) \/ RemoveRow(in)
          \/ Clear(in) \/ Checkout(r, in)
    /\ UNCHANGED <<asked, price, active>>

\* An administrator changes price and availability at any time.
Edit(p) ==
    /\ \E c \in Prices, a \in BOOLEAN : /\ price' = [price EXCEPT ![p] = c]
                                        /\ active' = [active EXCEPT ![p] = a]
    /\ UNCHANGED <<item, nextItem, order, asked, status>>

AtomicNext ==
    \/ \E r \in Requests : Ask(r) \/ Fail(r) \/ Succeed(r)
    \/ \E p \in Products : Edit(p)

AtomicSpec == AtomicInit /\ [][AtomicNext]_atomicVars

=============================================================================
