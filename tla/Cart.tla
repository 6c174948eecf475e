------------------------------- MODULE Cart -------------------------------
(***************************************************************************)
(* Carts and their conversion into orders (backend/apps/carts), at the     *)
(* granularity of SQL statements under PostgreSQL's READ COMMITTED: what a *)
(* transaction writes is visible when it commits, and a row locked with    *)
(* FOR UPDATE is read in its latest committed version.                     *)
(*                                                                         *)
(* A request is one transaction.  It locks the cart row first, so item     *)
(* rows need no lock of their own here; product rows are locked only by    *)
(* checkout, whose select_for_update() follows select_related("product"). *)
(* A transaction that raises, or whose worker dies, is rolled back.        *)
(***************************************************************************)
EXTENDS Naturals, FiniteSets

CONSTANTS Users,
          Products,
          Requests,      \* identities of HTTP requests, each sent once
          RequestKinds,  \* the endpoints in use
          InitialRows,   \* item ids used before the behaviour starts
          RowLimit,      \* bound: item ids are 1 .. RowLimit
          MaxQuantity,   \* MAX_CART_ITEM_QUANTITY
          Prices,
          Nobody         \* null

ASSUME CartAssumption ==
    /\ RowLimit \in Nat /\ InitialRows \in 0 .. RowLimit
    /\ MaxQuantity \in Nat \ {0}
    /\ RequestKinds \subseteq {"view", "add", "set", "remove", "clear", "checkout"}
    /\ Nobody \notin Requests
    /\ Nobody \notin Nat

VARIABLES cart,         \* is the user's Cart row there, or inserted only
          cartLock,     \* the transaction that holds the cart row
          item,         \* CartItem rows by id
          nextItem,     \* the sequence of CartItem.id
          price,        \* Product.price
          active,       \* Product.is_active
          productLock,  \* the checkout that holds the product row
          order,        \* the order a checkout request has placed
          req           \* requests

catalogueVars == <<price, active>>
vars == <<cart, cartLock, item, nextItem, price, active, productLock, order, req>>

Rows == 1 .. RowLimit
Row == [user : Users, product : Products, quantity : 1 .. MaxQuantity]
Line == [quantity : 1 .. MaxQuantity, price : Prices, active : BOOLEAN]
Lines == [Products -> Line \cup {Nobody}]
Order == [user : Users, lines : Lines]

\* What the serializers let through, for each endpoint.
Inputs ==
    {in \in [kind : {"view", "clear", "checkout"}, user : Users]
         \cup [kind : {"add"}, user : Users, product : Products,
               quantity : 1 .. MaxQuantity]
         \cup [kind : {"set"}, user : Users, row : Rows,
               quantity : 1 .. MaxQuantity]
         \cup [kind : {"remove"}, user : Users, row : Rows]
     : in.kind \in RequestKinds}

NoLines == [p \in Products |-> Nobody]
Unsent == [pc |-> "unsent", in |-> Nobody, seen |-> Nobody, newQuantity |-> 0,
           todo |-> {}, lines |-> NoLines]

Request == [pc : {"unsent", "locking", "reading", "writing", "rows",
                  "placing", "succeeded", "failed"},
            in : Inputs \cup {Nobody},
            seen : Rows \cup {Nobody},    \* the row that add has read
            newQuantity : 0 .. 2 * MaxQuantity,  \* computed from that row
            todo : SUBSET Rows,           \* rows that checkout has yet to lock
            lines : Lines]                \* what checkout has read so far

ASSUME NullAssumption == /\ Nobody \notin Row \cup Line
                         /\ Nobody \notin Order
                         /\ Nobody \notin Inputs

RowsIn(rows, u) == {i \in Rows : rows[i] # Nobody /\ rows[i].user = u}
RowsOf(u) == RowsIn(item, u)

TypeOK ==
    /\ cart \in [Users -> {"absent", "inserted", "present"}]
    /\ cartLock \in [Users -> Requests \cup {Nobody}]
    /\ item \in [Rows -> Row \cup {Nobody}]
    /\ nextItem \in 1 .. RowLimit + 1
    /\ price \in [Products -> Prices]
    /\ active \in [Products -> BOOLEAN]
    /\ productLock \in [Products -> Requests \cup {Nobody}]
    /\ order \in [Requests -> Order \cup {Nobody}]
    /\ req \in [Requests -> Request]

\* No two rows of a cart name the same product (unique_product_per_cart).
OneRowPerProduct ==
    \A u \in Users : \A i, j \in RowsOf(u) :
        item[i].product = item[j].product => i = j

\* Any carts that earlier requests may have left.
Init ==
    /\ cart \in [Users -> {"absent", "present"}]
    /\ cartLock = [u \in Users |-> Nobody]
    /\ nextItem = InitialRows + 1
    /\ item \in [Rows -> Row \cup {Nobody}]
    /\ \A i \in Rows : item[i] # Nobody => /\ i <= InitialRows
                                           /\ cart[item[i].user] = "present"
    /\ OneRowPerProduct
    /\ price \in [Products -> Prices]
    /\ active \in [Products -> BOOLEAN]
    /\ productLock = [p \in Products |-> Nobody]
    /\ order = [r \in Requests |-> Nobody]
    /\ req = [r \in Requests |-> Unsent]

-----------------------------------------------------------------------------
(* Transactions *)

Owner(r) == req[r].in.user

\* Fault variant: a checkout's product rows stay locked when it ends.
UnlockCartOnly(r) ==
    /\ cartLock' = [u \in Users |-> IF cartLock[u] = r THEN Nobody ELSE cartLock[u]]
    /\ UNCHANGED productLock

\* Locks die with their transaction.
Unlock(r) ==
    /\ cartLock' = [u \in Users |-> IF cartLock[u] = r THEN Nobody ELSE cartLock[u]]
    /\ productLock' = [p \in Products |->
                           IF productLock[p] = r THEN Nobody ELSE productLock[p]]

End(r, outcome) == req' = [req EXCEPT ![r] = [Unsent EXCEPT !.pc = outcome,
                                                            !.in = req[r].in]]

Commit(r) ==
    /\ Unlock(r)
    /\ End(r, "succeeded")
    /\ cart' = [cart EXCEPT ![Owner(r)] = "present"]
    /\ UNCHANGED catalogueVars

\* A cart row that the transaction itself inserted goes with it.
Rollback(r) ==
    /\ Unlock(r)
    /\ End(r, "failed")
    /\ cart' = [u \in Users |-> IF cart[u] = "inserted" /\ cartLock[u] = r
                                THEN "absent" ELSE cart[u]]
    /\ UNCHANGED <<item, nextItem, order, catalogueVars>>

\* get_or_create_cart.  Of two first requests one inserts the row; the other
\* waits at the unique index until that transaction ends and then finds the
\* row, or inserts it after all.  A request to read the cart commits at once.
OpenCart(r, in) ==
    /\ req[r].pc = "unsent"
    /\ in.kind \notin {"set", "remove"}
    /\ cart[in.user] # "inserted"
    /\ IF in.kind = "view"
       THEN /\ cart' = [cart EXCEPT ![in.user] = "present"]
            /\ req' = [req EXCEPT ![r] = [@ EXCEPT !.pc = "succeeded", !.in = in]]
            /\ UNCHANGED cartLock
       ELSE /\ req' = [req EXCEPT ![r] = [@ EXCEPT !.pc = "locking", !.in = in]]
            /\ IF cart[in.user] = "present"
               THEN UNCHANGED <<cart, cartLock>>
               ELSE /\ cart' = [cart EXCEPT ![in.user] = "inserted"]
                    /\ cartLock' = [cartLock EXCEPT ![in.user] = r]
    /\ UNCHANGED <<item, nextItem, catalogueVars, productLock, order>>

\* Setting a quantity and removing an item do not create a cart.
FindCart(r, in) ==
    /\ req[r].pc = "unsent"
    /\ in.kind \in {"set", "remove"}
    /\ req' = [req EXCEPT ![r] = [@ EXCEPT
           !.pc = IF cart[in.user] = "present" THEN "locking" ELSE "failed",
           !.in = in]]
    /\ UNCHANGED <<cart, cartLock, item, nextItem, catalogueVars, productLock, order>>

\* Fault variant: an add takes a shared lock of the cart.
AddsShareCart(r) ==
    cartLock[Owner(r)] \in {Nobody, r} \cup
        {q \in Requests : /\ req[r].in.kind = "add"
                          /\ req[q].pc # "unsent"
                          /\ req[q].in.kind = "add"}

\* Fault variant: adds to a row that is there take a shared lock.
AddsToRowsShareCart(r) ==
    \/ cartLock[Owner(r)] \in {Nobody, r}
    \/ /\ AddsShareCart(r) /\ req[r].in.kind = "add"
       /\ \E i \in RowsOf(Owner(r)) : item[i].product = req[r].in.product

CartFree(r) == cartLock[Owner(r)] \in {Nobody, r}

\* Fault variant: the first add of a product does not lock the cart.
FirstAddsTakeNoLock(r) ==
    /\ req[r].pc = "locking"
    /\ IF req[r].in.kind = "add"
             /\ \A i \in RowsOf(Owner(r)) : item[i].product # req[r].in.product
       THEN UNCHANGED cartLock
       ELSE CartFree(r) /\ cartLock' = [cartLock EXCEPT ![Owner(r)] = r]
    /\ req' = [req EXCEPT ![r] = [@ EXCEPT !.pc = "reading"]]
    /\ UNCHANGED <<cart, item, nextItem, catalogueVars, productLock, order>>

LockCart(r) ==
    /\ req[r].pc = "locking"
    /\ CartFree(r)
    /\ cartLock' = [cartLock EXCEPT ![Owner(r)] = r]
    /\ req' = [req EXCEPT ![r] = [@ EXCEPT !.pc = "reading"]]
    /\ UNCHANGED <<cart, item, nextItem, catalogueVars, productLock, order>>

-----------------------------------------------------------------------------
(* Items *)

OnlyRow(u, p) == {i \in RowsOf(u) : item[i].product = p}

QuantityAt(i) == IF i = Nobody THEN 0 ELSE item[i].quantity

\* The new quantity is computed here, from the row as it is now; the update
\* comes later.  The product is not locked: it may be deactivated before.
ReadForAdd(r) ==
    /\ req[r].pc = "reading" /\ req[r].in.kind = "add"
    /\ active[req[r].in.product]
    /\ \E i \in Rows \cup {Nobody} :
           /\ IF OnlyRow(Owner(r), req[r].in.product) = {}
              THEN i = Nobody ELSE i \in OnlyRow(Owner(r), req[r].in.product)
           /\ req' = [req EXCEPT ![r] = [@ EXCEPT
                  !.pc = "writing", !.seen = i,
                  !.newQuantity = req[r].in.quantity + QuantityAt(i)]]
    /\ UNCHANGED <<cart, cartLock, item, nextItem, catalogueVars, productLock, order>>

RefuseInactive(r) ==
    /\ req[r].pc = "reading" /\ req[r].in.kind = "add"
    /\ ~active[req[r].in.product]
    /\ Rollback(r)

\* Fault variant: only the serializer's limit on the request is checked.
TooManyRequested(r) == req[r].in.quantity > MaxQuantity

TooMany(r) == req[r].newQuantity > MaxQuantity

IncreaseRow(r) ==
    /\ req[r].pc = "writing" /\ req[r].seen # Nobody
    /\ IF TooMany(r)
       THEN Rollback(r)
       ELSE /\ item' = [item EXCEPT ![req[r].seen].quantity = req[r].newQuantity]
            /\ Commit(r)
            /\ UNCHANGED <<nextItem, order>>

\* The foreign key takes FOR KEY SHARE on the product and so waits for a
\* checkout that holds it.  RowLimit bounds the ids.
InsertRow(r) ==
    /\ req[r].pc = "writing" /\ req[r].seen = Nobody
    /\ productLock[req[r].in.product] = Nobody
    /\ nextItem \in Rows
    /\ item' = [item EXCEPT ![nextItem] = [user |-> Owner(r),
                                           product |-> req[r].in.product,
                                           quantity |-> req[r].in.quantity]]
    /\ nextItem' = nextItem + 1
    /\ Commit(r)
    /\ UNCHANGED order

SetQuantity(r) ==
    /\ req[r].pc = "reading" /\ req[r].in.kind = "set"
    /\ IF req[r].in.row \in RowsOf(Owner(r))
       THEN /\ productLock[item[req[r].in.row].product] = Nobody
            /\ item' = [item EXCEPT ![req[r].in.row].quantity = req[r].in.quantity]
            /\ Commit(r)
            /\ UNCHANGED <<nextItem, order>>
       ELSE Rollback(r)

Delete(S) == item' = [i \in Rows |-> IF i \in S THEN Nobody ELSE item[i]]

RemoveItem(r) ==
    /\ req[r].pc = "reading" /\ req[r].in.kind = "remove"
    /\ IF req[r].in.row \in RowsOf(Owner(r))
       THEN /\ Delete({req[r].in.row})
            /\ Commit(r)
            /\ UNCHANGED <<nextItem, order>>
       ELSE Rollback(r)

ClearCart(r) ==
    /\ req[r].pc = "reading" /\ req[r].in.kind = "clear"
    /\ Delete(RowsOf(Owner(r)))
    /\ Commit(r)
    /\ UNCHANGED <<nextItem, order>>

-----------------------------------------------------------------------------
(* Checkout *)

ReadItems(r) ==
    /\ req[r].pc = "reading" /\ req[r].in.kind = "checkout"
    /\ IF RowsOf(Owner(r)) = {}
       THEN Rollback(r)
       ELSE /\ req' = [req EXCEPT ![r] = [@ EXCEPT !.pc = "rows",
                                                  !.todo = RowsOf(Owner(r))]]
            /\ UNCHANGED <<cart, cartLock, item, nextItem, catalogueVars,
                           productLock, order>>

\* order_by("id")
NextRow(r, i) == i \in req[r].todo /\ \A j \in req[r].todo : i <= j

\* Fault variant: FOR UPDATE OF the item rows only.
GrabItemOnly(r, p) == UNCHANGED productLock

Grab(r, p) == productLock' = [productLock EXCEPT ![p] = r]

ItemLine(i) == [quantity |-> item[i].quantity,
                price |-> price[item[i].product],
                active |-> active[item[i].product]]

WithRow(r, i) ==
    [req[r] EXCEPT !.todo = req[r].todo \ {i},
                   !.lines = [req[r].lines EXCEPT ![item[i].product] = ItemLine(i)],
                   !.pc = IF req[r].todo = {i} THEN "placing" ELSE "rows"]

\* Locks one row of the join and reads it as it is now.
LockRow(r) ==
    /\ req[r].pc = "rows"
    /\ \E i \in Rows :
           LET p == item[i].product
           IN /\ NextRow(r, i)
              /\ productLock[p] \in {Nobody, r}
              /\ Grab(r, p)
              /\ req' = [req EXCEPT ![r] = WithRow(r, i)]
    /\ UNCHANGED <<cart, cartLock, item, nextItem, catalogueVars, order>>

Ordered(lines) == {p \in Products : lines[p] # Nobody}

PlaceOrder(r) ==
    /\ req[r].pc = "placing"
    /\ IF \A p \in Ordered(req[r].lines) : req[r].lines[p].active
       THEN /\ order' = [order EXCEPT ![r] = [user |-> Owner(r),
                                              lines |-> req[r].lines]]
            /\ Delete(RowsOf(Owner(r)))
            /\ Commit(r)
            /\ UNCHANGED nextItem
       ELSE Rollback(r)

\* The worker or its connection dies, or PostgreSQL makes the transaction the
\* victim of a deadlock.
Abort(r) ==
    /\ req[r].pc \in {"locking", "reading", "writing", "rows", "placing"}
    /\ Rollback(r)

\* An administrator edits a product; the row must not be locked.
EditProduct(p) ==
    /\ productLock[p] = Nobody
    /\ \E c \in Prices, a \in BOOLEAN : /\ price' = [price EXCEPT ![p] = c]
                                        /\ active' = [active EXCEPT ![p] = a]
    /\ UNCHANGED <<cart, cartLock, item, nextItem, productLock, order, req>>

-----------------------------------------------------------------------------
WaitsFor(r, s) ==
    /\ r # s
    /\ req[r].pc = "rows"
    /\ \E i \in Rows : NextRow(r, i) /\ productLock[item[i].product] = s

\* r is on a cycle of waiting checkouts.
InDeadlock(r) ==
    \E S \in SUBSET Requests :
        /\ r \in S
        /\ \A q \in S : /\ \E s \in S : WaitsFor(q, s)
                        /\ \E s \in S : WaitsFor(s, q)

Arrive(r) == \E in \in Inputs : OpenCart(r, in) \/ FindCart(r, in)

Continue(r) ==
    \/ LockCart(r)
    \/ ReadForAdd(r) \/ RefuseInactive(r) \/ IncreaseRow(r) \/ InsertRow(r)
    \/ SetQuantity(r) \/ RemoveItem(r) \/ ClearCart(r)
    \/ ReadItems(r) \/ LockRow(r) \/ PlaceOrder(r)

Next ==
    \/ \E r \in Requests : Arrive(r) \/ Continue(r) \/ Abort(r)
    \/ \E p \in Products : EditProduct(p)

Spec == Init /\ [][Next]_vars

\* A worker does not hang, and PostgreSQL resolves deadlocks.
CartFairness ==
    \A r \in Requests : /\ WF_vars(Continue(r))
                        /\ WF_vars(InDeadlock(r) /\ Abort(r))

FairSpec == Spec /\ CartFairness

-----------------------------------------------------------------------------
(* What a request that holds the cart row knows *)

Working == {"reading", "writing", "rows", "placing"}

LockHeld ==
    \A r \in Requests :
        /\ req[r].pc # "unsent" => req[r].in \in Inputs
        /\ req[r].pc = "locking" => \/ cart[Owner(r)] = "present"
                                    \/ cart[Owner(r)] = "inserted" /\ cartLock[Owner(r)] = r
        /\ req[r].pc \in Working => cart[Owner(r)] # "absent" /\ cartLock[Owner(r)] = r

IdsBelowNext == \A i \in Rows : item[i] # Nobody => i < nextItem

\* The row that add has read is the one to change, and as it was read.
AddHasRead ==
    \A r \in Requests : req[r].pc = "writing" =>
        LET S == OnlyRow(Owner(r), req[r].in.product)
        IN /\ req[r].in.kind = "add"
           /\ IF S = {} THEN req[r].seen = Nobody ELSE req[r].seen \in S
           /\ req[r].newQuantity = req[r].in.quantity + QuantityAt(req[r].seen)

NothingReadYet ==
    \A r \in Requests :
        req[r].pc \in {"unsent", "locking", "reading"} => req[r].lines = NoLines

\* A checkout has read each row it has locked, as it still is.
CheckoutHasRead ==
    \A r \in Requests : req[r].pc \in {"rows", "placing"} =>
        LET done == RowsOf(Owner(r)) \ req[r].todo
            lines == req[r].lines
        IN /\ req[r].in.kind = "checkout"
           /\ RowsOf(Owner(r)) # {}
           /\ req[r].todo \subseteq RowsOf(Owner(r))
           /\ req[r].pc = "placing" => req[r].todo = {}
           /\ \A i \in done : /\ lines[item[i].product] # Nobody
                               /\ lines[item[i].product].quantity = item[i].quantity
           /\ \A p \in Ordered(lines) :
                  /\ \E i \in done : item[i].product = p
                  /\ productLock[p] = r
                  /\ lines[p].price = price[p]
                  /\ lines[p].active = active[p]

CartInv ==
    /\ TypeOK
    /\ OneRowPerProduct
    /\ LockHeld
    /\ IdsBelowNext
    /\ AddHasRead
    /\ NothingReadYet
    /\ CheckoutHasRead

-----------------------------------------------------------------------------
(* Properties *)

UnitsIn(rows, u, p) ==
    LET S == {i \in RowsIn(rows, u) : rows[i].product = p}
    IN IF S = {} THEN 0 ELSE rows[CHOOSE i \in S : TRUE].quantity
InCart(u, p) == UnitsIn(item, u, p)

Units(lines, p) == IF lines[p] = Nobody THEN 0 ELSE lines[p].quantity

\* An order is made of exactly what its user's cart contained at the moment
\* it was placed, and the cart is empty afterwards: nothing is bought twice,
\* and nothing that was added while checkout ran vanishes with the cart
\* (checkout_cart deletes every row of the cart, read or not).
CheckoutTakesTheCart ==
    [][\A r \in Requests : order'[r] # order[r] =>
           \A p \in Products : /\ Units(order'[r].lines, p) = InCart(Owner(r), p)
                               /\ InCart(Owner(r), p)' = 0]_vars

\* No increment is lost: add_cart_item writes a sum it computed from a row it
\* read in an earlier statement, yet an acknowledged add has added its units to
\* what the cart contains when it commits, whatever adds, changes, removals
\* and checkouts of the same user overlap with it.
AddsAreNotLost ==
    [][\A r \in Requests :
           req[r].pc = "writing" /\ req'[r].pc = "succeeded" =>
               LET u == Owner(r)
                   p == req[r].in.product
               IN InCart(u, p)' = InCart(u, p) + req[r].in.quantity]_vars

\* Each request takes effect in one step that fits the cart and the catalogue
\* of that moment, whatever other requests and administrators do while its
\* statements run: rows are found by the id or product that was asked for, an
\* order has current prices and only products on sale, a failed request has
\* done nothing.
status == [r \in Requests |-> IF req[r].pc \in {"unsent", "succeeded", "failed"}
                              THEN req[r].pc ELSE "running"]
asked == [r \in Requests |-> req[r].in]
Atomic == INSTANCE AtomicCart
ImplementsAtomicCart == Atomic!AtomicSpec

\* Every request is answered, deadlocks included.
RequestsEnd ==
    \A r \in Requests : req[r].pc # "unsent" ~> req[r].pc \in {"succeeded", "failed"}

=============================================================================
