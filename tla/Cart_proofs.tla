---------------------------- MODULE Cart_proofs ----------------------------
(***************************************************************************)
(* Proofs about Cart for every set of users, products and requests.        *)
(***************************************************************************)
EXTENDS Cart, TLAPS

LEMMA InputTypes ==
  ASSUME NEW in \in Inputs
  PROVE /\ in.user \in Users
        /\ in.kind = "add" => in.product \in Products /\ in.quantity \in 1 .. MaxQuantity
        /\ in.kind = "set" => in.row \in Rows /\ in.quantity \in 1 .. MaxQuantity
        /\ in.kind = "remove" => in.row \in Rows
BY DEF Inputs

LEMMA RequestStep ==
  ASSUME TypeOK, NEW r \in Requests, NEW new \in Request, req' = [req EXCEPT ![r] = new]
  PROVE /\ req' \in [Requests -> Request]
        /\ req'[r] = new
        /\ \A q \in Requests \ {r} : req'[q] = req[q]
BY DEF TypeOK

\* What a request that ends leaves behind.
LEMMA EndTyped ==
  ASSUME TypeOK, NEW r \in Requests, NEW outcome \in {"succeeded", "failed"},
         End(r, outcome)
  PROVE /\ req' \in [Requests -> Request]
        /\ req'[r].pc = outcome /\ req'[r].in = req[r].in
        /\ \A q \in Requests \ {r} : req'[q] = req[q]
<1>1. NoLines \in Lines
  BY DEF NoLines, Lines
<1>2. req[r] \in Request
  BY DEF TypeOK
<1>3. [Unsent EXCEPT !.pc = outcome, !.in = req[r].in] \in Request
  <2> DEFINE limit == 0 .. 2 * MaxQuantity
  <2>1. 0 \in limit
    BY CartAssumption
  <2> HIDE DEF limit
  <2>2. Request = [pc : {"unsent", "locking", "reading", "writing", "rows",
                         "placing", "succeeded", "failed"},
                   in : Inputs \cup {Nobody}, seen : Rows \cup {Nobody},
                   newQuantity : limit, todo : SUBSET Rows, lines : Lines]
    BY DEF Request, limit
  <2> QED
    BY <1>1, <1>2, <2>1, <2>2 DEF Unsent
<1> QED
  BY <1>3 DEF End, TypeOK, Unsent

LEMMA UnlockTyped ==
  ASSUME TypeOK, NEW r \in Requests, Unlock(r)
  PROVE /\ cartLock' \in [Users -> Requests \cup {Nobody}]
        /\ productLock' \in [Products -> Requests \cup {Nobody}]
BY DEF TypeOK, Unlock

LEMMA CommitTyped ==
  ASSUME TypeOK, NEW r \in Requests, req[r].in \in Inputs, Commit(r),
         item' \in [Rows -> Row \cup {Nobody}], nextItem' \in 1 .. RowLimit + 1,
         order' \in [Requests -> Order \cup {Nobody}]
  PROVE TypeOK'
<1>1. Owner(r) \in Users
  BY InputTypes DEF Owner
<1>2. req' \in [Requests -> Request]
  BY EndTyped DEF Commit
<1> QED
  BY <1>1, <1>2, UnlockTyped DEF Commit, TypeOK, catalogueVars

LEMMA RollbackTyped ==
  ASSUME TypeOK, NEW r \in Requests, Rollback(r)
  PROVE TypeOK'
<1>1. req' \in [Requests -> Request]
  BY EndTyped DEF Rollback
<1> QED
  BY <1>1, UnlockTyped DEF Rollback, TypeOK, catalogueVars

\* What other requests know survives the end of a transaction that changes
\* rows of the cart it holds.
LEMMA EndKeepsKnowledge ==
  ASSUME CartInv, NEW r \in Requests, NEW outcome \in {"succeeded", "failed"},
         Unlock(r), End(r, outcome), UNCHANGED catalogueVars,
         req[r].in \in Inputs,
         \A u \in Users :
             \/ cart'[u] \in {cart[u], "present"}
             \/ cart[u] = "inserted" /\ cart'[u] = "absent" /\ cartLock[u] = r,
         \/ UNCHANGED item
         \/ /\ cartLock[Owner(r)] = r
            /\ item' \in [Rows -> Row \cup {Nobody}]
            /\ \A i \in Rows : \/ item'[i] = item[i]
                               \/ /\ item[i] # Nobody => item[i].user = Owner(r)
                                  /\ item'[i] # Nobody => item'[i].user = Owner(r)
  PROVE /\ LockHeld' /\ AddHasRead' /\ NothingReadYet' /\ CheckoutHasRead'
<1>1. /\ req'[r].pc = outcome /\ req'[r].in = req[r].in
      /\ \A q \in Requests \ {r} : req'[q] = req[q]
  BY EndTyped DEF CartInv
<1>2. LockHeld'
  <2> SUFFICES ASSUME NEW q \in Requests
               PROVE LET u == req'[q].in.user
                     IN /\ req'[q].pc # "unsent" => req'[q].in \in Inputs
                        /\ req'[q].pc = "locking" =>
                               \/ cart'[u] = "present"
                               \/ cart'[u] = "inserted" /\ cartLock'[u] = q
                        /\ req'[q].pc \in Working =>
                               cart'[u] # "absent" /\ cartLock'[u] = q
    BY DEF LockHeld, Owner
  <2>1. CASE q = r
    BY <1>1, <2>1 DEF Working
  <2>2. CASE q # r
    <3>1. req'[q] = req[q]
      BY <1>1, <2>2
    <3>2. req[q].pc # "unsent" => req[q].in \in Inputs /\ req[q].in.user \in Users
      BY InputTypes DEF CartInv, LockHeld
    <3> DEFINE u == req[q].in.user
    <3>3. /\ req[q].pc = "locking" => \/ cart[u] = "present"
                                      \/ cart[u] = "inserted" /\ cartLock[u] = q
          /\ req[q].pc \in Working => cart[u] # "absent" /\ cartLock[u] = q
      BY DEF CartInv, LockHeld, Owner
    <3>4. ASSUME u \in Users
          PROVE /\ cartLock[u] = q => cartLock'[u] = q
                /\ cart[u] = "present" => cart'[u] = "present"
                /\ cart'[u] \in {cart[u], "present"} \/ cartLock[u] = r
      BY <2>2, <3>4 DEF Unlock
    <3>5. req'[q].in.user = u
      BY <3>1
    <3>6. req[q].pc \in Working \cup {"locking"} => u \in Users
      BY <3>2 DEF Working
    <3> HIDE DEF u
    <3> QED
      BY <2>2, <3>1, <3>2, <3>3, <3>4, <3>5, <3>6
  <2> QED
    BY <2>1, <2>2
<1>3. ASSUME NEW q \in Requests, req'[q].pc \in Working
      PROVE /\ q # r /\ req'[q] = req[q]
            /\ cartLock[Owner(q)] = q
            /\ RowsIn(item', Owner(q)) = RowsOf(Owner(q))
            /\ \A i \in RowsOf(Owner(q)) : item'[i] = item[i]
  <2>1. q # r /\ req'[q] = req[q]
    BY <1>1, <1>3 DEF Working
  <2>2. cartLock[Owner(q)] = q
    BY <1>3, <2>1 DEF CartInv, LockHeld
  <2>3. CASE UNCHANGED item
    BY <2>1, <2>2, <2>3 DEF RowsOf
  <2>4. CASE /\ cartLock[Owner(r)] = r
             /\ \A i \in Rows : \/ item'[i] = item[i]
                                \/ /\ item[i] # Nobody => item[i].user = Owner(r)
                                   /\ item'[i] # Nobody => item'[i].user = Owner(r)
    <3>1. Owner(q) # Owner(r)
      BY <2>1, <2>2, <2>4
    <3> QED
      BY <2>1, <2>2, <2>4, <3>1 DEF RowsOf, RowsIn
  <2> QED
    BY <2>3, <2>4
<1>4. AddHasRead'
  <2> SUFFICES ASSUME NEW q \in Requests, req'[q].pc = "writing"
               PROVE LET S == OnlyRow(Owner(q), req[q].in.product)'
                     IN /\ req'[q].in.kind = "add"
                        /\ IF S = {} THEN req'[q].seen = Nobody ELSE req'[q].seen \in S
                        /\ req'[q].newQuantity =
                               req'[q].in.quantity
                               + IF req'[q].seen = Nobody THEN 0
                                 ELSE item'[req'[q].seen].quantity
    BY DEF AddHasRead, QuantityAt
  <2>1. OnlyRow(Owner(q), req[q].in.product)' = OnlyRow(Owner(q), req[q].in.product)
    BY <1>3 DEF OnlyRow, RowsOf, Owner, Working
  <2>2. /\ req[q].seen \in OnlyRow(Owner(q), req[q].in.product) \/ req[q].seen = Nobody
        /\ req'[q] = req[q]
    BY <1>3 DEF CartInv, AddHasRead, Working
  <2>3. req[q].seen # Nobody => item'[req[q].seen] = item[req[q].seen]
    BY <1>3, <2>2 DEF OnlyRow, Working
  <2> QED
    BY <1>3, <2>1, <2>2, <2>3 DEF CartInv, AddHasRead, QuantityAt, Working
<1>5. CheckoutHasRead'
  <2> SUFFICES ASSUME NEW q \in Requests, req'[q].pc \in {"rows", "placing"}
               PROVE LET done == RowsOf(Owner(q))' \ req'[q].todo
                         lines == req'[q].lines
                     IN /\ req'[q].in.kind = "checkout"
                        /\ RowsOf(Owner(q))' # {}
                        /\ req'[q].todo \subseteq RowsOf(Owner(q))'
                        /\ req'[q].pc = "placing" => req'[q].todo = {}
                        /\ \A i \in done :
                               /\ lines[item'[i].product] # Nobody
                               /\ lines[item'[i].product].quantity = item'[i].quantity
                        /\ \A p \in Ordered(lines) :
                               /\ \E i \in done : item'[i].product = p
                               /\ productLock'[p] = q
                               /\ lines[p].price = price'[p]
                               /\ lines[p].active = active'[p]
    BY DEF CheckoutHasRead
  <2>1. /\ q # r /\ req'[q] = req[q]
        /\ RowsOf(Owner(q))' = RowsOf(Owner(q))
        /\ \A i \in RowsOf(Owner(q)) : item'[i] = item[i]
    BY <1>3 DEF Working, RowsOf, Owner
  <2>2. \A p \in Products : productLock[p] = q => productLock'[p] = q
    BY <2>1 DEF Unlock
  <2> QED
    BY <2>1, <2>2 DEF CartInv, CheckoutHasRead, Ordered, catalogueVars
<1>6. NothingReadYet'
  BY <1>1 DEF CartInv, NothingReadYet
<1> QED
  BY <1>2, <1>4, <1>5, <1>6

-----------------------------------------------------------------------------
(* The invariant *)

LEMMA InitEstablishes == Init => CartInv
<1> SUFFICES ASSUME Init PROVE CartInv
  OBVIOUS
<1>1. TypeOK
  <2>1. Unsent \in Request
    BY CartAssumption DEF Unsent, Request, NoLines, Lines
  <2>2. nextItem \in 1 .. RowLimit + 1
    BY CartAssumption DEF Init
  <2> QED
    BY <2>1, <2>2 DEF Init, TypeOK
<1>2. IdsBelowNext
  BY CartAssumption DEF Init, IdsBelowNext, Rows
<1>3. \A r \in Requests : req[r].pc = "unsent"
  BY DEF Init, Unsent
<1> QED
  BY <1>1, <1>2, <1>3
  DEF Init, CartInv, LockHeld, AddHasRead, NothingReadYet, CheckoutHasRead, Working, Unsent

LEMMA RollbackKeeps ==
  ASSUME CartInv, NEW r \in Requests, req[r].pc # "unsent", Rollback(r)
  PROVE CartInv'
<1>1. req[r].in \in Inputs
  BY DEF CartInv, LockHeld
<1>2. \A u \in Users :
          \/ cart'[u] \in {cart[u], "present"}
          \/ cart[u] = "inserted" /\ cart'[u] = "absent" /\ cartLock[u] = r
  BY DEF Rollback
<1>3. LockHeld' /\ AddHasRead' /\ NothingReadYet' /\ CheckoutHasRead'
  BY <1>1, <1>2, EndKeepsKnowledge DEF Rollback
<1>4. TypeOK'
  BY RollbackTyped DEF CartInv
<1> QED
  BY <1>3, <1>4 DEF CartInv, Rollback, OneRowPerProduct, RowsOf, RowsIn, IdsBelowNext

\* A transaction commits rows of its own cart.
LEMMA CommitKeeps ==
  ASSUME CartInv, NEW r \in Requests, req[r].pc \in Working, Commit(r),
         item' \in [Rows -> Row \cup {Nobody}], nextItem' \in 1 .. RowLimit + 1,
         order' \in [Requests -> Order \cup {Nobody}],
         \A i \in Rows : \/ item'[i] = item[i]
                         \/ /\ item[i] # Nobody => item[i].user = Owner(r)
                            /\ item'[i] # Nobody => item'[i].user = Owner(r),
         OneRowPerProduct', IdsBelowNext'
  PROVE CartInv'
<1>1. req[r].in \in Inputs /\ cartLock[Owner(r)] = r
  BY DEF CartInv, LockHeld, Working
<1>2. \A u \in Users : cart'[u] \in {cart[u], "present"}
  BY DEF Commit, CartInv, TypeOK
<1>3. LockHeld' /\ AddHasRead' /\ NothingReadYet' /\ CheckoutHasRead'
  BY <1>1, <1>2, EndKeepsKnowledge DEF Commit
<1>4. TypeOK'
  BY <1>1, CommitTyped DEF CartInv
<1> QED
  BY <1>3, <1>4 DEF CartInv

\* Rows that only lose quantity or existence stay one per product.
LEMMA FewerRows ==
  ASSUME CartInv,
         item' \in [Rows -> Row \cup {Nobody}],
         nextItem' = nextItem,
         \A i \in Rows : item'[i] # Nobody =>
             /\ item[i] # Nobody
             /\ item'[i].user = item[i].user /\ item'[i].product = item[i].product
  PROVE OneRowPerProduct' /\ IdsBelowNext'
BY DEF CartInv, OneRowPerProduct, IdsBelowNext, RowsOf, RowsIn

LEMMA DeleteKeeps ==
  ASSUME CartInv, NEW r \in Requests, req[r].pc \in Working, Commit(r),
         NEW S \in SUBSET RowsOf(Owner(r)), Delete(S), UNCHANGED nextItem,
         order' \in [Requests -> Order \cup {Nobody}]
  PROVE CartInv'
<1>1. item' \in [Rows -> Row \cup {Nobody}]
  BY DEF Delete, CartInv, TypeOK
<1>2. \A i \in Rows : item'[i] = item[i] \/ (item'[i] = Nobody /\ item[i].user = Owner(r))
  BY DEF Delete, RowsOf, RowsIn
<1>3. OneRowPerProduct' /\ IdsBelowNext'
  BY <1>1, <1>2, FewerRows
<1> QED
  BY <1>1, <1>2, <1>3, CommitKeeps DEF CartInv, TypeOK

\* A step of r that ends no transaction and changes neither rows, products nor
\* orders: what another request knows stays true if r leaves its locks alone.
LEMMA StepKeepsOthers ==
  ASSUME CartInv, NEW r \in Requests, NEW q \in Requests, q # r, req'[q] = req[q],
         \A u \in Users : cart'[u] = cart[u] \/ cart[u] = "absent",
         \A u \in Users : \/ cartLock'[u] = cartLock[u]
                          \/ cart[u] = "absent"
                          \/ cartLock[u] \in {Nobody, r}
  PROVE /\ req'[q].pc # "unsent" => req'[q].in \in Inputs
        /\ req'[q].pc = "locking" =>
               \/ cart'[req'[q].in.user] = "present"
               \/ cart'[req'[q].in.user] = "inserted" /\ cartLock'[req'[q].in.user] = q
        /\ req'[q].pc \in Working => /\ cart'[req'[q].in.user] # "absent"
                                     /\ cartLock'[req'[q].in.user] = q
<1>1. req[q].pc # "unsent" => req[q].in \in Inputs /\ Owner(q) \in Users
  BY InputTypes DEF CartInv, LockHeld, Owner
<1>2. q # Nobody
  BY CartAssumption
<1> QED
  BY <1>1, <1>2 DEF CartInv, LockHeld, Working, Owner

LEMMA OpenKeeps ==
  ASSUME CartInv, NEW r \in Requests, NEW in \in Inputs, OpenCart(r, in) \/ FindCart(r, in)
  PROVE CartInv'
<1>1. /\ req' \in [Requests -> Request]
      /\ req'[r].pc \in {"locking", "succeeded", "failed"} /\ req'[r].in = in
      /\ req'[r].lines = req[r].lines /\ req[r].pc = "unsent"
      /\ \A q \in Requests \ {r} : req'[q] = req[q]
      /\ UNCHANGED <<item, nextItem, price, active, productLock, order>>
  <2> DEFINE new(pc) == [req[r] EXCEPT !.pc = pc, !.in = in]
  <2>1. PICK pc \in {"locking", "succeeded", "failed"} : req' = [req EXCEPT ![r] = new(pc)]
    BY DEF OpenCart, FindCart
  <2>2. new(pc) \in Request /\ new(pc).pc = pc /\ new(pc).in = in /\ new(pc).lines = req[r].lines
    BY DEF CartInv, TypeOK, Request
  <2>3. UNCHANGED <<item, nextItem, price, active, productLock, order>> /\ req[r].pc = "unsent"
    BY DEF OpenCart, FindCart, catalogueVars
  <2> HIDE DEF new
  <2> QED
    BY <2>1, <2>2, <2>3, RequestStep DEF CartInv
<1>2. /\ cart' \in [Users -> {"absent", "inserted", "present"}]
      /\ cartLock' \in [Users -> Requests \cup {Nobody}]
      /\ in.user \in Users
  BY InputTypes DEF OpenCart, FindCart, CartInv, TypeOK
<1>3. /\ \A u \in Users : cart'[u] = cart[u] \/ cart[u] = "absent"
      /\ \A u \in Users : cartLock'[u] = cartLock[u] \/ cart[u] = "absent"
      /\ req'[r].pc = "locking" => \/ cart'[in.user] = "present"
                                   \/ cart'[in.user] = "inserted" /\ cartLock'[in.user] = r
  <2>1. CASE FindCart(r, in)
    BY <1>1, <1>2, <2>1 DEF FindCart, CartInv, TypeOK, Request
  <2>2. CASE OpenCart(r, in) /\ in.kind = "view"
    BY <1>1, <1>2, <2>2 DEF OpenCart, CartInv, TypeOK, Request
  <2>3. CASE OpenCart(r, in) /\ in.kind # "view"
    BY <1>1, <1>2, <2>3 DEF OpenCart, CartInv, TypeOK
  <2> QED
    BY <2>1, <2>2, <2>3
<1>4. LockHeld'
  <2> SUFFICES ASSUME NEW q \in Requests
               PROVE LET u == req'[q].in.user
                     IN /\ req'[q].pc # "unsent" => req'[q].in \in Inputs
                        /\ req'[q].pc = "locking" =>
                               \/ cart'[u] = "present"
                               \/ cart'[u] = "inserted" /\ cartLock'[u] = q
                        /\ req'[q].pc \in Working =>
                               cart'[u] # "absent" /\ cartLock'[u] = q
    BY DEF LockHeld, Owner
  <2>1. CASE q = r
    BY <1>1, <1>3, <2>1 DEF Working
  <2>2. CASE q # r
    BY <1>1, <1>3, <2>2, StepKeepsOthers
  <2> QED
    BY <2>1, <2>2
<1>5. AddHasRead'
  BY <1>1 DEF CartInv, AddHasRead, OnlyRow, QuantityAt, RowsOf, Owner
<1>6. CheckoutHasRead'
  BY <1>1 DEF CartInv, CheckoutHasRead, RowsOf, Owner, Ordered
<1>7. NothingReadYet'
  BY <1>1 DEF CartInv, NothingReadYet
<1> QED
  BY <1>1, <1>2, <1>4, <1>5, <1>6, <1>7
  DEF CartInv, TypeOK, OneRowPerProduct, RowsOf, IdsBelowNext

\* The steps of a transaction before it ends, which keep its input.
LEMMA WorkKeepsLocks ==
  ASSUME CartInv, NEW r \in Requests, UNCHANGED cart,
         \A q \in Requests \ {r} : req'[q] = req[q],
         req'[r].in = req[r].in, req'[r].pc \in Working,
         \/ req[r].pc \in Working /\ UNCHANGED cartLock
         \/ LockCart(r)
  PROVE LockHeld' /\ cartLock'[Owner(r)] = r
<1>1. req[r].pc # "unsent" /\ req[r].in \in Inputs /\ Owner(r) \in Users
  BY InputTypes DEF CartInv, LockHeld, Working, Owner, LockCart
<1>2. /\ cart'[Owner(r)] # "absent" /\ cartLock'[Owner(r)] = r
      /\ \A u \in Users : cartLock'[u] = cartLock[u] \/ cartLock[u] \in {Nobody, r}
  BY <1>1 DEF LockCart, CartFree, CartInv, TypeOK, LockHeld
<1> SUFFICES ASSUME NEW q \in Requests
             PROVE LET u == req'[q].in.user
                   IN /\ req'[q].pc # "unsent" => req'[q].in \in Inputs
                      /\ req'[q].pc = "locking" =>
                             \/ cart'[u] = "present"
                             \/ cart'[u] = "inserted" /\ cartLock'[u] = q
                      /\ req'[q].pc \in Working =>
                             cart'[u] # "absent" /\ cartLock'[u] = q
  BY <1>2 DEF LockHeld, Owner
<1>3. CASE q = r
  BY <1>1, <1>2, <1>3 DEF Working, Owner
<1>4. CASE q # r
  BY <1>2, <1>4, StepKeepsOthers
<1> QED
  BY <1>3, <1>4

LEMMA LockCartKeeps == ASSUME CartInv, NEW r \in Requests, LockCart(r) PROVE CartInv'
<1>1. /\ req' \in [Requests -> Request]
      /\ req'[r].pc = "reading" /\ req'[r].in = req[r].in /\ req'[r].lines = req[r].lines
      /\ \A q \in Requests \ {r} : req'[q] = req[q]
  BY DEF LockCart, CartInv, TypeOK, Request
<1>2. req[r].in \in Inputs /\ Owner(r) \in Users
  BY InputTypes DEF LockCart, CartInv, LockHeld, Owner
<1>3. TypeOK'
  BY <1>1, <1>2 DEF LockCart, CartInv, TypeOK, catalogueVars
<1>4. LockHeld'
  BY <1>1, WorkKeepsLocks DEF LockCart, Working
<1>5. AddHasRead'
  BY <1>1 DEF LockCart, CartInv, AddHasRead, OnlyRow, QuantityAt, RowsOf, Owner
<1>6. CheckoutHasRead'
  BY <1>1 DEF LockCart, CartInv, CheckoutHasRead, RowsOf, Owner, Ordered, catalogueVars
<1>7. NothingReadYet'
  BY <1>1 DEF LockCart, CartInv, NothingReadYet
<1> QED
  BY <1>3, <1>4, <1>5, <1>6, <1>7 DEF LockCart, CartInv, OneRowPerProduct, RowsOf, IdsBelowNext

\* What an add has computed may exceed the limit, by a row's worth at most.
LEMMA SumTyped ==
  ASSUME CartInv, NEW r \in Requests, req[r].pc = "reading", req[r].in.kind = "add",
         NEW i, LET S == OnlyRow(Owner(r), req[r].in.product)
                IN IF S = {} THEN i = Nobody ELSE i \in S
  PROVE req[r].in.quantity + QuantityAt(i) \in 0 .. 2 * MaxQuantity
<1>1. req[r].in.quantity \in 1 .. MaxQuantity
  BY InputTypes DEF CartInv, LockHeld
<1>2. i # Nobody => item[i] \in Row
  BY DEF OnlyRow, RowsOf, RowsIn, CartInv, TypeOK
<1>3. QuantityAt(i) \in 0 .. MaxQuantity
  BY <1>2, CartAssumption DEF QuantityAt, Row
<1> QED
  BY <1>1, <1>3, CartAssumption

LEMMA ReadForAddKeeps == ASSUME CartInv, NEW r \in Requests, ReadForAdd(r) PROVE CartInv'
<1>1. /\ req' \in [Requests -> Request]
      /\ req'[r].pc = "writing" /\ req'[r].in = req[r].in /\ req[r].pc \in Working
      /\ LET S == OnlyRow(Owner(r), req[r].in.product)
         IN IF S = {} THEN req'[r].seen = Nobody ELSE req'[r].seen \in S
      /\ req'[r].newQuantity = req[r].in.quantity + QuantityAt(req'[r].seen)
      /\ \A q \in Requests \ {r} : req'[q] = req[q]
  <2> DEFINE S == OnlyRow(Owner(r), req[r].in.product)
             n(i) == req[r].in.quantity + QuantityAt(i)
             new(i) == [req[r] EXCEPT !.pc = "writing", !.seen = i, !.newQuantity = n(i)]
  <2>1. PICK i \in Rows \cup {Nobody} : /\ IF S = {} THEN i = Nobody ELSE i \in S
                                        /\ req' = [req EXCEPT ![r] = new(i)]
    BY DEF ReadForAdd
  <2>2. n(i) \in 0 .. 2 * MaxQuantity
    BY <2>1, SumTyped DEF ReadForAdd
  <2>3. /\ new(i) \in Request /\ new(i).pc = "writing"
        /\ new(i).in = req[r].in /\ new(i).seen = i /\ new(i).newQuantity = n(i)
    <3> HIDE DEF n
    <3> QED
      BY <2>2 DEF CartInv, TypeOK, Request
  <2> HIDE DEF new
  <2> QED
    BY <2>1, <2>3, RequestStep DEF ReadForAdd, CartInv, Working
<1>2. LockHeld'
  BY <1>1, WorkKeepsLocks DEF ReadForAdd, Working
<1>3. AddHasRead'
  BY <1>1 DEF ReadForAdd, CartInv, AddHasRead, OnlyRow, QuantityAt, RowsOf, Owner
<1>4. CheckoutHasRead'
  BY <1>1 DEF ReadForAdd, CartInv, CheckoutHasRead, RowsOf, Owner, Ordered, catalogueVars
<1>5. NothingReadYet'
  BY <1>1 DEF CartInv, NothingReadYet
<1> QED
  BY <1>1, <1>2, <1>3, <1>4, <1>5
  DEF ReadForAdd, CartInv, TypeOK, OneRowPerProduct, RowsOf, IdsBelowNext, catalogueVars

\* Where IncreaseRow finds the row, and what it leaves in it.
LEMMA IncreaseRowWrites ==
  ASSUME CartInv, NEW r \in Requests, IncreaseRow(r), ~TooMany(r)
  PROVE LET i == req[r].seen
            n == item[i].quantity + req[r].in.quantity
        IN /\ i \in Rows /\ item[i] \in Row /\ item[i].user = Owner(r)
           /\ item[i].product = req[r].in.product
           /\ item' \in [Rows -> Row \cup {Nobody}]
           /\ \A j \in Rows : j # i => item'[j] = item[j]
           /\ item'[i] \in Row /\ item'[i].quantity = n
           /\ item'[i].user = item[i].user /\ item'[i].product = item[i].product
<1> DEFINE i == req[r].seen
           n == item[i].quantity + req[r].in.quantity
<1>1. /\ req[r].pc = "writing" /\ i # Nobody
      /\ item' = [item EXCEPT ![i].quantity = req[r].newQuantity]
  BY DEF IncreaseRow
<1>2. /\ i \in OnlyRow(Owner(r), req[r].in.product)
      /\ req[r].in \in Inputs /\ req[r].in.kind = "add"
      /\ req[r].newQuantity = req[r].in.quantity + item[i].quantity
  BY <1>1 DEF CartInv, AddHasRead, LockHeld, QuantityAt
<1>3. /\ i \in Rows /\ item[i] \in Row /\ item[i].user = Owner(r)
      /\ item[i].product = req[r].in.product
  BY <1>2 DEF OnlyRow, RowsOf, RowsIn, CartInv, TypeOK
<1>4. n \in 1 .. MaxQuantity
  BY <1>2, <1>3, InputTypes, CartAssumption DEF Row, TooMany
<1>5. item' = [item EXCEPT ![i].quantity = n]
  <2>1. req[r].newQuantity = n
    BY <1>2, <1>3, InputTypes, CartAssumption DEF Row
  <2> QED
    BY <1>1, <2>1
<1> HIDE DEF n, i
<1>6. [item[i] EXCEPT !.quantity = n] \in Row
  BY <1>3, <1>4 DEF Row
<1>7. /\ item'[i] = [item[i] EXCEPT !.quantity = n]
      /\ \A j \in Rows : j # i => item'[j] = item[j]
      /\ item' \in [Rows -> Row \cup {Nobody}]
  BY <1>3, <1>5, <1>6 DEF CartInv, TypeOK
<1>8. /\ item'[i].quantity = n /\ item'[i].user = item[i].user
      /\ item'[i].product = item[i].product
  BY <1>3, <1>7 DEF Row
<1> QED
  BY <1>3, <1>6, <1>7, <1>8 DEF n, i

LEMMA IncreaseRowKeeps == ASSUME CartInv, NEW r \in Requests, IncreaseRow(r) PROVE CartInv'
<1> DEFINE i == req[r].seen
<1>1. req[r].pc = "writing"
  BY DEF IncreaseRow
<1>2. CASE TooMany(r)
  BY <1>1, <1>2, RollbackKeeps DEF IncreaseRow
<1>3. CASE ~TooMany(r)
  <2>1. Commit(r) /\ UNCHANGED <<nextItem, order>>
    BY <1>3 DEF IncreaseRow
  <2>2. /\ i \in Rows /\ item[i] \in Row /\ item[i].user = Owner(r)
        /\ item' \in [Rows -> Row \cup {Nobody}]
        /\ \A j \in Rows : j # i => item'[j] = item[j]
        /\ item'[i].user = item[i].user /\ item'[i].product = item[i].product
    BY <1>3, IncreaseRowWrites
  <2>3. OneRowPerProduct' /\ IdsBelowNext'
    BY <2>1, <2>2, NullAssumption, FewerRows
  <2> QED
    BY <1>1, <2>1, <2>2, <2>3, CommitKeeps DEF CartInv, TypeOK, Working
<1> QED
  BY <1>2, <1>3

\* Where InsertRow puts the new row.
LEMMA InsertRowWrites ==
  ASSUME CartInv, NEW r \in Requests, InsertRow(r)
  PROVE /\ nextItem \in Rows /\ item[nextItem] = Nobody
        /\ OnlyRow(Owner(r), req[r].in.product) = {}
        /\ item' \in [Rows -> Row \cup {Nobody}]
        /\ \A i \in Rows : i # nextItem => item'[i] = item[i]
        /\ item'[nextItem] \in Row /\ item'[nextItem].user = Owner(r)
        /\ item'[nextItem].product = req[r].in.product
        /\ item'[nextItem].quantity = req[r].in.quantity
<1>1. req[r].pc = "writing" /\ req[r].seen = Nobody /\ nextItem \in Rows
  BY DEF InsertRow
<1>2. req[r].in \in Inputs /\ req[r].in.kind = "add"
  BY <1>1 DEF CartInv, AddHasRead, LockHeld
<1>3. OnlyRow(Owner(r), req[r].in.product) = {}
  <2>1. Nobody \notin Rows
    BY CartAssumption DEF Rows
  <2> QED
    BY <1>1, <2>1 DEF CartInv, AddHasRead, OnlyRow, RowsOf, RowsIn
<1> DEFINE row == [user |-> Owner(r), product |-> req[r].in.product,
                   quantity |-> req[r].in.quantity]
<1>4. /\ row \in Row /\ row.user = Owner(r) /\ row.product = req[r].in.product
      /\ row.quantity = req[r].in.quantity
  BY <1>2, InputTypes DEF Row, Owner
<1>5. item' = [item EXCEPT ![nextItem] = row]
  BY DEF InsertRow
<1> HIDE DEF row
<1>6. /\ item' \in [Rows -> Row \cup {Nobody}]
      /\ item'[nextItem] = row /\ item[nextItem] = Nobody
      /\ \A i \in Rows : i # nextItem => item'[i] = item[i]
  BY <1>1, <1>4, <1>5, CartAssumption DEF CartInv, TypeOK, IdsBelowNext, Rows
<1> QED
  BY <1>1, <1>3, <1>4, <1>6

LEMMA InsertRowKeeps == ASSUME CartInv, NEW r \in Requests, InsertRow(r) PROVE CartInv'
<1>1. /\ req[r].pc = "writing" /\ nextItem \in Rows
      /\ nextItem' = nextItem + 1 /\ Commit(r) /\ UNCHANGED order
  BY DEF InsertRow
<1>2. /\ OnlyRow(Owner(r), req[r].in.product) = {}
      /\ item' \in [Rows -> Row \cup {Nobody}]
      /\ item[nextItem] = Nobody
      /\ item'[nextItem].user = Owner(r) /\ item'[nextItem].product = req[r].in.product
      /\ \A i \in Rows : i # nextItem => item'[i] = item[i]
  BY InsertRowWrites
<1>3. nextItem' \in 1 .. RowLimit + 1
  BY <1>1, CartAssumption DEF Rows
<1>4. OneRowPerProduct'
  <2> SUFFICES ASSUME NEW u \in Users, NEW i \in RowsOf(u)', NEW j \in RowsOf(u)',
                      item'[i].product = item'[j].product, i # j
               PROVE FALSE
    BY DEF OneRowPerProduct
  <2>1. i \in Rows /\ j \in Rows /\ item'[i].user = u /\ item'[j].user = u
        /\ item'[i] # Nobody /\ item'[j] # Nobody
    BY DEF RowsOf, RowsIn
  <2>2. CASE i # nextItem /\ j # nextItem
    BY <1>2, <2>1, <2>2 DEF CartInv, OneRowPerProduct, RowsOf, RowsIn
  <2>3. CASE i = nextItem
    BY <1>2, <2>1, <2>3 DEF OnlyRow, RowsOf, RowsIn
  <2>4. CASE j = nextItem
    BY <1>2, <2>1, <2>4 DEF OnlyRow, RowsOf, RowsIn
  <2> QED
    BY <2>2, <2>3, <2>4
<1>5. IdsBelowNext'
  BY <1>1, <1>2, CartAssumption DEF CartInv, IdsBelowNext, Rows
<1>6. \A i \in Rows : \/ item'[i] = item[i]
                      \/ item[i] = Nobody /\ item'[i].user = Owner(r)
  BY <1>2
<1> QED
  BY <1>1, <1>2, <1>3, <1>4, <1>5, <1>6, CommitKeeps DEF CartInv, TypeOK, Working

LEMMA SetQuantityKeeps == ASSUME CartInv, NEW r \in Requests, SetQuantity(r) PROVE CartInv'
<1>1. req[r].pc = "reading" /\ req[r].in.kind = "set" /\ req[r].in \in Inputs
  BY DEF SetQuantity, CartInv, LockHeld
<1> DEFINE i == req[r].in.row
<1>2. CASE i \notin RowsOf(Owner(r))
  BY <1>1, <1>2, RollbackKeeps DEF SetQuantity
<1>3. CASE i \in RowsOf(Owner(r))
  <2>1. /\ item' = [item EXCEPT ![i].quantity = req[r].in.quantity]
        /\ Commit(r) /\ UNCHANGED <<nextItem, order>>
    BY <1>3 DEF SetQuantity
  <2>2. i \in Rows /\ item[i] \in Row /\ item[i].user = Owner(r)
    BY <1>3 DEF RowsOf, RowsIn, CartInv, TypeOK
  <2>3. req[r].in.quantity \in 1 .. MaxQuantity
    BY <1>1, InputTypes
  <2>4. /\ item' \in [Rows -> Row \cup {Nobody}]
        /\ \A j \in Rows : j # i => item'[j] = item[j]
        /\ item'[i].user = Owner(r) /\ item'[i].product = item[i].product
    <3> HIDE DEF i
    <3> QED
      BY <2>1, <2>2, <2>3 DEF Row, CartInv, TypeOK
  <2>5. OneRowPerProduct' /\ IdsBelowNext'
    BY <2>1, <2>2, <2>4, NullAssumption, FewerRows
  <2> QED
    BY <1>1, <2>1, <2>2, <2>4, <2>5, CommitKeeps DEF CartInv, TypeOK, Working
<1> QED
  BY <1>2, <1>3

LEMMA ReadItemsKeeps == ASSUME CartInv, NEW r \in Requests, ReadItems(r) PROVE CartInv'
<1>1. req[r].pc = "reading" /\ req[r].in.kind = "checkout" /\ req[r].lines = NoLines
  BY DEF ReadItems, CartInv, NothingReadYet
<1>2. CASE RowsOf(Owner(r)) = {}
  BY <1>1, <1>2, RollbackKeeps DEF ReadItems
<1>3. CASE RowsOf(Owner(r)) # {}
  <2> DEFINE new == [req[r] EXCEPT !.pc = "rows", !.todo = RowsOf(Owner(r))]
  <2>1. /\ req' = [req EXCEPT ![r] = new]
        /\ UNCHANGED <<cart, cartLock, item, nextItem, price, active, productLock, order>>
    BY <1>3 DEF ReadItems, catalogueVars
  <2>2. /\ new \in Request /\ new.pc = "rows" /\ new.todo = RowsOf(Owner(r))
        /\ new.in = req[r].in /\ new.lines = NoLines
    BY <1>1 DEF CartInv, TypeOK, Request, RowsOf, RowsIn
  <2> HIDE DEF new
  <2>3. /\ req' \in [Requests -> Request] /\ req'[r] = new
        /\ \A q \in Requests \ {r} : req'[q] = req[q]
    BY <2>1, <2>2, RequestStep DEF CartInv
  <2>4. LockHeld'
    BY <1>1, <2>1, <2>2, <2>3, WorkKeepsLocks DEF Working
  <2>5. AddHasRead' /\ NothingReadYet'
    BY <2>1, <2>2, <2>3 DEF CartInv, AddHasRead, NothingReadYet, OnlyRow, QuantityAt, RowsOf, Owner
  <2>6. CheckoutHasRead'
    <3> SUFFICES ASSUME NEW q \in Requests, req'[q].pc \in {"rows", "placing"}
                 PROVE LET done == RowsOf(Owner(q))' \ req'[q].todo
                           lines == req'[q].lines
                       IN /\ req'[q].in.kind = "checkout"
                          /\ RowsOf(Owner(q))' # {}
                          /\ req'[q].todo \subseteq RowsOf(Owner(q))'
                          /\ req'[q].pc = "placing" => req'[q].todo = {}
                          /\ \A i \in done :
                                 /\ lines[item'[i].product] # Nobody
                                 /\ lines[item'[i].product].quantity = item'[i].quantity
                          /\ \A p \in Ordered(lines) :
                                 /\ \E i \in done : item'[i].product = p
                                 /\ productLock'[p] = q
                                 /\ lines[p].price = price'[p]
                                 /\ lines[p].active = active'[p]
      BY DEF CheckoutHasRead
    <3>1. CASE q = r
      BY <1>1, <1>3, <2>1, <2>2, <2>3, <3>1 DEF RowsOf, Owner, Ordered, NoLines
    <3>2. CASE q # r
      BY <2>1, <2>3, <3>2 DEF CartInv, CheckoutHasRead, RowsOf, Owner, Ordered
    <3> QED
      BY <3>1, <3>2
  <2> QED
    BY <2>1, <2>3, <2>4, <2>5, <2>6
    DEF CartInv, TypeOK, OneRowPerProduct, RowsOf, IdsBelowNext
<1> QED
  BY <1>2, <1>3

LEMMA LockRowKeeps == ASSUME CartInv, NEW r \in Requests, LockRow(r) PROVE CartInv'
<1>1. PICK i \in Rows :
          LET p == item[i].product
          IN /\ NextRow(r, i)
             /\ productLock[p] \in {Nobody, r}
             /\ Grab(r, p)
             /\ req' = [req EXCEPT ![r] = WithRow(r, i)]
  BY DEF LockRow
<1> DEFINE p == item[i].product
           line == ItemLine(i)
           new == WithRow(r, i)
<1>2. /\ req[r].pc = "rows" /\ req[r] \in Request
      /\ UNCHANGED <<cart, cartLock, item, nextItem, price, active, order>>
  BY DEF LockRow, CartInv, TypeOK, catalogueVars
<1>3. i \in req[r].todo /\ i \in RowsOf(Owner(r)) /\ item[i] \in Row /\ p \in Products
  BY <1>1, <1>2 DEF NextRow, CartInv, CheckoutHasRead, TypeOK, RowsOf, RowsIn, Row
<1>4. /\ line \in Line /\ line # Nobody
      /\ line.quantity = item[i].quantity /\ line.price = price[p] /\ line.active = active[p]
  BY <1>3, NullAssumption DEF ItemLine, CartInv, TypeOK, Line, Row
<1>5. productLock' = [productLock EXCEPT ![p] = r] /\ productLock[p] \in {Nobody, r}
  BY <1>1 DEF Grab
<1>6. /\ new \in Request /\ new.in = req[r].in
      /\ new.pc = IF req[r].todo = {i} THEN "placing" ELSE "rows"
      /\ new.todo = req[r].todo \ {i}
      /\ new.lines = [req[r].lines EXCEPT ![p] = line]
  <2>1. [req[r].lines EXCEPT ![p] = line] \in Lines
    BY <1>2, <1>3, <1>4 DEF Request, Lines
  <2> QED
    BY <1>2, <2>1 DEF Request, WithRow
<1>7. /\ req' \in [Requests -> Request] /\ req'[r] = new
      /\ \A q \in Requests \ {r} : req'[q] = req[q]
  <2>1. req' = [req EXCEPT ![r] = new]
    BY <1>1
  <2> HIDE DEF new
  <2> QED
    BY <1>6, <2>1, RequestStep DEF CartInv
<1> HIDE DEF new, line
<1>8. LockHeld'
  BY <1>2, <1>6, <1>7, WorkKeepsLocks DEF Working
<1>9. AddHasRead' /\ NothingReadYet'
  BY <1>2, <1>6, <1>7 DEF CartInv, AddHasRead, NothingReadYet, OnlyRow, QuantityAt, RowsOf, Owner
<1>10. CheckoutHasRead'
  <2> SUFFICES ASSUME NEW q \in Requests, req'[q].pc \in {"rows", "placing"}
               PROVE LET done == RowsOf(Owner(q))' \ req'[q].todo
                         lines == req'[q].lines
                     IN /\ req'[q].in.kind = "checkout"
                        /\ RowsOf(Owner(q))' # {}
                        /\ req'[q].todo \subseteq RowsOf(Owner(q))'
                        /\ req'[q].pc = "placing" => req'[q].todo = {}
                        /\ \A j \in done :
                               /\ lines[item'[j].product] # Nobody
                               /\ lines[item'[j].product].quantity = item'[j].quantity
                        /\ \A s \in Ordered(lines) :
                               /\ \E j \in done : item'[j].product = s
                               /\ productLock'[s] = q
                               /\ lines[s].price = price'[s]
                               /\ lines[s].active = active'[s]
    BY DEF CheckoutHasRead
  <2>1. CASE q # r
    <3>1. \A s \in Products : productLock[s] = q => productLock'[s] = q
      BY <1>3, <1>5, <2>1, CartAssumption DEF CartInv, TypeOK
    <3> QED
      BY <1>2, <1>7, <2>1, <3>1 DEF CartInv, CheckoutHasRead, RowsOf, Owner, Ordered
  <2>2. CASE q = r
    <3> DEFINE rows == RowsOf(Owner(r))
               old == rows \ req[r].todo
    <3>1. /\ RowsOf(Owner(r))' = rows /\ rows # {} /\ req'[r].in.kind = "checkout"
          /\ rows \ req'[r].todo = old \cup {i}
          /\ req'[r].todo \subseteq rows
          /\ req'[r].pc = "placing" => req'[r].todo = {}
      BY <1>2, <1>3, <1>6, <1>7 DEF CartInv, CheckoutHasRead, RowsOf, Owner
    <3>2. /\ req[r].lines \in Lines
          /\ \A s \in Products : req'[r].lines[s] = IF s = p THEN line ELSE req[r].lines[s]
      BY <1>2, <1>6, <1>7 DEF Request, Lines
    <3>3. \A j \in old : /\ req[r].lines[item[j].product] # Nobody
                         /\ req[r].lines[item[j].product].quantity = item[j].quantity
                         /\ item[j].product \in Products /\ item[j].product # p
      BY <1>2, <1>3 DEF CartInv, CheckoutHasRead, OneRowPerProduct, RowsOf, RowsIn, Row, TypeOK
    <3>4. \A s \in Products : req[r].lines[s] # Nobody =>
              /\ \E j \in old : item[j].product = s
              /\ productLock[s] = r
              /\ req[r].lines[s].price = price[s]
              /\ req[r].lines[s].active = active[s]
      BY <1>2 DEF CartInv, CheckoutHasRead, Ordered
    <3>5. \A j \in old \cup {i} :
              /\ req'[r].lines[item[j].product] # Nobody
              /\ req'[r].lines[item[j].product].quantity = item[j].quantity
      BY <1>3, <1>4, <3>2, <3>3
    <3>6. ASSUME NEW s \in Products, req'[r].lines[s] # Nobody
          PROVE /\ \E j \in old \cup {i} : item[j].product = s
                /\ productLock'[s] = r
                /\ req'[r].lines[s].price = price[s]
                /\ req'[r].lines[s].active = active[s]
      <4>1. CASE s = p
        BY <1>4, <1>5, <3>2, <3>6, <4>1 DEF CartInv, TypeOK
      <4>2. CASE s # p
        BY <1>5, <3>2, <3>4, <3>6, <4>2 DEF CartInv, TypeOK
      <4> QED
        BY <4>1, <4>2
    <3> HIDE DEF old, rows
    <3> QED
      BY <1>2, <2>2, <3>1, <3>5, <3>6 DEF Ordered, Owner
  <2> QED
    BY <2>1, <2>2
<1> QED
  BY <1>2, <1>3, <1>5, <1>7, <1>8, <1>9, <1>10
  DEF CartInv, TypeOK, OneRowPerProduct, RowsOf, IdsBelowNext

LEMMA PlaceOrderKeeps == ASSUME CartInv, NEW r \in Requests, PlaceOrder(r) PROVE CartInv'
<1>1. req[r].pc = "placing" /\ req[r].in \in Inputs
  BY DEF PlaceOrder, CartInv, LockHeld
<1>2. CASE \A p \in Ordered(req[r].lines) : req[r].lines[p].active
  <2>1. /\ order' = [order EXCEPT ![r] = [user |-> Owner(r), lines |-> req[r].lines]]
        /\ Delete(RowsOf(Owner(r))) /\ Commit(r) /\ UNCHANGED nextItem
    BY <1>2 DEF PlaceOrder
  <2>2. [user |-> Owner(r), lines |-> req[r].lines] \in Order
    BY <1>1, InputTypes DEF Order, Owner, CartInv, TypeOK, Request
  <2>3. order' \in [Requests -> Order \cup {Nobody}]
    BY <2>1, <2>2 DEF CartInv, TypeOK
  <2> QED
    BY <1>1, <2>1, <2>3, DeleteKeeps DEF Working
<1>3. CASE ~ \A p \in Ordered(req[r].lines) : req[r].lines[p].active
  BY <1>1, <1>3, RollbackKeeps DEF PlaceOrder
<1> QED
  BY <1>2, <1>3

LEMMA EditProductKeeps == ASSUME CartInv, NEW s \in Products, EditProduct(s) PROVE CartInv'
<1>1. /\ price' \in [Products -> Prices] /\ active' \in [Products -> BOOLEAN]
      /\ \A p \in Products : productLock[p] # Nobody => price'[p] = price[p] /\ active'[p] = active[p]
      /\ UNCHANGED <<cart, cartLock, item, nextItem, productLock, order, req>>
  BY DEF EditProduct, CartInv, TypeOK
<1>2. \A r \in Requests : r # Nobody
  BY CartAssumption
<1>3. CheckoutHasRead'
  <2> SUFFICES ASSUME NEW r \in Requests, req[r].pc \in {"rows", "placing"},
                      NEW p \in Ordered(req[r].lines)
               PROVE price'[p] = price[p] /\ active'[p] = active[p]
    BY <1>1 DEF CartInv, CheckoutHasRead, RowsOf, Owner
  <2>1. p \in Products /\ productLock[p] = r
    BY DEF Ordered, CartInv, CheckoutHasRead
  <2> QED
    BY <1>1, <1>2, <2>1
<1>4. TypeOK'
  BY <1>1 DEF CartInv, TypeOK
<1> QED
  BY <1>1, <1>3, <1>4 DEF CartInv, OneRowPerProduct, LockHeld, IdsBelowNext, AddHasRead,
                         NothingReadYet, OnlyRow, QuantityAt, RowsOf, Owner

\* CartInv is inductive.
LEMMA CartInvInductive == CartInv /\ [Next]_vars => CartInv'
<1> SUFFICES ASSUME CartInv, [Next]_vars PROVE CartInv'
  OBVIOUS
<1>1. ASSUME NEW r \in Requests, Arrive(r) PROVE CartInv'
  BY <1>1, OpenKeeps DEF Arrive
<1>2. ASSUME NEW r \in Requests, LockCart(r) \/ ReadForAdd(r) \/ IncreaseRow(r) \/ InsertRow(r)
      PROVE CartInv'
  BY <1>2, LockCartKeeps, ReadForAddKeeps, IncreaseRowKeeps, InsertRowKeeps
<1>3. ASSUME NEW r \in Requests, SetQuantity(r) PROVE CartInv'
  BY <1>3, SetQuantityKeeps
<1>4. ASSUME NEW r \in Requests, RemoveItem(r) PROVE CartInv'
  <2>1. CASE Rollback(r)
    BY <1>4, <2>1, RollbackKeeps DEF RemoveItem
  <2>2. CASE ~Rollback(r)
    BY <1>4, <2>2, DeleteKeeps DEF RemoveItem, Working, CartInv, TypeOK
  <2> QED
    BY <2>1, <2>2
<1>5. ASSUME NEW r \in Requests, ClearCart(r) PROVE CartInv'
  BY <1>5, DeleteKeeps DEF ClearCart, Working, CartInv, TypeOK
<1>6. ASSUME NEW r \in Requests, ReadItems(r) \/ LockRow(r) \/ PlaceOrder(r) PROVE CartInv'
  BY <1>6, ReadItemsKeeps, LockRowKeeps, PlaceOrderKeeps
<1>7. ASSUME NEW r \in Requests, RefuseInactive(r) \/ Abort(r) PROVE CartInv'
  BY <1>7, RollbackKeeps DEF RefuseInactive, Abort
<1>8. ASSUME NEW p \in Products, EditProduct(p) PROVE CartInv'
  BY <1>8, EditProductKeeps
<1>9. CASE UNCHANGED vars
  <2>1. UNCHANGED <<cart, cartLock, item, nextItem, price, active, productLock, order, req>>
    BY <1>9 DEF vars
  <2>2. TypeOK' /\ IdsBelowNext'
    BY <2>1 DEF CartInv, TypeOK, IdsBelowNext
  <2>3. OneRowPerProduct' /\ LockHeld' /\ NothingReadYet'
    BY <2>1 DEF CartInv, OneRowPerProduct, LockHeld, NothingReadYet, RowsOf, Owner
  <2>4. AddHasRead'
    BY <2>1 DEF CartInv, AddHasRead, OnlyRow, QuantityAt, RowsOf, Owner
  <2>5. CheckoutHasRead'
    BY <2>1 DEF CartInv, CheckoutHasRead, RowsOf, Owner
  <2> QED
    BY <2>2, <2>3, <2>4, <2>5 DEF CartInv
<1> QED
  BY <1>1, <1>2, <1>3, <1>4, <1>5, <1>6, <1>7, <1>8, <1>9 DEF Next, Continue

\* Carts stay well-formed and every working request knows the rows it has
\* read, for any number of users, products and requests.
THEOREM CartSafe == Spec => []CartInv
<1> QED
  BY InitEstablishes, CartInvInductive, PTL DEF Spec

\* Every request, lock and row keeps its type, quantities within the limit of 99
\* included, however requests overlap.
THEOREM CartTyped == Spec => []TypeOK
BY CartSafe, PTL DEF CartInv

\* A cart has one row for each product: no add ever meets the unique
\* constraint, whatever else the user's requests do.
THEOREM OneRow == Spec => []OneRowPerProduct
<1>1. CartInv => OneRowPerProduct
  BY DEF CartInv
<1> QED
  BY <1>1, CartSafe, PTL

-----------------------------------------------------------------------------
(* What orders are made of *)

LEMMA UnitsOfRow ==
  ASSUME NEW rows, NEW u, NEW p, NEW i \in RowsIn(rows, u), rows[i].product = p,
         \A j \in RowsIn(rows, u) : rows[j].product = p => j = i
  PROVE UnitsIn(rows, u, p) = rows[i].quantity
<1> DEFINE S == {j \in RowsIn(rows, u) : rows[j].product = p}
<1>1. S = {i}
  OBVIOUS
<1>2. (CHOOSE j \in S : TRUE) = i
  BY <1>1
<1> QED
  BY <1>1, <1>2 DEF UnitsIn

LEMMA UnitsOfNoRow ==
  ASSUME NEW rows, NEW u, NEW p, \A j \in RowsIn(rows, u) : rows[j].product # p
  PROVE UnitsIn(rows, u, p) = 0
BY DEF UnitsIn

\* Only checkouts that find every product on sale place orders.
LEMMA OrdersArePlaced ==
  ASSUME CartInv, [Next]_vars, NEW r \in Requests, order'[r] # order[r]
  PROVE /\ PlaceOrder(r)
        /\ \A p \in Ordered(req[r].lines) : req[r].lines[p].active
        /\ order'[r].lines = req[r].lines
        /\ Delete(RowsOf(Owner(r)))
        /\ Owner(r)' = Owner(r)
<1>1. PICK q \in Requests : PlaceOrder(q) /\ order' # order
  BY DEF Next, vars, Arrive, OpenCart, FindCart, Continue, LockCart, ReadForAdd, RefuseInactive,
         IncreaseRow, InsertRow, SetQuantity, RemoveItem, ClearCart, ReadItems, LockRow, Abort,
         Rollback, EditProduct
<1>2. /\ \A p \in Ordered(req[q].lines) : req[q].lines[p].active
      /\ order' = [order EXCEPT ![q] = [user |-> Owner(q), lines |-> req[q].lines]]
      /\ Delete(RowsOf(Owner(q))) /\ Commit(q)
  BY <1>1 DEF PlaceOrder, Rollback
<1>3. q = r
  BY <1>2 DEF CartInv, TypeOK
<1>4. Owner(r)' = Owner(r)
  BY <1>2, <1>3, EndTyped DEF Commit, CartInv, Owner
<1> QED
  BY <1>1, <1>2, <1>3, <1>4 DEF CartInv, TypeOK

\* An order consists of what the cart contained when it was placed, and
\* takes all of it.
THEOREM CheckoutMovesTheCart == Spec => CheckoutTakesTheCart
<1>1. ASSUME CartInv, [Next]_vars, NEW r \in Requests, order'[r] # order[r], NEW p \in Products
      PROVE /\ Units(order'[r].lines, p) = InCart(Owner(r), p)
            /\ InCart(Owner(r), p)' = 0
  <2> DEFINE u == Owner(r)
  <2>1. /\ req[r].pc = "placing" /\ order'[r].lines = req[r].lines
        /\ Delete(RowsOf(u)) /\ Owner(r)' = u
    BY <1>1, OrdersArePlaced DEF PlaceOrder
  <2>2. /\ \A i \in RowsOf(u) :
               /\ req[r].lines[item[i].product] # Nobody
               /\ req[r].lines[item[i].product].quantity = item[i].quantity
        /\ req[r].lines[p] # Nobody => \E i \in RowsOf(u) : item[i].product = p
    BY <1>1, <2>1 DEF CartInv, CheckoutHasRead, Ordered
  <2>3. InCart(Owner(r), p)' = 0
    <3>1. RowsIn(item', u) = {}
      BY <2>1 DEF Delete, RowsOf, RowsIn
    <3> QED
      BY <2>1, <3>1, UnitsOfNoRow DEF InCart
  <2>4. CASE req[r].lines[p] = Nobody
    <3>1. InCart(u, p) = 0
      BY <2>2, <2>4, UnitsOfNoRow DEF InCart, RowsOf
    <3> QED
      BY <2>1, <2>3, <2>4, <3>1 DEF Units
  <2>5. CASE req[r].lines[p] # Nobody
    <3>1. PICK i \in RowsOf(u) : item[i].product = p
      BY <2>2, <2>5
    <3>2. \A j \in RowsOf(u) : item[j].product = p => j = i
      <4>1. u \in Users
        BY <1>1, <2>1, InputTypes DEF CartInv, LockHeld, Owner
      <4> QED
        BY <1>1, <3>1, <4>1 DEF CartInv, OneRowPerProduct
    <3>3. InCart(u, p) = item[i].quantity
      BY <3>1, <3>2, UnitsOfRow DEF InCart, RowsOf
    <3> QED
      BY <2>1, <2>2, <2>3, <2>5, <3>1, <3>3 DEF Units
  <2> QED
    BY <2>3, <2>4, <2>5
<1>2. CartInv /\ [Next]_vars =>
          [\A r \in Requests : order'[r] # order[r] =>
               \A p \in Products : /\ Units(order'[r].lines, p) = InCart(Owner(r), p)
                                   /\ InCart(Owner(r), p)' = 0]_vars
  BY <1>1
<1> QED
  BY <1>2, CartSafe, PTL DEF Spec, CheckoutTakesTheCart

\* The only steps that let an add succeed are its own.
LEMMA AddsSucceedThemselves ==
  ASSUME CartInv, [Next]_vars, NEW r \in Requests,
         req[r].pc = "writing", req'[r].pc = "succeeded"
  PROVE IncreaseRow(r) \/ InsertRow(r)
<1>1. ASSUME NEW q \in Requests, NEW in \in Inputs, OpenCart(q, in) \/ FindCart(q, in)
      PROVE req'[r] = req[r]
  BY <1>1 DEF OpenCart, FindCart, CartInv, TypeOK
<1>2. ASSUME NEW q \in Requests, q # r, Continue(q) \/ Abort(q) PROVE req'[r] = req[r]
  BY <1>2 DEF Continue, Abort, Rollback, Commit, End, LockCart, ReadForAdd, RefuseInactive,
              IncreaseRow, InsertRow, SetQuantity, RemoveItem, ClearCart, ReadItems, LockRow,
              PlaceOrder, CartInv, TypeOK
<1>3. ASSUME Rollback(r) PROVE FALSE
  BY <1>3, EndTyped DEF Rollback, CartInv
<1>4. CASE Continue(r) \/ Abort(r)
  BY <1>3, <1>4 DEF Continue, Abort, LockCart, ReadForAdd, RefuseInactive, SetQuantity,
                    RemoveItem, ClearCart, ReadItems, LockRow, PlaceOrder
<1> QED
  BY <1>1, <1>2, <1>4 DEF Next, Arrive, EditProduct, vars

\* No increment is lost: the sum an add computed from the row as it read it is,
\* when it is written, still the row's quantity plus the units asked for, for
\* any number of requests.  It rests on the cart row's lock (AddHasRead).
THEOREM AddsCount == Spec => AddsAreNotLost
<1>1. ASSUME CartInv, [Next]_vars, NEW r \in Requests,
             req[r].pc = "writing", req'[r].pc = "succeeded"
      PROVE LET u == Owner(r)
                p == req[r].in.product
            IN InCart(u, p)' = InCart(u, p) + req[r].in.quantity
  <2> DEFINE u == Owner(r)
             p == req[r].in.product
             n == req[r].in.quantity
  <2>1. /\ req[r].in \in Inputs /\ u \in Users /\ p \in Products
        /\ IF OnlyRow(u, p) = {} THEN req[r].seen = Nobody ELSE req[r].seen \in OnlyRow(u, p)
    BY <1>1, InputTypes DEF CartInv, LockHeld, AddHasRead, Owner
  <2>2. req'[r].in = req[r].in
    <3>1. End(r, "succeeded")
      BY <1>1, AddsSucceedThemselves, EndTyped
      DEF IncreaseRow, InsertRow, Commit, Rollback, CartInv
    <3> QED
      BY <1>1, <3>1, EndTyped DEF CartInv
  <2>3. Owner(r)' = u
    BY <2>2 DEF Owner
  <2>4. CASE InsertRow(r)
    <3>1. /\ nextItem \in Rows /\ item[nextItem] = Nobody /\ OnlyRow(u, p) = {}
          /\ \A i \in Rows : i # nextItem => item'[i] = item[i]
          /\ item'[nextItem] \in Row /\ item'[nextItem].user = u
          /\ item'[nextItem].product = p /\ item'[nextItem].quantity = n
      BY <1>1, <2>4, InsertRowWrites
    <3>2. UnitsIn(item, u, p) = 0
      BY <3>1, UnitsOfNoRow DEF OnlyRow, RowsOf
    <3>3. /\ nextItem \in RowsIn(item', u)
          /\ \A j \in RowsIn(item', u) : item'[j].product = p => j = nextItem
      BY <3>1, NullAssumption DEF OnlyRow, RowsOf, RowsIn
    <3>4. UnitsIn(item', u, p) = n
      BY <3>1, <3>3, UnitsOfRow
    <3>5. n \in Nat
      BY <1>1, <2>1, InputTypes, CartAssumption DEF CartInv, AddHasRead
    <3> HIDE DEF u, p, n
    <3>6. UnitsIn(item', u, p) = UnitsIn(item, u, p) + n
      BY <3>2, <3>4, <3>5
    <3> QED
      BY <2>2, <2>3, <3>6 DEF InCart, u, p, n
  <2>5. CASE IncreaseRow(r)
    <3> DEFINE i == req[r].seen
    <3>1. ~TooMany(r)
      BY <1>1, <2>5, EndTyped DEF IncreaseRow, Rollback, CartInv
    <3>2. /\ i \in Rows /\ item[i] \in Row /\ item[i].user = u /\ item[i].product = p
          /\ \A j \in Rows : j # i => item'[j] = item[j]
          /\ item'[i] \in Row /\ item'[i].quantity = item[i].quantity + n
          /\ item'[i].user = u /\ item'[i].product = p
      BY <1>1, <2>5, <3>1, IncreaseRowWrites
    <3>3. /\ i \in RowsIn(item, u)
          /\ \A j \in RowsIn(item, u) : item[j].product = p => j = i
      BY <1>1, <2>1, <3>2, NullAssumption DEF CartInv, OneRowPerProduct, RowsOf, RowsIn
    <3>4. /\ i \in RowsIn(item', u)
          /\ \A j \in RowsIn(item', u) : item'[j].product = p => j = i
      BY <3>2, <3>3, NullAssumption DEF RowsIn
    <3>5. UnitsIn(item, u, p) = item[i].quantity
      BY <3>2, <3>3, UnitsOfRow
    <3>6. UnitsIn(item', u, p) = item'[i].quantity
      BY <3>2, <3>4, UnitsOfRow
    <3> QED
      BY <2>2, <2>3, <3>2, <3>5, <3>6 DEF InCart
  <2> QED
    BY <1>1, <2>4, <2>5, AddsSucceedThemselves
<1>2. CartInv /\ [Next]_vars =>
          [\A r \in Requests :
               req[r].pc = "writing" /\ req'[r].pc = "succeeded" =>
                   LET u == Owner(r)
                       p == req[r].in.product
                   IN InCart(u, p)' = InCart(u, p) + req[r].in.quantity]_vars
  BY <1>1
<1> QED
  BY <1>2, CartSafe, PTL DEF Spec, AddsAreNotLost

-----------------------------------------------------------------------------
(* One step for each request *)

\* A step of r shows nothing of other requests.
LEMMA Shown ==
  ASSUME NEW r \in Requests, \A q \in Requests \ {r} : req'[q] = req[q]
  PROVE /\ status' = [status EXCEPT ![r] = status'[r]]
        /\ asked' = [asked EXCEPT ![r] = req'[r].in]
        /\ status'[r] = IF req'[r].pc \in {"unsent", "succeeded", "failed"}
                        THEN req'[r].pc ELSE "running"
BY DEF status, asked

LEMMA RunningIsShown ==
  ASSUME CartInv, NEW r \in Requests,
         req[r].pc \in {"locking", "reading", "writing", "rows", "placing"}
  PROVE status[r] = "running" /\ asked[r] = req[r].in /\ Owner(r) = asked[r].user
BY DEF status, asked, Owner

\* What happens inside a transaction is not seen.
LEMMA WorkIsHidden ==
  ASSUME CartInv, NEW r \in Requests, \A q \in Requests \ {r} : req'[q] = req[q],
         req'[r].in = req[r].in,
         req[r].pc \in {"locking", "reading", "writing", "rows", "placing"},
         req'[r].pc \in {"locking", "reading", "writing", "rows", "placing"},
         UNCHANGED <<item, nextItem, price, active, order>>
  PROVE UNCHANGED Atomic!atomicVars
<1>1. UNCHANGED <<status, asked>>
  BY DEF status, asked
<1> QED
  BY <1>1 DEF Atomic!atomicVars, Atomic!shopVars

LEMMA RollbackFails ==
  ASSUME CartInv, NEW r \in Requests, Rollback(r),
         req[r].pc \in {"locking", "reading", "writing", "rows", "placing"}
  PROVE Atomic!Fail(r)
<1>1. /\ req'[r].pc = "failed" /\ req'[r].in = req[r].in
      /\ \A q \in Requests \ {r} : req'[q] = req[q]
  BY EndTyped DEF Rollback, CartInv
<1>2. status' = [status EXCEPT ![r] = "failed"] /\ UNCHANGED asked
  BY <1>1, Shown DEF asked
<1> QED
  BY <1>2, RunningIsShown DEF Rollback, catalogueVars, Atomic!Fail, Atomic!shopVars

\* A commit shows the request's whole effect.
LEMMA CommitSucceeds ==
  ASSUME CartInv, NEW r \in Requests, req[r].pc \in Working, Commit(r),
         LET in == req[r].in
         IN \/ Atomic!AddToRow(in) \/ Atomic!AddRow(in) \/ Atomic!SetRow(in)
            \/ Atomic!RemoveRow(in) \/ Atomic!Clear(in) \/ Atomic!Checkout(r, in)
  PROVE Atomic!Succeed(r)
<1>1. /\ req'[r].pc = "succeeded" /\ req'[r].in = req[r].in
      /\ \A q \in Requests \ {r} : req'[q] = req[q]
  BY EndTyped DEF Commit, CartInv
<1>2. status' = [status EXCEPT ![r] = "succeeded"] /\ UNCHANGED asked
  BY <1>1, Shown DEF asked
<1>3. status[r] = "running" /\ asked[r] = req[r].in
  BY RunningIsShown DEF Working
<1> QED
  BY <1>2, <1>3 DEF Commit, catalogueVars, Atomic!Succeed

LEMMA ArriveAsks ==
  ASSUME CartInv, NEW r \in Requests, NEW in \in Inputs, OpenCart(r, in) \/ FindCart(r, in)
  PROVE Atomic!Ask(r)
<1>1. PICK pc \in {"locking", "succeeded", "failed"} :
          /\ req' = [req EXCEPT ![r] = [@ EXCEPT !.pc = pc, !.in = in]]
          /\ pc = "succeeded" => in.kind = "view"
  BY DEF OpenCart, FindCart
<1>2. req'[r].pc = pc /\ req'[r].in = in /\ \A q \in Requests \ {r} : req'[q] = req[q]
  BY <1>1 DEF CartInv, TypeOK, Request
<1> DEFINE s == IF pc = "locking" THEN "running" ELSE pc
<1>3. status' = [status EXCEPT ![r] = s] /\ asked' = [asked EXCEPT ![r] = in]
  BY <1>2, Shown
<1>4. s \in {"running", "failed"} \cup (IF in.kind = "view" THEN {"succeeded"} ELSE {})
  BY <1>1
<1>5. status[r] = "unsent" /\ UNCHANGED Atomic!shopVars
  BY DEF OpenCart, FindCart, catalogueVars, status, Atomic!shopVars
<1> HIDE DEF s
<1> QED
  BY <1>3, <1>4, <1>5 DEF Atomic!Ask

LEMMA SameRows ==
  ASSUME NEW u, NEW p
  PROVE Atomic!Contents(u) = RowsOf(u) /\ Atomic!RowsWith(u, p) = OnlyRow(u, p)
BY DEF Atomic!Contents, Atomic!RowsWith, RowsOf, RowsIn, OnlyRow

LEMMA IncreaseRowShown ==
  ASSUME CartInv, NEW r \in Requests, IncreaseRow(r)
  PROVE Atomic!Succeed(r) \/ Atomic!Fail(r)
<1> DEFINE in == req[r].in
           i == req[r].seen
<1>1. /\ req[r].pc = "writing" /\ in.kind = "add"
      /\ IF OnlyRow(in.user, in.product) = {} THEN i = Nobody
         ELSE i \in OnlyRow(in.user, in.product)
  BY DEF IncreaseRow, CartInv, AddHasRead, Owner
<1>2. CASE TooMany(r)
  BY <1>1, <1>2, RollbackFails DEF IncreaseRow
<1>3. CASE ~TooMany(r)
  <2> DEFINE n == item[i].quantity + in.quantity
  <2>2. n \in 1 .. MaxQuantity
    <3>1. item'[i] \in Row /\ item'[i].quantity = n
      BY <1>3, IncreaseRowWrites
    <3> QED
      BY <3>1 DEF Row
  <2>1. /\ i # Nobody /\ item' = [item EXCEPT ![i].quantity = n]
        /\ Commit(r) /\ UNCHANGED <<nextItem, order>>
    <3>1. item[i] \in Row /\ req[r].in \in Inputs
      BY <1>1, <1>3, IncreaseRowWrites DEF CartInv, LockHeld
    <3>2. req[r].newQuantity = req[r].in.quantity + item[i].quantity
      BY <1>1, <1>3 DEF IncreaseRow, CartInv, AddHasRead, QuantityAt
    <3>3. req[r].newQuantity = n
      BY <1>1, <3>1, <3>2, InputTypes, CartAssumption DEF Row
    <3> QED
      BY <1>3, <3>3 DEF IncreaseRow
  <2>3. i \in Atomic!RowsWith(in.user, in.product)
    BY <1>1, <2>1, SameRows
  <2>4. n <= MaxQuantity
    BY <2>2, CartAssumption
  <2> HIDE DEF in, i
  <2>5. Atomic!AddToRow(in)
    BY <1>1, <2>1, <2>3, <2>4 DEF Atomic!AddToRow
  <2> QED
    BY <1>1, <2>1, <2>5, CommitSucceeds DEF Working, in
<1> QED
  BY <1>2, <1>3

LEMMA InsertRowShown ==
  ASSUME CartInv, NEW r \in Requests, InsertRow(r)
  PROVE Atomic!Succeed(r)
<1> DEFINE in == req[r].in
<1>1. req[r].pc = "writing" /\ in.kind = "add" /\ Owner(r) = in.user
  BY DEF InsertRow, CartInv, AddHasRead, Owner
<1>2. Atomic!RowsWith(in.user, in.product) = {}
  BY <1>1, InsertRowWrites, SameRows
<1>3. Atomic!AddRow(in)
  BY <1>1, <1>2 DEF InsertRow, Atomic!AddRow, Rows
<1> QED
  BY <1>1, <1>3, CommitSucceeds DEF InsertRow, Working

LEMMA RowChangesShown ==
  ASSUME CartInv, NEW r \in Requests, SetQuantity(r) \/ RemoveItem(r) \/ ClearCart(r)
  PROVE Atomic!Succeed(r) \/ Atomic!Fail(r)
<1> DEFINE in == req[r].in
<1>1. req[r].pc = "reading" /\ Owner(r) = in.user
  BY DEF SetQuantity, RemoveItem, ClearCart, Owner
<1>2. CASE Rollback(r)
  BY <1>1, <1>2, RollbackFails
<1>3. CASE ~Rollback(r) /\ SetQuantity(r)
  <2>1. Atomic!SetRow(in) /\ Commit(r)
    BY <1>1, <1>3, SameRows DEF SetQuantity, Atomic!SetRow
  <2> QED
    BY <1>1, <2>1, CommitSucceeds DEF Working
<1>4. CASE ~Rollback(r) /\ RemoveItem(r)
  <2>1. Atomic!RemoveRow(in) /\ Commit(r)
    BY <1>1, <1>4, SameRows DEF RemoveItem, Delete, Atomic!RemoveRow, Atomic!Without
  <2> QED
    BY <1>1, <2>1, CommitSucceeds DEF Working
<1>5. CASE ClearCart(r)
  <2>1. Atomic!Clear(in) /\ Commit(r)
    BY <1>1, <1>5, SameRows DEF ClearCart, Delete, Atomic!Clear, Atomic!Without
  <2> QED
    BY <1>1, <2>1, CommitSucceeds DEF Working
<1> QED
  BY <1>2, <1>3, <1>4, <1>5

\* What checkout has read is the cart at today's prices, all of it on sale.
LEMMA CheckoutReadsThePurchase ==
  ASSUME CartInv, NEW r \in Requests, req[r].pc = "placing",
         \A p \in Ordered(req[r].lines) : req[r].lines[p].active
  PROVE /\ [user |-> Owner(r), lines |-> req[r].lines] = Atomic!Purchase(Owner(r))
        /\ RowsOf(Owner(r)) # {}
        /\ \A i \in RowsOf(Owner(r)) : active[item[i].product]
<1> DEFINE u == Owner(r)
           lines == req[r].lines
<1>1. /\ lines \in [Products -> Line \cup {Nobody}] /\ u \in Users
      /\ \A i \in RowsOf(u) : item[i].product \in Products
  BY InputTypes, NullAssumption
  DEF CartInv, TypeOK, Request, Lines, LockHeld, Owner, RowsOf, RowsIn, Row
<1>2. /\ RowsOf(u) # {}
      /\ \A i \in RowsOf(u) : /\ lines[item[i].product] # Nobody
                              /\ lines[item[i].product].quantity = item[i].quantity
      /\ \A p \in Products : lines[p] # Nobody =>
             /\ \E i \in RowsOf(u) : item[i].product = p
             /\ lines[p].price = price[p]
             /\ lines[p].active = active[p]
  BY DEF CartInv, CheckoutHasRead, Ordered
<1>3. \A p \in Products : lines[p] # Nobody => lines[p].active /\ active[p]
  BY <1>2 DEF Ordered
<1>4. \A p \in Products : active[p] \in BOOLEAN
  BY DEF CartInv, TypeOK
<1> DEFINE bought(p) ==
      IF Atomic!RowsWith(u, p) = {} THEN Nobody
      ELSE [quantity |-> item[CHOOSE i \in Atomic!RowsWith(u, p) : TRUE].quantity,
            price |-> price[p], active |-> TRUE]
<1>5. ASSUME NEW p \in Products PROVE lines[p] = bought(p)
  <2>1. CASE lines[p] = Nobody
    <3>1. Atomic!RowsWith(u, p) = {}
      BY <1>2, <2>1, SameRows DEF OnlyRow
    <3> QED
      BY <2>1, <3>1
  <2>2. CASE lines[p] # Nobody
    <3>1. PICK i \in RowsOf(u) : item[i].product = p
      BY <1>2, <2>2
    <3>2. Atomic!RowsWith(u, p) = {i}
      BY <1>1, <3>1, SameRows DEF OnlyRow, CartInv, OneRowPerProduct
    <3>3. (CHOOSE j \in Atomic!RowsWith(u, p) : TRUE) = i /\ Atomic!RowsWith(u, p) # {}
      BY <3>2
    <3>4. lines[p] \in Line /\ lines[p].quantity = item[i].quantity
      BY <1>1, <1>2, <2>2, <3>1
    <3>5. lines[p].price = price[p] /\ lines[p].active = TRUE
      BY <1>2, <1>3, <1>4, <2>2
    <3> HIDE DEF lines
    <3>6. lines[p] = [quantity |-> item[i].quantity, price |-> price[p], active |-> TRUE]
      BY <3>4, <3>5 DEF Line
    <3> QED
      BY <3>3, <3>6
  <2> QED
    BY <2>1, <2>2
<1>6. lines = [p \in Products |-> bought(p)]
  BY <1>1, <1>5
<1>7. [user |-> u, lines |-> lines] = Atomic!Purchase(u)
  BY <1>6 DEF Atomic!Purchase
<1> QED
  BY <1>1, <1>2, <1>3, <1>7

LEMMA PlaceOrderShown ==
  ASSUME CartInv, NEW r \in Requests, PlaceOrder(r)
  PROVE Atomic!Succeed(r) \/ Atomic!Fail(r)
<1> DEFINE in == req[r].in
<1>1. req[r].pc = "placing" /\ Owner(r) = in.user
  BY DEF PlaceOrder, Owner
<1>2. in.kind = "checkout"
  BY <1>1 DEF CartInv, CheckoutHasRead
<1>3. CASE \A p \in Ordered(req[r].lines) : req[r].lines[p].active
  <2>1. /\ order' = [order EXCEPT ![r] = Atomic!Purchase(in.user)]
        /\ Delete(RowsOf(in.user)) /\ Commit(r) /\ UNCHANGED nextItem
    BY <1>1, <1>3, CheckoutReadsThePurchase DEF PlaceOrder
  <2>2. /\ Atomic!Contents(in.user) # {}
        /\ \A i \in Atomic!Contents(in.user) : active[item[i].product]
    BY <1>1, <1>3, CheckoutReadsThePurchase, SameRows
  <2>3. Atomic!Checkout(r, in)
    BY <1>2, <2>1, <2>2, SameRows DEF Delete, Atomic!Checkout, Atomic!Without
  <2> QED
    BY <1>1, <2>1, <2>3, CommitSucceeds DEF Working
<1>4. CASE ~ \A p \in Ordered(req[r].lines) : req[r].lines[p].active
  BY <1>1, <1>4, RollbackFails DEF PlaceOrder
<1> QED
  BY <1>3, <1>4

LEMMA LockRowReads ==
  ASSUME CartInv, NEW r \in Requests, LockRow(r)
  PROVE \E new \in Request : /\ req' = [req EXCEPT ![r] = new] /\ new.in = req[r].in
                              /\ new.pc \in {"rows", "placing"}
<1>1. PICK i \in Rows : NextRow(r, i) /\ req' = [req EXCEPT ![r] = WithRow(r, i)]
  BY DEF LockRow
<1>2. req[r] \in Request /\ item[i] \in Row
  BY <1>1 DEF LockRow, NextRow, CartInv, CheckoutHasRead, TypeOK, RowsOf, RowsIn
<1>3. [req[r].lines EXCEPT ![item[i].product] = ItemLine(i)] \in Lines
  BY <1>2 DEF ItemLine, CartInv, TypeOK, Line, Lines, Row, Request
<1>4. /\ WithRow(r, i) \in Request /\ WithRow(r, i).in = req[r].in
      /\ WithRow(r, i).pc \in {"rows", "placing"}
  BY <1>2, <1>3 DEF WithRow, Request
<1> QED
  BY <1>1, <1>4

LEMMA ReadingIsHidden ==
  ASSUME CartInv, NEW r \in Requests,
         LockCart(r) \/ ReadForAdd(r) \/ ReadItems(r) \/ LockRow(r)
  PROVE UNCHANGED Atomic!atomicVars \/ Atomic!Fail(r)
<1>1. CASE Rollback(r)
  BY <1>1, RollbackFails DEF LockCart, ReadForAdd, ReadItems, LockRow
<1>2. CASE ~Rollback(r)
  <2>1. /\ req'[r].in = req[r].in
        /\ req[r].pc \in {"locking", "reading", "rows"}
        /\ req'[r].pc \in {"reading", "writing", "rows", "placing"}
        /\ \A q \in Requests \ {r} : req'[q] = req[q]
    <3>1. PICK new \in Request :
              /\ req' = [req EXCEPT ![r] = new] /\ new.in = req[r].in
              /\ new.pc \in {"reading", "writing", "rows", "placing"}
      <4>1. CASE LockRow(r)
        BY <4>1, LockRowReads
      <4>2. CASE LockCart(r)
        <5> DEFINE new == [req[r] EXCEPT !.pc = "reading"]
        <5>1. req' = [req EXCEPT ![r] = new]
          BY <4>2 DEF LockCart
        <5>2. new \in Request /\ new.pc = "reading" /\ new.in = req[r].in
          BY DEF CartInv, TypeOK, Request
        <5> QED
          BY <5>1, <5>2
      <4>3. CASE ReadForAdd(r)
        <5> DEFINE n(i) == req[r].in.quantity + QuantityAt(i)
                   new(i) == [req[r] EXCEPT !.pc = "writing", !.seen = i,
                                            !.newQuantity = n(i)]
        <5>1. PICK i \in Rows \cup {Nobody} :
                  /\ LET S == OnlyRow(Owner(r), req[r].in.product)
                     IN IF S = {} THEN i = Nobody ELSE i \in S
                  /\ req' = [req EXCEPT ![r] = new(i)]
          BY <4>3 DEF ReadForAdd
        <5>3. n(i) \in 0 .. 2 * MaxQuantity
          BY <4>3, <5>1, SumTyped DEF ReadForAdd
        <5>2. new(i) \in Request /\ new(i).pc = "writing" /\ new(i).in = req[r].in
          <6> HIDE DEF n
          <6> QED
            BY <5>3 DEF CartInv, TypeOK, Request
        <5> QED
          BY <5>1, <5>2
      <4>4. CASE ReadItems(r)
        <5> DEFINE new == [req[r] EXCEPT !.pc = "rows", !.todo = RowsOf(Owner(r))]
        <5>1. req' = [req EXCEPT ![r] = new]
          BY <1>2, <4>4 DEF ReadItems
        <5>2. new \in Request /\ new.pc = "rows" /\ new.in = req[r].in
          BY DEF CartInv, TypeOK, Request, RowsOf, RowsIn
        <5> QED
          BY <5>1, <5>2
      <4> QED
        BY <1>2, <4>1, <4>2, <4>3, <4>4
    <3>2. req[r].pc \in {"locking", "reading", "rows"}
      BY <1>2 DEF LockCart, ReadForAdd, ReadItems, LockRow
    <3> QED
      BY <3>1, <3>2, RequestStep DEF CartInv
  <2>2. UNCHANGED <<item, nextItem, price, active, order>>
    BY <1>2 DEF LockCart, ReadForAdd, ReadItems, LockRow, catalogueVars
  <2> QED
    BY <2>1, <2>2, WorkIsHidden
<1> QED
  BY <1>1, <1>2

LEMMA EditIsShown ==
  ASSUME NEW p \in Products, EditProduct(p)
  PROVE Atomic!Edit(p)
<1>1. UNCHANGED <<status, asked>>
  BY DEF EditProduct, status, asked
<1> QED
  BY <1>1 DEF EditProduct, Atomic!Edit

LEMMA InitImplementsAtomicCart == Init => Atomic!AtomicInit
<1> SUFFICES ASSUME Init PROVE Atomic!AtomicInit
  OBVIOUS
<1>1. status = [r \in Requests |-> "unsent"] /\ asked = [r \in Requests |-> Nobody]
  BY DEF Init, Unsent, status, asked
<1>2. \A u \in Users, p \in Products : \A i, j \in OnlyRow(u, p) : i = j
  BY DEF Init, OneRowPerProduct, OnlyRow
<1>3. \A i \in Rows : item[i] # Nobody => i < nextItem
  BY InitEstablishes DEF CartInv, IdsBelowNext
<1> QED
  BY <1>1, <1>2, <1>3, SameRows DEF Init, Row, Atomic!AtomicInit

LEMMA StepImplementsAtomicCart ==
  CartInv /\ [Next]_vars => [Atomic!AtomicNext]_(Atomic!atomicVars)
<1> SUFFICES ASSUME CartInv, [Next]_vars
             PROVE Atomic!AtomicNext \/ UNCHANGED Atomic!atomicVars
  OBVIOUS
<1>1. ASSUME NEW r \in Requests, Arrive(r) PROVE Atomic!AtomicNext
  BY <1>1, ArriveAsks DEF Arrive, Atomic!AtomicNext
<1>2. ASSUME NEW r \in Requests, IncreaseRow(r) \/ InsertRow(r) \/ SetQuantity(r)
                                 \/ RemoveItem(r) \/ ClearCart(r) \/ PlaceOrder(r)
      PROVE Atomic!AtomicNext
  BY <1>2, IncreaseRowShown, InsertRowShown, RowChangesShown, PlaceOrderShown
  DEF Atomic!AtomicNext
<1>3. ASSUME NEW r \in Requests, RefuseInactive(r) \/ Abort(r) PROVE Atomic!AtomicNext
  BY <1>3, RollbackFails DEF RefuseInactive, Abort, Atomic!AtomicNext
<1>4. ASSUME NEW r \in Requests, LockCart(r) \/ ReadForAdd(r) \/ ReadItems(r) \/ LockRow(r)
      PROVE Atomic!AtomicNext \/ UNCHANGED Atomic!atomicVars
  BY <1>4, ReadingIsHidden DEF Atomic!AtomicNext
<1>5. ASSUME NEW p \in Products, EditProduct(p) PROVE Atomic!AtomicNext
  BY <1>5, EditIsShown DEF Atomic!AtomicNext
<1>6. CASE UNCHANGED vars
  BY <1>6 DEF vars, status, asked, Atomic!atomicVars, Atomic!shopVars
<1> QED
  BY <1>1, <1>2, <1>3, <1>4, <1>5, <1>6 DEF Next, Continue

\* Requests that overlap, wait for each other and are cut off behave as if
\* each took effect in one step or not at all: an order is its user's cart at
\* the prices of the moment it is placed, with every product on sale.
THEOREM CartIsAtomic == Spec => ImplementsAtomicCart
<1> QED
  BY InitImplementsAtomicCart, StepImplementsAtomicCart, CartSafe, PTL
  DEF Spec, ImplementsAtomicCart, Atomic!AtomicSpec

=============================================================================
