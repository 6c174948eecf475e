# Ludora: TLA+ specifications

Ludora (see the repository's `README.md`, `docs/ARCHITECTURE.md` and
`docs/architecture/ADR-001-license-reservation.md`) sells licence keys: a Django
backend with PostgreSQL and Celery, Stripe Checkout, and a Telegram bot that is a
client of the backend. These modules specify the parts whose correctness depends on
the order in which things happen. Paths below are relative to `backend/apps/` unless
they start with `bot/` or `docs/`.

## Inventory

| Component | State | Operations | What makes it hard | What must hold |
|---|---|---|---|---|
| Order aggregate (`orders/services.py`, `orders/models.py`, `games/models.py`) | order status, reservation authority, item rows, payment attempts, key status, assignments | reserve, authorise, terminate, release, complete, fulfil | competing orders, late and repeated outcomes, legacy orders without item rows | all keys of an order or none; authority and reservation agree; sold is final; one attempt settles an order |
| Payment attempts and provider saga (`orders/payment_services.py`, `orders/services.py`, `payments/providers.py`) | what a request remembers between transactions, provider and reference of a payment, an advisory lock | `POST /payments/`, `POST /orders/<id>/pay/` | transaction - provider call - transaction, crashes in between, lost answers, two endpoints on one attempt | a checkout is reserved while it can be charged; no double charge; a confirmed payment can be recorded |
| Stripe webhook (`payments/webhooks.py`, `payments/views.py`) | ledger of event ids | deliver an event | duplicates, reordering, redelivery, events that precede the stored reference | acknowledged means applied; charged customers are served |
| Key stock administration (`games/admin.py`, `orders/admin.py`) | keys, orders, payments, as one administrator's form has read them | CSV import, deletion, forms that save whole rows | a form writes columns it read before the shop changed them; imports race | a delivered key stays with its order; damage stays with the row a form overwrote |
| Carts and checkout (`carts/services.py`) | cart, items, order snapshot | add, set, remove, clear, checkout | row locks of two kinds, two requests of one user, prices that change, crashes | an order is a snapshot of a cart that existed, and a cart is bought once |
| Confirmation email (`orders/tasks.py`, `orders/emails.py`) | Celery queue | dispatch after commit, retry | lost tasks, SMTP failures, reads beside other transactions | one email per paid order, listing the keys it keeps |
| Telegram bot (`bot/app`) | tokens in memory, languages | cart, checkout and payment handlers with token refresh | handlers interleave at every `await`, 401 and refresh races | sessions recover, a press takes effect at most once, stale buttons create nothing |
| Accounts (`authentication/serializers.py`, `users`) | email, Telegram id and metadata of a user | registration, bot sign-in, administration | insert races guarded by unique columns alone, updates of columns compared with an old reading | who loses a race signs in; what a sign-in sends is stored |
| Migrations 0006 to 0011 of `orders` | totals, items and assignments of old orders | deploy, roll back, repeat | partial and contradictory old data, prices that change meanwhile | repeating settles nothing anew; old customers keep their keys once the release is live |
| Catalogue, order history, presentation | rows read by others | reads | little | - |

How they interact: a cart becomes an order in one transaction (`checkout_cart`); the
order's payments run through the saga; provider outcomes reach the Order aggregate
through the second half of a request or through the webhook; a completed payment
queues an email after its commit; administrators change keys beside all of this; the
bot calls the backend's HTTP API like any other client. The only shared state is the
database. Nothing else runs in the background: there is no reconciliation worker.

## Modules

* `LicenseAllocation` - the abstract promise: keys are in stock, held for an order or
  sold to it; an order is supplied exactly or not at all; what is sold stays sold.
* `OrderReservation` - the Order aggregate. One action is one committed transaction of
  `services.py`/`payment_services.py`. This granularity is what the code establishes:
  every transaction first locks the order row (`select_for_update`), takes keys under
  row locks, and rolls back as a whole when it raises; so a raising path is the absence
  of a step. Variables are the columns the transactions read and write; `Held(o)` is
  the set of keys that `LicenseAssignment` rows give to the items of `o`, so an
  assignment and its order item are one function `assignedTo`. `DirectOrders`,
  `LegacyOrders` (direct orders without item rows, normalised lazily and, when the
  provider rejects, de-normalised again) and `UnpricedOrders` (no authoritative total)
  are parameters.
* `PaymentSaga` - extends it with HTTP requests as records that advance through the
  steps `calling`, `linking`, `rejecting`, `confirming`, `settling`; the advisory lock
  of `pay_order`; the state of each payment's Checkout session; the events Stripe has
  emitted; and the webhook's ledger. Each action conjoins the transaction it runs, if
  any, so the composition is the conjunction of actions and not a second description of
  the same code; that it takes the aggregate's steps is how it is written, not a result. Stripe (sessions, idempotency keys, events) is external and modelled
  as the code uses it: the idempotency key `payment-<id>` yields one session per
  payment, a session is charged, fails or expires once, and every outcome is an event
  that is delivered until it is acknowledged.
* `Cart` - `carts/services.py` one SQL statement at a time under READ COMMITTED: a
  request is a record that advances through `locking`, `reading`, `writing` (add) or
  `rows`, `placing` (checkout); `cartLock` and `productLock` are the `FOR UPDATE` locks;
  `cart[u] = "inserted"` is a row whose transaction has not committed, which others wait
  for at the unique index. Every request locks its cart first, so item rows need no lock
  of their own. What an add computes from the row it has read (`newQuantity`) is what it writes
  in a later statement. Product rows are locked where `select_for_update()` meets
  `select_related("product")`, i.e. by checkout, row by row in the order of item ids, and
  by setting a quantity; inserting an item waits for such a lock (foreign key), and so
  does the administrator's `EditProduct`. `Rollback` stands for every raising path and,
  with `Abort`, for a lost worker and for PostgreSQL's choice of a deadlock victim. It
  ends where `OrderReservation` begins: the order that `PlaceOrder` writes is one of its
  itemised orders.
* `AtomicCart` - the abstract promise of the cart endpoints: each request is asked, and
  then fails without effect or takes its whole effect in one step. `Cart` implements it by
  showing of a request only what it asks and its `status`: a commit is the abstract
  request's step, the other statements are invisible.
* `BotSession` - one customer's button presses in the bot. A press is a record that
  advances through the calls of its handler (`Script`); a step runs from one HTTP answer
  to the next request, because a coroutine gives way only where it waits for an answer
  (the storage's lock is never held across one). The client's parts are `_protected`
  (`attempt`, `AuthenticationRequired`), `_authenticated_json` (`again`, `ReceiveAnswer`),
  `_refresh` and `synchronize`; `tokens` is the customer's entry in the shared storage.
  A request whose sender has timed out or was restarted may still be handled. The backend
  is the cart of one product at the granularity of requests, as `AtomicCart` justifies,
  tokens that expire, a throttled refresh endpoint and an account that can be deactivated
  (whether the sign-in view serves an inactive account is left open: it does not look, the
  token library may refuse).
* `ConfirmationEmail` - extends `OrderReservation` with the callback that `complete_payment`
  registers for the commit that pays an order (`callbacks`), the Celery task and its
  progress (`tasks`: queued, order row loaded, message built), how each email ended and
  what the mail server accepted. `Transaction` is any step of the aggregate with the
  callback it registers. Broker, web process and worker may fail between any two steps; a
  send may fail after its message was accepted. The worker's queries run in autocommit; the
  order row with its licence key is one read, items, assignments and payments another. The
  order of reads inside the second does not matter: a paid order's assignments only
  disappear, with the item row, and then the licence key of the row takes their place.
* `Migrations` - extends `OrderReservation` with the release before it. `MigrationInit` is a
  database of that release as its tables allow it: `OldOrders` are paid or unpaid, with item rows
  of any shape or without; `OldKeys` gives a key to any of them or none; `OldPayments` are
  completed, failed or open attempts of any order; `OldAmounts` are totals, prices paid and items'
  sums that may be missing, negative or contradict each other. Orders may name a product without
  a title, or none. Only one thing is assumed that no constraint enforces: a key that a paid order
  names is SOLD, as the old release set both in one transaction. Each migration is one transaction
  (`BackfillOrders` 0007, `ConstrainAmounts` 0008, `AssignKeysOfPaidOrders` 0009, `GoLive` 0010
  and 0011), a refusing migration is the absence of a step, and `RollBack` and `Reprice` may come
  in between. `Evidence` lists the sources of an order's total in the order of 0007's rules;
  `Assignable` has 0009's filter and its test for exactly one item row, so malformed orders are
  left without an assignment. `GoLive` forgets the books except for the attempts whose amount is
  not their order's total (`mismatched`), which `complete_payment` refuses; after it the module
  takes the steps of `OrderReservation`, minus those that the unique `Order.license_key` or its
  PROTECT refuses. `soldBefore` is history: the key, or none, of each order the old release
  sold. Here an order is in `LegacyOrders` or `UnpricedOrders` because the migration leaves it
  so, which is what justifies those two constants elsewhere.
* `AdminConsole` - the shop (`ShippedNext`) beside the Django admin. A change form's POST
  reads its row (`Open...`) and writes every column later (`Save...`), read-only columns as
  they were read; `form` is the row in between. `ReadFile` and `InsertKeys` are the two
  statements of an import. `delivered` and `overwritten` are history variables: the keys an
  order was paid with, and the rows a form has set back or edited.
* `Accounts` - registration, the bot's sign-in (`TelegramAuthenticationSerializer.create`) and
  the account administration, one SQL statement at a time. A request is a record that
  advances through `validated` (registration) or `insert`, `refetch`, `found` (sign-in). The
  unique columns guard `InsertUser` and the form; nothing is locked. The change form shows some
  of the metadata columns (`FormFields`: not the first and last name): `PostPage` reads the row
  again and replaces these by what the page showed, `SavePage` writes all of it. `disturbed` and
  `witnessed` are history: which requests an administrator's change overlaps, and which of
  the values a request sent have been stored while it ran.
* `OrderReservation_proofs`, `PaymentSaga_proofs`, `Cart_proofs`,
  `ConfirmationEmail_proofs`, `Migrations_proofs`, `AdminConsole_proofs`, `Accounts_proofs`,
  `BotSession_proofs` - theorems (below).
* `MCOrderReservation`, `MCPaymentSaga`, `MCCart`, `MCBotSession`, `MCConfirmationEmail`,
  `MCMigrations`, `MCAdminConsole`, `MCAccounts` - the small instances the configurations use.

Definitions whose comment says *Fault variant* describe the code with one plausible
defect. No action uses them; putting one in the place of the definition it precedes
must break the property it is listed with in `PROJECT.json`, which shows that the
property depends on that line of the code.

## Runs

| Configuration | Question | Result |
|---|---|---|
| `MCMigrations` | databases of the previous release, malformed orders included, are upgraded, with rollbacks and new prices, and unpaid old orders compete with a new one: does what was sold stay as it was sold, and is everything else reserved and delivered all or nothing? | holds |
| `MCEmail` | an order that loses its item row again, PENDING answers: is each paid order mailed its keys once, while broker, worker and mail server fail and the rows the task reads change? | holds; a task skips its order only when a PENDING answer overwrote the payment that settled it |
| `MCCheckout` | Stripe through `POST /payments/` only, refused calls and crashes: is a chargeable checkout reserved, charged once, recorded and served, does every linked attempt end, and is that an implementation of `LicenseAllocation`? | holds |
| `MCMixed` | both endpoints, both providers, PENDING answers, refused and lost calls, an order without item rows: are keys sold only for money a provider has taken, and can a success that `pay_order` has learnt always be recorded? | holds |
| `MCCart` | one user, three requests of any kind, carts that do not exist yet, prices and availability that change: one row per product, no lost add, an order takes exactly the cart; is it an implementation of `AtomicCart`, one step for each request, with current prices and products on sale? | holds |
| `MCCartUsers` | two checkouts of the same products, rows in any order: is every request answered? | holds |
| `MCBot` | two presses of one customer, any handlers, tokens that expire, timeouts with late effects, restarts: does a press take effect at most once, are its answers true, do sessions recover, does every retry end, and do stale buttons create no units? | holds |
| `MCAdmin` | stale forms and imports beside two competing orders: do delivered keys stay, and is every inconsistent order one whose own rows a form overwrote? | holds |
| `MCAccounts` | two sign-ins or registrations, an administrator who adds, edits and deletes accounts: does who loses the insert race sign in, and is what a sign-in sends stored? | holds |
| `MCLostResponse` | ADR-001 section 6: released only when the checkout is conclusively closed | violated |
| `MCConcurrentPay` | ADR-001 section 6: not chargeable unless reserved | violated |
| `MCHistoricalCharge` | ADR-001 section 8: a historical charge is recorded | violated |

The three violations are disagreements between code and documentation:

1. `MCLostResponse`: `StripeProvider.create_payment` turns every `StripeError`,
   connection errors included, into `PaymentProviderRejected`, so a lost answer releases
   the keys while Stripe holds an open session.
2. `MCConcurrentPay`: while `create_payment` is between its provider call and the
   storing of the session, `POST /pay/` takes up the same attempt and repeats the call;
   if that is refused, it fails the attempt and releases its keys. `create_payment` does
   not look at the payment again and hands the URL out.
3. `MCHistoricalCharge`: if the order of a charged attempt was meanwhile paid by another, each
   delivery of the charge raises and is rolled back, ledger row included.

More disagreements have no run of their own. A failed attempt that is charged after
all (what `MCConcurrentPay` leads to) is fulfilled by a search of the stock, which ADR-001
section 10 rules out. `docs/ARCHITECTURE.md:173-175` says that paid cart orders receive no
confirmation email; `has_complete_fulfilment` accepts them, as its tests expect, and in
`MCEmail` they are mailed. `MCCartUsers` reaches deadlocks as well: `checkout_cart` locks product rows in the order
in which each cart happens to list them, so two carts with the same two products in
opposite orders wait for each other. PostgreSQL fails one of them with an error the view
does not turn into an answer of its own; the customer has to check out again.
`OrderAdmin` leaves the reservation authority editable: an administrator may choose a payment
of another order, or set an authority back that the shop has cleared, although ADR-001 says
"A non-null authority must reference a payment belonging to the same order". An order, payment
or key row that a stale form has set back stays inconsistent and may block its order; what
`MCAdmin` shows is that the damage goes no further. An unpaid order of the previous release that
names a key on sale blocks every new direct order that gets this key: completing it would violate
the unique `Order.license_key`, on each delivery of the charge. `PaymentAdmin.status_badge` has no colour
for CANCELLED and EXPIRED, so the list of payments fails once such an attempt exists (display
code, not modelled). A registration that takes the address `telegram-<id>@bot.ludora.invalid`
makes every sign-in of that Telegram customer fail; `RaceLosersSignIn` names it as the one
cause that is no administrator's.

Bounds. `MCMigrations`: three historic orders - one that names the game and has its item row or
not, one with two item rows, one of a product without a title - each paid or unpaid and with or
without one of the two historic keys; one historic attempt of any of them; and an order placed
on the new release, with a second attempt and a third key. That is enough for a paid order
without a key, one with two item rows, an unpaid one with a key, an attempt that is terminated,
replaced and followed by another order's, and for each of 0007's five sources to decide (the
amounts each order may have are listed in `OldBooks`). Amounts are one valid and one negative
value; the game's price changes between two values. `MCEmail`: two orders, two units against
one, three keys, three attempts and the source's three retries.

`MCCheckout`: two orders, three attempts, three requests, one key: a create, its repetition and
the other order's. It is also the run of `ImplementsAllocation` and `ReservationConsistent`,
since the saga's steps are written as the aggregate's.
`MCMixed`: two orders, two attempts, four requests and one key, so that a create, two pays and
a replacement meet while the other order competes; its 900,000 states leave no room for a third
attempt. The violation runs use one order.

`MCAdmin`: two orders for one of two keys each, three attempts, one administrator with one
form in flight (two forms of one row are two successive overwritings), and `MaxOverwritten` = 2:
two rows set back, so that a damaged order and a damaged key can meet. `MCAccounts`: one
Telegram id, its reserved email and another one, three primary keys, two requests, `MaxRemoved`
= 1; a third registrant is the administrator's `AddUser`. Two metadata columns tell apart a
mixture of two sign-ins' values from either.

Cart runs: rows of one cart meet only requests of its user, so `MCCart` has one user and
three requests (two that race and one that disturbs them), two products and a limit of 2
in place of 99, so that a sum can exceed it. What users share are the product rows, so
`MCCartUsers` has two users with a request each and starts from four item ids,
enough for two full carts in either order. `RowLimit` bounds the item ids.

`MCBot`: handlers of different customers share nothing in the bot, so there is one
customer, with two presses of any of the seven handlers that change something; four tokens
suffice for both presses to refresh or sign in after each other's deletions. Two units of a
limit of three leave room for every button, and a second row id for a product that is
bought or removed and added again.

Attempts, requests, accounts, presses, keys and products are interchangeable (symmetry) except where liveness
is checked. Deadlock checking is off since a shop whose orders are all paid, or a client
that has sent its last request, stops.

Fairness (`SagaSpec`): a request continues or dies (a worker never hangs for ever);
Stripe ends every open or processing session (Checkout sessions expire); Stripe
redelivers an event until it is acknowledged. Customers are never obliged to pay and no
request is ever obliged to be sent. `Cart`'s `FairSpec`: a request whose statement can run
runs it, and PostgreSQL breaks every cycle of waiting transactions; nothing is assumed of
administrators or of requests not yet sent. `BotSession` needs no fairness: a waiting press
always ends by its client's timeout, and `AnswersAreProgress` says that answers cannot keep
it busy for ever, whatever other presses do to its tokens. Attempts whose reference was
never stored, because the worker died after the provider call, are excluded from
`LinkedAttemptsEnd`: nothing in the code ends them (`docs/ARCHITECTURE.md` lists the missing
reconciliation worker).

## Proofs

Checked with TLAPS for all values of the constants, from the constants' assumptions
(types of `KeyProduct` and `Quantity`, kinds of orders, null is no row):

* `TypeCorrect`, `ReservationSafe`: `TypeOK` and the five reservation invariants of
  `Spec`. They are not inductive by themselves: `IInv` adds, for each order, that held
  keys carry the status the order implies, that a complete reservation belongs to an
  active authority of the same order, and that a key without assignment is on sale, gone
  or (legacy orders) stranded. `InvInductive` has one step per transaction.
  Both are stated per order (`OrderInvInductive`), so that `Migrations_proofs` can use them for
  the orders that were not sold before. `ReservationAgrees` restates three of the five as
  `ReservationConsistent`, which a run checks.
* `SalesAreFinal`, `HistoryHarmless`, `ReleaseOnlyAtTheEnd`: action properties from `IInv`.
* `SettledOnce`: `OneSettlement` for `ShippedSpec`, with `SettleInv` (no row without a
  status, per-order settlement) as strengthening.
* `AllocationImplemented`: `Spec` implements `LicenseAllocation` when there are no legacy
  orders; each transaction is an abstract step or invisible.
* `SagaTypeCorrect`, `SagaSettledOnce`: the saga's types, that a checkout is handed out only
  after its reference is stored, and `OneSettlement` without PENDING answers. The lemmas
  `SagaIsReservation` and `SagaIsShipped` carry the aggregate's theorems over; they hold by the
  way the saga is written, given `SagaInv` (a running request knows an existing order and
  attempt). `AcknowledgedForGood` (no PENDING): a ledger row's effect outlasts every later step,
  since ended attempts do not reopen.
* `SoldOnlyForMoney`: no order is paid without money taken for an attempt of its own. `FundInv`
  says that an event tells the truth about its session, that only a request that is settling or
  done has an answer, and that payment rows keep their orders; charges and answers are never
  taken back, so what an order was paid with can still be named later.
* `ConfirmedCanBeFulfilled`: `FulfilInv` says that the attempt of each running `pay_order` is its
  order's authority unless some request on it selected Stripe. It needs that the advisory lock
  keeps other `pay_order` requests of the order out (`LockInv`), that only Stripe requests are
  rejected, and that every session, hence every event, stems from one (`StripeInv`).
* `ChargeableHasKeys`, `ChargedOnlyOnce`, `OpenCheckoutsKeepKeys`: what
  the customer's money rests on, under `ChargeAssumptions`: only `POST /payments/`, no lost
  answers, no PENDING, no legacy orders. `MCLostResponse` and `MCConcurrentPay` show that the
  first two cannot be dropped. The inductive `ChargeInv` says that a session that can be paid
  belongs to a live attempt (active, its order unpaid, the authority) and a charged one to a
  live attempt or the one that settled; that a request has its attempt to itself and no
  session exists before its call succeeded; and that an event tells what the session is.
* `CartTyped`, `OneRow`, `CheckoutMovesTheCart`, `AddsCount`: the
  safety properties of `Cart` and its types, for any number of users, products and overlapping
  requests. The inductive `CartInv` says what a request knows because it holds the cart row: an add's
  row is the one there is, a checkout has read each row it has locked as it still is,
  its products are locked and its cart is not empty. Its proof rests on `EndKeepsKnowledge`: a
  transaction that ends touches only rows of the cart it holds, so what others know stays true.
* `CartIsAtomic`: `Cart` implements `AtomicCart`. Rollbacks, deadlocks and crashes map to the
  abstract failure, the commit of each endpoint to its abstract effect. The hard step is
  `PlaceOrder`: `CheckoutReadsThePurchase` shows from `CartInv` that the lines read one row
  at a time are the cart at the prices of the commit, since the product rows are still locked.
* `MailKeepsReservation`: the emails change nothing in the aggregate, so its theorems hold
  while they are sent. `OneEmail`, `BoundedMessages`: `MailInv` says for each order that a
  callback, a task and an ended email exclude each other and mean that the order is paid,
  and that messages do not outnumber attempts. `MailedKeysAreFinal`: what is mailed covers the
  order and stays sold to it, since a message is built from the keys of a paid order and
  `SoldKeyStays`; for a legacy order, whose one key may be that of the order row, it is the
  same key (`OwnKeyInv`). `SkippedOverwritten`: a paid order whose payments say so covers its
  quantities with keys. Both count the units of an order, a fold over its products, which is
  the one place with induction over data: `FoldExists` and the lemmas before it argue by a
  smallest set of products for which the claim fails, so they need finitely many keys and,
  for the second, products.
* `MigrationSafe`, `UnsoldSafe`: before the release is live, `MigrationInv` says which keys are
  whose (`KeysBefore`), which orders have or can get items (`ItemsBefore`) and that assignments
  are exactly those 0009 makes (`AssignmentsBefore`); afterwards (`LiveInv`), that each order sold
  before is as it was sold (`KeptInv`) and every other one satisfies the aggregate's `OrderInv`.
  `SoldOrderStays` shows that no transaction of another order touches the key of an order sold
  before, although a malformed one has no assignment that would protect it.
* `BackfillRepeats`: a total that is known is its own first evidence, so `Totals` has no other
  member.
* `DeliveriesStay`: `DeliveryInv` adds that the keys of an order which is unpaid, or which a
  form in flight is about to make unpaid (`Exposed`), are still recorded as sold; thus an order
  that a form has set back has keys but no reservation, and no transaction can release,
  replace or sell them.
* `DamageContained`: a key that a form has set back may be released or set right again later, so
  `ContainInv` speaks of the orders whose own row and payments no form has overwritten (`Intact`):
  order, authority and assignments agree (`Backed`), and each key held that no form has touched
  has the status this implies (`Marked`). `FormsKeepBacked` shows that forms and imports reach no
  such order, the other two lemmas that transactions keep it as it is or finish their work.
* `LosersSignIn`, `AnswersTakeEffect`, `AccountsTyped`: `Inv` says what an undisturbed request
  was told and is still true (`StillTrue`): its account exists and has its Telegram id, or a row
  that refused its insert does; and each column that need not be written was seen stored. Only
  administrators take rows away, and they disturb every request that is under way.

* `BotTyped`, `PressesApplyOnce`, `TrueAnswers`: `Shape` says of each handler where it is in the
  script of its kind, that a call is left behind only by a handler that has ended, and that the
  one call the press is for (`Applying`) is applied exactly if it has been answered; `Checkout`
  adds what the order of an answered checkout or payment is. `HandlerSteps` reduces every step
  to what it does to one handler: nothing, its first request, a move of the client
  (`ClientMove`) or an answer (`Handled`).
* `SessionsRecover`: `Session` says that the tokens of a handler's second sign-in are younger
  than the press and therefore alive, so that only the account can be the reason for a refusal;
  other presses may delete the shared pair, but not the one a call was made with.
* `AnswersBringProgress`: an answer ends a handler, or brings it to its next call, its second
  attempt or a later phase of this one (`ReceiveAdvances`), and `Remaining` weighs these so
  that each outweighs what it resets.
* `UnitsStayAccountedFor` (finitely many presses): `Units` adds that a reading of a row which is
  still in the cart counts as if it were there, and that row ids are never used again: a stale
  button changes a row only if nothing has taken it since.

Every invariant and every safety property of the runs that hold is the subject of a theorem.
(`SalesAreFinal` states a property that no run repeats.) Only model-checked: the liveness properties (`ChargedOrdersArePaid`, `LinkedAttemptsEnd`,
`RequestsEnd`), since TLAPS does not reason about fairness here.

## Not modelled

Amounts, except in `Migrations` (both creating paths give a payment its order's total, which
never changes; a cart total beyond the ten digits of `Payment.amount` is refused when the row is
written), prices, key values, timestamps; signature verification and
parsing of webhooks; `ImproperlyConfigured` (same effect as a refused call); spurious
shortages of `skip_locked` (a reservation that fails is no step). Outside
`AdminConsole` a CSV import adds its keys one step at a time, which only admits more
interleavings. `AdminConsole` leaves out a new product or value of a key, and the provider and
reference that a stale payment form writes back; it has one administrator's forms and a second
importer (`ImportKey`). `Accounts` leaves out passwords, permission flags, tokens and
`last_login`. `Migrations` leaves out the schema-only migrations, cart orders of the previous
release and orders that name a key nobody has sold although they are paid; the status CANCELLED,
which no code writes or reads, counts as CREATED. Serializers, presentation
and read-only endpoints have no state. `Cart` leaves out administrators who delete carts,
items or (by cascade) products, and retries of a request by its client, which are new
requests. `BotSession` leaves out language preferences, screens that only read, the
reactivation of an account, and updates that Telegram delivers again after a crash. It does
assume that a token lives longer than the presses that were running when it was issued
(15 minutes against a few calls of 5 seconds); without that, `SessionRecovers` could not
hold. `UnitsAreAccountedFor` does not say that every press counts: two presses that read the
same quantity set the same quantity, and one unit is lost.

## Plan

Done: all modules above, with proofs.

Left, in this order: `ReservationTx`, reservation at the level of row locks and
`skip_locked`, refining `ReserveKeys`; the stale provider and reference of a payment form
beside the saga.
