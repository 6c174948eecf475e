----------------------------- MODULE BotSession -----------------------------
(***************************************************************************)
(* The Telegram bot (bot/app) as a client of the backend: the handlers     *)
(* that one customer's button presses start, the token pair they share,    *)
(* and the sign-in, refresh and retry around every call.  Token pairs of   *)
(* different customers are different entries of a dictionary.              *)
(*                                                                         *)
(* Handlers are coroutines: they interleave where they wait for an HTTP    *)
(* answer and nowhere else (the storage's lock is never contended), so a   *)
(* step of a handler runs from one answer to its next request.  A request  *)
(* that the client has given up may still reach the backend.  The screens  *)
(* that only read (cart, profile, orders) make the first call of "inc".    *)
(***************************************************************************)
EXTENDS Naturals, Sequences, FiniteSets

CONSTANTS Presses,          \* button presses and commands, each handled once
          Kinds,            \* the handlers in use
          InitialQuantity,  \* units in the cart when the behaviour starts
          MaxQuantity,      \* the backend's limit
          RowLimit,         \* bound: item ids are 1 .. RowLimit
          TokenLimit,       \* bound: token ids are 1 .. TokenLimit
          Nobody            \* null

\* The calls of each handler; "start" only signs in.
Script == [start    |-> <<>>,
           add      |-> <<"add">>,
           inc      |-> <<"read", "change", "read">>,
           dec      |-> <<"read", "change", "read">>,
           remove   |-> <<"read", "remove", "read">>,
           clear    |-> <<"clear">>,
           checkout |-> <<"checkout", "pay", "read">>]

Item == [row : 1 .. RowLimit, quantity : 1 .. MaxQuantity]
Order == [units : 1 .. MaxQuantity, paid : BOOLEAN]

ASSUME BotAssumption ==
    /\ Kinds \subseteq DOMAIN Script
    /\ MaxQuantity \in Nat \ {0} /\ InitialQuantity \in 0 .. MaxQuantity
    /\ RowLimit \in Nat \ {0} /\ TokenLimit \in Nat \ {0}
    /\ Nobody \notin Nat /\ Nobody \notin Item \cup Order

VARIABLES tokens,         \* the storage's entry: a pair of token ids, or none
          press,          \* the handlers
          issued,         \* how many tokens the backend has issued
          liveAccess, liveRefresh,  \* token ids that have not expired
          account,        \* User.is_active
          item,           \* the cart's row for the one product
          nextRow,        \* the sequence of CartItem.id
          order           \* the order that a checkout press has created

backendVars == <<issued, liveAccess, liveRefresh, account, item, nextRow, order>>
vars == <<tokens, press, backendVars>>

Tokens == 1 .. TokenLimit
Pair == [access : Tokens, refresh : Tokens]

Handler ==
    [pc : {"unsent", "waiting", "shown", "failed", "expired"},
     kind : Kinds \cup {Nobody},
     step : 1 .. 3,                     \* the call in Script[kind]
     attempt : {1, 2},                  \* of _protected
     again : BOOLEAN,                   \* the call is repeated after a refresh
     pair : Pair \cup {Nobody},         \* the tokens the call was made with
     to : {"signin", "refresh", "call"},
     mail : {"none", "sent", "ok", "unauthorized", "rejected", "error"},
     minted : Tokens \cup {Nobody},     \* a token in the answer
     seen : Item \cup {Nobody},         \* the item in the last cart read
     since : 0 .. TokenLimit,           \* tokens issued before the press
     applied : Nat]                     \* how often the backend did what was asked

TypeOK ==
    /\ tokens \in Pair \cup {Nobody}
    /\ press \in [Presses -> Handler]
    /\ issued \in 0 .. TokenLimit
    /\ liveAccess \subseteq 1 .. issued /\ liveRefresh \subseteq 1 .. issued
    /\ account \in BOOLEAN
    /\ item \in Item \cup {Nobody}
    /\ nextRow \in 1 .. RowLimit + 1
    /\ order \in [Presses -> Order \cup {Nobody}]

Unsent == [pc |-> "unsent", kind |-> Nobody, step |-> 1, attempt |-> 1, again |-> FALSE,
           pair |-> Nobody, to |-> "call", mail |-> "none", minted |-> Nobody,
           seen |-> Nobody, since |-> 0, applied |-> 0]

\* The customer has used the bot before.
Init ==
    /\ issued = 1
    /\ tokens = [access |-> 1, refresh |-> 1]
    /\ liveAccess = {1} /\ liveRefresh = {1}
    /\ account = TRUE
    /\ item = IF InitialQuantity = 0 THEN Nobody
                                     ELSE [row |-> 1, quantity |-> InitialQuantity]
    /\ nextRow = 2
    /\ order = [p \in Presses |-> Nobody]
    /\ press = [p \in Presses |-> Unsent]

-----------------------------------------------------------------------------
(* The client *)

Waiting(p) == press[p].pc = "waiting"
Op(p) == Script[press[p].kind][press[p].step]

\* What is left of a handler that has ended: a call that may still be handled.
Rest(h) ==
    LET ended == [Unsent EXCEPT !.pc = h.pc, !.kind = h.kind, !.applied = h.applied]
    IN IF h.mail = "sent" /\ h.to = "call"
             /\ Script[h.kind][h.step] # "read"
       THEN [ended EXCEPT !.step = h.step, !.pair = h.pair, !.seen = h.seen, !.mail = "sent"]
       ELSE ended

Becomes(p, h) == press' = [press EXCEPT ![p] = IF h.pc = "waiting" THEN h ELSE Rest(h)]
End(p, outcome) == Becomes(p, [press[p] EXCEPT !.pc = outcome])

SignIn(h) == [h EXCEPT !.pc = "waiting", !.to = "signin", !.mail = "sent",
                       !.pair = Nobody, !.again = FALSE]
Call(h, pair, again) ==
    [h EXCEPT !.pc = "waiting", !.to = "call", !.mail = "sent",
              !.pair = pair, !.again = again, !.minted = Nobody]

\* A new call: ensure_authenticated, then the operation.
Protected(h) == LET fresh == [h EXCEPT !.attempt = 1]
                IN IF tokens = Nobody THEN SignIn(fresh) ELSE Call(fresh, tokens, FALSE)

Press(p, kind) ==
    /\ press[p].pc = "unsent"
    /\ LET h == [press[p] EXCEPT !.kind = kind, !.since = issued]
       IN Becomes(p, IF kind = "start" THEN SignIn(h) ELSE Protected(h))
    /\ UNCHANGED <<tokens, backendVars>>

\* Fault variant: every AuthenticationRequired is answered by a sign-in.
AuthenticationRequiredLoops(p) == tokens' = Nobody /\ Becomes(p, SignIn(press[p]))

\* Fault variant: only a missing pair leads to a sign-in.
AuthenticationRequiredEnds(p) == tokens' = Nobody /\ End(p, "expired")

\* AuthenticationRequired is answered by one fresh sign-in.
AuthenticationRequired(p) ==
    /\ tokens' = Nobody
    /\ IF press[p].attempt = 1
       THEN Becomes(p, SignIn([press[p] EXCEPT !.attempt = 2]))
       ELSE End(p, "expired")

\* Fault variant: the status of an answer is not looked at.
AcceptsAnyStatus(p) == press[p].mail # "unauthorized"

Accepts(p) == press[p].mail = "ok"

SignedIn(p) ==
    LET pair == [access |-> press[p].minted, refresh |-> press[p].minted]
    IN /\ tokens' = pair
       /\ IF press[p].kind = "start"
          THEN End(p, "shown")
          ELSE Becomes(p, Call(press[p], pair, FALSE))

Refreshed(p) ==
    LET pair == [access |-> press[p].minted, refresh |-> press[p].pair.refresh]
    IN /\ tokens' = pair
       /\ Becomes(p, Call(press[p], pair, TRUE))

\* A button may be older than the row in the cart: then the handler says so.
Called(p) ==
    /\ UNCHANGED tokens
    /\ IF press[p].step = Len(Script[press[p].kind])
       THEN End(p, "shown")
       ELSE \/ /\ Op(p) = "read" => press[p].seen # Nobody
               /\ Becomes(p, Protected([press[p] EXCEPT !.step = @ + 1,
                       !.seen = IF Op(p) = "read" THEN @ ELSE Nobody]))
            \/ Op(p) = "read" /\ End(p, "failed")

ReceiveSignIn(p) ==
    /\ press[p].to = "signin"
    /\ IF Accepts(p) THEN SignedIn(p) ELSE End(p, "failed") /\ UNCHANGED tokens

ReceiveRefresh(p) ==
    /\ press[p].to = "refresh"
    /\ \/ Accepts(p) /\ Refreshed(p)
       \/ press[p].mail = "unauthorized" /\ AuthenticationRequired(p)
       \/ press[p].mail = "error" /\ End(p, "failed") /\ UNCHANGED tokens

ReceiveAnswer(p) ==
    /\ press[p].to = "call"
    /\ IF press[p].mail = "unauthorized"
       THEN IF press[p].again
            THEN AuthenticationRequired(p)
            ELSE /\ Becomes(p, [press[p] EXCEPT !.to = "refresh", !.mail = "sent"])
                 /\ UNCHANGED tokens
       ELSE IF Accepts(p) THEN Called(p) ELSE End(p, "failed") /\ UNCHANGED tokens

Receive(p) ==
    /\ Waiting(p) /\ press[p].mail \notin {"none", "sent"}
    /\ ReceiveSignIn(p) \/ ReceiveRefresh(p) \/ ReceiveAnswer(p)
    /\ UNCHANGED backendVars

\* Fault variant: a call that timed out is made again.
CallOnceMore(p) == IF press[p].to = "call" THEN Becomes(p, Call(press[p], press[p].pair, TRUE))
                                           ELSE End(p, "failed")

GiveUp(p) == End(p, "failed")

\* BackendTimeout and BackendUnavailable.
Timeout(p) == Waiting(p) /\ GiveUp(p) /\ UNCHANGED <<tokens, backendVars>>

\* Tokens are lost with the process, and so are the handlers.
Restart ==
    /\ tokens' = Nobody
    /\ press' = [p \in Presses |-> IF Waiting(p) THEN Rest([press[p] EXCEPT !.pc = "failed"])
                                                 ELSE press[p]]
    /\ UNCHANGED backendVars

-----------------------------------------------------------------------------
(* The backend *)

cartVars == <<item, nextRow, order>>

Answer(p, status) == Becomes(p, [press[p] EXCEPT !.mail = status])
Apply(p) == Becomes(p, [press[p] EXCEPT !.mail = "ok", !.applied = @ + 1])
Refuse(p) == Answer(p, "rejected") /\ UNCHANGED cartVars

\* TokenLimit bounds the tokens.
Mint(p) ==
    /\ issued < TokenLimit
    /\ issued' = issued + 1
    /\ liveAccess' = liveAccess \cup {issued + 1}
    /\ Becomes(p, [press[p] EXCEPT !.mail = "ok", !.minted = issued + 1])

\* The view issues tokens for whatever account it finds; for an inactive one the
\* JWT library may refuse to.
DoSignIn(p) ==
    /\ \/ Mint(p) /\ liveRefresh' = liveRefresh \cup {issued + 1}
       \/ /\ ~account
          /\ Answer(p, "unauthorized")
          /\ UNCHANGED <<issued, liveAccess, liveRefresh>>
    /\ UNCHANGED cartVars

\* The endpoint is throttled; refresh tokens are not rotated.  The JWT library
\* accepts no token of an inactive account.
DoRefresh(p) ==
    /\ \/ account /\ press[p].pair.refresh \in liveRefresh /\ Mint(p)
       \/ /\ ~(account /\ press[p].pair.refresh \in liveRefresh)
          /\ Answer(p, "unauthorized")
          /\ UNCHANGED <<issued, liveAccess>>
       \/ Answer(p, "error") /\ UNCHANGED <<issued, liveAccess>>
    /\ UNCHANGED <<liveRefresh, cartVars>>

\* Refused for instance because the product is not on sale.
DoAdd(p) ==
    \/ /\ item = Nobody /\ nextRow <= RowLimit
       /\ item' = [row |-> nextRow, quantity |-> 1]
       /\ nextRow' = nextRow + 1
       /\ Apply(p)
       /\ UNCHANGED order
    \/ /\ item # Nobody /\ item.quantity < MaxQuantity
       /\ item' = [item EXCEPT !.quantity = @ + 1]
       /\ Apply(p)
       /\ UNCHANGED <<nextRow, order>>
    \/ Refuse(p)

\* The row a press has read is the row there is.
SameRow(p) == item # Nobody /\ item.row = press[p].seen.row

\* Fault variant: the quantity limit is left to the client.
AnyQuantity(n) == TRUE

QuantityAllowed(n) == n \in 1 .. MaxQuantity

\* Fault variant: setting a quantity puts a vanished item back.
PutQuantity(p, n) ==
    IF QuantityAllowed(n)
    THEN item' = [press[p].seen EXCEPT !.quantity = n] /\ Apply(p) /\ UNCHANGED <<nextRow, order>>
    ELSE Refuse(p)

SetQuantity(p, n) ==
    IF SameRow(p) /\ QuantityAllowed(n)
    THEN item' = [item EXCEPT !.quantity = n] /\ Apply(p) /\ UNCHANGED <<nextRow, order>>
    ELSE Refuse(p)

DoRemove(p) ==
    IF SameRow(p) THEN item' = Nobody /\ Apply(p) /\ UNCHANGED <<nextRow, order>>
                  ELSE Refuse(p)

\* The quantity is computed from the cart as the press has read it.
DoChange(p) ==
    LET n == press[p].seen.quantity
    IN IF press[p].kind = "inc" THEN SetQuantity(p, n + 1)
       ELSE IF n = 1 THEN DoRemove(p) ELSE SetQuantity(p, n - 1)

DoCheckout(p) ==
    \/ /\ item # Nobody
       /\ order' = [order EXCEPT ![p] = [units |-> item.quantity, paid |-> FALSE]]
       /\ item' = Nobody
       /\ Apply(p)
       /\ UNCHANGED nextRow
    \/ Refuse(p)

\* The local provider confirms or not; a paid order is not paid again.
DoPay(p) ==
    \/ /\ ~order[p].paid
       /\ order' = [order EXCEPT ![p].paid = TRUE]
       /\ Answer(p, "ok")
       /\ UNCHANGED <<item, nextRow>>
    \/ Refuse(p)

DoCall(p) ==
    /\ UNCHANGED <<issued, liveAccess, liveRefresh>>
    /\ IF account /\ press[p].pair.access \in liveAccess
       THEN \/ Op(p) = "read" /\ UNCHANGED cartVars
               /\ Becomes(p, [press[p] EXCEPT !.mail = "ok", !.seen = item])
            \/ Op(p) = "add" /\ DoAdd(p)
            \/ Op(p) = "change" /\ DoChange(p)
            \/ Op(p) = "remove" /\ DoRemove(p)
            \/ Op(p) = "clear" /\ item' = Nobody /\ Apply(p) /\ UNCHANGED <<nextRow, order>>
            \/ Op(p) = "checkout" /\ DoCheckout(p)
            \/ Op(p) = "pay" /\ DoPay(p)
       ELSE Answer(p, "unauthorized") /\ UNCHANGED cartVars

\* The backend handles a request, which its sender may have given up.
Handle(p) ==
    /\ press[p].mail = "sent"
    /\ \/ press[p].to = "signin" /\ DoSignIn(p)
       \/ press[p].to = "refresh" /\ DoRefresh(p)
       \/ press[p].to = "call" /\ DoCall(p)
    /\ UNCHANGED <<tokens, account>>

\* A token outlives the presses that were running when it was issued.
\* One that nobody holds may as well stay.
MayExpire(t) ==
    /\ \A p \in Presses : Waiting(p) => t <= press[p].since
    /\ \E pair \in {tokens} \cup {press[p].pair : p \in Presses} :
          pair # Nobody /\ t \in {pair.access, pair.refresh}

Expire(t) ==
    /\ MayExpire(t)
    /\ \/ t \in liveAccess /\ liveAccess' = liveAccess \ {t} /\ UNCHANGED liveRefresh
       \/ t \in liveRefresh /\ liveRefresh' = liveRefresh \ {t} /\ UNCHANGED liveAccess
    /\ UNCHANGED <<tokens, press, issued, account, cartVars>>

\* An administrator clears User.is_active.
Deactivate ==
    /\ account /\ account' = FALSE
    /\ UNCHANGED <<tokens, press, issued, liveAccess, liveRefresh, cartVars>>

-----------------------------------------------------------------------------
Next ==
    \/ \E p \in Presses : \/ \E kind \in Kinds : Press(p, kind)
                          \/ Receive(p) \/ Timeout(p) \/ Handle(p)
    \/ \E t \in Tokens : Expire(t)
    \/ Restart \/ Deactivate

Spec == Init /\ [][Next]_vars

-----------------------------------------------------------------------------
(* Properties *)

\* What a press asks for is done at most once, although its call may be made
\* up to four times (refresh, second sign-in) and answers may be lost.
AppliedAtMostOnce == \A p \in Presses : press[p].applied <= 1

\* "Payment completed" is shown for paid orders only, and any other success
\* only for what the backend has done.
AnswersAreTrue ==
    \A p \in Presses : press[p].pc = "shown" =>
        /\ press[p].kind # "start" => press[p].applied = 1
        /\ press[p].kind = "checkout" => order[p].paid

\* Handlers delete and overwrite each other's tokens, yet no customer with an
\* active account is told that the session has expired.
SessionRecovers == \A p \in Presses : press[p].pc = "expired" => ~account

\* Stale buttons never bring back what was bought or removed: the units in
\* orders and in the cart have each been put there by a press of its own.
InCart == IF item = Nobody THEN 0 ELSE item.quantity
OrderedUnits == {u \in Presses \X (1 .. MaxQuantity) :
                    order[u[1]] # Nobody /\ u[2] <= order[u[1]].units}
Adding == {p \in Presses : press[p].kind \in {"add", "inc"} /\ press[p].applied > 0}
UnitsAreAccountedFor ==
    InCart + Cardinality(OrderedUnits) <= InitialQuantity + Cardinality(Adding)

\* Handlers that keep taking each other's tokens away still come to an end:
\* every answer leaves a handler with fewer requests to make.
Remaining(p) ==
    IF ~Waiting(p) THEN 0
    ELSE LET phase == CASE press[p].to = "signin" -> 4
                        [] press[p].to = "call" /\ ~press[p].again -> 3
                        [] press[p].to = "refresh" -> 2
                        [] OTHER -> 1
         IN phase + 4 * (2 - press[p].attempt)
                  + 8 * (Len(Script[press[p].kind]) - press[p].step + 1)

AnswersAreProgress == [][\A p \in Presses : Receive(p) => Remaining(p)' < Remaining(p)]_vars

=============================================================================
