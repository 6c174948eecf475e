------------------------- MODULE BotSession_proofs -------------------------
(***************************************************************************)
(* The bot's sessions for any number of presses, tokens and rows: what a   *)
(* handler remembers is in step with the script of its kind, a token minted *)
(* for a press outlives it, and a stale reading of the cart is harmless as *)
(* long as the row it was made from exists.                                *)
(***************************************************************************)
EXTENDS BotSession, FiniteSetTheorems, TLAPS

(***************************************************************************)
(* Handlers.                                                               *)
(***************************************************************************)

\* A handler with a call that the backend has or may get.
Pending(h) == h.pc = "waiting" \/ h.mail = "sent"

\* The position in its script of the call that does what a press asks for.
Applying(kind) == IF kind \in {"inc", "dec", "remove"} THEN 2 ELSE 1

Answered(h) == h.to = "call" /\ h.mail = "ok"

Done(h) == \/ h.step > Applying(h.kind)
           \/ h.step = Applying(h.kind) /\ Answered(h)

\* A handler is not started, at a call of its script, or ended, when it may
\* have left one call behind.  The call that was answered and those before it
\* have been applied, no other.
Shape(h) ==
    /\ h \in Handler
    /\ h.pc = "unsent" => h = Unsent
    /\ h.pc # "unsent" => h.kind \in Kinds
    /\ h.pc = "waiting" => h.mail # "none"
    /\ h.pc \notin {"unsent", "waiting"} => h.mail \in {"none", "sent"}
    /\ h.pc # "waiting" /\ h.mail = "sent" =>
          h.to = "call" /\ Script[h.kind][h.step] # "read"
    /\ Pending(h) =>
          /\ h.to \in {"call", "refresh"} => h.kind # "start" /\ h.pair \in Pair
          /\ h.to \in {"signin", "refresh"} /\ h.mail = "ok" => h.minted \in Tokens
          /\ h.kind # "start" =>
                /\ h.step \in 1 .. Len(Script[h.kind])
                /\ h.kind \in {"inc", "dec", "remove"} /\ h.step = 2 => h.seen \in Item
                /\ h.applied = IF Done(h) THEN 1 ELSE 0
          /\ h.kind = "start" => h.applied = 0 /\ h.step = 1
    /\ h.applied <= 1
    /\ h.pc = "shown" /\ h.kind # "start" => h.applied = 1

\* The tokens of a sign-in that a press has asked for are younger than it.
Session(h) ==
    /\ h.pc = "waiting" =>
          /\ h.since <= issued
          /\ h.to \in {"signin", "refresh"} /\ h.mail = "ok" =>
                /\ h.minted > h.since /\ h.minted \in liveAccess
                /\ h.to = "signin" => h.minted \in liveRefresh
          /\ h.attempt = 2 /\ h.to \in {"call", "refresh"} =>
                /\ h.pair.access > h.since /\ h.pair.access \in liveAccess
                /\ h.pair.refresh > h.since /\ h.pair.refresh \in liveRefresh
                /\ h.mail = "unauthorized" => ~account
    /\ h.pc = "expired" => ~account

\* A checkout that has been answered has its order.
Checkout(p) ==
    LET h == press[p]
    IN h.kind = "checkout" =>
          /\ Pending(h) /\ (h.step >= 2 \/ Answered(h)) => order[p] \in Order
          /\ Pending(h) /\ (h.step = 3 \/ (h.step = 2 /\ Answered(h))) => order[p].paid
          /\ h.pc = "shown" => order[p].paid

\* What a press has read of a row that is still there could be in the cart.
Units ==
    /\ UnitsAreAccountedFor
    /\ item # Nobody => item.row < nextRow
    /\ \A p \in Presses : LET seen == press[p].seen IN
          seen # Nobody =>
            /\ seen.row < nextRow
            /\ item # Nobody /\ item.row = seen.row =>
                  seen.quantity + Cardinality(OrderedUnits)
                    <= InitialQuantity + Cardinality(Adding)

ShapeInv == TypeOK /\ \A p \in Presses : Shape(press[p])
SessionInv == \A p \in Presses : Session(press[p])
CheckoutInv == \A p \in Presses : Checkout(p)

\* A handler that may make the call at its step.
Ready(h) ==
    /\ h \in Handler /\ h.kind \in Kinds
    /\ h.kind = "start" => h.applied = 0 /\ h.step = 1
    /\ h.kind # "start" =>
          /\ h.step \in 1 .. Len(Script[h.kind])
          /\ h.kind \in {"inc", "dec", "remove"} /\ h.step = 2 => h.seen \in Item
          /\ h.applied = IF h.step > Applying(h.kind) THEN 1 ELSE 0

-----------------------------------------------------------------------------
\* The scripts, call by call.
LEMMA ScriptFacts ==
    ASSUME NEW kind \in DOMAIN Script
    PROVE  /\ Len(Script[kind]) = IF kind = "start" THEN 0
                                  ELSE IF kind \in {"inc", "dec", "remove", "checkout"} THEN 3
                                  ELSE 1
           /\ kind \in {"start", "add", "inc", "dec", "remove", "clear", "checkout"}
           /\ kind \in {"add", "clear"} => Script[kind][1] = kind
           /\ kind \in {"inc", "dec"} => Script[kind][2] = "change"
           /\ kind = "remove" => Script[kind][2] = "remove"
           /\ kind \in {"inc", "dec", "remove"} =>
                 Script[kind][1] = "read" /\ Script[kind][3] = "read"
           /\ kind = "checkout" => /\ Script[kind][1] = "checkout"
                                   /\ Script[kind][2] = "pay"
                                   /\ Script[kind][3] = "read"
<1>1. kind \in {"start", "add", "inc", "dec", "remove", "clear", "checkout"}
  BY DEF Script
<1>2. /\ Script["start"] = <<>>
      /\ Script["add"] = <<"add">> /\ Script["clear"] = <<"clear">>
      /\ Script["inc"] = <<"read", "change", "read">>
      /\ Script["dec"] = <<"read", "change", "read">>
      /\ Script["remove"] = <<"read", "remove", "read">>
      /\ Script["checkout"] = <<"checkout", "pay", "read">>
  BY DEF Script
<1>3. Len(Script["start"]) = 0
  BY <1>2
<1>4. /\ Len(Script["add"]) = 1 /\ Script["add"][1] = "add"
      /\ Len(Script["clear"]) = 1 /\ Script["clear"][1] = "clear"
  BY <1>2
<1>5. /\ Len(Script["inc"]) = 3
      /\ Script["inc"][1] = "read" /\ Script["inc"][2] = "change" /\ Script["inc"][3] = "read"
      /\ Len(Script["dec"]) = 3
      /\ Script["dec"][1] = "read" /\ Script["dec"][2] = "change" /\ Script["dec"][3] = "read"
  BY <1>2
<1>6. /\ Len(Script["remove"]) = 3
      /\ Script["remove"][1] = "read" /\ Script["remove"][2] = "remove"
      /\ Script["remove"][3] = "read"
  BY <1>2
<1>7. /\ Len(Script["checkout"]) = 3
      /\ Script["checkout"][1] = "checkout" /\ Script["checkout"][2] = "pay"
      /\ Script["checkout"][3] = "read"
  BY <1>2
<1> QED
  BY <1>1, <1>3, <1>4, <1>5, <1>6, <1>7

\* Which calls of a handler do something, and which of them is the one asked for.
LEMMA Calls ==
    ASSUME NEW kind \in Kinds, kind # "start", NEW i \in 1 .. Len(Script[kind])
    PROVE  /\ i \in 1 .. 3 /\ Applying(kind) \in 1 .. Len(Script[kind])
           /\ Len(Script[kind]) \in 1 .. 3
           /\ Script[kind][i] \in {"read", "pay"} <=> i # Applying(kind)
           /\ Script[kind][i] = "read" => i # 2
           /\ Script[kind][i] = "pay" <=> kind = "checkout" /\ i = 2
           /\ Script[kind][i] = "checkout" <=> kind = "checkout" /\ i = 1
           /\ Script[kind][i] = "add" <=> kind = "add"
           /\ Script[kind][i] = "change" <=> kind \in {"inc", "dec"} /\ i = 2
           /\ Script[kind][i] = "remove" <=> kind = "remove" /\ i = 2
           /\ Script[kind][i] = "clear" <=> kind = "clear"
           /\ i = 2 => kind \in {"inc", "dec", "remove", "checkout"}
           /\ i # Len(Script[kind]) => i + 1 \in 1 .. Len(Script[kind]) /\ i + 1 \in 1 .. 3
<1> DEFINE n == Len(Script[kind])
<1>1. /\ kind \in {"add", "inc", "dec", "remove", "clear", "checkout"}
      /\ n = IF kind \in {"inc", "dec", "remove", "checkout"} THEN 3 ELSE 1
      /\ kind \in {"add", "clear"} => Script[kind][1] = kind
      /\ kind \in {"inc", "dec"} => Script[kind][2] = "change"
      /\ kind = "remove" => Script[kind][2] = "remove"
      /\ kind \in {"inc", "dec", "remove"} => Script[kind][1] = "read" /\ Script[kind][3] = "read"
      /\ kind = "checkout" => /\ Script[kind][1] = "checkout"
                              /\ Script[kind][2] = "pay"
                              /\ Script[kind][3] = "read"
  BY ScriptFacts, BotAssumption
<1>2. i \in 1 .. n
  OBVIOUS
<1> HIDE DEF n
<1>3. CASE kind \in {"add", "clear"}
  <2>1. n = 1 /\ i = 1 /\ Applying(kind) = 1
    BY <1>1, <1>2, <1>3 DEF Applying
  <2> QED
    BY <1>1, <1>3, <2>1 DEF n
<1>4. CASE kind \in {"inc", "dec", "remove"}
  <2>1. n = 3 /\ i \in {1, 2, 3} /\ Applying(kind) = 2
    BY <1>1, <1>2, <1>4 DEF Applying
  <2> QED
    BY <1>1, <1>4, <2>1 DEF n
<1>5. CASE kind = "checkout"
  <2>1. n = 3 /\ i \in {1, 2, 3} /\ Applying(kind) = 1
    BY <1>1, <1>2, <1>5 DEF Applying
  <2> QED
    BY <1>1, <1>5, <2>1 DEF n
<1> QED
  BY <1>1, <1>3, <1>4, <1>5

\* What the client leaves of a handler it has ended.
LEMMA RestShape ==
    ASSUME NEW h \in Handler, h.kind \in Kinds, h.pc \in {"shown", "failed", "expired"},
           h.applied <= 1, h.pc = "shown" /\ h.kind # "start" => h.applied = 1,
           h.mail = "sent" /\ h.to = "call" => Ready(h) /\ h.kind # "start" /\ h.pair \in Pair
    PROVE  Shape(Rest(h))
<1> DEFINE g == [Unsent EXCEPT !.pc = h.pc, !.kind = h.kind, !.applied = h.applied]
           l == [g EXCEPT !.step = h.step, !.pair = h.pair, !.seen = h.seen, !.mail = "sent"]
<1>0. Unsent \in Handler
  BY BotAssumption DEF Unsent, Handler
<1>1. /\ g \in Handler /\ g.pc = h.pc /\ g.kind = h.kind /\ g.applied = h.applied
      /\ g.mail = "none" /\ g.to = "call"
  BY <1>0 DEF Unsent, Handler
<1>2. /\ l \in Handler /\ l.pc = h.pc /\ l.kind = h.kind /\ l.applied = h.applied
      /\ l.step = h.step /\ l.pair = h.pair /\ l.seen = h.seen /\ l.mail = "sent" /\ l.to = "call"
  BY <1>1 DEF Handler
<1>3. Rest(h) = IF h.mail = "sent" /\ h.to = "call" /\ Script[h.kind][h.step] # "read"
                THEN l ELSE g
  BY DEF Rest
<1> HIDE DEF g, l
<1>4. CASE Rest(h) = g
  BY <1>1, <1>4 DEF Shape, Pending
<1>5. CASE Rest(h) = l /\ h.mail = "sent" /\ h.to = "call" /\ Script[h.kind][h.step] # "read"
  BY <1>2, <1>5, Calls DEF Shape, Pending, Ready, Done, Answered
<1> QED
  BY <1>3, <1>4, <1>5

\* A handler without an answer to its call may make it again.
LEMMA ShapeReady ==
    ASSUME NEW h, Shape(h), Pending(h), ~Answered(h)
    PROVE  Ready(h)
<1>1. h \in Handler /\ h.kind \in Kinds
  BY DEF Shape, Pending, Unsent
<1>2. CASE h.kind = "start"
  BY <1>1, <1>2 DEF Shape, Ready
<1>3. CASE h.kind # "start"
  BY <1>1, <1>3, Calls DEF Shape, Ready, Done
<1> QED
  BY <1>2, <1>3

LEMMA EndShape ==
    ASSUME NEW h, Shape(h), h.pc = "waiting",
           NEW outcome \in {"shown", "failed", "expired"},
           outcome = "shown" => h.mail = "ok" /\ (h.kind = "start" \/ h.applied = 1)
    PROVE  Shape(Rest([h EXCEPT !.pc = outcome]))
<1> DEFINE g == [h EXCEPT !.pc = outcome]
<1>1. h \in Handler /\ h.kind \in Kinds /\ h.applied <= 1
  BY DEF Shape
<1>2. /\ g \in Handler /\ g.pc = outcome /\ g.kind = h.kind /\ g.applied = h.applied
      /\ g.mail = h.mail /\ g.to = h.to /\ g.pair = h.pair /\ g.seen = h.seen /\ g.step = h.step
  BY <1>1 DEF Handler
<1> HIDE DEF g
<1>3. h.mail = "sent" /\ h.to = "call" => Ready(g) /\ h.kind # "start" /\ h.pair \in Pair
  <2>1. ASSUME h.mail = "sent", h.to = "call" PROVE Ready(h) /\ h.kind # "start" /\ h.pair \in Pair
    BY <2>1, ShapeReady DEF Shape, Pending, Answered
  <2> QED
    BY <1>2, <2>1 DEF Ready
<1> QED
  BY <1>1, <1>2, <1>3, RestShape DEF g

LEMMA SignInShape ==
    ASSUME NEW h, Ready(h)
    PROVE  Shape(SignIn(h))
<1> DEFINE g == SignIn(h)
<1>1. /\ g \in Handler /\ g.pc = "waiting" /\ g.kind = h.kind /\ g.applied = h.applied
      /\ g.to = "signin" /\ g.mail = "sent" /\ g.seen = h.seen /\ g.step = h.step
  BY DEF Ready, Handler, SignIn
<1> HIDE DEF g
<1>2. Shape(g)
  BY <1>1, Calls DEF Shape, Pending, Ready, Done, Answered
<1> QED
  BY <1>2 DEF g

LEMMA CallShape ==
    ASSUME NEW h, Ready(h), h.kind # "start", NEW pair \in Pair, NEW again \in BOOLEAN
    PROVE  Shape(Call(h, pair, again))
<1> DEFINE g == Call(h, pair, again)
<1>1. /\ g \in Handler /\ g.pc = "waiting" /\ g.kind = h.kind /\ g.applied = h.applied
      /\ g.to = "call" /\ g.mail = "sent" /\ g.pair = pair /\ g.seen = h.seen /\ g.step = h.step
  BY DEF Ready, Handler, Call
<1> HIDE DEF g
<1>2. Shape(g)
  BY <1>1, Calls DEF Shape, Pending, Ready, Done, Answered
<1> QED
  BY <1>2 DEF g

LEMMA ProtectedShape ==
    ASSUME NEW h, Ready(h), h.kind # "start", tokens \in Pair \cup {Nobody}
    PROVE  Shape(Protected(h))
<1> DEFINE g == [h EXCEPT !.attempt = 1]
<1>1. /\ g \in Handler /\ g.kind = h.kind /\ g.applied = h.applied
      /\ g.seen = h.seen /\ g.step = h.step
  BY DEF Ready, Handler
<1> HIDE DEF g
<1>2. Ready(g) /\ g.kind # "start"
  BY <1>1 DEF Ready
<1>3. Protected(h) = IF tokens = Nobody THEN SignIn(g) ELSE Call(g, tokens, FALSE)
  BY DEF Protected, g
<1> QED
  BY <1>2, <1>3, SignInShape, CallShape

\* An answered call that is not the last leads to the next one.
LEMMA NextCall ==
    ASSUME NEW h, Shape(h), h.pc = "waiting", Answered(h), h.step # Len(Script[h.kind]),
           NEW seen \in Item \cup {Nobody},
           Script[h.kind][h.step] = "read" => seen \in Item
    PROVE  /\ Ready([h EXCEPT !.step = @ + 1, !.seen = seen])
           /\ [h EXCEPT !.step = @ + 1, !.seen = seen].kind # "start"
<1> DEFINE g == [h EXCEPT !.step = @ + 1, !.seen = seen]
<1>1. /\ h \in Handler /\ h.kind \in Kinds /\ h.kind # "start" /\ h.step \in 1 .. Len(Script[h.kind])
      /\ h.applied = IF h.step >= Applying(h.kind) THEN 1 ELSE 0
  BY Calls DEF Shape, Pending, Answered, Done
<1>2. Len(Script[h.kind]) \in 1 .. 3 /\ Applying(h.kind) \in 1 .. 2
  <2>1. Len(Script[h.kind]) \in 1 .. 3
    BY <1>1, Calls
  <2> QED
    BY <2>1 DEF Applying
<1>3. h.step + 1 \in 1 .. Len(Script[h.kind]) /\ h.step + 1 \in 1 .. 3
  BY <1>1, Calls
<1>4. /\ g \in Handler /\ g.kind = h.kind /\ g.applied = h.applied
      /\ g.seen = seen /\ g.step = h.step + 1
  BY <1>1, <1>3 DEF Handler
<1>5. h.kind \in {"inc", "dec", "remove"} /\ g.step = 2 => seen \in Item
  BY <1>1, <1>2, <1>4, ScriptFacts, BotAssumption
<1> HIDE DEF g
<1>6. Ready(g) /\ g.kind # "start"
  BY <1>1, <1>2, <1>3, <1>4, <1>5 DEF Ready
<1> QED
  BY <1>6 DEF g

\* What a handler that Becomes(p, h) is afterwards.
After(h) == IF h.pc = "waiting" THEN h ELSE Rest(h)

LEMMA Becoming ==
    ASSUME press \in [Presses -> Handler], NEW p \in Presses, NEW h, Becomes(p, h)
    PROVE  /\ press'[p] = After(h)
           /\ \A q \in Presses \ {p} : press'[q] = press[q]
           /\ \A q \in Presses : q # p => press'[q] = press[q]
           /\ Shape(After(h)) => press' \in [Presses -> Handler]
BY DEF Becomes, After, Shape

\* A step of one handler keeps the shape of all.
LEMMA OneHandler ==
    ASSUME ShapeInv, NEW p \in Presses, NEW h, Becomes(p, h), Shape(After(h))
    PROVE  press' \in [Presses -> Handler] /\ \A q \in Presses : Shape(press'[q])
BY Becoming DEF ShapeInv, TypeOK

LEMMA EndingShape ==
    ASSUME ShapeInv, NEW p \in Presses, Waiting(p),
           NEW outcome \in {"shown", "failed", "expired"}, End(p, outcome),
           outcome = "shown" =>
               press[p].mail = "ok" /\ (press[p].kind = "start" \/ press[p].applied = 1)
    PROVE  press' \in [Presses -> Handler] /\ \A q \in Presses : Shape(press'[q])
<1> DEFINE h == press[p]
           g == [h EXCEPT !.pc = outcome]
<1>1. Shape(h) /\ h.pc = "waiting"
  BY DEF ShapeInv, Waiting
<1>2. Shape(Rest(g))
  BY <1>1, EndShape
<1>3. g.pc = outcome
  BY <1>1 DEF Shape, Handler
<1>4. Becomes(p, g)
  BY DEF End
<1> HIDE DEF g
<1> QED
  BY <1>2, <1>3, <1>4, OneHandler DEF After

\* The first request of a press.
LEMMA PressShape ==
    ASSUME ShapeInv, NEW p \in Presses, NEW kind \in Kinds, Press(p, kind)
    PROVE  ShapeInv'
<1> DEFINE h == [press[p] EXCEPT !.kind = kind, !.since = issued]
<1>1. /\ press[p] \in Handler /\ issued \in 0 .. TokenLimit
      /\ press[p].applied = 0 /\ press[p].step = 1
  <2>1. press[p] = Unsent /\ press[p] \in Handler /\ issued \in 0 .. TokenLimit
    BY DEF Press, ShapeInv, TypeOK, Shape
  <2> QED
    BY <2>1 DEF Unsent
<1>2. h \in Handler /\ h.kind = kind /\ h.applied = 0 /\ h.step = 1
  BY <1>1 DEF Handler
<1>3. Becomes(p, IF kind = "start" THEN SignIn(h) ELSE Protected(h))
  BY DEF Press
<1> HIDE DEF h
<1>4. Ready(h)
  <2>1. CASE kind = "start"
    BY <1>2, <2>1 DEF Ready
  <2>2. CASE kind # "start"
    <3>1. 1 \in 1 .. Len(Script[kind]) /\ Applying(kind) \in {1, 2}
      BY <2>2, ScriptFacts, BotAssumption DEF Applying
    <3> QED
      BY <1>2, <2>2, <3>1 DEF Ready
  <2> QED
    BY <2>1, <2>2
<1>5. tokens \in Pair \cup {Nobody}
  BY DEF ShapeInv, TypeOK
<1>6. CASE kind = "start"
  <2>1. Shape(SignIn(h)) /\ SignIn(h).pc = "waiting"
    BY <1>4, SignInShape DEF SignIn, Ready, Handler
  <2> QED
    BY <1>3, <1>6, <2>1, OneHandler DEF After, Press, ShapeInv, TypeOK, backendVars
<1>7. CASE kind # "start"
  <2>1. Shape(Protected(h))
    BY <1>2, <1>4, <1>5, <1>7, ProtectedShape
  <2>2. Protected(h).pc = "waiting"
    BY <1>2 DEF Protected, SignIn, Call, Handler
  <2> QED
    BY <1>3, <1>7, <2>1, <2>2, OneHandler DEF After, Press, ShapeInv, TypeOK, backendVars
<1> QED
  BY <1>6, <1>7

\* The answer of a sign-in or of a refresh.
LEMMA SessionAnswerShape ==
    ASSUME ShapeInv, NEW p \in Presses, Receive(p), press[p].to # "call"
    PROVE  ShapeInv'
<1> DEFINE h == press[p]
<1>1. Shape(h) /\ h \in Handler /\ h.pc = "waiting" /\ h.mail \notin {"none", "sent"} /\ Waiting(p)
  BY DEF Receive, Waiting, ShapeInv, TypeOK
<1>2. Ready(h)
  BY <1>1, ShapeReady DEF Pending, Answered
<1>3. SUFFICES tokens' \in Pair \cup {Nobody} /\ press' \in [Presses -> Handler]
               /\ \A q \in Presses : Shape(press'[q])
  BY DEF Receive, ShapeInv, TypeOK, backendVars
<1>4. CASE End(p, "failed") /\ UNCHANGED tokens
  BY <1>1, <1>4, EndingShape DEF ShapeInv, TypeOK
<1>5. CASE h.to = "signin" /\ Accepts(p) /\ SignedIn(p)
  <2> DEFINE pair == [access |-> h.minted, refresh |-> h.minted]
  <2>1. pair \in Pair /\ tokens' = pair
    BY <1>1, <1>5 DEF Shape, Pending, Accepts, SignedIn, Pair
  <2>2. CASE h.kind = "start"
    BY <1>1, <1>5, <2>1, <2>2, EndingShape DEF SignedIn, Accepts
  <2>3. CASE h.kind # "start"
    <3>1. Shape(Call(h, pair, FALSE)) /\ Call(h, pair, FALSE).pc = "waiting"
      BY <1>1, <1>2, <2>1, <2>3, CallShape DEF Call, Handler
    <3>2. Becomes(p, Call(h, pair, FALSE))
      BY <1>5, <2>3 DEF SignedIn
    <3> QED
      BY <2>1, <3>1, <3>2, OneHandler DEF After
  <2> QED
    BY <2>2, <2>3
<1>6. CASE h.to = "refresh" /\ Accepts(p) /\ Refreshed(p)
  <2> DEFINE pair == [access |-> h.minted, refresh |-> h.pair.refresh]
  <2>1. pair \in Pair /\ tokens' = pair /\ h.kind # "start"
    BY <1>1, <1>6 DEF Shape, Pending, Accepts, Refreshed, Pair
  <2>2. Shape(Call(h, pair, TRUE)) /\ Call(h, pair, TRUE).pc = "waiting"
    BY <1>1, <1>2, <2>1, CallShape DEF Call, Handler
  <2>3. Becomes(p, Call(h, pair, TRUE))
    BY <1>6 DEF Refreshed
  <2> QED
    BY <2>1, <2>2, <2>3, OneHandler DEF After
<1>7. CASE AuthenticationRequired(p)
  <2>1. CASE h.attempt = 1
    <3> DEFINE g == [h EXCEPT !.attempt = 2]
    <3>1. Ready(g)
      BY <1>2 DEF Ready, Handler
    <3>2. Shape(SignIn(g)) /\ SignIn(g).pc = "waiting"
      BY <3>1, SignInShape DEF SignIn, Ready, Handler
    <3> QED
      BY <1>7, <2>1, <3>2, OneHandler DEF AuthenticationRequired, After
  <2>2. CASE h.attempt # 1
    BY <1>1, <1>7, <2>2, EndingShape DEF AuthenticationRequired
  <2> QED
    BY <1>7, <2>1, <2>2 DEF AuthenticationRequired
<1> QED
  BY <1>4, <1>5, <1>6, <1>7 DEF Receive, ReceiveSignIn, ReceiveRefresh, ReceiveAnswer

\* The answer of a call.
LEMMA CallAnswerShape ==
    ASSUME ShapeInv, NEW p \in Presses, Receive(p), press[p].to = "call"
    PROVE  ShapeInv'
<1> DEFINE h == press[p]
<1>1. Shape(h) /\ h \in Handler /\ h.pc = "waiting" /\ h.mail \notin {"none", "sent"} /\ Waiting(p)
  BY DEF Receive, Waiting, ShapeInv, TypeOK
<1>2. SUFFICES tokens' \in Pair \cup {Nobody} /\ press' \in [Presses -> Handler]
               /\ \A q \in Presses : Shape(press'[q])
  BY DEF Receive, ShapeInv, TypeOK, backendVars
<1>3. CASE End(p, "failed") /\ UNCHANGED tokens
  BY <1>1, <1>3, EndingShape DEF ShapeInv, TypeOK
<1>4. CASE h.mail = "unauthorized"
  <2>1. Ready(h)
    BY <1>1, <1>4, ShapeReady DEF Pending, Answered
  <2>2. CASE AuthenticationRequired(p)
    <3>1. CASE h.attempt = 1
      <4> DEFINE g == [h EXCEPT !.attempt = 2]
      <4>1. Ready(g)
        BY <2>1 DEF Ready, Handler
      <4>2. Shape(SignIn(g)) /\ SignIn(g).pc = "waiting"
        BY <4>1, SignInShape DEF SignIn, Ready, Handler
      <4> QED
        BY <2>2, <3>1, <4>2, OneHandler DEF AuthenticationRequired, After
    <3>2. CASE h.attempt # 1
      BY <1>1, <2>2, <3>2, EndingShape DEF AuthenticationRequired
    <3> QED
      BY <2>2, <3>1, <3>2 DEF AuthenticationRequired
  <2>3. CASE Becomes(p, [h EXCEPT !.to = "refresh", !.mail = "sent"]) /\ UNCHANGED tokens
    <3> DEFINE g == [h EXCEPT !.to = "refresh", !.mail = "sent"]
    <3>1. /\ g \in Handler /\ g.pc = "waiting" /\ g.kind = h.kind /\ g.applied = h.applied
          /\ g.to = "refresh" /\ g.mail = "sent" /\ g.pair = h.pair /\ g.seen = h.seen /\ g.step = h.step
      BY <1>1 DEF Handler
    <3>2. h.pair \in Pair /\ h.kind # "start"
      BY <1>1 DEF Shape, Pending
    <3> HIDE DEF g
    <3>3. Shape(g)
      BY <2>1, <3>1, <3>2, Calls DEF Shape, Pending, Ready, Done, Answered
    <3>4. Becomes(p, g)
      BY <2>3 DEF g
    <3> QED
      BY <2>3, <3>1, <3>3, <3>4, OneHandler DEF After, ShapeInv, TypeOK
  <2> QED
    BY <1>1, <1>4, <2>2, <2>3 DEF Receive, ReceiveSignIn, ReceiveRefresh, ReceiveAnswer
<1>5. CASE Accepts(p) /\ Called(p)
  <2>1. Answered(h) /\ h.kind \in Kinds /\ h.kind # "start" /\ h.step \in 1 .. Len(Script[h.kind])
    BY <1>1, <1>5 DEF Accepts, Answered, Shape, Pending
  <2>2. CASE h.step = Len(Script[h.kind]) /\ End(p, "shown")
    <3>1. Done(h)
      BY <2>1, <2>2, Calls DEF Done
    <3>2. h.applied = 1
      BY <1>1, <2>1, <3>1 DEF Shape, Pending
    <3> QED
      BY <1>1, <1>5, <2>2, <3>2, EndingShape DEF Called, Accepts, ShapeInv, TypeOK
  <2>3. CASE End(p, "failed")
    BY <1>1, <1>5, <2>3, EndingShape DEF Called, ShapeInv, TypeOK
  <2>4. CASE h.step # Len(Script[h.kind]) /\ ~End(p, "failed")
    <3> DEFINE seen == IF Op(p) = "read" THEN h.seen ELSE Nobody
               g == [h EXCEPT !.step = @ + 1, !.seen = seen]
    <3>1. /\ Op(p) = "read" => h.seen # Nobody
          /\ Becomes(p, Protected([h EXCEPT !.step = @ + 1,
                                            !.seen = IF Op(p) = "read" THEN @ ELSE Nobody]))
      BY <1>5, <2>4 DEF Called
    <3>2. Becomes(p, Protected(g))
      BY <1>1, <3>1 DEF Handler
    <3>3. seen \in Item \cup {Nobody} /\ (Script[h.kind][h.step] = "read" => seen \in Item)
      BY <1>1, <3>1 DEF Op, Handler
    <3> HIDE DEF seen
    <3>4. Ready(g) /\ g.kind # "start"
      BY <1>1, <2>1, <2>4, <3>3, NextCall
    <3> HIDE DEF g
    <3>5. Shape(Protected(g))
      BY <3>4, ProtectedShape DEF ShapeInv, TypeOK
    <3>6. Protected(g).pc = "waiting"
      BY <3>4 DEF Protected, SignIn, Call, Handler, Ready
    <3> QED
      BY <1>5, <3>2, <3>5, <3>6, OneHandler DEF After, Called, ShapeInv, TypeOK
  <2> QED
    BY <1>5, <2>2, <2>3, <2>4 DEF Called
<1> QED
  BY <1>3, <1>4, <1>5 DEF Receive, ReceiveSignIn, ReceiveRefresh, ReceiveAnswer

LEMMA GiveUpShape ==
    ASSUME ShapeInv, \/ \E p \in Presses : Timeout(p)
                     \/ Restart
    PROVE  ShapeInv'
<1>1. ASSUME NEW p \in Presses, Timeout(p) PROVE ShapeInv'
  BY <1>1, EndingShape DEF Timeout, GiveUp, ShapeInv, TypeOK, backendVars
<1>2. CASE Restart
  <2>1. ASSUME NEW p \in Presses PROVE Shape(press'[p])
    <3>1. press'[p] = IF Waiting(p) THEN Rest([press[p] EXCEPT !.pc = "failed"]) ELSE press[p]
      BY <1>2 DEF Restart
    <3>2. Shape(press[p])
      BY DEF ShapeInv
    <3>3. Waiting(p) => Shape(Rest([press[p] EXCEPT !.pc = "failed"]))
      BY <3>2, EndShape DEF Waiting
    <3> QED
      BY <3>1, <3>2, <3>3
  <2>2. press' \in [Presses -> Handler]
    BY <1>2, <2>1 DEF Restart, Shape
  <2> QED
    BY <1>2, <2>1, <2>2 DEF Restart, ShapeInv, TypeOK, backendVars
<1> QED
  BY <1>1, <1>2

-----------------------------------------------------------------------------
(***************************************************************************)
(* The backend's side of a handler.                                        *)
(***************************************************************************)

\* An answer changes what it brings and nothing else of the handler, and
\* applies the call if it is the one the press is for.
AnswerTo(h, g) ==
    /\ g \in Handler
    /\ g.pc = h.pc /\ g.kind = h.kind /\ g.step = h.step /\ g.to = h.to /\ g.pair = h.pair
    /\ g.since = h.since /\ g.attempt = h.attempt
    /\ g.mail \in {"ok", "unauthorized", "rejected", "error"}
    /\ h.to # "call" => g.applied = h.applied /\ (g.mail = "ok" => g.minted \in Tokens)
    /\ h.to = "call" =>
          g.applied = IF g.mail = "ok" /\ h.step = Applying(h.kind) THEN h.applied + 1
                                                                    ELSE h.applied
    /\ h.to # "call" \/ h.step = 2 => g.seen = h.seen
    /\ g.seen \in {h.seen, item}

LEMMA AnswerShape ==
    ASSUME NEW h, Shape(h), h.mail = "sent", NEW g, AnswerTo(h, g)
    PROVE  Shape(After(g))
<1>1. /\ h \in Handler /\ h.kind \in Kinds /\ Ready(h)
      /\ h.to \in {"call", "refresh"} => h.kind # "start" /\ h.pair \in Pair
      /\ h.pc # "unsent" /\ h.to \in {"signin", "refresh", "call"}
  BY ShapeReady DEF Shape, Pending, Answered, Unsent, Handler
<1>2. h.kind # "start" => Applying(h.kind) \in 1 .. 3 /\ h.step \in 1 .. 3
  BY <1>1, Calls DEF Ready, Applying
<1>3. g.applied <= 1 /\ (h.to = "call" => g.applied = IF Done(g) THEN 1 ELSE 0)
  BY <1>1, <1>2 DEF AnswerTo, Ready, Done, Answered
<1>4. CASE h.pc = "waiting"
  <2>1. h.to # "call" => ~Answered(g)
    BY DEF AnswerTo, Answered
  <2>2. g.kind # "start" => g.applied = IF Done(g) THEN 1 ELSE 0
    BY <1>1, <1>2, <1>3, <2>1 DEF AnswerTo, Ready, Done
  <2>3. Shape(g)
    BY <1>1, <1>3, <1>4, <2>2 DEF Shape, Pending, AnswerTo, Ready
  <2> QED
    BY <1>4, <2>3 DEF AnswerTo, After
<1>5. CASE h.pc # "waiting"
  <2>1. h.to = "call" /\ h.pc \in {"shown", "failed", "expired"}
    BY <1>1, <1>5 DEF Shape, Handler
  <2>2. g.pc = "shown" /\ g.kind # "start" => g.applied = 1
    BY <1>2, <1>3, <2>1 DEF AnswerTo, Shape, Handler
  <2> QED
    BY <1>1, <1>3, <1>5, <2>1, <2>2, RestShape DEF AnswerTo, After
<1> QED
  BY <1>4, <1>5

\* An answer that does nothing.
LEMMA PlainAnswer ==
    ASSUME NEW h, Shape(h), h.mail = "sent", NEW status \in {"ok", "unauthorized", "rejected", "error"},
           status = "ok" => h.to = "call" /\ h.step # Applying(h.kind)
    PROVE  AnswerTo(h, [h EXCEPT !.mail = status]) /\ [h EXCEPT !.mail = status].mail = status
BY DEF AnswerTo, Shape, Handler

\* An answer to the call that the press is for.
LEMMA ApplyingAnswer ==
    ASSUME NEW h, Shape(h), h.mail = "sent", h.to = "call", h.step = Applying(h.kind)
    PROVE  AnswerTo(h, [h EXCEPT !.mail = "ok", !.applied = @ + 1])
<1> DEFINE g == [h EXCEPT !.mail = "ok", !.applied = @ + 1]
<1>1. h \in Handler /\ h.applied + 1 \in Nat
  BY DEF Shape, Handler
<1>2. /\ g \in Handler /\ g.mail = "ok" /\ g.applied = h.applied + 1
      /\ g.pc = h.pc /\ g.kind = h.kind /\ g.step = h.step /\ g.to = h.to /\ g.pair = h.pair
      /\ g.since = h.since /\ g.attempt = h.attempt /\ g.seen = h.seen
  BY <1>1 DEF Handler
<1> HIDE DEF g
<1>3. AnswerTo(h, g)
  BY <1>2 DEF AnswerTo
<1> QED
  BY <1>3 DEF g

\* The calls of a handler that the backend answers.
LEMMA CallInHand ==
    ASSUME ShapeInv, NEW p \in Presses, press[p].mail = "sent", press[p].to = "call"
    PROVE  LET h == press[p] IN
           /\ Shape(h) /\ h \in Handler /\ Ready(h) /\ h.kind \in Kinds /\ h.kind # "start"
           /\ h.pair \in Pair /\ h.step \in 1 .. Len(Script[h.kind]) /\ h.step \in 1 .. 3
           /\ Op(p) \in {"read", "pay"} <=> h.step # Applying(h.kind)
           /\ Op(p) = "read" => h.step # 2
           /\ Op(p) \in {"change", "remove"} => h.seen \in Item
           /\ Op(p) = "pay" <=> h.kind = "checkout" /\ h.step = 2
           /\ Op(p) = "checkout" <=> h.kind = "checkout" /\ h.step = 1
           /\ Op(p) = "add" <=> h.kind = "add"
           /\ Op(p) = "change" <=> h.kind \in {"inc", "dec"} /\ h.step = 2
<1> DEFINE h == press[p]
<1>1. Shape(h) /\ h \in Handler
  BY DEF ShapeInv, TypeOK
<1>2. Ready(h)
  BY <1>1, ShapeReady DEF Pending, Answered
<1>3. h.kind \in Kinds /\ h.kind # "start" /\ h.pair \in Pair
  BY <1>1, <1>2 DEF Shape, Pending, Ready
<1>4. h.step \in 1 .. Len(Script[h.kind])
  BY <1>2, <1>3 DEF Ready
<1>5. Op(p) = Script[h.kind][h.step]
  BY DEF Op
<1>6. Op(p) \in {"change", "remove"} => h.kind \in {"inc", "dec", "remove"} /\ h.step = 2
  BY <1>3, <1>4, <1>5, Calls
<1>7. Op(p) \in {"change", "remove"} => h.seen \in Item
  BY <1>2, <1>3, <1>6 DEF Ready
<1> QED
  BY <1>1, <1>2, <1>3, <1>4, <1>5, <1>7, Calls

\* What one handled request answers and, for a token, brings.
Handled(p, g) ==
    LET h == press[p]
    IN /\ AnswerTo(h, g) /\ Becomes(p, g)
       /\ h.to # "call" /\ g.mail = "ok" =>
             /\ g.minted = issued + 1 /\ issued' = issued + 1
             /\ issued + 1 \in liveAccess'
             /\ h.to = "signin" => issued + 1 \in liveRefresh'
       /\ g.mail = "unauthorized" =>
             \/ ~account
             \/ h.to = "refresh" /\ h.pair.refresh \notin liveRefresh
             \/ h.to = "call" /\ h.pair.access \notin liveAccess
             \/ h.to = "signin"

LEMMA SessionHandled ==
    ASSUME ShapeInv, NEW p \in Presses, press[p].mail = "sent",
           (press[p].to = "signin" /\ DoSignIn(p)) \/ (press[p].to = "refresh" /\ DoRefresh(p))
    PROVE  \E g : Handled(p, g)
<1> DEFINE h == press[p]
<1>1. Shape(h) /\ h \in Handler /\ h.to # "call" /\ issued \in Nat
  BY BotAssumption DEF ShapeInv, TypeOK
<1>2. ASSUME NEW status \in {"unauthorized", "error"}, Answer(p, status),
             status = "unauthorized" =>
               h.to = "signin" \/ ~account \/ h.pair.refresh \notin liveRefresh
      PROVE  \E g : Handled(p, g)
  <2> DEFINE g == [h EXCEPT !.mail = status]
  <2>1. AnswerTo(h, g) /\ g.mail = status /\ Becomes(p, g)
    BY <1>1, <1>2, PlainAnswer DEF Answer
  <2> HIDE DEF g
  <2>2. Handled(p, g)
    BY <1>1, <1>2, <2>1 DEF Handled, Handler
  <2> QED
    BY <2>2
<1>3. ASSUME Mint(p), h.to = "signin" => liveRefresh' = liveRefresh \cup {issued + 1}
      PROVE  \E g : Handled(p, g)
  <2> DEFINE g == [h EXCEPT !.mail = "ok", !.minted = issued + 1]
  <2>1. issued + 1 \in Tokens
    BY <1>1, <1>3, BotAssumption DEF Mint, Tokens
  <2>2. AnswerTo(h, g) /\ g.minted = issued + 1 /\ g.mail = "ok"
    BY <1>1, <2>1 DEF AnswerTo, Handler
  <2>3. Becomes(p, g) /\ issued' = issued + 1 /\ issued + 1 \in liveAccess'
    BY <1>3 DEF Mint
  <2> HIDE DEF g
  <2>4. Handled(p, g)
    BY <1>3, <2>2, <2>3 DEF Handled
  <2> QED
    BY <2>4
<1>4. CASE h.to = "signin" /\ DoSignIn(p)
  BY <1>2, <1>3, <1>4 DEF DoSignIn
<1>5. CASE h.to = "refresh" /\ DoRefresh(p)
  BY <1>2, <1>3, <1>5 DEF DoRefresh
<1> QED
  BY <1>4, <1>5

LEMMA CallHandled ==
    ASSUME ShapeInv, NEW p \in Presses, press[p].mail = "sent", press[p].to = "call", DoCall(p)
    PROVE  \E g : Handled(p, g)
<1> DEFINE h == press[p]
<1>1. /\ Shape(h) /\ h \in Handler /\ item \in Item \cup {Nobody}
      /\ Op(p) \in {"read", "pay"} <=> h.step # Applying(h.kind)
      /\ Op(p) = "read" => h.step # 2
  BY CallInHand DEF ShapeInv, TypeOK
<1>2. ASSUME NEW g, AnswerTo(h, g), Becomes(p, g),
             g.mail = "unauthorized" => ~account \/ h.pair.access \notin liveAccess
      PROVE  \E x : Handled(p, x)
  BY <1>2 DEF Handled
<1>3. ASSUME NEW status \in {"ok", "rejected", "unauthorized"}, Answer(p, status),
             status = "ok" => Op(p) = "pay",
             status = "unauthorized" => ~account \/ h.pair.access \notin liveAccess
      PROVE  \E g : Handled(p, g)
  <2> DEFINE g == [h EXCEPT !.mail = status]
  <2>1. AnswerTo(h, g) /\ g.mail = status /\ Becomes(p, g)
    BY <1>1, <1>3, PlainAnswer DEF Answer
  <2> HIDE DEF g
  <2> QED
    BY <1>2, <1>3, <2>1
<1>4. ASSUME Apply(p), Op(p) \notin {"read", "pay"} PROVE \E g : Handled(p, g)
  <2> DEFINE g == [h EXCEPT !.mail = "ok", !.applied = @ + 1]
  <2>1. AnswerTo(h, g) /\ g.mail = "ok" /\ Becomes(p, g)
    BY <1>1, <1>4, ApplyingAnswer DEF Apply, Handler
  <2> HIDE DEF g
  <2> QED
    BY <1>2, <2>1
<1>5. ASSUME Op(p) = "read", Becomes(p, [h EXCEPT !.mail = "ok", !.seen = item])
      PROVE  \E g : Handled(p, g)
  <2> DEFINE g == [h EXCEPT !.mail = "ok", !.seen = item]
  <2>1. AnswerTo(h, g) /\ g.mail = "ok" /\ Becomes(p, g)
    BY <1>1, <1>5 DEF AnswerTo, Handler
  <2> HIDE DEF g
  <2> QED
    BY <1>2, <2>1
<1>6. CASE account /\ h.pair.access \in liveAccess
  <2>1. Op(p) = "add" /\ DoAdd(p) => Apply(p) \/ Answer(p, "rejected")
    BY DEF DoAdd, Refuse
  <2>2. Op(p) = "change" /\ DoChange(p) => Apply(p) \/ Answer(p, "rejected")
    BY DEF DoChange, SetQuantity, DoRemove, Refuse
  <2>3. Op(p) = "remove" /\ DoRemove(p) => Apply(p) \/ Answer(p, "rejected")
    BY DEF DoRemove, Refuse
  <2>4. Op(p) = "checkout" /\ DoCheckout(p) => Apply(p) \/ Answer(p, "rejected")
    BY DEF DoCheckout, Refuse
  <2>5. Op(p) = "pay" /\ DoPay(p) => Answer(p, "ok") \/ Answer(p, "rejected")
    BY DEF DoPay, Refuse
  <2> QED
    BY <1>3, <1>4, <1>5, <1>6, <2>1, <2>2, <2>3, <2>4, <2>5 DEF DoCall
<1>7. CASE ~(account /\ h.pair.access \in liveAccess)
  BY <1>3, <1>7 DEF DoCall
<1> QED
  BY <1>6, <1>7

LEMMA HandleAnswers ==
    ASSUME ShapeInv, NEW p \in Presses, Handle(p)
    PROVE  \E g : Handled(p, g)
<1>1. press[p].mail = "sent"
  BY DEF Handle
<1>2. \/ (press[p].to = "signin" /\ DoSignIn(p)) \/ (press[p].to = "refresh" /\ DoRefresh(p))
      \/ press[p].to = "call" /\ DoCall(p)
  BY DEF Handle
<1>3. CASE press[p].to = "call" /\ DoCall(p)
  BY <1>1, <1>3, CallHandled
<1>4. CASE (press[p].to = "signin" /\ DoSignIn(p)) \/ (press[p].to = "refresh" /\ DoRefresh(p))
  BY <1>1, <1>4, SessionHandled
<1> QED
  BY <1>2, <1>3, <1>4

\* The backend keeps its types; a payment finds the order of its press.
LEMMA HandleTypes ==
    ASSUME ShapeInv, NEW p \in Presses, Checkout(p), Handle(p)
    PROVE  /\ issued' \in 0 .. TokenLimit
           /\ liveAccess' \subseteq 1 .. issued' /\ liveRefresh' \subseteq 1 .. issued'
           /\ item' \in Item \cup {Nobody}
           /\ nextRow' \in 1 .. RowLimit + 1
           /\ order' \in [Presses -> Order \cup {Nobody}]
<1> DEFINE h == press[p]
<1> USE BotAssumption
<1>1. TypeOK
  BY DEF ShapeInv
<1>2. /\ issued' \in 0 .. TokenLimit
      /\ liveAccess' \subseteq 1 .. issued' /\ liveRefresh' \subseteq 1 .. issued'
  <2>1. CASE UNCHANGED <<issued, liveAccess>>
    <3>1. liveRefresh' = liveRefresh
      <4>1. issued' # issued \/ liveRefresh' = liveRefresh
        BY <1>1 DEF Handle, DoSignIn, DoRefresh, DoCall, Mint, TypeOK
      <4> QED
        BY <2>1, <4>1
    <3> QED
      BY <1>1, <2>1, <3>1 DEF TypeOK
  <2>2. CASE /\ issued < TokenLimit /\ issued' = issued + 1
             /\ liveAccess' = liveAccess \cup {issued + 1}
             /\ liveRefresh' \in {liveRefresh, liveRefresh \cup {issued + 1}}
    <3>1. issued \in 0 .. TokenLimit /\ TokenLimit \in Nat
      BY <1>1 DEF TypeOK
    <3>2. issued + 1 \in 1 .. issued' /\ 1 .. issued \subseteq 1 .. issued' /\ issued' \in 0 .. TokenLimit
      BY <2>2, <3>1
    <3> QED
      BY <1>1, <2>2, <3>2 DEF TypeOK
  <2> QED
    BY <2>1, <2>2 DEF Handle, DoSignIn, DoRefresh, DoCall, Mint
<1>3. CASE UNCHANGED cartVars
  BY <1>1, <1>2, <1>3 DEF TypeOK, cartVars
<1>4. CASE h.to = "call" /\ h.mail = "sent" /\ DoCall(p) /\ ~UNCHANGED cartVars
  <2>1. /\ Op(p) \in {"change", "remove"} => h.seen \in Item
        /\ Op(p) = "pay" <=> h.kind = "checkout" /\ h.step = 2
        /\ h \in Handler
    BY <1>4, CallInHand
  <2>2. CASE Op(p) = "add" /\ DoAdd(p)
    BY <1>1, <1>2, <1>4, <2>2 DEF DoAdd, Refuse, TypeOK, Item, cartVars
  <2>3. ASSUME NEW n, SetQuantity(p, n) PROVE item' \in Item /\ UNCHANGED <<nextRow, order>>
    BY <1>1, <1>4, <2>3 DEF SetQuantity, SameRow, QuantityAllowed, Refuse, cartVars, TypeOK, Item
  <2>4. CASE DoRemove(p)
    BY <1>1, <1>2, <1>4, <2>4 DEF DoRemove, Refuse, TypeOK, cartVars
  <2>5. CASE Op(p) = "change" /\ DoChange(p)
    <3>1. DoRemove(p) \/ \E n : SetQuantity(p, n)
      BY <2>5 DEF DoChange
    <3> QED
      BY <1>1, <1>2, <2>3, <2>4, <3>1 DEF TypeOK
  <2>6. CASE Op(p) = "checkout" /\ DoCheckout(p)
    <3>1. CASE Refuse(p)
      BY <1>4, <3>1 DEF Refuse
    <3>2. CASE ~Refuse(p)
      <4>1. /\ item # Nobody /\ item' = Nobody /\ nextRow' = nextRow
            /\ order' = [order EXCEPT ![p] = [units |-> item.quantity, paid |-> FALSE]]
        BY <2>6, <3>2 DEF DoCheckout
      <4>2. [units |-> item.quantity, paid |-> FALSE] \in Order
        BY <1>1, <4>1 DEF TypeOK, Item, Order
      <4> QED
        BY <1>1, <1>2, <4>1, <4>2 DEF TypeOK
    <3> QED
      BY <3>1, <3>2
  <2>7. CASE Op(p) = "pay" /\ DoPay(p)
    <3>1. order[p] \in Order
      BY <1>4, <2>1, <2>7 DEF Checkout, Pending
    <3>2. [order[p] EXCEPT !.paid = TRUE] \in Order
      BY <3>1 DEF Order
    <3>3. order' = [order EXCEPT ![p] = [order[p] EXCEPT !.paid = TRUE]] /\ UNCHANGED <<item, nextRow>>
      BY <1>4, <2>7 DEF DoPay, Refuse, cartVars
    <3> QED
      BY <1>1, <1>2, <3>2, <3>3 DEF TypeOK
  <2>8. CASE item' = Nobody /\ UNCHANGED <<nextRow, order>>
    BY <1>1, <1>2, <2>8 DEF TypeOK
  <2> QED
    BY <1>4, <2>2, <2>4, <2>5, <2>6, <2>7, <2>8 DEF DoCall
<1> QED
  BY <1>3, <1>4 DEF Handle, DoSignIn, DoRefresh

LEMMA HandleShape ==
    ASSUME ShapeInv, NEW p \in Presses, Checkout(p), Handle(p)
    PROVE  ShapeInv'
<1>1. PICK g : Handled(p, g)
  BY HandleAnswers
<1>2. Becomes(p, g) /\ Shape(After(g))
  BY <1>1, AnswerShape DEF Handled, Handle, ShapeInv
<1>3. press' \in [Presses -> Handler] /\ \A q \in Presses : Shape(press'[q])
  BY <1>2, OneHandler
<1>4. UNCHANGED <<tokens, account>>
  BY DEF Handle
<1> QED
  BY <1>3, <1>4, HandleTypes DEF ShapeInv, TypeOK

-----------------------------------------------------------------------------
(***************************************************************************)
(* What the client does to a handler.                                      *)
(***************************************************************************)

\* Every request of a handler follows from the answer before it.
ClientMove(h, g) ==
    /\ g.kind = h.kind /\ g.applied = h.applied /\ g.seen \in {h.seen, Nobody}
    /\ g.pc \in {"waiting", "shown", "failed", "expired"}
    /\ Pending(g) =>
          /\ g.mail = "sent"
          /\ g.step = h.step \/ (g.step = h.step + 1 /\ Answered(h))
    /\ g.pc = "shown" => h.kind = "start" \/ (Answered(h) /\ h.step = Len(Script[h.kind]))
    /\ g.pc = "expired" => h.attempt # 1 /\ h.mail = "unauthorized" /\ h.to \in {"call", "refresh"}
    /\ g.pc = "waiting" =>
          /\ g.since = h.since
          /\ g.attempt = 2 /\ g.to \in {"call", "refresh"} =>
                \/ /\ h.to = "signin" /\ h.mail = "ok"
                   /\ g.pair.access = h.minted /\ g.pair.refresh = h.minted
                \/ /\ h.attempt = 2 /\ h.to = "refresh" /\ h.mail = "ok"
                   /\ g.pair.access = h.minted /\ g.pair.refresh = h.pair.refresh
                \/ h.attempt = 2 /\ h.to = "call" /\ g.pair = h.pair

LEMMA EndMoves ==
    ASSUME ShapeInv, NEW p \in Presses, Waiting(p),
           NEW outcome \in {"shown", "failed", "expired"}, End(p, outcome),
           outcome = "shown" => \/ press[p].kind = "start"
                                \/ Answered(press[p]) /\ press[p].step = Len(Script[press[p].kind]),
           outcome = "expired" => /\ press[p].attempt # 1 /\ press[p].mail = "unauthorized"
                                  /\ press[p].to \in {"call", "refresh"}
    PROVE  ClientMove(press[p], press'[p])
<1> DEFINE h == press[p]
           e == [h EXCEPT !.pc = outcome]
           g == Rest(e)
<1>1. h \in Handler /\ h.pc = "waiting"
  BY DEF ShapeInv, TypeOK, Waiting
<1>2. /\ e \in Handler /\ e.pc = outcome /\ e.kind = h.kind /\ e.applied = h.applied
      /\ e.seen = h.seen /\ e.step = h.step
  BY <1>1 DEF Handler
<1>3. Becomes(p, e) /\ press \in [Presses -> Handler]
  BY DEF End, ShapeInv, TypeOK
<1> HIDE DEF e
<1>4. press'[p] = g
  BY <1>2, <1>3, Becoming DEF After
<1>5. /\ g.pc = outcome /\ g.kind = h.kind /\ g.applied = h.applied /\ g.seen \in {h.seen, Nobody}
      /\ g.mail \in {"none", "sent"} /\ (g.mail = "sent" => g.step = h.step)
  BY <1>2 DEF Rest, Unsent
<1> HIDE DEF g
<1> QED
  BY <1>4, <1>5 DEF ClientMove, Pending

LEMMA SignInMoves ==
    ASSUME NEW h \in Handler, NEW a \in {1, 2}
    PROVE  ClientMove(h, SignIn([h EXCEPT !.attempt = a]))
BY DEF ClientMove, SignIn, Handler, Pending

LEMMA ReceiveMoves ==
    ASSUME ShapeInv, NEW p \in Presses, Receive(p)
    PROVE  ClientMove(press[p], press'[p])
<1> DEFINE h == press[p]
<1>1. Shape(h) /\ h \in Handler /\ h.pc = "waiting" /\ h.mail \notin {"none", "sent"} /\ Waiting(p)
  BY DEF Receive, Waiting, ShapeInv, TypeOK
<1>2. press \in [Presses -> Handler]
  BY DEF ShapeInv, TypeOK
<1>3. CASE End(p, "failed")
  BY <1>1, <1>3, EndMoves
<1>4. CASE h.to = "signin" /\ Accepts(p) /\ SignedIn(p)
  <2> DEFINE pair == [access |-> h.minted, refresh |-> h.minted]
             g == Call(h, pair, FALSE)
  <2>1. CASE h.kind = "start"
    BY <1>1, <1>4, <2>1, EndMoves DEF SignedIn
  <2>2. CASE h.kind # "start"
    <3>1. Becomes(p, g) /\ g.pc = "waiting"
      BY <1>1, <1>4, <2>2 DEF SignedIn, Call, Handler
    <3>2. ClientMove(h, g)
      BY <1>1, <1>4 DEF ClientMove, Call, Handler, Pending, Accepts
    <3> HIDE DEF g
    <3> QED
      BY <1>2, <3>1, <3>2, Becoming DEF After
  <2> QED
    BY <2>1, <2>2
<1>5. CASE h.to = "refresh" /\ Accepts(p) /\ Refreshed(p)
  <2> DEFINE pair == [access |-> h.minted, refresh |-> h.pair.refresh]
             g == Call(h, pair, TRUE)
  <2>1. Becomes(p, g) /\ g.pc = "waiting"
    BY <1>1, <1>5 DEF Refreshed, Call, Handler
  <2>2. ClientMove(h, g)
    BY <1>1, <1>5 DEF ClientMove, Call, Handler, Pending, Accepts
  <2> HIDE DEF g
  <2> QED
    BY <1>2, <2>1, <2>2, Becoming DEF After
<1>6. CASE AuthenticationRequired(p) /\ h.mail = "unauthorized" /\ h.to \in {"call", "refresh"}
  <2>1. CASE h.attempt = 1
    <3> DEFINE g == SignIn([h EXCEPT !.attempt = 2])
    <3>1. Becomes(p, g) /\ g.pc = "waiting" /\ ClientMove(h, g)
      BY <1>1, <1>6, <2>1, SignInMoves DEF AuthenticationRequired, SignIn, Handler
    <3> HIDE DEF g
    <3> QED
      BY <1>2, <3>1, Becoming DEF After
  <2>2. CASE h.attempt # 1
    BY <1>1, <1>6, <2>2, EndMoves DEF AuthenticationRequired
  <2> QED
    BY <2>1, <2>2
<1>7. CASE h.to = "call" /\ Becomes(p, [h EXCEPT !.to = "refresh", !.mail = "sent"])
  <2> DEFINE g == [h EXCEPT !.to = "refresh", !.mail = "sent"]
  <2>1. Becomes(p, g) /\ g.pc = "waiting" /\ ClientMove(h, g)
    BY <1>1, <1>7 DEF ClientMove, Handler, Pending
  <2> HIDE DEF g
  <2> QED
    BY <1>2, <2>1, Becoming DEF After
<1>8. CASE h.to = "call" /\ Accepts(p) /\ Called(p)
  <2>1. Answered(h)
    BY <1>8 DEF Accepts, Answered
  <2>2. CASE h.step = Len(Script[h.kind]) /\ End(p, "shown")
    BY <1>1, <2>1, <2>2, EndMoves
  <2>3. CASE Becomes(p, Protected([h EXCEPT !.step = @ + 1,
                                           !.seen = IF Op(p) = "read" THEN @ ELSE Nobody]))
             /\ h.step # Len(Script[h.kind])
    <3> DEFINE seen == IF Op(p) = "read" THEN h.seen ELSE Nobody
               f == [h EXCEPT !.step = @ + 1, !.seen = seen]
               fresh == [f EXCEPT !.attempt = 1]
               g == Protected(f)
    <3>1. Becomes(p, g)
      BY <1>1, <2>3 DEF Handler
    <3>2. seen \in {h.seen, Nobody}
      OBVIOUS
    <3>3. h.step + 1 \in 1 .. 3
      <4>1. /\ h.kind \in Kinds /\ h.kind # "start" /\ h.step \in 1 .. Len(Script[h.kind])
        BY <1>1, <2>1 DEF Shape, Pending, Answered
      <4> QED
        BY <2>3, <4>1, Calls
    <3> HIDE DEF seen
    <3>4. g = IF tokens = Nobody THEN SignIn(fresh) ELSE Call(fresh, tokens, FALSE)
      BY DEF Protected
    <3>5. /\ g.pc = "waiting" /\ g.kind = h.kind /\ g.applied = h.applied /\ g.seen = seen
          /\ g.step = h.step + 1 /\ g.since = h.since /\ g.attempt = 1 /\ g.mail = "sent"
      BY <1>1, <3>3, <3>4 DEF SignIn, Call, Handler
    <3> HIDE DEF g
    <3>6. ClientMove(h, g)
      BY <2>1, <3>2, <3>5 DEF ClientMove
    <3> QED
      BY <1>2, <3>1, <3>5, <3>6, Becoming DEF After
  <2> QED
    BY <1>3, <1>8, <2>2, <2>3 DEF Called
<1> QED
  BY <1>1, <1>3, <1>4, <1>5, <1>6, <1>7, <1>8
  DEF Receive, ReceiveSignIn, ReceiveRefresh, ReceiveAnswer

LEMMA TimeoutMoves ==
    ASSUME ShapeInv, NEW p \in Presses, Timeout(p)
    PROVE  ClientMove(press[p], press'[p])
BY EndMoves DEF Timeout, GiveUp

LEMMA RestartMoves ==
    ASSUME ShapeInv, NEW p \in Presses, Waiting(p), Restart
    PROVE  ClientMove(press[p], press'[p])
<1> DEFINE h == press[p]
           e == [h EXCEPT !.pc = "failed"]
           g == Rest(e)
<1>1. /\ e.pc = "failed" /\ e.kind = h.kind /\ e.applied = h.applied
      /\ e.seen = h.seen /\ e.step = h.step
  BY DEF ShapeInv, TypeOK, Handler
<1>2. press'[p] = g
  BY DEF Restart
<1> HIDE DEF e
<1>3. /\ g.pc = "failed" /\ g.kind = h.kind /\ g.applied = h.applied /\ g.seen \in {h.seen, Nobody}
      /\ g.mail \in {"none", "sent"} /\ (g.mail = "sent" => g.step = h.step)
  BY <1>1 DEF Rest, Unsent
<1> HIDE DEF g
<1> QED
  BY <1>2, <1>3 DEF ClientMove, Pending

\* A press makes the first request of its handler.
LEMMA PressMoves ==
    ASSUME ShapeInv, NEW p \in Presses, NEW kind \in Kinds, Press(p, kind)
    PROVE  LET g == press'[p] IN
           /\ press[p] = Unsent
           /\ g.pc = "waiting" /\ g.kind = kind /\ g.step = 1 /\ g.mail = "sent"
           /\ g.applied = 0 /\ g.seen = Nobody /\ g.attempt = 1 /\ g.since = issued
<1> DEFINE h == [press[p] EXCEPT !.kind = kind, !.since = issued]
           fresh == [h EXCEPT !.attempt = 1]
           first == IF kind = "start" THEN SignIn(h) ELSE Protected(h)
<1>1. /\ press[p] = Unsent /\ press \in [Presses -> Handler] /\ issued \in 0 .. TokenLimit
      /\ press[p] \in Handler
  BY DEF Press, ShapeInv, TypeOK, Shape
<1>2. /\ h \in Handler /\ h.kind = kind /\ h.step = 1 /\ h.applied = 0 /\ h.seen = Nobody
      /\ h.attempt = 1 /\ h.since = issued
  <2>1. /\ press[p].step = 1 /\ press[p].applied = 0 /\ press[p].seen = Nobody
        /\ press[p].attempt = 1
    BY <1>1 DEF Unsent
  <2> QED
    BY <1>1, <2>1 DEF Handler
<1>3. first \in {SignIn(h), SignIn(fresh), Call(fresh, tokens, FALSE)}
  BY DEF Protected
<1>4. Becomes(p, first)
  BY DEF Press
<1> HIDE DEF h
<1>5. \A g \in {SignIn(h), SignIn(fresh), Call(fresh, tokens, FALSE)} :
         /\ g.pc = "waiting" /\ g.kind = kind /\ g.step = 1 /\ g.mail = "sent"
         /\ g.applied = 0 /\ g.seen = Nobody /\ g.attempt = 1 /\ g.since = issued
  BY <1>2 DEF SignIn, Call, Handler
<1> HIDE DEF first, fresh
<1> QED
  BY <1>1, <1>3, <1>4, <1>5, Becoming DEF After

\* What a step does to one handler.
Untouched(p) == press'[p] = press[p]
Pressed(p) == \E kind \in Kinds : Press(p, kind)
Moved(p) == Waiting(p) /\ ClientMove(press[p], press'[p])

LEMMA HandlerSteps ==
    ASSUME ShapeInv, [Next]_vars, NEW p \in Presses
    PROVE  \/ Untouched(p)
           \/ Pressed(p) /\ UNCHANGED backendVars
           \/ Moved(p) /\ UNCHANGED backendVars
           \/ Handle(p)
<1> DEFINE Goal == \/ Untouched(p)
                   \/ Pressed(p) /\ UNCHANGED backendVars
                   \/ Moved(p) /\ UNCHANGED backendVars
                   \/ Handle(p)
<1>1. press \in [Presses -> Handler]
  BY DEF ShapeInv, TypeOK
<1>2. ASSUME NEW q \in Presses, NEW kind \in Kinds, Press(q, kind) PROVE Goal
  BY <1>1, <1>2 DEF Press, Becomes, Untouched, Pressed
<1>3. ASSUME NEW q \in Presses, Receive(q) PROVE Goal
  <2>1. Receive(q) => \E h : Becomes(q, h)
    BY DEF Receive, ReceiveSignIn, ReceiveRefresh, ReceiveAnswer, SignedIn, Refreshed,
       AuthenticationRequired, Called, End
  <2>2. q # p => Untouched(p)
    BY <1>1, <1>3, <2>1, Becoming DEF Untouched
  <2> QED
    BY <1>3, <2>2, ReceiveMoves DEF Moved, Receive
<1>4. ASSUME NEW q \in Presses, Timeout(q) PROVE Goal
  <2>1. q # p => Untouched(p)
    BY <1>1, <1>4 DEF Timeout, GiveUp, End, Becomes, Untouched
  <2> QED
    BY <1>4, <2>1, TimeoutMoves DEF Moved, Timeout, backendVars
<1>5. ASSUME NEW q \in Presses, Handle(q) PROVE Goal
  <2>1. PICK g : Becomes(q, g)
    BY <1>5, HandleAnswers DEF Handled
  <2>2. q # p => Untouched(p)
    BY <1>1, <2>1, Becoming DEF Untouched
  <2> QED
    BY <1>5, <2>2
<1>6. CASE Restart
  <2>1. ~Waiting(p) => Untouched(p)
    BY <1>6 DEF Restart, Untouched
  <2> QED
    BY <1>6, <2>1, RestartMoves DEF Moved, Restart
<1>7. ASSUME NEW t \in Tokens, Expire(t) PROVE Goal
  BY <1>7 DEF Expire, Untouched
<1>8. CASE Deactivate \/ UNCHANGED vars
  BY <1>8 DEF Deactivate, Untouched, vars
<1> QED
  BY <1>2, <1>3, <1>4, <1>5, <1>6, <1>7, <1>8 DEF Next

-----------------------------------------------------------------------------
(***************************************************************************)
(* Types, shapes and checkouts.                                            *)
(***************************************************************************)
BotInv == ShapeInv /\ CheckoutInv

LEMMA BotInvInit == Init => BotInv
<1> SUFFICES ASSUME Init PROVE BotInv
  OBVIOUS
<1> USE BotAssumption
<1>1. Unsent \in Handler /\ Shape(Unsent)
  BY DEF Unsent, Handler, Shape, Pending
<1>2. TypeOK
  <2>1. item \in Item \cup {Nobody}
    BY DEF Init, Item
  <2>2. tokens \in Pair /\ issued \in 0 .. TokenLimit
    BY DEF Init, Pair, Tokens
  <2>3. /\ press \in [Presses -> Handler]
        /\ liveAccess \subseteq 1 .. issued /\ liveRefresh \subseteq 1 .. issued
        /\ account \in BOOLEAN /\ nextRow \in 1 .. RowLimit + 1
        /\ order \in [Presses -> Order \cup {Nobody}]
    BY <1>1 DEF Init
  <2> QED
    BY <2>1, <2>2, <2>3 DEF TypeOK
<1>3. CheckoutInv
  BY DEF Init, CheckoutInv, Checkout, Unsent, Pending
<1> QED
  BY <1>1, <1>2, <1>3 DEF BotInv, ShapeInv, Init

\* An answer to a checkout or to its payment is kept by the order.
LEMMA CheckoutHandled ==
    ASSUME ShapeInv, NEW p \in Presses, Checkout(p), Handle(p)
    PROVE  Checkout(p)'
<1> DEFINE h == press[p]
<1>1. PICK g : Handled(p, g)
  BY HandleAnswers
<1>2. /\ press'[p] = After(g) /\ AnswerTo(h, g) /\ h.mail = "sent" /\ Shape(h)
  BY <1>1, Becoming DEF Handled, ShapeInv, TypeOK, Handle
<1> DEFINE k == press'[p]
<1>3. /\ k.kind = h.kind /\ k.pc = h.pc
      /\ Pending(k) => h.pc = "waiting" /\ k.step = h.step /\ k.to = h.to /\ k.mail = g.mail
  <2>1. CASE h.pc = "waiting"
    BY <1>2, <2>1 DEF After, AnswerTo
  <2>2. CASE h.pc # "waiting"
    BY <1>2, <2>2 DEF After, AnswerTo, Rest, Unsent, Pending
  <2> QED
    BY <2>1, <2>2
<1>4. SUFFICES ASSUME h.kind = "checkout"
               PROVE  /\ Pending(k) /\ (k.step >= 2 \/ Answered(k)) => order'[p] \in Order
                      /\ Pending(k) /\ (k.step = 3 \/ (k.step = 2 /\ Answered(k))) => order'[p].paid
                      /\ k.pc = "shown" => order'[p].paid
  BY <1>3 DEF Checkout, Pending, Answered
<1>5. /\ h.step >= 2 => order[p] \in Order
      /\ h.step = 3 => order[p].paid
      /\ h.pc = "shown" => order[p].paid
  BY <1>2, <1>4 DEF Checkout, Pending
<1>6. CASE order' = order /\ (h.to = "call" /\ h.step # 3 /\ h.pc = "waiting" => k.mail # "ok")
  <2>1. ASSUME Pending(k), Answered(k) PROVE h.step = 3
    BY <1>3, <1>6, <2>1 DEF Answered
  <2> QED
    BY <1>3, <1>5, <1>6, <2>1
<1>7. CASE h.to # "call"
  BY <1>6, <1>7 DEF Handle, DoSignIn, DoRefresh, cartVars
<1>8. CASE h.to = "call"
  <2>1. /\ DoCall(p) /\ h.step \in 1 .. 3
        /\ Op(p) = "pay" <=> h.step = 2
        /\ Op(p) = "checkout" <=> h.step = 1
        /\ Op(p) = "read" <=> h.step = 3
    <3>1. h.kind \in Kinds /\ h.step \in 1 .. 3
      BY <1>2, <1>8, CallInHand
    <3>2. /\ Op(p) = Script["checkout"][h.step]
          /\ Script["checkout"][1] = "checkout" /\ Script["checkout"][2] = "pay"
          /\ Script["checkout"][3] = "read"
      BY <1>4, <3>1, ScriptFacts, BotAssumption DEF Op
    <3> QED
      BY <1>8, <3>1, <3>2 DEF Handle
  <2>2. ASSUME NEW status \in {"rejected", "unauthorized"}, Answer(p, status), UNCHANGED cartVars
        PROVE  order' = order /\ (h.pc = "waiting" => k.mail # "ok")
    <3> DEFINE e == [h EXCEPT !.mail = status]
    <3>1. Becomes(p, e) /\ press \in [Presses -> Handler] /\ e.mail = status /\ e.pc = h.pc
      BY <2>2 DEF Answer, ShapeInv, TypeOK, Handler
    <3> HIDE DEF e
    <3> QED
      BY <2>2, <3>1, Becoming DEF After, cartVars
  <2>3. CASE ~(account /\ h.pair.access \in liveAccess)
    BY <1>6, <2>1, <2>2, <2>3 DEF DoCall
  <2>4. CASE Refuse(p)
    BY <1>6, <2>2, <2>4 DEF Refuse
  <2>5. CASE h.step = 1 /\ DoCheckout(p) /\ ~Refuse(p)
    <3>1. item # Nobody /\ order'[p] = [units |-> item.quantity, paid |-> FALSE]
      BY <2>5 DEF DoCheckout, ShapeInv, TypeOK
    <3>2. order'[p] \in Order
      BY <3>1 DEF ShapeInv, TypeOK, Item, Order
    <3>3. h.pc # "shown"
      BY <1>2, <1>4, <2>5 DEF Shape, Pending, Done, Answered, Applying
    <3> QED
      BY <1>3, <2>5, <3>2, <3>3
  <2>6. CASE h.step = 2 /\ DoPay(p) /\ ~Refuse(p)
    <3>1. order' = [order EXCEPT ![p].paid = TRUE] /\ order[p] \in Order
      BY <1>5, <2>6 DEF DoPay
    <3>2. order'[p] \in Order /\ order'[p].paid
      BY <3>1 DEF ShapeInv, TypeOK, Order
    <3> QED
      BY <1>3, <2>6, <3>2
  <2>7. CASE h.step = 3 /\ UNCHANGED cartVars
    BY <1>6, <2>7 DEF cartVars
  <2> QED
    BY <2>1, <2>3, <2>4, <2>5, <2>6, <2>7 DEF DoCall
<1> QED
  BY <1>7, <1>8

\* A step of another press leaves the order of this one alone.
LEMMA OtherOrders ==
    ASSUME ShapeInv, NEW p \in Presses, NEW q \in Presses, q # p, Handle(q)
    PROVE  order'[p] = order[p]
<1>1. order \in [Presses -> Order \cup {Nobody}]
  BY DEF ShapeInv, TypeOK
<1>2. \/ UNCHANGED order
      \/ order' = [order EXCEPT ![q] = [units |-> item.quantity, paid |-> FALSE]]
      \/ order' = [order EXCEPT ![q].paid = TRUE]
  BY DEF Handle, DoSignIn, DoRefresh, DoCall, DoAdd, DoChange, SetQuantity, DoRemove, DoCheckout,
     DoPay, Refuse, cartVars
<1> QED
  BY <1>1, <1>2

LEMMA CheckoutStep ==
    ASSUME BotInv, [Next]_vars, NEW p \in Presses
    PROVE  Checkout(p)'
<1>1. ShapeInv /\ Checkout(p)
  BY DEF BotInv, CheckoutInv
<1>2. CASE Handle(p)
  BY <1>1, <1>2, CheckoutHandled
<1>3. CASE ~Handle(p)
  <2>1. order'[p] = order[p]
    <3>1. ASSUME NEW q \in Presses, Handle(q) PROVE order'[p] = order[p]
      BY <1>1, <1>3, <3>1, OtherOrders
    <3>2. CASE UNCHANGED order
      BY <3>2
    <3> QED
      BY <3>1, <3>2 DEF Next, Press, Receive, Timeout, Expire, Restart, Deactivate, vars,
         backendVars, cartVars
  <2>2. CASE Untouched(p)
    BY <1>1, <2>1, <2>2 DEF Untouched, Checkout, Pending, Answered
  <2>3. CASE Pressed(p)
    <3>1. press'[p].pc = "waiting" /\ press'[p].step = 1 /\ press'[p].mail = "sent"
      BY <1>1, <2>3, PressMoves DEF Pressed
    <3> QED
      BY <3>1 DEF Checkout, Answered, Pending
  <2>4. CASE Moved(p)
    <3> DEFINE h == press[p]
               k == press'[p]
    <3>1. /\ h.pc = "waiting" /\ k.kind = h.kind
          /\ Pending(k) => k.mail = "sent" /\ (k.step = h.step \/ (k.step = h.step + 1 /\ Answered(h)))
          /\ k.pc = "shown" => h.kind = "start" \/ (Answered(h) /\ h.step = Len(Script[h.kind]))
      BY <2>4 DEF Moved, ClientMove, Waiting
    <3>2. h.kind = "checkout" => h.step \in 1 .. 3 /\ Len(Script[h.kind]) = 3
      BY <1>1, <3>1, ScriptFacts, BotAssumption DEF ShapeInv, Shape, TypeOK, Handler
    <3>3. CASE h.kind # "checkout"
      BY <3>1, <3>3 DEF Checkout
    <3>4. CASE h.kind = "checkout"
      <4>1. /\ h.step >= 2 \/ Answered(h) =>
                  order[p] \in Order
            /\ h.step = 3 \/ (h.step = 2 /\ Answered(h)) => order[p].paid
        BY <1>1, <3>1, <3>4 DEF Checkout, Pending
      <4>2. ASSUME Pending(k)
            PROVE  /\ ~Answered(k)
                   /\ k.step >= 2 => h.step >= 2 \/ Answered(h)
                   /\ k.step = 3 => h.step = 3 \/ (h.step = 2 /\ Answered(h))
        BY <3>1, <3>2, <3>4, <4>2 DEF Answered
      <4>3. k.pc = "shown" => h.step = 3
        BY <3>1, <3>2, <3>4
      <4> QED
        BY <2>1, <3>1, <3>4, <4>1, <4>2, <4>3 DEF Checkout
    <3> QED
      BY <3>3, <3>4
  <2> QED
    BY <1>1, <1>3, <2>2, <2>3, <2>4, HandlerSteps
<1> QED
  BY <1>2, <1>3

LEMMA BotInvInductive == BotInv /\ [Next]_vars => BotInv'
<1> SUFFICES ASSUME BotInv, [Next]_vars PROVE BotInv'
  OBVIOUS
<1>1. ShapeInv /\ \A p \in Presses : Checkout(p)
  BY DEF BotInv, CheckoutInv
<1>2. ASSUME NEW p \in Presses, Receive(p) PROVE ShapeInv'
  BY <1>1, <1>2, SessionAnswerShape, CallAnswerShape
<1>3. ASSUME UNCHANGED <<tokens, press, issued, item, nextRow, order>>,
             liveAccess' \subseteq liveAccess, liveRefresh' \subseteq liveRefresh,
             account' \in BOOLEAN
      PROVE  ShapeInv'
  <2>1. TypeOK'
    BY <1>1, <1>3 DEF ShapeInv, TypeOK
  <2>2. ASSUME NEW p \in Presses PROVE Shape(press'[p])
    BY <1>1, <1>3 DEF ShapeInv
  <2> QED
    BY <2>1, <2>2 DEF ShapeInv
<1>4. ASSUME NEW t \in Tokens, Expire(t) PROVE ShapeInv'
  BY <1>1, <1>3, <1>4 DEF Expire, cartVars, ShapeInv, TypeOK
<1>5. ASSUME Deactivate \/ UNCHANGED vars PROVE ShapeInv'
  BY <1>1, <1>3, <1>5 DEF Deactivate, cartVars, vars, backendVars, ShapeInv, TypeOK
<1>6. ASSUME NEW p \in Presses, Timeout(p) PROVE ShapeInv'
  BY <1>1, <1>6, GiveUpShape
<1>8. ASSUME NEW p \in Presses, Handle(p) PROVE ShapeInv'
  BY <1>1, <1>8, HandleShape
<1>9. ASSUME NEW p \in Presses, NEW kind \in Kinds, Press(p, kind) PROVE ShapeInv'
  BY <1>1, <1>9, PressShape
<1>10. ASSUME Restart PROVE ShapeInv'
  BY <1>1, <1>10, GiveUpShape
<1>11. ShapeInv'
  BY <1>2, <1>4, <1>5, <1>6, <1>8, <1>9, <1>10 DEF Next
<1>7. CheckoutInv'
  BY CheckoutStep DEF CheckoutInv
<1> QED
  BY <1>7, <1>11 DEF BotInv

\* What handlers remember, tokens, cart and orders keep their types.
THEOREM BotTyped == Spec => []TypeOK
<1>1. BotInv => TypeOK
  BY DEF BotInv, ShapeInv
<1> QED
  BY <1>1, BotInvInit, BotInvInductive, PTL DEF Spec

\* No press takes effect twice, however often its call is made.
THEOREM PressesApplyOnce == Spec => []AppliedAtMostOnce
<1>1. BotInv => AppliedAtMostOnce
  BY DEF BotInv, ShapeInv, Shape, AppliedAtMostOnce
<1> QED
  BY <1>1, BotInvInit, BotInvInductive, PTL DEF Spec

\* A success that the customer is shown has happened.
THEOREM TrueAnswers == Spec => []AnswersAreTrue
<1>1. BotInv => AnswersAreTrue
  BY DEF BotInv, ShapeInv, Shape, CheckoutInv, Checkout, AnswersAreTrue
<1> QED
  BY <1>1, BotInvInit, BotInvInductive, PTL DEF Spec

-----------------------------------------------------------------------------
(***************************************************************************)
(* Sessions.                                                               *)
(***************************************************************************)

\* Only the passing of time takes a token away, and no step an account back.
LEMMA TokensLast ==
    ASSUME ShapeInv, [Next]_vars
    PROVE  /\ issued' \in Nat /\ issued <= issued' /\ (account' => account)
           /\ \/ liveAccess \subseteq liveAccess' /\ liveRefresh \subseteq liveRefresh'
              \/ \E t \in Tokens : Expire(t)
<1>1. issued \in Nat
  BY BotAssumption DEF ShapeInv, TypeOK
<1>2. ASSUME NEW p \in Presses, Handle(p)
      PROVE  /\ issued' \in Nat /\ issued <= issued' /\ (account' => account)
             /\ liveAccess \subseteq liveAccess' /\ liveRefresh \subseteq liveRefresh'
  BY <1>1, <1>2 DEF Handle, DoSignIn, DoRefresh, DoCall, Mint
<1>3. ASSUME UNCHANGED <<issued, liveAccess, liveRefresh>>, account' => account
      PROVE  /\ issued' \in Nat /\ issued <= issued' /\ (account' => account)
             /\ liveAccess \subseteq liveAccess' /\ liveRefresh \subseteq liveRefresh'
  BY <1>1, <1>3
<1>4. ASSUME NEW t \in Tokens, Expire(t)
      PROVE  issued' \in Nat /\ issued <= issued' /\ (account' => account)
  BY <1>1, <1>4 DEF Expire
<1>5. \/ \E p \in Presses : Handle(p)
      \/ \E t \in Tokens : Expire(t)
      \/ UNCHANGED <<issued, liveAccess, liveRefresh>> /\ (account' => account)
  BY DEF Next, Press, Receive, Timeout, Restart, Deactivate, vars, backendVars
<1> QED
  BY <1>2, <1>3, <1>4, <1>5

\* A refusal that a handler gets after its second sign-in is the account's.
LEMMA SessionOfHandled ==
    ASSUME ShapeInv, NEW p \in Presses, Session(press[p]), Handle(p),
           liveAccess \subseteq liveAccess', liveRefresh \subseteq liveRefresh',
           issued <= issued'
    PROVE  Session(press[p])'
<1> DEFINE h == press[p]
           k == press'[p]
<1>1. PICK g : Handled(p, g)
  BY HandleAnswers
<1>2. /\ k = After(g) /\ AnswerTo(h, g) /\ h \in Handler /\ Shape(h) /\ h.mail = "sent"
      /\ issued \in Nat /\ account' = account
  BY <1>1, Becoming, BotAssumption DEF Handled, ShapeInv, TypeOK, Handle
<1>3. CASE h.pc # "waiting"
  <2>1. k.pc = h.pc
    BY <1>2, <1>3 DEF After, AnswerTo, Rest, Unsent
  <2> QED
    BY <1>2, <1>3, <2>1 DEF Session
<1>4. CASE h.pc = "waiting"
  <2>1. k = g /\ k.since = h.since /\ k.attempt = h.attempt /\ k.pair = h.pair
        /\ k.to = h.to /\ k.pc = "waiting"
    BY <1>2, <1>4 DEF After, AnswerTo
  <2>3. ASSUME k.to \in {"signin", "refresh"}, k.mail = "ok"
        PROVE  /\ k.minted > k.since /\ k.minted \in liveAccess'
               /\ k.to = "signin" => k.minted \in liveRefresh'
    <3>1. k.minted = issued + 1
      BY <1>1, <2>1, <2>3 DEF Handled
    <3>2. k.minted > k.since
      BY <1>2, <1>4, <2>1, <3>1, BotAssumption DEF Session, Handler
    <3> QED
      BY <1>1, <2>1, <2>3, <3>1, <3>2 DEF Handled
  <2>4. ASSUME k.attempt = 2, k.to \in {"call", "refresh"}
        PROVE  /\ k.pair.access > k.since /\ k.pair.access \in liveAccess'
               /\ k.pair.refresh > k.since /\ k.pair.refresh \in liveRefresh'
               /\ k.mail = "unauthorized" => ~account'
    <3>1. /\ h.pair.access > h.since /\ h.pair.access \in liveAccess
          /\ h.pair.refresh > h.since /\ h.pair.refresh \in liveRefresh
      BY <1>4, <2>1, <2>4 DEF Session
    <3>2. k.mail = "unauthorized" => ~account
      BY <1>1, <2>1, <2>4, <3>1 DEF Handled
    <3> QED
      BY <1>2, <2>1, <3>1, <3>2
  <2>5. k.since <= issued'
    <3>1. issued' = issued \/ issued' = issued + 1
      BY DEF Handle, DoSignIn, DoRefresh, DoCall, Mint
    <3> QED
      BY <1>2, <1>4, <2>1, <3>1, BotAssumption DEF Session, Handler
  <2> QED
    BY <2>1, <2>3, <2>4, <2>5 DEF Session
<1> QED
  BY <1>3, <1>4

LEMMA SessionStep ==
    ASSUME ShapeInv, NEW p \in Presses, Session(press[p]), [Next]_vars
    PROVE  Session(press[p])'
<1> DEFINE h == press[p]
           k == press'[p]
<1>1. /\ h \in Handler /\ issued \in Nat /\ h.since \in Nat
      /\ issued' \in Nat /\ issued <= issued' /\ (account' => account)
  BY TokensLast, BotAssumption DEF ShapeInv, TypeOK, Handler
<1>2. ASSUME NEW t \in Tokens, Expire(t) PROVE Session(press[p])'
  <2>1. /\ k = h /\ issued' = issued /\ account' = account
        /\ liveAccess \ {t} \subseteq liveAccess' /\ liveRefresh \ {t} \subseteq liveRefresh'
        /\ h.pc = "waiting" => t <= h.since
    BY <1>2 DEF Expire, MayExpire, Waiting
  <2>2. h.pc = "waiting" /\ h.to \in {"signin", "refresh"} /\ h.mail = "ok" => h.minted # t
    <3>1. h.pc = "waiting" /\ h.to \in {"signin", "refresh"} /\ h.mail = "ok" =>
              h.minted \in Tokens /\ h.minted > h.since
      BY DEF Session, ShapeInv, Shape, Pending
    <3> QED
      BY <1>1, <2>1, <3>1, BotAssumption DEF Tokens
  <2>3. h.pc = "waiting" /\ h.attempt = 2 /\ h.to \in {"call", "refresh"} =>
            h.pair.access # t /\ h.pair.refresh # t
    <3>1. h.pc = "waiting" /\ h.attempt = 2 /\ h.to \in {"call", "refresh"} =>
              /\ h.pair.access \in Tokens /\ h.pair.refresh \in Tokens
              /\ h.pair.access > h.since /\ h.pair.refresh > h.since
      BY DEF Session, ShapeInv, Shape, Pending, Pair
    <3> QED
      BY <1>1, <2>1, <3>1, BotAssumption DEF Tokens
  <2> QED
    BY <2>1, <2>2, <2>3 DEF Session
<1>3. CASE liveAccess \subseteq liveAccess' /\ liveRefresh \subseteq liveRefresh'
  <2>1. CASE Untouched(p)
    <3>1. h.since <= issued => k.since <= issued'
      BY <1>1, <2>1 DEF Untouched
    <3> QED
      BY <1>1, <1>3, <2>1, <3>1 DEF Session, Untouched
  <2>2. CASE Pressed(p) /\ UNCHANGED backendVars
    <3>1. k.pc = "waiting" /\ k.mail = "sent" /\ k.attempt = 1 /\ k.since = issued
      BY <2>2, PressMoves DEF Pressed
    <3> QED
      BY <1>1, <2>2, <3>1 DEF Session, backendVars
  <2>3. CASE Moved(p) /\ UNCHANGED backendVars
    <3>1. h.pc = "waiting" /\ ClientMove(h, k)
      BY <2>3 DEF Moved, Waiting
    <3>2. k.pc = "waiting" => k.mail = "sent" /\ k.since = h.since
      BY <3>1 DEF ClientMove, Pending
    <3>3. k.pc = "expired" => ~account
      BY <1>1, <3>1 DEF ClientMove, Session, Handler
    <3>4. ASSUME k.pc = "waiting", k.attempt = 2, k.to \in {"call", "refresh"}
          PROVE  /\ k.pair.access > h.since /\ k.pair.access \in liveAccess
                 /\ k.pair.refresh > h.since /\ k.pair.refresh \in liveRefresh
      BY <3>1, <3>4 DEF ClientMove, Session
    <3> QED
      BY <1>1, <2>3, <3>1, <3>2, <3>3, <3>4 DEF Session, backendVars
  <2>4. CASE Handle(p)
    BY <1>1, <1>3, <2>4, SessionOfHandled
  <2> QED
    BY <2>1, <2>2, <2>3, <2>4, HandlerSteps
<1> QED
  BY <1>2, <1>3, TokensLast

LEMMA SessionInductive ==
    /\ Init => SessionInv
    /\ BotInv /\ SessionInv /\ [Next]_vars => SessionInv'
<1>1. Init => SessionInv
  BY DEF Init, SessionInv, Session, Unsent
<1>2. ASSUME BotInv, SessionInv, [Next]_vars PROVE SessionInv'
  BY <1>2, SessionStep DEF BotInv, SessionInv
<1> QED
  BY <1>1, <1>2

\* Presses that take each other's tokens away recover, each with one sign-in.
THEOREM SessionsRecover == Spec => []SessionRecovers
<1>1. SessionInv => SessionRecovers
  BY DEF SessionInv, Session, SessionRecovers
<1> QED
  BY <1>1, BotInvInit, BotInvInductive, SessionInductive, PTL DEF Spec

-----------------------------------------------------------------------------
(***************************************************************************)
(* Progress.                                                               *)
(***************************************************************************)

\* How far a waiting handler is from the answer of its call.
Phase(h) == IF h.to = "signin" THEN 4
            ELSE IF h.to = "refresh" THEN 2
            ELSE IF h.again THEN 1 ELSE 3

CallsLeft(h) == IF h.kind = "start" THEN 0 ELSE Len(Script[h.kind]) - h.step + 1

LEMMA RequestsLeft ==
    ASSUME NEW h, Shape(h), h.pc = "waiting"
    PROVE  /\ Phase(h) \in 1 .. 4 /\ h.attempt \in {1, 2} /\ CallsLeft(h) \in 0 .. 3
           /\ Len(Script[h.kind]) - h.step + 1 = CallsLeft(h)
<1>1. /\ h \in Handler /\ h.kind \in Kinds
      /\ h.kind = "start" => h.step = 1
      /\ h.kind # "start" => h.step \in 1 .. Len(Script[h.kind])
  BY DEF Shape, Pending
<1>2. CASE h.kind = "start"
  <2>1. Len(Script[h.kind]) = 0 /\ h.step = 1
    BY <1>1, <1>2, ScriptFacts, BotAssumption
  <2> QED
    BY <1>1, <1>2, <2>1 DEF CallsLeft, Handler, Phase
<1>3. CASE h.kind # "start"
  <2>1. Len(Script[h.kind]) \in 1 .. 3 /\ h.step \in 1 .. 3
    BY <1>1, <1>3, Calls
  <2>2. h.step <= Len(Script[h.kind])
    BY <1>1, <1>3, <2>1
  <2> DEFINE n == Len(Script[h.kind])
  <2>3. CallsLeft(h) = n - h.step + 1
    BY <1>3 DEF CallsLeft
  <2>4. n \in 1 .. 3 /\ h.step \in 1 .. 3 /\ h.step <= n
    BY <2>1, <2>2
  <2> HIDE DEF n
  <2>5. CallsLeft(h) \in 0 .. 3 /\ n - h.step + 1 = CallsLeft(h)
    BY <2>3, <2>4
  <2> QED
    BY <1>1, <2>5 DEF Handler, Phase, n
<1> QED
  BY <1>2, <1>3

\* An answer ends a handler or brings it nearer to its end: it is at the next
\* call, at its second attempt, or nearer to the answer of its call.
LEMMA ReceiveAdvances ==
    ASSUME ShapeInv, NEW p \in Presses, Receive(p)
    PROVE  LET h == press[p]
               k == press'[p]
           IN \/ k.pc # "waiting"
              \/ /\ k.kind = h.kind /\ h.kind # "start"
                 /\ k.step = h.step + 1
              \/ /\ k.kind = h.kind /\ k.step = h.step
                 /\ \/ h.attempt = 1 /\ k.attempt = 2 /\ k.to = "signin"
                    \/ k.attempt = h.attempt /\ Phase(k) < Phase(h)
<1> DEFINE h == press[p]
           k == press'[p]
           Goal == \/ k.pc # "waiting"
                   \/ /\ k.kind = h.kind /\ h.kind # "start"
                      /\ k.step = h.step + 1
                   \/ /\ k.kind = h.kind /\ k.step = h.step
                      /\ \/ h.attempt = 1 /\ k.attempt = 2 /\ k.to = "signin"
                         \/ k.attempt = h.attempt /\ Phase(k) < Phase(h)
<1>1. /\ h \in Handler /\ Shape(h) /\ h.pc = "waiting" /\ press \in [Presses -> Handler]
  BY DEF Receive, Waiting, ShapeInv, TypeOK
<1>2. ASSUME NEW outcome \in {"shown", "failed", "expired"}, End(p, outcome) PROVE Goal
  <2> DEFINE e == [h EXCEPT !.pc = outcome]
  <2>1. e.pc = outcome /\ Becomes(p, e)
    BY <1>1, <1>2 DEF End, Handler
  <2> HIDE DEF e
  <2>2. k = Rest(e)
    BY <1>1, <2>1, Becoming DEF After
  <2>3. Rest(e).pc = outcome
    BY <2>1 DEF Rest, Unsent
  <2> QED
    BY <2>2, <2>3
<1>3. ASSUME NEW pair, h.to = "signin", Becomes(p, Call(h, pair, FALSE)) PROVE Goal
  <2> DEFINE g == Call(h, pair, FALSE)
  <2>1. /\ g.pc = "waiting" /\ g.kind = h.kind /\ g.step = h.step /\ g.attempt = h.attempt
        /\ g.to = "call" /\ g.again = FALSE /\ Becomes(p, g)
    BY <1>1, <1>3 DEF Call, Handler
  <2> HIDE DEF g
  <2>2. k = g
    BY <1>1, <2>1, Becoming DEF After
  <2> QED
    BY <1>3, <2>1, <2>2 DEF Phase
<1>4. ASSUME NEW pair, h.to = "refresh", Becomes(p, Call(h, pair, TRUE)) PROVE Goal
  <2> DEFINE g == Call(h, pair, TRUE)
  <2>1. /\ g.pc = "waiting" /\ g.kind = h.kind /\ g.step = h.step /\ g.attempt = h.attempt
        /\ g.to = "call" /\ g.again = TRUE /\ Becomes(p, g)
    BY <1>1, <1>4 DEF Call, Handler
  <2> HIDE DEF g
  <2>2. k = g
    BY <1>1, <2>1, Becoming DEF After
  <2> QED
    BY <1>4, <2>1, <2>2 DEF Phase
<1>5. ASSUME AuthenticationRequired(p) PROVE Goal
  <2>1. CASE h.attempt = 1
    <3> DEFINE g == SignIn([h EXCEPT !.attempt = 2])
    <3>1. /\ g.pc = "waiting" /\ g.kind = h.kind /\ g.step = h.step /\ g.attempt = 2
          /\ g.to = "signin" /\ Becomes(p, g)
      BY <1>1, <1>5, <2>1 DEF AuthenticationRequired, SignIn, Handler
    <3> HIDE DEF g
    <3>2. k = g
      BY <1>1, <3>1, Becoming DEF After
    <3> QED
      BY <2>1, <3>1, <3>2
  <2>2. CASE h.attempt # 1
    BY <1>2, <1>5, <2>2 DEF AuthenticationRequired
  <2> QED
    BY <2>1, <2>2
<1>6. ASSUME h.to = "call", ~h.again, Becomes(p, [h EXCEPT !.to = "refresh", !.mail = "sent"])
      PROVE  Goal
  <2> DEFINE g == [h EXCEPT !.to = "refresh", !.mail = "sent"]
  <2>1. /\ g.pc = "waiting" /\ g.kind = h.kind /\ g.step = h.step /\ g.attempt = h.attempt
        /\ g.to = "refresh" /\ Becomes(p, g)
    BY <1>1, <1>6 DEF Handler
  <2> HIDE DEF g
  <2>2. k = g
    BY <1>1, <2>1, Becoming DEF After
  <2> QED
    BY <1>6, <2>1, <2>2 DEF Phase
<1>7. ASSUME h.to = "call",
             Becomes(p, Protected([h EXCEPT !.step = @ + 1,
                                            !.seen = IF Op(p) = "read" THEN @ ELSE Nobody]))
      PROVE  Goal
  <2> DEFINE seen == IF Op(p) = "read" THEN h.seen ELSE Nobody
             f == [h EXCEPT !.step = @ + 1, !.seen = seen]
             fresh == [f EXCEPT !.attempt = 1]
             g == Protected(f)
  <2>1. Becomes(p, g)
    BY <1>1, <1>7 DEF Handler
  <2>2. h.kind # "start"
    BY <1>1, <1>7 DEF Shape, Pending
  <2> HIDE DEF seen
  <2>3. g = IF tokens = Nobody THEN SignIn(fresh) ELSE Call(fresh, tokens, FALSE)
    BY DEF Protected
  <2>4. g.pc = "waiting" /\ g.kind = h.kind /\ g.step = h.step + 1
    BY <1>1, <2>3 DEF SignIn, Call, Handler
  <2> HIDE DEF g
  <2>5. k = g
    BY <1>1, <2>1, <2>4, Becoming DEF After
  <2> QED
    BY <2>2, <2>4, <2>5
<1>8. /\ Receive(p) /\ ReceiveSignIn(p) =>
            \/ \E outcome \in {"shown", "failed", "expired"} : End(p, outcome)
            \/ \E pair : h.to = "signin" /\ Becomes(p, Call(h, pair, FALSE))
      /\ Receive(p) /\ ReceiveRefresh(p) =>
            \/ \E outcome \in {"shown", "failed", "expired"} : End(p, outcome)
            \/ \E pair : h.to = "refresh" /\ Becomes(p, Call(h, pair, TRUE))
            \/ AuthenticationRequired(p)
  BY DEF ReceiveSignIn, SignedIn, ReceiveRefresh, Refreshed
<1>9. ReceiveAnswer(p) =>
         \/ \E outcome \in {"shown", "failed", "expired"} : End(p, outcome)
         \/ AuthenticationRequired(p)
         \/ h.to = "call" /\ ~h.again /\ Becomes(p, [h EXCEPT !.to = "refresh", !.mail = "sent"])
         \/ h.to = "call" /\ Becomes(p, Protected([h EXCEPT !.step = @ + 1,
                                            !.seen = IF Op(p) = "read" THEN @ ELSE Nobody]))
  BY DEF ReceiveAnswer, Called
<1> HIDE DEF Goal
<1>10. Goal
  BY <1>2, <1>3, <1>4, <1>5, <1>6, <1>7, <1>8, <1>9 DEF Receive
<1> QED
  BY <1>10 DEF Goal

\* The weights that Remaining gives to calls, attempts and phases.
LEMMA Weights ==
    ASSUME NEW f \in 1 .. 4, NEW g \in 1 .. 4, NEW a \in {1, 2}, NEW b \in {1, 2},
           NEW c \in 0 .. 3, NEW d \in 0 .. 3,
           d = c - 1 \/ (d = c /\ a = 1 /\ b = 2) \/ (d = c /\ a = b /\ g < f)
    PROVE  /\ g + 4 * (2 - b) + 8 * d < f + 4 * (2 - a) + 8 * c
           /\ 0 < f + 4 * (2 - a) + 8 * c
OBVIOUS

LEMMA ProgressStep ==
    ASSUME BotInv, BotInv', NEW p \in Presses, Receive(p)
    PROVE  Remaining(p)' < Remaining(p)
<1> DEFINE h == press[p]
           k == press'[p]
<1>1. Shape(h) /\ Shape(k) /\ h.pc = "waiting" /\ ShapeInv
  BY DEF BotInv, ShapeInv, Receive, Waiting
<1>2. /\ Phase(h) \in 1 .. 4 /\ h.attempt \in {1, 2} /\ CallsLeft(h) \in 0 .. 3
      /\ Len(Script[h.kind]) - h.step + 1 = CallsLeft(h)
      /\ h.to \in {"signin", "refresh", "call"} /\ h.again \in BOOLEAN
  BY <1>1, RequestsLeft DEF Shape, Handler
<1>3. k.pc = "waiting" =>
      /\ Phase(k) \in 1 .. 4 /\ k.attempt \in {1, 2} /\ CallsLeft(k) \in 0 .. 3
      /\ Len(Script[k.kind]) - k.step + 1 = CallsLeft(k)
      /\ k.to \in {"signin", "refresh", "call"} /\ k.again \in BOOLEAN
  BY <1>1, RequestsLeft DEF Shape, Handler
<1>4. Remaining(p) = Phase(h) + 4 * (2 - h.attempt) + 8 * CallsLeft(h)
  BY <1>1, <1>2 DEF Remaining, Waiting, Phase
<1>5. Remaining(p)' = IF k.pc # "waiting" THEN 0
                      ELSE Phase(k) + 4 * (2 - k.attempt) + 8 * CallsLeft(k)
  BY <1>3 DEF Remaining, Waiting, Phase
<1>6. CASE k.pc # "waiting"
  <2>1. 0 < Phase(h) + 4 * (2 - h.attempt) + 8 * CallsLeft(h)
    BY <1>2
  <2> QED
    BY <1>4, <1>5, <1>6, <2>1
<1>7. CASE k.pc = "waiting"
  <2>1. ASSUME k.kind = h.kind, h.kind # "start", k.step = h.step + 1
        PROVE  CallsLeft(k) = CallsLeft(h) - 1
    <3>1. h.step \in 1 .. 3 /\ Len(Script[h.kind]) \in 1 .. 3
      <4>1. h.kind \in Kinds /\ h.step \in 1 .. Len(Script[h.kind])
        BY <1>1, <2>1 DEF Shape, Pending
      <4> QED
        BY <2>1, <4>1, Calls
    <3> QED
      BY <2>1, <3>1 DEF CallsLeft
  <2>2. k.kind = h.kind /\ k.step = h.step => CallsLeft(k) = CallsLeft(h)
    BY DEF CallsLeft
  <2>3. \/ CallsLeft(k) = CallsLeft(h) - 1
        \/ CallsLeft(k) = CallsLeft(h) /\ h.attempt = 1 /\ k.attempt = 2
        \/ CallsLeft(k) = CallsLeft(h) /\ h.attempt = k.attempt /\ Phase(k) < Phase(h)
    BY <1>1, <1>7, <2>1, <2>2, ReceiveAdvances
  <2>4. Phase(k) + 4 * (2 - k.attempt) + 8 * CallsLeft(k)
          < Phase(h) + 4 * (2 - h.attempt) + 8 * CallsLeft(h)
    BY <1>2, <1>3, <1>7, <2>3, Weights
  <2> QED
    BY <1>4, <1>5, <1>7, <2>4
<1> QED
  BY <1>6, <1>7

\* Handlers that keep taking each other's tokens away still run out of
\* requests.
THEOREM AnswersBringProgress == Spec => AnswersAreProgress
<1>1. BotInv /\ BotInv' /\ [Next]_vars =>
          [\A p \in Presses : Receive(p) => Remaining(p)' < Remaining(p)]_vars
  BY ProgressStep
<1> QED
  BY <1>1, BotInvInit, BotInvInductive, PTL DEF Spec, AnswersAreProgress

-----------------------------------------------------------------------------
(***************************************************************************)
(* Units.                                                                  *)
(***************************************************************************)

\* With finitely many presses, units and additions can be counted.
LEMMA FiniteUnits ==
    ASSUME IsFiniteSet(Presses)
    PROVE  /\ IsFiniteSet(OrderedUnits) /\ Cardinality(OrderedUnits) \in Nat
           /\ IsFiniteSet(Adding) /\ Cardinality(Adding) \in Nat
           /\ IsFiniteSet(OrderedUnits') /\ Cardinality(OrderedUnits') \in Nat
           /\ IsFiniteSet(Adding') /\ Cardinality(Adding') \in Nat
<1>1. IsFiniteSet(Presses \X (1 .. MaxQuantity))
  <2>1. IsFiniteSet(1 .. MaxQuantity)
    BY FS_Interval, BotAssumption
  <2> QED
    BY <2>1, FS_Product
<1>2. /\ OrderedUnits \in SUBSET (Presses \X (1 .. MaxQuantity))
      /\ OrderedUnits' \in SUBSET (Presses \X (1 .. MaxQuantity))
  BY DEF OrderedUnits
<1>3. Adding \in SUBSET Presses /\ Adding' \in SUBSET Presses
  BY DEF Adding
<1>4. IsFiniteSet(OrderedUnits) /\ IsFiniteSet(OrderedUnits')
  BY <1>1, <1>2, FS_Subset
<1>5. IsFiniteSet(Adding) /\ IsFiniteSet(Adding')
  BY <1>3, FS_Subset
<1> QED
  BY <1>4, <1>5, FS_CardinalityType

\* A press that has been applied stays so, and what handlers know of the cart
\* they have just read or knew before.
LEMMA HandlersKeep ==
    ASSUME ShapeInv, [Next]_vars, NEW p \in Presses
    PROVE  /\ press'[p].seen \in {press[p].seen, Nobody, item}
           /\ press[p].applied > 0 =>
                 press'[p].kind = press[p].kind /\ press'[p].applied > 0
<1> DEFINE h == press[p]
           k == press'[p]
<1>1. h \in Handler /\ press \in [Presses -> Handler]
  BY DEF ShapeInv, TypeOK
<1>2. CASE Untouched(p)
  BY <1>2 DEF Untouched
<1>3. CASE Pressed(p)
  <2>1. h.applied = 0 /\ k.seen = Nobody
    BY <1>3, PressMoves DEF Pressed, Unsent
  <2> QED
    BY <2>1
<1>4. CASE Moved(p)
  BY <1>4 DEF Moved, ClientMove
<1>5. CASE Handle(p)
  <2>1. PICK g : Handled(p, g)
    BY <1>5, HandleAnswers
  <2>2. k = After(g) /\ AnswerTo(h, g)
    BY <1>1, <2>1, Becoming DEF Handled
  <2>3. k.kind = g.kind /\ k.applied = g.applied /\ k.seen \in {g.seen, Nobody}
    BY <2>2 DEF After, Rest, Unsent
  <2>4. g.kind = h.kind /\ g.applied \in {h.applied, h.applied + 1} /\ g.seen \in {h.seen, item}
    BY <2>2, <1>1 DEF AnswerTo, Handler
  <2> QED
    BY <1>1, <2>3, <2>4 DEF Handler
<1> QED
  BY <1>2, <1>3, <1>4, <1>5, HandlerSteps

LEMMA AddingGrows ==
    ASSUME IsFiniteSet(Presses), ShapeInv, [Next]_vars
    PROVE  Adding \subseteq Adding' /\ Cardinality(Adding) <= Cardinality(Adding')
<1>1. Adding \subseteq Adding'
  BY HandlersKeep DEF Adding
<1> QED
  BY <1>1, FiniteUnits, FS_Subset

\* A press that adds a unit is one more of those that have.
LEMMA OneMoreAdding ==
    ASSUME IsFiniteSet(Presses), ShapeInv, [Next]_vars, NEW p \in Presses, Apply(p),
           press[p].kind \in {"add", "inc"}, press[p].applied = 0
    PROVE  Cardinality(Adding) + 1 <= Cardinality(Adding')
<1> DEFINE h == press[p]
           g == [h EXCEPT !.mail = "ok", !.applied = @ + 1]
<1>1. /\ h \in Handler /\ press \in [Presses -> Handler]
      /\ g.kind = h.kind /\ g.applied = 1 /\ Becomes(p, g)
  BY DEF ShapeInv, TypeOK, Handler, Apply
<1> HIDE DEF g
<1>2. press'[p].kind = h.kind /\ press'[p].applied = 1
  <2>1. press'[p] = After(g)
    BY <1>1, Becoming
  <2> QED
    BY <1>1, <2>1 DEF After, Rest, Unsent
<1>3. p \notin Adding /\ Adding \cup {p} \in SUBSET Adding'
  BY <1>2, AddingGrows DEF Adding
<1>4. Cardinality(Adding \cup {p}) = Cardinality(Adding) + 1
  BY <1>3, FiniteUnits, FS_AddElement
<1> QED
  BY <1>3, <1>4, FiniteUnits, FS_Subset

\* A step that leaves no unit unaccounted for in the cart and in the orders
\* leaves none in what the handlers have read.
LEMMA UnitsAfter ==
    ASSUME IsFiniteSet(Presses), ShapeInv, ShapeInv', Units, [Next]_vars,
           nextRow <= nextRow',
           UnitsAreAccountedFor',
           \/ item' = Nobody
           \/ /\ item' # Nobody /\ Cardinality(OrderedUnits') = Cardinality(OrderedUnits)
              /\ \/ item # Nobody /\ item'.row = item.row
                 \/ item'.row = nextRow /\ nextRow < nextRow'
    PROVE  Units'
<1> DEFINE K == Cardinality(OrderedUnits)
           A == Cardinality(Adding)
<1> USE BotAssumption
<1>1. /\ item \in Item \cup {Nobody} /\ item' \in Item \cup {Nobody}
      /\ nextRow \in Nat /\ nextRow' \in Nat
  BY DEF ShapeInv, TypeOK
<1>2. /\ K \in Nat /\ A \in Nat /\ Cardinality(OrderedUnits') \in Nat
      /\ Cardinality(Adding') \in Nat /\ A <= Cardinality(Adding')
  BY FiniteUnits, AddingGrows
<1>3. /\ item # Nobody => item.row < nextRow
      /\ item # Nobody => item.quantity + K <= InitialQuantity + A
  BY DEF Units, UnitsAreAccountedFor, InCart
<1>4. item' # Nobody => item'.row < nextRow'
  BY <1>1, <1>3 DEF Item
<1>5. ASSUME NEW p \in Presses, press'[p].seen # Nobody
      PROVE  /\ press'[p].seen.row < nextRow'
             /\ item' # Nobody /\ item'.row = press'[p].seen.row =>
                   press'[p].seen.quantity + Cardinality(OrderedUnits')
                     <= InitialQuantity + Cardinality(Adding')
  <2> DEFINE seen == press'[p].seen
  <2>1. seen \in Item /\ seen \in {press[p].seen, item}
    BY <1>5, HandlersKeep DEF ShapeInv, TypeOK, Handler
  <2>2. /\ seen.row < nextRow
        /\ item # Nobody /\ item.row = seen.row => seen.quantity + K <= InitialQuantity + A
    BY <1>3, <1>5, <2>1 DEF Units
  <2> HIDE DEF seen, K, A
  <2>3. seen.row < nextRow'
    BY <1>1, <2>1, <2>2 DEF Item
  <2>4. ASSUME item' # Nobody, item'.row = seen.row
        PROVE  seen.quantity + Cardinality(OrderedUnits') <= InitialQuantity + Cardinality(Adding')
    <3>1. item # Nobody /\ item.row = seen.row /\ Cardinality(OrderedUnits') = K
      BY <1>1, <2>1, <2>2, <2>4 DEF Item, K
    <3>2. seen.quantity + K <= InitialQuantity + A
      BY <2>2, <3>1
    <3>3. seen.quantity \in Nat /\ InitialQuantity \in Nat
      BY <2>1 DEF Item
    <3> QED
      BY <1>2, <3>1, <3>2, <3>3 DEF A
  <2> QED
    BY <2>3, <2>4 DEF seen
<1> QED
  BY <1>4, <1>5 DEF Units

\* The calls that touch the cart.
LEMMA AddUnits ==
    ASSUME IsFiniteSet(Presses), ShapeInv, ShapeInv', Units, [Next]_vars,
           NEW p \in Presses, press[p].mail = "sent", press[p].to = "call",
           Op(p) = "add", DoAdd(p), ~Refuse(p)
    PROVE  Units'
<1> USE BotAssumption
<1>1. /\ item \in Item \cup {Nobody} /\ nextRow \in Nat
      /\ Cardinality(OrderedUnits) \in Nat /\ Cardinality(Adding) \in Nat
      /\ Cardinality(Adding') \in Nat
      /\ InCart + Cardinality(OrderedUnits) <= InitialQuantity + Cardinality(Adding)
  BY FiniteUnits DEF ShapeInv, TypeOK, Units, UnitsAreAccountedFor
<1>2. OrderedUnits' = OrderedUnits
  BY DEF DoAdd, OrderedUnits
<1>3. Cardinality(Adding) + 1 <= Cardinality(Adding')
  <2>1. press[p].kind = "add" /\ press[p].applied = 0
    BY CallInHand DEF Ready, Applying
  <2> QED
    BY <2>1, OneMoreAdding DEF DoAdd
<1>4. /\ item' # Nobody /\ InCart' = InCart + 1 /\ nextRow <= nextRow'
      /\ \/ item # Nobody /\ item'.row = item.row
         \/ item'.row = nextRow /\ nextRow < nextRow'
  <2>1. item' \in Item \cup {Nobody}
    BY DEF ShapeInv, TypeOK
  <2>2. CASE item = Nobody
    <3>1. item' = [row |-> nextRow, quantity |-> 1] /\ nextRow' = nextRow + 1 /\ nextRow <= RowLimit
      BY <2>2 DEF DoAdd
    <3>2. item' \in Item
      <4>1. nextRow \in 1 .. RowLimit /\ 1 \in 1 .. MaxQuantity
        BY <3>1 DEF ShapeInv, TypeOK
      <4> QED
        BY <3>1, <4>1 DEF Item
    <3> QED
      BY <1>1, <2>2, <3>1, <3>2 DEF InCart
  <2>3. CASE item # Nobody
    <3>1. item' = [item EXCEPT !.quantity = @ + 1] /\ nextRow' = nextRow /\ item.quantity < MaxQuantity
      BY <2>3 DEF DoAdd
    <3>2. item' \in Item /\ item'.row = item.row /\ item'.quantity = item.quantity + 1
      BY <1>1, <2>3, <3>1 DEF Item
    <3> QED
      BY <1>1, <2>3, <3>1, <3>2 DEF InCart
  <2> QED
    BY <2>2, <2>3
<1>5. InCart \in Nat
  BY <1>1 DEF InCart, Item
<1>6. UnitsAreAccountedFor'
  BY <1>1, <1>2, <1>3, <1>4, <1>5 DEF UnitsAreAccountedFor
<1> QED
  BY <1>2, <1>4, <1>6, UnitsAfter

LEMMA ChangeUnits ==
    ASSUME IsFiniteSet(Presses), ShapeInv, ShapeInv', Units, [Next]_vars,
           NEW p \in Presses, press[p].mail = "sent", press[p].to = "call",
           Op(p) = "change", NEW n \in Nat, SetQuantity(p, n), ~Refuse(p),
           \/ n = press[p].seen.quantity - 1
           \/ n = press[p].seen.quantity + 1 /\ press[p].kind = "inc"
    PROVE  Units'
<1> USE BotAssumption
<1> DEFINE seen == press[p].seen
<1>1. /\ item \in Item /\ item # Nobody /\ seen \in Item /\ seen # Nobody /\ item.row = seen.row
      /\ item' = [item EXCEPT !.quantity = n] /\ n \in 1 .. MaxQuantity
      /\ UNCHANGED <<nextRow, order>> /\ Apply(p) /\ nextRow \in Nat
  <2>1. seen \in Item /\ item \in Item \cup {Nobody} /\ nextRow \in Nat
    BY CallInHand DEF ShapeInv, TypeOK
  <2>2. SameRow(p) /\ QuantityAllowed(n)
    BY DEF SetQuantity
  <2> QED
    BY <2>1, <2>2 DEF SetQuantity, SameRow, QuantityAllowed
<1>2. /\ Cardinality(OrderedUnits) \in Nat /\ Cardinality(Adding) \in Nat
      /\ Cardinality(Adding') \in Nat /\ Cardinality(Adding) <= Cardinality(Adding')
      /\ seen.quantity + Cardinality(OrderedUnits) <= InitialQuantity + Cardinality(Adding)
  BY <1>1, FiniteUnits, AddingGrows DEF Units
<1>3. OrderedUnits' = OrderedUnits
  BY <1>1 DEF OrderedUnits
<1>4. press[p].kind = "inc" => Cardinality(Adding) + 1 <= Cardinality(Adding')
  <2>1. press[p].applied = 0
    BY CallInHand DEF Ready, Applying
  <2> QED
    BY <1>1, <2>1, OneMoreAdding
<1>5. item' # Nobody /\ item'.row = item.row /\ InCart' = n
  <2>1. item' \in Item /\ item'.row = item.row /\ item'.quantity = n
    BY <1>1 DEF Item
  <2> QED
    BY <2>1 DEF InCart
<1>6. seen.quantity \in Nat
  BY <1>1 DEF Item
<1>7. n + Cardinality(OrderedUnits) <= InitialQuantity + Cardinality(Adding')
  BY <1>2, <1>4, <1>6
<1>8. UnitsAreAccountedFor'
  BY <1>3, <1>5, <1>7 DEF UnitsAreAccountedFor
<1> QED
  BY <1>1, <1>3, <1>5, <1>8, UnitsAfter

LEMMA CheckoutUnits ==
    ASSUME IsFiniteSet(Presses), ShapeInv, ShapeInv', Units, [Next]_vars,
           NEW p \in Presses, DoCheckout(p), ~Refuse(p)
    PROVE  Units'
<1> USE BotAssumption
<1> DEFINE n == item.quantity
           bought == {p} \X (1 .. n)
<1>1. /\ item # Nobody /\ item' = Nobody /\ nextRow' = nextRow /\ nextRow \in Nat
      /\ order' = [order EXCEPT ![p] = [units |-> n, paid |-> FALSE]]
      /\ n \in 1 .. MaxQuantity /\ InCart = n /\ InCart' = 0
      /\ order \in [Presses -> Order \cup {Nobody}]
  BY DEF DoCheckout, ShapeInv, TypeOK, Item, InCart
<1>2. /\ Cardinality(OrderedUnits) \in Nat /\ Cardinality(Adding) \in Nat
      /\ Cardinality(OrderedUnits') \in Nat
      /\ Cardinality(Adding') \in Nat /\ Cardinality(Adding) <= Cardinality(Adding')
      /\ n + Cardinality(OrderedUnits) <= InitialQuantity + Cardinality(Adding)
      /\ IsFiniteSet(OrderedUnits)
  BY <1>1, FiniteUnits, AddingGrows DEF Units, UnitsAreAccountedFor
<1>3. IsFiniteSet(bought) /\ Cardinality(bought) = n
  <2>1. IsFiniteSet(1 .. n) /\ Cardinality(1 .. n) = n
    <3>1. n \in Int /\ 1 \in Int /\ ~(1 > n)
      BY <1>1
    <3> HIDE DEF n
    <3> QED
      BY <3>1, FS_Interval
  <2>2. IsFiniteSet({p}) /\ Cardinality({p}) = 1
    BY FS_Singleton
  <2>3. IsFiniteSet(bought) /\ Cardinality(bought) = Cardinality({p}) * Cardinality(1 .. n)
    BY <2>1, <2>2, FS_Product
  <2> QED
    BY <1>1, <2>1, <2>2, <2>3
<1>4. OrderedUnits' \subseteq OrderedUnits \cup bought
  <2> SUFFICES ASSUME NEW q \in Presses, NEW i \in 1 .. MaxQuantity,
                      order'[q] # Nobody, i <= order'[q].units
               PROVE  <<q, i>> \in OrderedUnits \cup bought
    BY DEF OrderedUnits
  <2>1. CASE q = p
    BY <1>1, <2>1
  <2>2. CASE q # p
    BY <1>1, <2>2 DEF OrderedUnits
  <2> QED
    BY <2>1, <2>2
<1>5. Cardinality(OrderedUnits') <= Cardinality(OrderedUnits) + n
  <2> HIDE DEF bought, n
  <2>1. /\ IsFiniteSet(OrderedUnits \cup bought)
        /\ Cardinality(OrderedUnits \cup bought)
              = Cardinality(OrderedUnits) + Cardinality(bought) - Cardinality(OrderedUnits \cap bought)
        /\ Cardinality(OrderedUnits \cap bought) \in Nat
    <3>1. IsFiniteSet(OrderedUnits \cap bought)
      BY <1>3, FS_Subset
    <3> QED
      BY <1>2, <1>3, <3>1, FS_Union, FS_CardinalityType
  <2>2. Cardinality(OrderedUnits') <= Cardinality(OrderedUnits \cup bought)
    BY <1>4, <2>1, FS_Subset
  <2>3. n \in Nat
    BY <1>1
  <2> QED
    BY <1>2, <1>3, <2>1, <2>2, <2>3
<1>6. UnitsAreAccountedFor'
  BY <1>1, <1>2, <1>5 DEF UnitsAreAccountedFor
<1> QED
  BY <1>1, <1>6, UnitsAfter

\* Every other step leaves the orders' units alone and puts nothing in the cart.
LEMMA SameUnits ==
    ASSUME IsFiniteSet(Presses), ShapeInv, ShapeInv', Units, [Next]_vars,
           item' \in {item, Nobody}, nextRow' = nextRow, OrderedUnits' = OrderedUnits
    PROVE  Units'
<1> USE BotAssumption
<1>1. /\ Cardinality(OrderedUnits) \in Nat /\ Cardinality(Adding) \in Nat
      /\ Cardinality(Adding') \in Nat /\ Cardinality(Adding) <= Cardinality(Adding')
      /\ InCart + Cardinality(OrderedUnits) <= InitialQuantity + Cardinality(Adding)
      /\ item \in Item \cup {Nobody} /\ nextRow \in Nat
  BY FiniteUnits, AddingGrows DEF Units, UnitsAreAccountedFor, ShapeInv, TypeOK
<1>2. InCart' <= InCart /\ InCart \in Nat /\ InCart' \in Nat
  BY <1>1 DEF InCart, Item
<1>3. UnitsAreAccountedFor'
  BY <1>1, <1>2 DEF UnitsAreAccountedFor
<1> QED
  BY <1>1, <1>3, UnitsAfter

LEMMA CallUnits ==
    ASSUME IsFiniteSet(Presses), ShapeInv, ShapeInv', Units, [Next]_vars,
           NEW p \in Presses, Checkout(p), press[p].mail = "sent", press[p].to = "call", DoCall(p)
    PROVE  Units'
<1> USE BotAssumption
<1>1. CASE UNCHANGED cartVars
  <2>1. OrderedUnits' = OrderedUnits
    BY <1>1 DEF cartVars, OrderedUnits
  <2> QED
    BY <1>1, <2>1, SameUnits DEF cartVars
<1>2. CASE Refuse(p)
  BY <1>1, <1>2 DEF Refuse
<1>3. CASE item' = Nobody /\ UNCHANGED <<nextRow, order>>
  <2>1. OrderedUnits' = OrderedUnits
    BY <1>3 DEF OrderedUnits
  <2> QED
    BY <1>3, <2>1, SameUnits
<1>4. CASE Op(p) = "add" /\ DoAdd(p) /\ ~Refuse(p)
  BY <1>4, AddUnits
<1>5. CASE DoRemove(p) /\ ~Refuse(p)
  BY <1>3, <1>5 DEF DoRemove
<1>6. CASE Op(p) = "change" /\ DoChange(p) /\ ~Refuse(p)
  <2> DEFINE n == press[p].seen.quantity
  <2>1. n \in 1 .. MaxQuantity
    BY <1>6, CallInHand DEF Item
  <2>2. \/ press[p].kind = "inc" /\ SetQuantity(p, n + 1)
        \/ DoRemove(p)
        \/ SetQuantity(p, n - 1)
    BY <1>6 DEF DoChange
  <2>3. n + 1 \in Nat /\ n - 1 \in Nat
    BY <2>1
  <2> QED
    BY <1>5, <1>6, <2>2, <2>3, ChangeUnits
<1>7. CASE DoCheckout(p) /\ ~Refuse(p)
  BY <1>7, CheckoutUnits
<1>8. CASE Op(p) = "pay" /\ DoPay(p) /\ ~Refuse(p)
  <2>1. UNCHANGED <<item, nextRow>> /\ order' = [order EXCEPT ![p].paid = TRUE]
    BY <1>8 DEF DoPay
  <2>2. order \in [Presses -> Order \cup {Nobody}] /\ order[p] \in Order
    BY <1>8, CallInHand DEF ShapeInv, TypeOK, Checkout, Pending
  <2>3. order'[p] \in Order /\ order'[p].units = order[p].units
    BY <2>1, <2>2 DEF Order
  <2>4. \A q \in Presses : q # p => order'[q] = order[q]
    BY <2>1, <2>2
  <2>5. order[p] # Nobody /\ order'[p] # Nobody
    BY <2>2, <2>3
  <2>6. OrderedUnits' = OrderedUnits
    BY <2>3, <2>4, <2>5 DEF OrderedUnits
  <2> QED
    BY <2>1, <2>6, SameUnits
<1> QED
  BY <1>1, <1>2, <1>3, <1>4, <1>5, <1>6, <1>7, <1>8 DEF DoCall

LEMMA UnitsInductive ==
    ASSUME IsFiniteSet(Presses)
    PROVE  /\ Init => Units
           /\ BotInv /\ BotInv' /\ Units /\ [Next]_vars => Units'
<1> USE BotAssumption
<1>1. ASSUME Init PROVE Units
  <2>1. OrderedUnits = {} /\ Adding = {}
    BY <1>1 DEF Init, OrderedUnits, Adding, Unsent
  <2>2. InCart = InitialQuantity
    BY <1>1 DEF Init, InCart, Item
  <2>3. Cardinality(OrderedUnits) = 0 /\ Cardinality(Adding) = 0
    BY <2>1, FS_EmptySet
  <2>4. UnitsAreAccountedFor
    BY <2>2, <2>3 DEF UnitsAreAccountedFor
  <2> QED
    BY <1>1, <2>4 DEF Init, Units, Unsent
<1>2. ASSUME BotInv, BotInv', Units, [Next]_vars PROVE Units'
  <2>1. ShapeInv /\ ShapeInv'
    BY <1>2 DEF BotInv
  <2>2. CASE UNCHANGED cartVars
    <3>1. OrderedUnits' = OrderedUnits
      BY <2>2 DEF cartVars, OrderedUnits
    <3> QED
      BY <1>2, <2>1, <2>2, <3>1, SameUnits DEF cartVars
  <2>3. ASSUME NEW p \in Presses, Handle(p) PROVE Units'
    <3>1. CASE press[p].to = "call" /\ DoCall(p)
      BY <1>2, <2>1, <2>3, <3>1, CallUnits DEF Handle, BotInv, CheckoutInv
    <3>2. CASE ~(press[p].to = "call" /\ DoCall(p))
      BY <2>2, <2>3, <3>2 DEF Handle, DoSignIn, DoRefresh
    <3> QED
      BY <3>1, <3>2
  <2>4. (\E p \in Presses : Handle(p)) \/ UNCHANGED cartVars
    BY <1>2 DEF Next, Press, Receive, Timeout, Expire, Restart, Deactivate, vars, backendVars, cartVars
  <2> QED
    BY <2>2, <2>3, <2>4
<1> QED
  BY <1>1, <1>2

\* A stale button never brings back what was bought or removed.
THEOREM UnitsStayAccountedFor ==
    ASSUME IsFiniteSet(Presses)
    PROVE  Spec => []UnitsAreAccountedFor
<1>1. Units => UnitsAreAccountedFor
  BY DEF Units
<1> QED
  BY <1>1, BotInvInit, BotInvInductive, UnitsInductive, PTL DEF Spec

=============================================================================
