---------------------- MODULE ConfirmationEmail_proofs ----------------------
(***************************************************************************)
(* The emails run beside the Order aggregate without changing it, so its   *)
(* theorems hold of MailSpec; and every paid order has exactly one email   *)
(* under way or ended, whatever the number of orders, retries and crashes. *)
(***************************************************************************)
EXTENDS ConfirmationEmail, OrderReservation_proofs, FiniteSetTheorems

\* No step of the email changes an order, a payment or a key.
LEMMA MailStepIsInvisible == [MailNext]_allVars => [Next]_vars
BY DEF MailNext, allVars, Transaction, MailStep, Dispatch, DispatchFails, Load, Build,
       Advance, Finish, Send, SendFails, WorkerStops

\* The transactions of the aggregate are what OrderReservation describes while
\* emails are dispatched and sent: every theorem about Spec holds of MailSpec.
THEOREM MailKeepsReservation == MailSpec => Spec
<1>1. MailInit => Init
  BY DEF MailInit
<1> QED
  BY <1>1, MailStepIsInvisible, PTL DEF MailSpec, Spec

-----------------------------------------------------------------------------
(* The inductive invariant, order by order.                                *)

Pending(o) == \E t \in tasks : t.order = o

\* The three places an order's email can be in exclude each other, each means
\* that the order is paid, and a task has sent a message per attempt at most.
EmailInv(o) ==
    /\ o \in callbacks => ~Pending(o) /\ outcome[o] = "NONE" /\ mails[o] = 0
    /\ Pending(o) => outcome[o] = "NONE"
    /\ \A t, u \in tasks : t.order = o /\ u.order = o => t = u
    /\ \A t \in tasks : t.order = o => mails[o] <= t.retries
    /\ mails[o] <= MaxRetries + 1
    /\ (o \in callbacks \/ Pending(o) \/ outcome[o] # "NONE") <=> orderStatus[o] = "PAID"
    /\ orderStatus[o] # "PAID" => mails[o] = 0

MailInv == /\ TypeOK /\ MailTypeOK
           /\ \A o \in Orders : EmailInv(o)

\* Nothing is under way before the first order is paid.
LEMMA MailInvInit == MailInit => MailInv
<1> SUFFICES ASSUME MailInit PROVE MailInv
  OBVIOUS
<1>1. TypeOK
  BY DEF MailInit, Init, TypeOK, PaymentStatuses, KeyStatuses
<1>2. MailTypeOK
  BY DEF MailInit, MailTypeOK, Outcomes
<1> QED
  BY <1>1, <1>2, MaxRetriesAssumption DEF MailInit, Init, MailInv, EmailInv, Pending

\* A transaction leaves a paid order paid.
LEMMA PaidStays ==
    ASSUME TypeOK, [Next]_vars, NEW o \in Orders, orderStatus[o] = "PAID"
    PROVE  orderStatus'[o] = "PAID"
<1>1. ASSUME NEW q \in Orders, NEW p \in Payments, CompletePayment(q, p)
      PROVE  orderStatus'[o] = "PAID"
  BY <1>1 DEF CompletePayment, TypeOK
<1>2. CASE UNCHANGED orderStatus
  BY <1>2
<1>3. CASE Next /\ ~ \E q \in Orders, p \in Payments : CompletePayment(q, p)
  BY <1>2, <1>3 DEF Next, ShippedNext, StockStep, OrderStep, ImportKey, DeleteKey,
       NewAttempt, ResumeAttempt, EstablishReservation, TerminatePayment,
       RejectLegacyAttempt, RecordPending, orderVars
<1> QED
  BY <1>1, <1>2, <1>3 DEF vars

\* A transaction that pays an order owes it a callback, and only that one.
LEMMA TransactionInv == ASSUME MailInv, Transaction PROVE MailInv'
<1>1. TypeOK'
  BY TypeInductive DEF MailInv, Transaction
<1>2. MailTypeOK'
  BY DEF MailInv, MailTypeOK, Transaction
<1>3. ASSUME NEW o \in Orders PROVE EmailInv(o)'
  <2>1. orderStatus'[o] = "PAID" <=> orderStatus[o] = "PAID" \/ RegistersCallback(o)
    BY PaidStays DEF MailInv, Transaction, RegistersCallback
  <2>2. o \in callbacks' <=> o \in callbacks \/ RegistersCallback(o)
    BY DEF Transaction
  <2>3. Pending(o)' <=> Pending(o)
    BY DEF Pending, Transaction
  <2>4. RegistersCallback(o) => orderStatus[o] # "PAID"
    BY DEF RegistersCallback
  <2> QED
    BY <2>1, <2>2, <2>3, <2>4 DEF MailInv, EmailInv, Transaction
<1> QED
  BY <1>1, <1>2, <1>3 DEF MailInv

\* What is known of the other orders survives a step that concerns one order.
LEMMA OtherEmails ==
    ASSUME NEW o \in Orders, NEW q \in Orders, q # o, EmailInv(q),
           orderStatus' = orderStatus,
           q \in callbacks' <=> q \in callbacks,
           \A t : t.order = q => (t \in tasks' <=> t \in tasks),
           outcome'[q] = outcome[q], mails'[q] = mails[q]
    PROVE  EmailInv(q)'
<1>1. Pending(q)' <=> Pending(q)
  BY DEF Pending
<1> QED
  BY <1>1 DEF EmailInv

\* The callback runs or is lost: the order's email moves on to one other place.
LEMMA CallbackInv ==
    ASSUME MailInv, NEW o \in Orders, Dispatch(o) \/ DispatchFails(o)
    PROVE  MailInv'
<1> DEFINE new == [order |-> o, retries |-> 0, at |-> "QUEUED", keys |-> {}]
<1>1. UNCHANGED vars /\ mails' = mails /\ callbacks' = callbacks \ {o} /\ o \in callbacks
  BY DEF Dispatch, DispatchFails
<1>2. new \in Task
  BY MaxRetriesAssumption DEF Task
<1>3. TypeOK' /\ MailTypeOK'
  BY <1>1, <1>2, TypeInductive DEF MailInv, MailTypeOK, Dispatch, DispatchFails, End, Outcomes
<1>4. ASSUME NEW q \in Orders, q # o PROVE EmailInv(q)'
  <2>1. \A t : t.order = q => (t \in tasks' <=> t \in tasks)
    BY <1>4 DEF Dispatch, DispatchFails
  <2>2. outcome'[q] = outcome[q]
    BY <1>4 DEF Dispatch, DispatchFails, End, MailInv, MailTypeOK
  <2> QED
    BY <1>1, <1>4, <2>1, <2>2, OtherEmails DEF MailInv, vars
<1>5. EmailInv(o)'
  <2>1. /\ ~Pending(o) /\ outcome[o] = "NONE" /\ mails[o] = 0 /\ orderStatus'[o] = "PAID"
    BY <1>1 DEF MailInv, EmailInv, vars
  <2>2. CASE Dispatch(o)
    <3>1. \A t \in tasks' : t.order = o <=> t = new
      BY <2>1, <2>2 DEF Dispatch, Pending
    <3>2. new \in tasks' /\ outcome' = outcome
      BY <2>2 DEF Dispatch
    <3> QED
      BY <1>1, <2>1, <3>1, <3>2, MaxRetriesAssumption DEF EmailInv, Pending
  <2>3. CASE DispatchFails(o)
    <3>1. tasks' = tasks /\ outcome'[o] # "NONE"
      BY <2>3 DEF DispatchFails, End, MailInv, MailTypeOK
    <3> QED
      BY <1>1, <2>1, <3>1, MaxRetriesAssumption DEF EmailInv, Pending
  <2> QED
    BY <2>2, <2>3
<1> QED
  BY <1>3, <1>4, <1>5 DEF MailInv

\* A worker's step either replaces the task by one of the same order or ends it
\* with an outcome; a message costs an attempt.
LEMMA WorkerInv ==
    ASSUME MailInv, NEW t \in tasks,
           Load(t) \/ Build(t) \/ Send(t) \/ SendFails(t) \/ WorkerStops(t)
    PROVE  MailInv'
<1> DEFINE o == t.order
           Replaced(u) == /\ tasks' = (tasks \ {t}) \cup {u}
                          /\ u.order = o /\ u \in Task
                          /\ outcome' = outcome
                          /\ \/ u.retries = t.retries /\ mails'[o] = mails[o]
                             \/ u.retries = t.retries + 1 /\ mails'[o] \in {mails[o], mails[o] + 1}
           Ended == /\ tasks' = tasks \ {t}
                    /\ \E r \in Outcomes \ {"NONE"} : End(o, r)
                    /\ mails'[o] \in {mails[o], mails[o] + 1}
<1>1. t \in Task /\ o \in Orders /\ t.retries \in 0..MaxRetries
  BY DEF MailInv, MailTypeOK, Task
<1>2. UNCHANGED <<vars, callbacks>>
  BY DEF Load, Build, Send, SendFails, WorkerStops, Advance, Finish
<1>3. ASSUME NEW stage \in {"LOADED", "BUILT"}, NEW keys \in SUBSET Keys,
             Advance(t, stage, keys)
      PROVE  \E u : Replaced(u)
  <2>1. [t EXCEPT !.at = stage, !.keys = keys] \in Task
    BY <1>1 DEF Task
  <2>2. Replaced([t EXCEPT !.at = stage, !.keys = keys])
    BY <1>1, <1>3, <2>1 DEF Advance, Task
  <2> QED
    BY <2>2
<1>4. ASSUME NEW r \in Outcomes \ {"NONE"}, Finish(t, r) PROVE Ended
  BY <1>4 DEF Finish
<1>5. (\E u : Replaced(u)) \/ Ended
  <2>1. CASE Load(t)
    <3>1. {k \in Keys : k = licenseKey[o] /\ keyStatus[k] = "SOLD"} \in SUBSET Keys
      OBVIOUS
    <3> QED
      BY <1>3, <1>4, <2>1, <3>1 DEF Load, Outcomes
  <2>2. CASE Build(t)
    <3>1. AssignedKeys(o, t.keys) \in SUBSET Keys
      BY <1>1 DEF AssignedKeys, Held, Task
    <3> QED
      BY <1>3, <1>4, <2>2, <3>1 DEF Build, Outcomes
  <2>3. CASE Send(t)
    BY <1>1, <2>3 DEF Send, Accepts, Outcomes, MailInv, MailTypeOK
  <2>4. CASE SendFails(t)
    <3>1. mails'[o] \in {mails[o], mails[o] + 1}
      BY <1>1, <2>4 DEF SendFails, Accepts, MailInv, MailTypeOK
    <3>2. CASE tasks' = tasks \ {t} /\ End(o, "FAILED")
      BY <3>1, <3>2 DEF Outcomes
    <3>3. CASE ~(tasks' = tasks \ {t} /\ End(o, "FAILED"))
      <4> DEFINE u == [t EXCEPT !.retries = @ + 1, !.at = "QUEUED", !.keys = {}]
      <4>1. MayRetry(t) /\ tasks' = (tasks \ {t}) \cup {u} /\ outcome' = outcome
        BY <2>4, <3>3 DEF SendFails
      <4>2. t.retries + 1 \in 0..MaxRetries
        BY <1>1, <4>1, MaxRetriesAssumption DEF MayRetry
      <4>3. u \in Task /\ u.order = o /\ u.retries = t.retries + 1
        BY <1>1, <4>2 DEF Task
      <4> QED
        BY <3>1, <4>1, <4>3
    <3> QED
      BY <3>2, <3>3
  <2>5. CASE WorkerStops(t)
    BY <1>4, <2>5 DEF WorkerStops, Outcomes
  <2> QED
    BY <2>1, <2>2, <2>3, <2>4, <2>5
<1>6. TypeOK' /\ MailTypeOK'
  <2>1. mails' \in [Orders -> Nat] /\ mailed' \in [Orders -> SUBSET Keys]
    <3>1. Accepts(t) \/ UNCHANGED <<mails, mailed>>
      BY DEF Load, Build, Send, SendFails, WorkerStops, Advance, Finish
    <3> QED
      BY <1>1, <3>1 DEF MailInv, MailTypeOK, Task, Accepts
  <2>2. tasks' \subseteq Task /\ outcome' \in [Orders -> Outcomes]
    BY <1>5 DEF MailInv, MailTypeOK, End
  <2> QED
    BY <1>2, <2>1, <2>2, TypeInductive DEF MailInv, MailTypeOK
<1>7. ASSUME NEW q \in Orders, q # o PROVE EmailInv(q)'
  <2>1. mails'[q] = mails[q]
    BY <1>7 DEF MailInv, MailTypeOK, Load, Build, Send, SendFails, WorkerStops,
         Advance, Finish, Accepts
  <2>2. outcome'[q] = outcome[q]
    BY <1>5, <1>7 DEF End, MailInv, MailTypeOK
  <2>3. \A x : x.order = q => (x \in tasks' <=> x \in tasks)
    <3>1. ASSUME NEW u, Replaced(u), NEW x, x.order = q
          PROVE  x \in tasks' <=> x \in tasks
      <4>1. x # t /\ x # u
        BY <1>7, <3>1
      <4> QED
        BY <3>1, <4>1
    <3>2. ASSUME Ended, NEW x, x.order = q PROVE x \in tasks' <=> x \in tasks
      BY <1>7, <3>2
    <3> QED
      BY <1>5, <3>1, <3>2
  <2> QED
    <3>1. EmailInv(q) /\ orderStatus' = orderStatus /\ callbacks' = callbacks
      BY <1>2, <1>7 DEF MailInv, vars
    <3> HIDE DEF o
    <3> QED
      BY <1>1, <1>7, <2>1, <2>2, <2>3, <3>1, OtherEmails
<1>8. EmailInv(o)'
  <2>1. /\ o \notin callbacks' /\ outcome[o] = "NONE" /\ mails[o] <= t.retries
        /\ \A x \in tasks : x.order = o => x = t
        /\ orderStatus'[o] = "PAID"
    BY <1>1, <1>2 DEF MailInv, EmailInv, Pending, vars
  <2>2. mails[o] \in Nat
    BY <1>1 DEF MailInv, MailTypeOK
  <2>3. ASSUME NEW u, Replaced(u) PROVE EmailInv(o)'
    <3>1. u \in tasks' /\ \A x \in tasks' : x.order = o <=> x = u
      BY <2>1, <2>3
    <3>2. mails'[o] <= u.retries /\ u.retries \in 0..MaxRetries
      BY <1>1, <2>1, <2>2, <2>3, MaxRetriesAssumption DEF Task
    <3>3. mails'[o] <= MaxRetries + 1
      BY <1>1, <2>2, <2>3, <3>2, MaxRetriesAssumption
    <3> QED
      BY <2>1, <2>3, <3>1, <3>2, <3>3 DEF EmailInv, Pending
  <2>4. CASE Ended
    <3>1. \A x \in tasks' : x.order # o
      BY <2>1, <2>4
    <3>2. outcome'[o] # "NONE" /\ mails'[o] <= MaxRetries + 1
      BY <1>1, <2>1, <2>2, <2>4, MaxRetriesAssumption DEF End, MailInv, MailTypeOK
    <3> QED
      BY <2>1, <3>1, <3>2 DEF EmailInv, Pending
  <2> QED
    BY <1>5, <2>3, <2>4
<1> QED
  BY <1>6, <1>7, <1>8 DEF MailInv

LEMMA MailInvInductive == MailInv /\ [MailNext]_allVars => MailInv'
<1> SUFFICES ASSUME MailInv, [MailNext]_allVars PROVE MailInv'
  OBVIOUS
<1>1. CASE UNCHANGED allVars
  <2>1. MailTypeOK' /\ \A o \in Orders : EmailInv(o)'
    BY <1>1 DEF allVars, mailVars, vars, MailInv, MailTypeOK, EmailInv, Pending
  <2> QED
    BY <1>1, <2>1, TypeInductive DEF allVars, MailInv
<1> QED
  BY <1>1, TransactionInv, CallbackInv, WorkerInv DEF MailNext, MailStep

-----------------------------------------------------------------------------
\* What the task and its worker remember keeps its type.
THEOREM MailTyped == MailSpec => []MailTypeOK
<1>1. MailInv => MailTypeOK
  BY DEF MailInv
<1> QED
  BY <1>1, MailInvInit, MailInvInductive, PTL DEF MailSpec

\* Every paid order has exactly one email under way or ended, an unpaid order
\* none: for any number of orders, attempts, retries and failures.
THEOREM OneEmail == MailSpec => []OneEmailPerPaidOrder
<1>1. MailInv => OneEmailPerPaidOrder
  <2> SUFFICES ASSUME MailInv, NEW o \in Orders
               PROVE  Cardinality({t \in tasks : t.order = o})
                        + Cardinality({c \in callbacks : c = o})
                        + (IF outcome[o] = "NONE" THEN 0 ELSE 1)
                      = IF orderStatus[o] = "PAID" THEN 1 ELSE 0
    BY DEF OneEmailPerPaidOrder
  <2> DEFINE T == {t \in tasks : t.order = o}
             C == {c \in callbacks : c = o}
  <2>1. Cardinality(T) = IF Pending(o) THEN 1 ELSE 0
    <3>1. CASE Pending(o)
      <4>1. PICK t \in tasks : T = {t}
        BY <3>1 DEF Pending, MailInv, EmailInv
      <4> QED
        BY <3>1, <4>1, FS_Singleton
    <3>2. CASE ~Pending(o)
      <4>1. T = {}
        BY <3>2 DEF Pending
      <4> QED
        BY <3>2, <4>1, FS_EmptySet
    <3> QED
      BY <3>1, <3>2
  <2>2. Cardinality(C) = IF o \in callbacks THEN 1 ELSE 0
    <3>1. CASE o \in callbacks
      <4>1. C = {o}
        BY <3>1
      <4> QED
        BY <3>1, <4>1, FS_Singleton
    <3>2. CASE o \notin callbacks
      <4>1. C = {}
        BY <3>2
      <4> QED
        BY <3>2, <4>1, FS_EmptySet
    <3> QED
      BY <3>1, <3>2
  <2> QED
    BY <2>1, <2>2 DEF MailInv, EmailInv
<1> QED
  BY <1>1, MailInvInit, MailInvInductive, PTL DEF MailSpec

\* A customer gets at most one message per attempt of the one task.
THEOREM BoundedMessages == MailSpec => []MessagesAreBounded
<1>1. MailInv => MessagesAreBounded
  BY DEF MailInv, EmailInv, MessagesAreBounded
<1> QED
  BY <1>1, MailInvInit, MailInvInductive, PTL DEF MailSpec

-----------------------------------------------------------------------------
(* Counting.  A fold is followed along a smallest counterexample, a set      *)
(* whose proper subsets are none.                                            *)

\* A non-empty set of subsets of a finite set has a minimal member.
LEMMA MinimalSubset ==
  ASSUME NEW S, IsFiniteSet(S), NEW B \in SUBSET (SUBSET S), B # {}
  PROVE  \E T \in B : \A U \in B : U \subseteq T => U = T
<1>1. FiniteSubsetsOf(S) = SUBSET S
  BY FS_FiniteSubsetsOfFinite
<1>2. IsWellFoundedOn(StrictSubsetOrdering(S), SUBSET S)
  BY <1>1, FS_StrictSubsetOrderingWellFounded, Zenon
<1>3. PICK T \in B : \A U \in B : ~(<<U, T>> \in StrictSubsetOrdering(S))
  BY <1>2, WFMin, Zenon
<1>4. ASSUME NEW U \in B, U \subseteq T PROVE U = T
  <2>1. <<U, T>> \in (SUBSET S) \X (SUBSET S)
    OBVIOUS
  <2>2. ~(<<U, T>>[1] \subseteq <<U, T>>[2] /\ <<U, T>>[1] # <<U, T>>[2])
    BY <1>3, <2>1 DEF StrictSubsetOrdering
  <2> QED
    BY <1>4, <2>2
<1> QED
  BY <1>4

\* What the fold over a set of indices is defined by.
SumsTo(f, S, iter) ==
    iter = [s \in SUBSET S |-> IF s = {} THEN 0
                               ELSE f[CHOOSE x \in s : TRUE] + iter[s \ {CHOOSE x \in s : TRUE}]]

LEMMA SumIsChosen ==
  ASSUME NEW f, NEW S
  PROVE  SumFunctionOnSet(f, S) = (CHOOSE iter : SumsTo(f, S, iter))[S]
BY DEF SumFunctionOnSet, FoldFunctionOnSet, MapThenFoldSet, SumsTo

\* Two folds over subsets of a finite set agree where both are defined.
LEMMA FoldsAgree ==
  ASSUME NEW f, NEW S, IsFiniteSet(S), NEW U \in SUBSET S, NEW V \in SUBSET S, NEW i, NEW j,
         SumsTo(f, U, i), SumsTo(f, V, j)
  PROVE  \A s \in SUBSET (U \cap V) : i[s] = j[s]
<1> DEFINE B == {s \in SUBSET (U \cap V) : i[s] # j[s]}
<1>1. SUFFICES ASSUME B # {} PROVE FALSE
  OBVIOUS
<1>2. PICK s \in B : \A t \in B : t \subseteq s => t = s
  <2>1. B \in SUBSET (SUBSET S)
    OBVIOUS
  <2> HIDE DEF B
  <2> QED
    BY <1>1, <2>1, MinimalSubset
<1> DEFINE x == CHOOSE x \in s : TRUE
<1>3. /\ i[s] = IF s = {} THEN 0 ELSE f[x] + i[s \ {x}]
      /\ j[s] = IF s = {} THEN 0 ELSE f[x] + j[s \ {x}]
  BY <1>2 DEF SumsTo
<1>4. s # {}
  BY <1>2, <1>3
<1>5. i[s \ {x}] = j[s \ {x}]
  BY <1>2, <1>4
<1> QED
  BY <1>2, <1>3, <1>4, <1>5

LEMMA FoldExists ==
  ASSUME NEW f, NEW S, IsFiniteSet(S)
  PROVE  \E iter : SumsTo(f, S, iter)
<1> DEFINE B == {T \in SUBSET S : ~(\E iter : SumsTo(f, T, iter))}
<1>1. SUFFICES ASSUME B # {} PROVE FALSE
  OBVIOUS
<1>2. PICK T \in B : \A U \in B : U \subseteq T => U = T
  <2>1. B \in SUBSET (SUBSET S)
    OBVIOUS
  <2> HIDE DEF B
  <2> QED
    BY <1>1, <2>1, MinimalSubset
<1> DEFINE G(U) == CHOOSE iter : SumsTo(f, U, iter)
           x(s) == CHOOSE x \in s : TRUE
           new == [s \in SUBSET T |-> IF s = {} THEN 0
                     ELSE f[x(s)] + G(s \ {x(s)})[s \ {x(s)}]]
<1>3. \A s \in SUBSET T : s # {} => x(s) \in s
  OBVIOUS
<1>4. ASSUME NEW U \in SUBSET T, U # T PROVE SumsTo(f, U, G(U))
  <2>1. \E iter : SumsTo(f, U, iter)
    BY <1>2, <1>4
  <2> QED
    BY <2>1
<1>5. ASSUME NEW s \in SUBSET T, s # {}
      PROVE  G(s \ {x(s)})[s \ {x(s)}] = new[s \ {x(s)}]
  <2> DEFINE U == s \ {x(s)}
  <2>1. U \in SUBSET T /\ U # T /\ x(s) \in s
    BY <1>3, <1>5
  <2>2. SumsTo(f, U, G(U))
    BY <1>4, <2>1
  <2>3. CASE U = {}
    BY <2>1, <2>2, <2>3 DEF SumsTo
  <2>4. CASE U # {}
    <3> DEFINE W == U \ {x(U)}
    <3>1. W \in SUBSET U /\ W \in SUBSET T /\ W # T
      BY <2>1
    <3>2. G(U)[U] = f[x(U)] + G(U)[W]
      BY <2>2, <2>4 DEF SumsTo
    <3>3. SumsTo(f, W, G(W))
      BY <1>4, <3>1
    <3>4. G(U)[W] = G(W)[W]
      <4>1. \A r \in SUBSET (U \cap W) : G(U)[r] = G(W)[r]
        <5> HIDE DEF G, U, W
        <5> QED
          BY <1>2, <2>1, <2>2, <3>1, <3>3, FoldsAgree
      <4> QED
        BY <3>1, <4>1
    <3>5. new[U] = f[x(U)] + G(W)[W]
      BY <2>1, <2>4
    <3> QED
      BY <3>2, <3>4, <3>5
  <2> QED
    BY <2>3, <2>4
<1>6. SumsTo(f, T, new)
  <2>1. \A s \in SUBSET T : new[s] = IF s = {} THEN 0 ELSE f[x(s)] + new[s \ {x(s)}]
    <3> SUFFICES ASSUME NEW s \in SUBSET T
                 PROVE  new[s] = IF s = {} THEN 0 ELSE f[x(s)] + new[s \ {x(s)}]
      OBVIOUS
    <3>1. new[s] = IF s = {} THEN 0 ELSE f[x(s)] + G(s \ {x(s)})[s \ {x(s)}]
      OBVIOUS
    <3>2. s # {} => G(s \ {x(s)})[s \ {x(s)}] = new[s \ {x(s)}]
      BY <1>5
    <3> HIDE DEF new, G, x
    <3> QED
      BY <3>1, <3>2
  <2>2. new = [s \in SUBSET T |-> IF s = {} THEN 0 ELSE f[x(s)] + new[s \ {x(s)}]]
    <3>1. new = [s \in SUBSET T |-> new[s]]
      OBVIOUS
    <3> HIDE DEF new
    <3> QED
      BY <2>1, <3>1
  <2> HIDE DEF new
  <2> QED
    BY <2>2 DEF SumsTo
<1> QED
  BY <1>2, <1>6

\* One step of a sum over a finite set of indices.
LEMMA SumStep ==
  ASSUME NEW f, NEW S, IsFiniteSet(S)
  PROVE  /\ S = {} => SumFunctionOnSet(f, S) = 0
         /\ S # {} => \E x \in S :
                SumFunctionOnSet(f, S) = f[x] + SumFunctionOnSet(f, S \ {x})
<1> DEFINE F(T) == CHOOSE iter : SumsTo(f, T, iter)
           x == CHOOSE x \in S : TRUE
           R == S \ {x}
<1>1. SumsTo(f, S, F(S))
  BY FoldExists
<1>2. SumsTo(f, R, F(R))
  <2>1. IsFiniteSet(R)
    BY FS_RemoveElement
  <2> HIDE DEF R
  <2> QED
    BY <2>1, FoldExists
<1>3. SumFunctionOnSet(f, S) = F(S)[S] /\ SumFunctionOnSet(f, R) = F(R)[R]
  BY SumIsChosen
<1>4. F(S)[R] = F(R)[R]
  <2>1. \A s \in SUBSET (S \cap R) : F(S)[s] = F(R)[s]
    <3>1. R \in SUBSET S /\ S \in SUBSET S
      OBVIOUS
    <3> DEFINE a == F(S)
               b == F(R)
    <3>2. SumsTo(f, S, a) /\ SumsTo(f, R, b)
      BY <1>1, <1>2
    <3> HIDE DEF F, R, a, b
    <3>3. \A s \in SUBSET (S \cap R) : a[s] = b[s]
      BY <3>1, <3>2, FoldsAgree
    <3> QED
      BY <3>3 DEF a, b
  <2> QED
    BY <2>1
<1>5. F(S)[S] = IF S = {} THEN 0 ELSE f[x] + F(S)[R]
  <2> HIDE DEF F
  <2> QED
    BY <1>1 DEF SumsTo
<1>6. S # {} => x \in S
  OBVIOUS
<1> HIDE DEF F, R, x
<1>7. S # {} => SumFunctionOnSet(f, S) = f[x] + SumFunctionOnSet(f, R)
  BY <1>3, <1>4, <1>5
<1> QED
  BY <1>3, <1>5, <1>6, <1>7 DEF R

\* If each product of a finite set has the counted number of keys, the keys of
\* all these products are as many as the sum says.
LEMMA SumOfCounts ==
  ASSUME NEW K, IsFiniteSet(K), NEW prod, NEW P, IsFiniteSet(P), NEW q,
         \A r \in P : Cardinality({k \in K : prod[k] = r}) = q[r]
  PROVE  Cardinality({k \in K : prod[k] \in P}) = SumFunctionOnSet(q, P)
<1> DEFINE Of(T) == {k \in K : prod[k] \in T}
           B == {T \in SUBSET P : Cardinality(Of(T)) # SumFunctionOnSet(q, T)}
<1>1. SUFFICES ASSUME B # {} PROVE FALSE
  OBVIOUS
<1>2. PICK T \in B : \A U \in B : U \subseteq T => U = T
  <2>1. B \in SUBSET (SUBSET P)
    OBVIOUS
  <2> HIDE DEF B
  <2> QED
    BY <1>1, <2>1, MinimalSubset
<1>3. T \subseteq P /\ IsFiniteSet(T) /\ Cardinality(Of(T)) # SumFunctionOnSet(q, T)
  BY <1>2, FS_Subset
<1>4. CASE T = {}
  <2>1. Of(T) = {}
    BY <1>4
  <2> QED
    BY <1>3, <1>4, <2>1, SumStep, FS_EmptySet
<1>5. CASE T # {}
  <2>1. PICK r \in T : SumFunctionOnSet(q, T) = q[r] + SumFunctionOnSet(q, T \ {r})
    BY <1>3, <1>5, SumStep
  <2> DEFINE A == Of(T \ {r})
             C == {k \in K : prod[k] = r}
  <2>2. Cardinality(A) = SumFunctionOnSet(q, T \ {r})
    <3>1. T \ {r} \in SUBSET P /\ T \ {r} \subseteq T /\ T \ {r} # T
      BY <1>3
    <3> QED
      BY <1>2, <3>1
  <2>3. Cardinality(C) = q[r]
    BY <1>3
  <2>4. IsFiniteSet(A) /\ IsFiniteSet(C)
    BY FS_Subset
  <2>5. A \cap C = {} /\ Of(T) = A \cup C
    OBVIOUS
  <2>6. Cardinality(Of(T)) = Cardinality(A) + Cardinality(C)
    <3>1. Cardinality(A \cap C) = 0
      BY <2>5, FS_EmptySet
    <3>2. /\ Cardinality(A) \in Nat /\ Cardinality(C) \in Nat
          /\ Cardinality(A \cup C) = Cardinality(A) + Cardinality(C) - Cardinality(A \cap C)
      <4> HIDE DEF A, C
      <4> QED
        BY <2>4, FS_Union, FS_CardinalityType
    <3> HIDE DEF A, C, Of
    <3> QED
      BY <2>5, <3>1, <3>2
  <2>7. Cardinality(A) \in Nat /\ Cardinality(C) \in Nat
    BY <2>4, FS_CardinalityType
  <2> HIDE DEF A, C, Of
  <2> QED
    BY <1>3, <2>1, <2>2, <2>3, <2>6, <2>7
<1> QED
  BY <1>4, <1>5

\* The units of an order are the keys that cover it, as many as its items say.
LEMMA CoveredUnits ==
    ASSUME IsFiniteSet(Keys), IsFiniteSet(Products),
           NEW o \in Orders, NEW S \in SUBSET Keys, Covers(S, o)
    PROVE  Cardinality(S) = SumFunction(Quantity[o])
<1>1. IsFiniteSet(S)
  BY FS_Subset
<1>2. \A r \in Products : Cardinality({k \in S : KeyProduct[k] = r}) = Quantity[o][r]
  BY DEF Covers
<1>3. Cardinality({k \in S : KeyProduct[k] \in Products}) = SumFunctionOnSet(Quantity[o], Products)
  BY <1>1, <1>2, SumOfCounts
<1>4. {k \in S : KeyProduct[k] \in Products} = S
  BY KeyProductAssumption
<1>5. DOMAIN Quantity[o] = Products
  BY QuantityAssumption
<1> QED
  BY <1>3, <1>4, <1>5 DEF SumFunction

\* A legacy order is covered by any one of the keys that cover it.
LEMMA OneUnit ==
    ASSUME IsFiniteSet(Keys), NEW o \in LegacyOrders, NEW S \in SUBSET Keys, Covers(S, o),
           NEW k \in S
    PROVE  S = {k}
<1> DEFINE Of(r) == {j \in S : KeyProduct[j] = r}
<1>1. o \in Orders /\ \A r \in Products : Quantity[o][r] \in Nat
  BY QuantityAssumption, OrderKindsAssumption
<1>2. \A r \in Products : IsFiniteSet(Of(r)) /\ Cardinality(Of(r)) = Quantity[o][r]
  BY FS_Subset DEF Covers
<1>3. ASSUME NEW j \in S PROVE Quantity[o][KeyProduct[j]] = 1 /\ KeyProduct[j] \in Products
  <2>1. KeyProduct[j] \in Products /\ j \in Of(KeyProduct[j])
    BY KeyProductAssumption
  <2>2. Cardinality(Of(KeyProduct[j])) # 0
    BY <1>2, <2>1, FS_EmptySet
  <2> QED
    BY <1>1, <1>2, <2>1, <2>2, LegacyUnitsAssumption
<1>4. ASSUME NEW j \in S PROVE j = k
  <2>1. KeyProduct[j] = KeyProduct[k]
    BY <1>3, LegacyUnitsAssumption
  <2>2. j \in Of(KeyProduct[k]) /\ k \in Of(KeyProduct[k])
    BY <2>1
  <2>3. Cardinality(Of(KeyProduct[k])) = 1
    BY <1>2, <1>3
  <2>4. PICK x : Of(KeyProduct[k]) = {x}
    BY <1>2, <1>3, <2>3, FS_Singleton
  <2> QED
    BY <2>2, <2>4
<1> QED
  BY <1>4

-----------------------------------------------------------------------------
(* The licence key of the order row.                                         *)

\* The key shown for a paid direct order is sold; that of a legacy order, which
\* may lose its assignment, is nobody else's and all the order asked for.
OwnKeyInv ==
    \A o \in DirectOrders : orderStatus[o] = "PAID" =>
        /\ licenseKey[o] \in Keys
        /\ keyStatus[licenseKey[o]] = "SOLD"
        /\ o \in LegacyOrders => /\ assignedTo[licenseKey[o]] \in {o, Nobody}
                                 /\ Covers({licenseKey[o]}, o)

\* A paid order keeps the key of its row.
LEMMA OwnKeyStays ==
    ASSUME TypeOK, [Next]_vars, NEW o \in Orders, orderStatus[o] = "PAID"
    PROVE  licenseKey'[o] = licenseKey[o]
<1>1. ASSUME NEW q \in Orders, NEW p \in Payments, CompletePayment(q, p)
      PROVE  licenseKey'[o] = licenseKey[o]
  BY <1>1 DEF CompletePayment, MayComplete, Payable, TypeOK
<1>2. CASE UNCHANGED licenseKey
  BY <1>2
<1>3. CASE Next /\ ~ \E q \in Orders, p \in Payments : CompletePayment(q, p)
  BY <1>2, <1>3 DEF Next, ShippedNext, StockStep, OrderStep, ImportKey, DeleteKey,
       NewAttempt, ResumeAttempt, EstablishReservation, TerminatePayment,
       RejectLegacyAttempt, RecordPending, orderVars
<1> QED
  BY <1>1, <1>2, <1>3 DEF vars

\* The step that pays an order chooses the key of its row among those it sells.
LEMMA OwnKeySold ==
    ASSUME IsFiniteSet(Keys), IInv, NEW o \in DirectOrders, NEW p \in Payments,
           CompletePayment(o, p)
    PROVE  /\ licenseKey'[o] \in Keys
           /\ keyStatus'[licenseKey'[o]] = "SOLD"
           /\ o \in LegacyOrders => /\ assignedTo'[licenseKey'[o]] = o
                                    /\ Covers({licenseKey'[o]}, o)
<1>1. o \in Orders
  BY OrderKindsAssumption
<1>2. PICK S \in SUBSET Keys : SellKeys(o, S) /\ \E k \in S : licenseKey'[o] = k
  BY <1>1 DEF CompletePayment, IInv, TypeOK
<1>3. Covers(S, o) /\ AssignKeys(S, o, "SOLD")
  BY <1>2 DEF SellKeys, HasReservation
<1>4. o \in LegacyOrders => S = {licenseKey'[o]}
  BY <1>2, <1>3, OneUnit
<1> QED
  BY <1>2, <1>3, <1>4 DEF AssignKeys

LEMMA OwnKeyStep ==
    ASSUME IsFiniteSet(Keys), IInv, OwnKeyInv, [Next]_vars
    PROVE  OwnKeyInv'
<1> SUFFICES ASSUME NEW o \in DirectOrders, orderStatus'[o] = "PAID"
             PROVE  /\ licenseKey'[o] \in Keys
                    /\ keyStatus'[licenseKey'[o]] = "SOLD"
                    /\ o \in LegacyOrders => /\ assignedTo'[licenseKey'[o]] \in {o, Nobody}
                                             /\ Covers({licenseKey'[o]}, o)
  BY DEF OwnKeyInv, Covers
<1>1. o \in Orders
  BY OrderKindsAssumption
<1>2. CASE orderStatus[o] = "PAID"
  <2>1. licenseKey'[o] = licenseKey[o]
    BY <1>1, <1>2, OwnKeyStays DEF IInv
  <2> QED
    BY <1>2, <2>1, SoldKeyStays DEF OwnKeyInv
<1>3. CASE orderStatus[o] # "PAID"
  <2>1. PICK p \in Payments : CompletePayment(o, p)
    <3>1. ASSUME NEW q \in Orders, NEW p \in Payments, CompletePayment(q, p)
          PROVE  q = o
      BY <1>1, <1>3, <3>1 DEF CompletePayment, IInv, TypeOK
    <3>2. CASE UNCHANGED orderStatus
      BY <1>3, <3>2
    <3>3. CASE Next /\ ~ \E q \in Orders, p \in Payments : CompletePayment(q, p)
      BY <3>2, <3>3 DEF Next, ShippedNext, StockStep, OrderStep, ImportKey, DeleteKey,
           NewAttempt, ResumeAttempt, EstablishReservation, TerminatePayment,
           RejectLegacyAttempt, RecordPending, orderVars
    <3> QED
      BY <3>1, <3>2, <3>3 DEF vars
  <2> QED
    BY <2>1, OwnKeySold
<1> QED
  BY <1>2, <1>3

-----------------------------------------------------------------------------
(* The content of the messages.                                              *)

\* A message that is built or was sent lists a key for every unit of its order,
\* sold to it, or sold and then stranded by the removal of a legacy item row.
ListsKeysOf(S, o) ==
    /\ S \in SUBSET Keys /\ Covers(S, o)
    /\ \A k \in S : /\ keyStatus[k] = "SOLD"
                    /\ assignedTo[k] = o \/ (o \in LegacyOrders /\ assignedTo[k] = Nobody)

TaskContent(t) ==
    /\ t.at = "BUILT" => ListsKeysOf(t.keys, t.order)
    /\ t.at = "LOADED" /\ t.order \in DirectOrders => t.keys = {licenseKey[t.order]}

ContentInv ==
    /\ \A o \in Orders : mails[o] > 0 => ListsKeysOf(mailed[o], o)
    /\ \A t \in tasks : TaskContent(t)

\* The listed keys stay the order's, whatever happens to the shop.
LEMMA ListedKeysStay ==
    ASSUME IInv, [Next]_vars, NEW o \in Orders, NEW S, ListsKeysOf(S, o)
    PROVE  ListsKeysOf(S, o)'
<1>1. ASSUME NEW k \in S
      PROVE  /\ keyStatus'[k] = "SOLD"
             /\ assignedTo'[k] = o \/ (o \in LegacyOrders /\ assignedTo'[k] = Nobody)
  BY SoldKeyStays DEF ListsKeysOf, ItemisedOrders
<1> QED
  BY <1>1 DEF ListsKeysOf, Covers

\* A paid order has what its message lists.
LEMMA BuiltContent ==
    ASSUME IInv, OwnKeyInv, NEW o \in Orders, orderStatus[o] = "PAID", NEW own,
           o \in DirectOrders => own = {licenseKey[o]}
    PROVE  ListsKeysOf(AssignedKeys(o, own), o)
<1>1. CASE Held(o) # {}
  BY <1>1 DEF IInv, OrderInv, AssignedKeys, ListsKeysOf, Held
<1>2. CASE Held(o) = {}
  <2>1. o \in LegacyOrders /\ o \in DirectOrders
    BY <1>2, OrderKindsAssumption DEF IInv, OrderInv, ItemisedOrders
  <2> QED
    BY <1>2, <2>1 DEF OwnKeyInv, AssignedKeys, ListsKeysOf
<1> QED
  BY <1>1, <1>2

\* Every task's order is paid, and stays so.
LEMMA TaskOrders ==
    ASSUME MailInv, NEW t \in tasks
    PROVE  t \in Task /\ t.order \in Orders /\ orderStatus[t.order] = "PAID"
BY DEF MailInv, MailTypeOK, Task, EmailInv, Pending

\* What a task has read stays good while others act.
LEMMA TaskContentStays ==
    ASSUME IInv, MailInv, [Next]_vars, NEW t \in tasks, TaskContent(t)
    PROVE  TaskContent(t)'
<1>1. t.order \in Orders /\ orderStatus[t.order] = "PAID"
  BY TaskOrders
<1>2. licenseKey'[t.order] = licenseKey[t.order]
  BY <1>1, OwnKeyStays DEF IInv
<1>3. t.at = "BUILT" => ListsKeysOf(t.keys, t.order)'
  BY <1>1, ListedKeysStay DEF TaskContent
<1> QED
  BY <1>2, <1>3 DEF TaskContent, ListsKeysOf

\* A task that is new in a step was queued, or has just been loaded or built.
LEMMA NewTaskContent ==
    ASSUME IInv, OwnKeyInv, MailInv, ContentInv, [MailNext]_allVars, NEW t \in tasks', t \notin tasks
    PROVE  TaskContent(t)'
<1>1. [Next]_vars
  BY MailStepIsInvisible
<1>2. ASSUME NEW o \in Orders, Dispatch(o) PROVE TaskContent(t)'
  <2>1. t.at = "QUEUED"
    BY <1>2 DEF Dispatch
  <2> QED
    BY <2>1 DEF TaskContent
<1>3. ASSUME NEW u \in tasks, Load(u) PROVE TaskContent(t)'
  <2> DEFINE o == u.order
             own == {k \in Keys : k = licenseKey[o] /\ keyStatus[k] = "SOLD"}
  <2>1. u \in Task /\ o \in Orders /\ orderStatus[o] = "PAID"
    BY TaskOrders
  <2>2. t = [u EXCEPT !.at = "LOADED", !.keys = own] /\ UNCHANGED vars
    BY <1>3, <2>1 DEF Load, Advance
  <2>3. t.at = "LOADED" /\ t.keys = own /\ t.order = o
    BY <2>1, <2>2 DEF Task
  <2>4. o \in DirectOrders => own = {licenseKey[o]}
    BY <2>1 DEF OwnKeyInv
  <2>5. licenseKey' = licenseKey
    BY <2>2 DEF vars
  <2> QED
    BY <2>3, <2>4, <2>5 DEF TaskContent
<1>4. ASSUME NEW u \in tasks, Build(u) PROVE TaskContent(t)'
  <2> DEFINE o == u.order
  <2>1. u \in Task /\ o \in Orders /\ orderStatus[o] = "PAID" /\ u.at = "LOADED"
    BY <1>4, TaskOrders DEF Build
  <2>2. t = [u EXCEPT !.at = "BUILT", !.keys = AssignedKeys(o, u.keys)]
    BY <1>4 DEF Build, Advance, Finish
  <2>3. t.at = "BUILT" /\ t.keys = AssignedKeys(o, u.keys) /\ t.order = o
    BY <2>1, <2>2 DEF Task
  <2>4. ListsKeysOf(t.keys, o)
    BY <2>1, <2>3, BuiltContent DEF ContentInv, TaskContent
  <2>5. ListsKeysOf(t.keys, o)'
    BY <1>1, <2>1, <2>4, ListedKeysStay
  <2> QED
    BY <2>3, <2>5 DEF TaskContent, ListsKeysOf
<1>5. ASSUME NEW u \in tasks, SendFails(u) PROVE TaskContent(t)'
  <2>1. u \in Task
    BY TaskOrders
  <2>2. t = [u EXCEPT !.retries = @ + 1, !.at = "QUEUED", !.keys = {}]
    BY <1>5 DEF SendFails
  <2>3. t.at = "QUEUED"
    BY <2>1, <2>2 DEF Task
  <2> QED
    BY <2>3 DEF TaskContent
<1>6. \/ \E o \in Orders : Dispatch(o)
      \/ \E u \in tasks : Load(u) \/ Build(u) \/ SendFails(u)
  BY DEF MailNext, allVars, mailVars, Transaction, MailStep, DispatchFails,
     Send, WorkerStops, Finish
<1> QED
  BY <1>2, <1>3, <1>4, <1>5, <1>6

LEMMA ContentStep ==
    ASSUME IInv, OwnKeyInv, MailInv, ContentInv, [MailNext]_allVars
    PROVE  ContentInv'
<1>1. [Next]_vars
  BY MailStepIsInvisible
<1>2. ASSUME NEW o \in Orders, mails'[o] > 0 PROVE ListsKeysOf(mailed[o], o)'
  <2>1. CASE mails'[o] = mails[o] /\ mailed'[o] = mailed[o]
    <3>1. ListsKeysOf(mailed[o], o)
      BY <1>2, <2>1 DEF ContentInv
    <3> DEFINE S == mailed[o]
    <3>2. ASSUME NEW S1, S1 = mailed[o] PROVE ListsKeysOf(S1, o)'
      BY <1>1, <3>1, <3>2, ListedKeysStay
    <3> QED
      BY <2>1, <3>2 DEF ListsKeysOf, Covers
  <2>2. ASSUME NEW t \in tasks, t.at = "BUILT", t.order = o, Accepts(t)
        PROVE  ListsKeysOf(mailed[o], o)'
    <3>1. mailed'[o] = t.keys
      BY <1>2, <2>2 DEF Accepts, MailInv, MailTypeOK
    <3>2. ListsKeysOf(t.keys, o)
      BY <2>2 DEF ContentInv, TaskContent
    <3>3. ListsKeysOf(t.keys, o)'
      BY <1>1, <3>2, ListedKeysStay
    <3> QED
      BY <3>1, <3>3 DEF ListsKeysOf, Covers
  <2>3. ASSUME NEW t \in tasks, t.order # o, Accepts(t)
        PROVE  mails'[o] = mails[o] /\ mailed'[o] = mailed[o]
    BY <2>3 DEF Accepts, MailInv, MailTypeOK
  <2> QED
    BY <2>1, <2>2, <2>3 DEF MailNext, allVars, mailVars, Transaction, MailStep, Dispatch,
       DispatchFails, Load, Build, Send, SendFails, WorkerStops, Advance, Finish
<1>3. ASSUME NEW t \in tasks' PROVE TaskContent(t)'
  BY <1>1, TaskContentStays, NewTaskContent DEF ContentInv
<1> QED
  BY <1>2, <1>3 DEF ContentInv

LEMMA ContentInit == MailInit => Init /\ OwnKeyInv /\ ContentInv
BY OrderKindsAssumption DEF MailInit, Init, OwnKeyInv, ContentInv

\* What a customer was mailed is one key per unit of the order, sold for good
\* and never another order's, legacy orders included.
THEOREM MailedKeysAreFinal ==
    ASSUME IsFiniteSet(Keys) PROVE MailSpec => []MailedKeysAreTheOrders
<1>1. IInv /\ OwnKeyInv /\ [MailNext]_allVars => OwnKeyInv'
  BY MailStepIsInvisible, OwnKeyStep
<1>2. ContentInv => MailedKeysAreTheOrders
  BY DEF ContentInv, ListsKeysOf, MailedKeysAreTheOrders
<1>3. IInv /\ OwnKeyInv /\ MailInv /\ ContentInv /\ [MailNext]_allVars => ContentInv'
  BY ContentStep
<1> QED
  BY <1>1, <1>2, <1>3, ContentInit, InvInit, InvInductive, MailInvInit, MailInvInductive,
     MailStepIsInvisible, PTL DEF MailSpec

-----------------------------------------------------------------------------
(* The orders a task skips.                                                  *)

\* No other attempt settles a paid order whose settlement was overwritten.
LEMMA UnsettledStays ==
    ASSUME TypeOK, [Next]_vars, NEW o \in Orders, orderStatus[o] = "PAID", ~IsSettled(o)
    PROVE  ~IsSettled(o)'
<1> SUFFICES ASSUME NEW p \in Payments, payOrder'[p] = o, payStatus'[p] = "PAID"
             PROVE  FALSE
  BY DEF IsSettled
<1>1. ASSUME NEW q \in Orders, NEW x \in Payments, CompletePayment(q, x)
      PROVE  FALSE
  BY <1>1 DEF CompletePayment, MayComplete, Payable, IsSettled, TypeOK
<1>2. ASSUME NEW q \in Orders, NEW x \in Payments, NewAttempt(q, x)
      PROVE  FALSE
  BY <1>2 DEF NewAttempt, IsSettled, TypeOK
<1>3. ASSUME UNCHANGED payOrder, \A x \in Payments : payStatus'[x] \in {payStatus[x], "PENDING"} \cup TerminalStatuses
      PROVE  FALSE
  BY <1>3 DEF IsSettled, TerminalStatuses
<1>4. ASSUME NEW q \in Orders, NEW x \in Payments,
             ResumeAttempt(q, x) \/ RejectLegacyAttempt(q, x) \/ RecordPending(q, x)
      PROVE  FALSE
  BY <1>3, <1>4 DEF ResumeAttempt, RejectLegacyAttempt, RecordPending, payVars,
     TypeOK, TerminalStatuses
<1>5. ASSUME NEW q \in Orders, NEW x \in Payments, NEW status \in TerminalStatuses,
             TerminatePayment(q, x, status)
      PROVE  FALSE
  BY <1>3, <1>5 DEF TerminatePayment, TypeOK
<1>6. CASE StockStep \/ UNCHANGED vars
  BY <1>3, <1>6 DEF StockStep, ImportKey, DeleteKey, payVars, vars
<1> QED
  BY <1>1, <1>2, <1>4, <1>5, <1>6 DEF Next, ShippedNext, OrderStep

\* What a task finds of a paid order is complete.
LEMMA FulfilmentIsComplete ==
    ASSUME IsFiniteSet(Keys), IsFiniteSet(Products), IInv,
           NEW o \in Orders, orderStatus[o] = "PAID", NEW own,
           o \in DirectOrders => own # {}
    PROVE  HasCompleteFulfilment(o, own)
<1>1. CASE Held(o) # {}
  <2>1. Held(o) \in SUBSET Keys /\ Covers(Held(o), o) /\ \A k \in Held(o) : keyStatus[k] = "SOLD"
    BY <1>1 DEF IInv, OrderInv, Held
  <2>2. Cardinality(Held(o)) = SumFunction(Quantity[o])
    BY <2>1, CoveredUnits
  <2> QED
    BY <1>1, <2>1, <2>2 DEF HasCompleteFulfilment
<1>2. CASE Held(o) = {}
  <2>1. o \in DirectOrders
    BY <1>2, OrderKindsAssumption DEF IInv, OrderInv, ItemisedOrders
  <2> QED
    BY <1>2, <2>1 DEF HasCompleteFulfilment
<1> QED
  BY <1>1, <1>2

LEMMA SkippedStep ==
    ASSUME IsFiniteSet(Keys), IsFiniteSet(Products), IInv, MailInv, ContentInv,
           SkippedOnlyWhenOverwritten, [MailNext]_allVars
    PROVE  SkippedOnlyWhenOverwritten'
<1>1. SUFFICES ASSUME NEW o \in Orders, outcome'[o] = "INELIGIBLE" PROVE ~IsSettled(o)'
  BY DEF SkippedOnlyWhenOverwritten
<1>2. [Next]_vars
  BY MailStepIsInvisible
<1>3. CASE outcome[o] = "INELIGIBLE"
  <2>1. orderStatus[o] = "PAID" /\ ~IsSettled(o)
    BY <1>3 DEF MailInv, EmailInv, SkippedOnlyWhenOverwritten
  <2> QED
    BY <1>2, <2>1, UnsettledStays DEF IInv
<1>4. CASE outcome[o] # "INELIGIBLE"
  <2>1. PICK t \in tasks : (Load(t) \/ Build(t)) /\ t.order = o
    BY <1>1, <1>4 DEF MailNext, allVars, mailVars, Transaction, MailStep, Dispatch,
       DispatchFails, Load, Build, Send, SendFails, WorkerStops, Advance, Finish, End,
       MailInv, MailTypeOK
  <2>2. t \in Task /\ orderStatus[o] = "PAID"
    BY <2>1, TaskOrders
  <2>3. Build(t) /\ t.at = "LOADED" /\ ~(IsSettled(o) /\ HasCompleteFulfilment(o, t.keys))
    BY <1>1, <1>4, <2>1, <2>2 DEF Load, Build, Advance
  <2>4. o \in DirectOrders => t.keys # {}
    BY <2>1, <2>3 DEF ContentInv, TaskContent
  <2>5. ~IsSettled(o)
    BY <2>2, <2>3, <2>4, FulfilmentIsComplete
  <2> QED
    BY <1>2, <2>2, <2>5, UnsettledStays DEF IInv
<1> QED
  BY <1>3, <1>4

\* The worker skips no order that is still settled: it never reads an order too
\* early, and never finds a paid order incomplete.
THEOREM SkippedOverwritten ==
    ASSUME IsFiniteSet(Keys), IsFiniteSet(Products)
    PROVE  MailSpec => []SkippedOnlyWhenOverwritten
<1>1. IInv /\ OwnKeyInv /\ [MailNext]_allVars => OwnKeyInv'
  BY MailStepIsInvisible, OwnKeyStep
<1>2. IInv /\ OwnKeyInv /\ MailInv /\ ContentInv /\ [MailNext]_allVars => ContentInv'
  BY ContentStep
<1>3. MailInit => SkippedOnlyWhenOverwritten
  BY DEF MailInit, SkippedOnlyWhenOverwritten
<1>4. /\ IInv /\ MailInv /\ ContentInv /\ SkippedOnlyWhenOverwritten /\ [MailNext]_allVars
      => SkippedOnlyWhenOverwritten'
  BY SkippedStep
<1> QED
  BY <1>1, <1>2, <1>3, <1>4, ContentInit, InvInit, InvInductive, MailInvInit,
     MailInvInductive, MailStepIsInvisible, PTL DEF MailSpec

=============================================================================
