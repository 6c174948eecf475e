------------------------- MODULE ConfirmationEmail -------------------------
(***************************************************************************)
(* The confirmation email of a paid order: the on_commit callback of       *)
(* complete_payment, the Celery task it queues (orders/tasks.py) and the   *)
(* message the task builds (orders/emails.py), beside the transactions of  *)
(* OrderReservation.                                                       *)
(*                                                                         *)
(* Three processes can stop between two steps: the web process that owes   *)
(* the callback, the broker, and the worker.  The broker hands a task out  *)
(* once (acknowledged on receipt, Celery's default) and the worker reads   *)
(* the database in autocommit, so a task sees the order row, then its      *)
(* fulfilment and payments, then sends, with other transactions between.   *)
(*                                                                         *)
(* Orders are never deleted and price_paid is written with the PAID        *)
(* status, so the "missing" result and a null price_paid cannot arise.     *)
(***************************************************************************)
EXTENDS OrderReservation, Functions

CONSTANT MaxRetries     \* max_retries of the task; 3 in the source

ASSUME MaxRetriesAssumption == MaxRetries \in Nat

VARIABLES callbacks,    \* orders whose committed on_commit callback has not run
          tasks,        \* tasks in the broker or in a worker
          outcome,      \* how the order's email ended, "NONE" before
          mails,        \* messages the email backend accepted for the order
          mailed        \* the keys the last of them listed

mailVars == <<callbacks, tasks, outcome, mails, mailed>>
allVars == <<vars, mailVars>>

\* keys is what the task has read: the order's own licence key once the row is
\* loaded, the keys the message lists once it is built.
Task == [order : Orders, retries : 0..MaxRetries,
         at : {"QUEUED", "LOADED", "BUILT"}, keys : SUBSET Keys]

Outcomes == {"NONE", "SENT", "INELIGIBLE", "FAILED", "LOST"}

MailTypeOK ==
    /\ callbacks \subseteq Orders
    /\ tasks \subseteq Task
    /\ outcome \in [Orders -> Outcomes]
    /\ mails \in [Orders -> Nat]
    /\ mailed \in [Orders -> SUBSET Keys]

MailInit ==
    /\ Init
    /\ callbacks = {}
    /\ tasks = {}
    /\ outcome = [o \in Orders |-> "NONE"]
    /\ mails = [o \in Orders |-> 0]
    /\ mailed = [o \in Orders |-> {}]

-----------------------------------------------------------------------------
(* The backend process.                                                    *)

\* Fault variant: the callback is registered before the early return for an
\* order that is paid already.
RegistersWheneverPaid(o) == orderStatus'[o] = "PAID" /\ payStatus' # payStatus

\* complete_payment registers the callback when it pays the order; an order
\* found paid returns before, and a rolled-back transaction registers nothing.
RegistersCallback(o) == orderStatus[o] # "PAID" /\ orderStatus'[o] = "PAID"

Transaction ==
    /\ Next
    /\ callbacks' = callbacks \cup {o \in Orders : RegistersCallback(o)}
    /\ UNCHANGED <<tasks, outcome, mails, mailed>>

End(o, result) == outcome' = [outcome EXCEPT ![o] = result]

\* dispatch_confirmation_email
Dispatch(o) ==
    /\ o \in callbacks
    /\ callbacks' = callbacks \ {o}
    /\ tasks' = tasks \cup {[order |-> o, retries |-> 0, at |-> "QUEUED", keys |-> {}]}
    /\ UNCHANGED <<vars, outcome, mails, mailed>>

\* The broker refuses the task (OperationalError is only logged), or the
\* process stops between the commit and the callback.
DispatchFails(o) ==
    /\ o \in callbacks
    /\ callbacks' = callbacks \ {o}
    /\ End(o, "LOST")
    /\ UNCHANGED <<vars, tasks, mails, mailed>>

-----------------------------------------------------------------------------
(* The worker.                                                             *)

\* Fault variant: the licence key of the order row does not count.
NeedsAssignments(o, own) == Held(o) # {} /\ Covers(Held(o), o)

\* has_complete_fulfilment, own being the sold licence key of the order row.
HasCompleteFulfilment(o, own) ==
    IF Held(o) # {}
    THEN /\ Cardinality(Held(o)) = SumFunction(Quantity[o])
         /\ \A k \in Held(o) : keyStatus[k] = "SOLD"
    ELSE o \in DirectOrders /\ own # {}

\* assigned_license_key_values
AssignedKeys(o, own) == IF Held(o) # {} THEN Held(o) ELSE own

\* Whether a PAID payment of the order exists.
IsSettled(o) == \E p \in Payments : payOrder[p] = o /\ payStatus[p] = "PAID"

Advance(t, stage, keys) ==
    /\ tasks' = (tasks \ {t}) \cup {[t EXCEPT !.at = stage, !.keys = keys]}
    /\ UNCHANGED <<vars, callbacks, outcome, mails, mailed>>

\* The task ends without a message.
Finish(t, result) ==
    /\ tasks' = tasks \ {t}
    /\ End(t.order, result)
    /\ UNCHANGED <<vars, callbacks, mails, mailed>>

\* The worker receives the task and reads the order row with its licence key.
Load(t) ==
    /\ t.at = "QUEUED"
    /\ IF orderStatus[t.order] = "PAID"
       THEN Advance(t, "LOADED",
                    {k \in Keys : k = licenseKey[t.order] /\ keyStatus[k] = "SOLD"})
       ELSE Finish(t, "INELIGIBLE")

\* It reads items, assignments and payments, and builds the message.
Build(t) ==
    /\ t.at = "LOADED"
    /\ IF IsSettled(t.order) /\ HasCompleteFulfilment(t.order, t.keys)
       THEN Advance(t, "BUILT", AssignedKeys(t.order, t.keys))
       ELSE Finish(t, "INELIGIBLE")

Accepts(t) ==
    /\ mails' = [mails EXCEPT ![t.order] = @ + 1]
    /\ mailed' = [mailed EXCEPT ![t.order] = t.keys]

Send(t) ==
    /\ t.at = "BUILT"
    /\ tasks' = tasks \ {t}
    /\ End(t.order, "SENT")
    /\ Accepts(t)
    /\ UNCHANGED <<vars, callbacks>>

\* Fault variant: one retry too many.
RetriesOnceMore(t) == t.retries <= MaxRetries

MayRetry(t) == t.retries < MaxRetries

\* send raises, before the message is accepted or after it (a reply that times
\* out).  The task is queued again unless the retries are used up or the broker
\* does not take it.
SendFails(t) ==
    /\ t.at = "BUILT"
    /\ Accepts(t) \/ UNCHANGED <<mails, mailed>>
    /\ \/ /\ MayRetry(t)
          /\ tasks' = (tasks \ {t}) \cup
                 {[t EXCEPT !.retries = @ + 1, !.at = "QUEUED", !.keys = {}]}
          /\ UNCHANGED outcome
       \/ tasks' = tasks \ {t} /\ End(t.order, "FAILED")
    /\ UNCHANGED <<vars, callbacks>>

\* The worker stops with a task it has acknowledged, or the broker loses it.
WorkerStops(t) == Finish(t, "LOST")

-----------------------------------------------------------------------------
MailStep ==
    \/ \E o \in Orders : Dispatch(o) \/ DispatchFails(o)
    \/ \E t \in tasks : \/ Load(t) \/ Build(t)
                        \/ Send(t) \/ SendFails(t)
                        \/ WorkerStops(t)

MailNext == Transaction \/ MailStep

MailSpec == MailInit /\ [][MailNext]_allVars

-----------------------------------------------------------------------------
\* Every paid order has exactly one email under way or ended, and an unpaid
\* order has none: retries, repeated provider outcomes and crashes neither
\* duplicate a task nor drop one without a recorded end, and no task is queued
\* by a transaction that did not commit.
OneEmailPerPaidOrder ==
    \A o \in Orders :
        Cardinality({t \in tasks : t.order = o})
          + Cardinality({c \in callbacks : c = o})
          + (IF outcome[o] = "NONE" THEN 0 ELSE 1)
        = IF orderStatus[o] = "PAID" THEN 1 ELSE 0

\* The checks of the task never turn a customer away: a dispatched task that
\* skips its order found the payment that settled it overwritten by a PENDING
\* answer, never an order it read too early or an incomplete fulfilment.
SkippedOnlyWhenOverwritten ==
    \A o \in Orders : outcome[o] = "INELIGIBLE" => ~IsSettled(o)

\* What a customer was mailed stays true: the message listed a key for every
\* unit of the order, and those keys remain sold, and never another order's,
\* however old the task's reads were when it sent them.
MailedKeysAreTheOrders ==
    \A o \in Orders : mails[o] > 0 =>
        /\ Covers(mailed[o], o)
        /\ \A k \in mailed[o] :
              /\ keyStatus[k] = "SOLD"
              /\ assignedTo[k] = o \/ (o \in LegacyOrders /\ assignedTo[k] = Nobody)

\* A customer gets at most one message per attempt of the task: the retries of
\* a send whose answer was lost are bounded.
MessagesAreBounded ==
    \A o \in Orders :
        /\ mails[o] <= MaxRetries + 1
        /\ \A t \in tasks : t.order = o => mails[o] <= t.retries

=============================================================================
