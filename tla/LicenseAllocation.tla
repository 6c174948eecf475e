------------------------ MODULE LicenseAllocation -------------------------
(***************************************************************************)
(* What the shop promises about licence keys, without payments: every      *)
(* unit of an order is supplied by its own key, an order gets all its keys *)
(* in one step or none, a hold is undone in one step, and what is sold     *)
(* stays with its buyer.  OrderReservation implements this specification.  *)
(***************************************************************************)
CONSTANTS Orders,
          Keys,
          Supplies(_, _)   \* a set of keys serves an order exactly

VARIABLES stock,   \* keys on sale
          held,    \* keys held for an unpaid order
          sold     \* keys delivered to a paid order

allocVars == <<stock, held, sold>>

Waiting(o) == held[o] = {} /\ sold[o] = {}

AllocInit ==
    /\ stock = {}
    /\ held = [o \in Orders |-> {}]
    /\ sold = [o \in Orders |-> {}]

\* Keys in circulation are on sale, held or sold; any other key may be added.
Restock(k) ==
    /\ k \notin stock
    /\ \A o \in Orders : k \notin held[o] \cup sold[o]
    /\ stock' = stock \cup {k}
    /\ UNCHANGED <<held, sold>>

Withdraw(k) ==
    /\ k \in stock
    /\ stock' = stock \ {k}
    /\ UNCHANGED <<held, sold>>

Hold(o, S) ==
    /\ Waiting(o)
    /\ S \subseteq stock /\ Supplies(S, o)
    /\ held' = [held EXCEPT ![o] = S]
    /\ stock' = stock \ S
    /\ UNCHANGED sold

Release(o) ==
    /\ held[o] # {}
    /\ stock' = stock \cup held[o]
    /\ held' = [held EXCEPT ![o] = {}]
    /\ UNCHANGED sold

Sell(o) ==
    /\ held[o] # {}
    /\ sold' = [sold EXCEPT ![o] = held[o]]
    /\ held' = [held EXCEPT ![o] = {}]
    /\ UNCHANGED stock

\* The fallback of an order that holds nothing when its payment succeeds.
SellFromStock(o, S) ==
    /\ Waiting(o)
    /\ S \subseteq stock /\ Supplies(S, o)
    /\ sold' = [sold EXCEPT ![o] = S]
    /\ stock' = stock \ S
    /\ UNCHANGED held

AllocNext ==
    \/ \E k \in Keys : Restock(k) \/ Withdraw(k)
    \/ \E o \in Orders : Release(o) \/ Sell(o)
    \/ \E o \in Orders, S \in SUBSET Keys : Hold(o, S) \/ SellFromStock(o, S)

AllocSpec == AllocInit /\ [][AllocNext]_allocVars

=============================================================================
