--------------------------- MODULE MCPaymentSaga ---------------------------
(***************************************************************************)
(* A shop with a single game, or with two orders for it, for TLC.          *)
(***************************************************************************)
EXTENDS PaymentSaga, TLC

CONSTANTS mine, yours, game

MCKeyProduct == [k \in Keys |-> game]
MCQuantity == [o \in Orders |-> game :> 1]
MCSymmetry == Permutations(Payments) \cup Permutations(Requests) \cup Permutations(Keys)
=============================================================================
