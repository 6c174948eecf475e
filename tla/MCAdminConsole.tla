--------------------------- MODULE MCAdminConsole ---------------------------
(***************************************************************************)
(* Two orders compete for one product's keys under one administrator.      *)
(***************************************************************************)
EXTENDS AdminConsole, TLC

CONSTANTS cart, direct, game

MCKeyProduct == [k \in Keys |-> game]
MCQuantity == [o \in Orders |-> game :> 1]

MCSymmetry == Permutations(Payments) \cup Permutations(Keys)
=============================================================================
