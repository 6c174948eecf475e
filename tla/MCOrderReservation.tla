------------------------ MODULE MCOrderReservation ------------------------
(***************************************************************************)
(* A small shop for TLC.  "cart" needs two keys of game and "direct" one,  *)
(* out of two; the tool is a key that suits neither.                       *)
(***************************************************************************)
EXTENDS OrderReservation, TLC

CONSTANTS cart, direct, game, tool, g1, g2, t1

MCKeyProduct == g1 :> game @@ g2 :> game @@ t1 :> tool

\* A cart order of two units against a direct order of one.
MCTwoUnits == cart :> (game :> 2 @@ tool :> 0) @@ direct :> (game :> 1 @@ tool :> 0)

MCSymmetry == Permutations(Payments) \cup Permutations({g1, g2})
=============================================================================
