--------------------------- MODULE MCMigrations ---------------------------
(***************************************************************************)
(* A shop that is upgraded.  Three direct orders come from the previous    *)
(* releases: "direct" for the game, with or without its item row, "bundle" *)
(* with two item rows and "blank" for a product without a title.  "late"   *)
(* is placed on the new release and competes with them for the keys.       *)
(***************************************************************************)
EXTENDS Migrations, TLC

CONSTANTS direct, bundle, blank, late, game, extra, g1, g2, e1

MCKeyProduct == g1 :> game @@ g2 :> game @@ e1 :> extra

MCOrderProduct == [o \in {direct, bundle, blank} |-> game]

MCQuantity ==
    LET OfTheGame == game :> 1 @@ extra :> 0
    IN  [o \in {direct, blank, late} |-> OfTheGame] @@ bundle :> (game :> 1 @@ extra :> 1)

MCAmounts == {-5, 10}

MCPrices == game :> {10, 12} @@ extra :> {5}

Row(total, pricePaid, snapshot) ==
    [total |-> total, pricePaid |-> pricePaid, snapshot |-> snapshot]

MCOldBooks ==
    direct :> {Row(Nobody, Nobody, Nobody), Row(Nobody, 10, Nobody), Row(Nobody, -5, 10)}
    @@ bundle :> {Row(Nobody, Nobody, 10)}
    @@ blank :> {Row(10, Nobody, Nobody)}

MCSymmetry == Permutations({g1, g2})
=============================================================================
