--------------------------- MODULE MCMarketplace ----------------------------
(* Marketplace, checked: the constants get their values in the .cfg.       *)
EXTENDS Marketplace, TLC

\* Trips are alike.
AlikeTrips == Permutations(Trips)
=============================================================================
