----------------------------- MODULE MCListings -----------------------------
(* One role on an employer's board, in a search and in the user's imports.   *)
EXTENDS Listings, TLC

CONSTANTS gh, dice, linkedin, r

MCGroupOf == (1 :> gh) @@ (2 :> dice) @@ (3 :> linkedin)
MCRole    == [j \in Jobs |-> r]
=============================================================================
