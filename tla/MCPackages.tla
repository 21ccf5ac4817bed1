---------------------------- MODULE MCPackages ----------------------------
EXTENDS Packages, TLC

\* The guest has a mod pack ticked that the host has not; the host's map comes
\* out the same with both.
MCTicks == (Host :> "plain") @@ [p \in Guests |-> "modded"]
MCMap == [d \in Packs |-> "map"]
=============================================================================
