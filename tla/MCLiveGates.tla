----------------------------- MODULE MCLiveGates -----------------------------
\* The image before the migration of the domain column, and the one with it.
EXTENDS LiveGates, TLC

CONSTANTS before, after, t1

MCHead == (before :> 3) @@ (after :> 4)
=============================================================================
