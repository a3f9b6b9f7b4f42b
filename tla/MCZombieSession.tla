-------------------------- MODULE MCZombieSession --------------------------
EXTENDS ZombieSession, TLC
CONSTANTS h1, h2, c1
MCSid == h1 :> 1 @@ h2 :> 2 @@ c1 :> 1
=============================================================================
