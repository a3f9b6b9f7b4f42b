------------------------ MODULE MCWrappedPassphrase ------------------------
EXTENDS WrappedPassphrase, FiniteSets, TLC
Symm == Permutations(Proc)
=============================================================================
