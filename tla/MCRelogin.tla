----------------------------- MODULE MCRelogin -----------------------------
\* Small instances of Relogin: the callers are alike.
EXTENDS Relogin, TLC

Symmetry == Permutations(Callers)
=============================================================================
