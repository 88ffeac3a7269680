----------------------------- MODULE MCControl ------------------------------
EXTENDS Control, TLC

\* The callers of probe are interchangeable.
CallerSymmetry == Permutations(Callers)
=============================================================================
