------------------------------ MODULE MCRelay -------------------------------
\* Model checking of Relay: request ids are interchangeable model values.
EXTENDS Relay

RequestSymmetry == Permutations(Reqs)
=============================================================================
