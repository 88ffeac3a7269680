----------------------------- MODULE MCRegistry -----------------------------
\* Model checking of Registry: requests and pairing codes are interchangeable.
EXTENDS Registry

RegistrySymmetry == Permutations(Handlers) \cup Permutations(Codes)
=============================================================================
