------------------------------ MODULE MCPages ------------------------------
\* Model checking of Pages: connections are interchangeable, and so are hosts
\* and sessions.
EXTENDS Pages

PageSymmetry == Permutations(Sockets) \cup Permutations(Hosts) \cup Permutations(Sessions)
=============================================================================
