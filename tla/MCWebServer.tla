----------------------------- MODULE MCWebServer -----------------------------
EXTENDS WebServer, TLC

Symmetry == Permutations(Fds) \cup Permutations(Conns) \cup Permutations(Workers)
=============================================================================
