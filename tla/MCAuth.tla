-------------------------------- MODULE MCAuth --------------------------------
EXTENDS Auth, TLC

Symmetry == Permutations(Handlers) \cup Permutations(Codes)
===============================================================================
