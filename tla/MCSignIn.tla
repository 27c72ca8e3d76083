------------------------------- MODULE MCSignIn -------------------------------
EXTENDS SignIn, TLC

Symmetry == Permutations(Requests) \cup Permutations(People)
              \cup Permutations(Names) \cup Permutations(Users)
              \cup Permutations(Links)
=============================================================================
