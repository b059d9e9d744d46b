---------------------------- MODULE MCCurrentUser -----------------------------
EXTENDS CurrentUser, TLC
Symmetry == Permutations(Client) \union Permutations(User) \union Permutations(Email)
=============================================================================
