---------------------------- MODULE MCAuthService ----------------------------
(* Instances of AuthService for TLC.                                       *)
EXTENDS AuthService, TLC

\* Accounts, slots and grants are interchangeable.
Symmetry == Permutations(User) \union Permutations(Req) \union Permutations(Grant)
=============================================================================
