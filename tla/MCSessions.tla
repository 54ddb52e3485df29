----------------------------- MODULE MCSessions -----------------------------
(* Sessions of one user with two clients and an administrator.              *)
EXTENDS Sessions, TLC
CONSTANTS c1, c2, ad
MCClients == {c1, c2}
ClientSymmetry == Permutations(MCClients)
=============================================================================
