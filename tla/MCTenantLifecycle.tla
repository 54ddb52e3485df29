------------------------- MODULE MCTenantLifecycle --------------------------
(* Small instances of TenantLifecycle for TLC. *)
EXTENDS TenantLifecycle, TLC

Symmetry == Permutations(Requests)
=============================================================================
