-------------------------- MODULE MCTenantDeletion --------------------------
(* Small instances of TenantDeletion for TLC. *)
EXTENDS TenantDeletion
=============================================================================
