------------------------ MODULE MCTenantStatusStream ------------------------
(* Small instances of TenantStatusStream for TLC. *)
EXTENDS TenantStatusStream

=============================================================================
