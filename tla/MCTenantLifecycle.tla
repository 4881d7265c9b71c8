------------------------- MODULE MCTenantLifecycle -------------------------
(* Instances of TenantLifecycle for TLC: the super tenant and another one.  *)
EXTENDS TenantLifecycle

MCTenants == {"super", "acme"}
=============================================================================
