------------------------- MODULE MCCapabilityAudit --------------------------
(* Two gateway processes draining a stream of two entries.                  *)
EXTENDS CapabilityAudit
MCConsumers == {"g1", "g2"}
=============================================================================
