--------------------------- MODULE MCCatalogReads ---------------------------
(* One reader, two series identities, ids that are used again. *)
EXTENDS CatalogReads
=============================================================================
