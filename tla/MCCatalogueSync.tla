--------------------------- MODULE MCCatalogueSync ---------------------------
(* Small instances of CatalogueSync: two names, one or two syncs.           *)
EXTENDS CatalogueSync

CONSTANTS n1, n2, n3, p1, p2
=============================================================================
