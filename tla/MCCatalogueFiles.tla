--------------------------- MODULE MCCatalogueFiles ---------------------------
(* Instances of CatalogueFiles for TLC.                                     *)
EXTENDS CatalogueFiles
=============================================================================
