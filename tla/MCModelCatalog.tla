--------------------------- MODULE MCModelCatalog ---------------------------
(* An instance of ModelCatalog for TLC: every mix of a few calls on one
   provider. *)
EXTENDS ModelCatalog
=============================================================================
