----------------------------- MODULE MCImporter -----------------------------
(***************************************************************************)
(* The importer by itself, for what the documentation says of sync.        *)
(***************************************************************************)
EXTENDS Importer
=============================================================================
