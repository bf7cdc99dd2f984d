--------------------------------- MODULE Schema ---------------------------------
(***************************************************************************)
(* What the parts of the program share: the business domains (Domain,      *)
(* backend/app/schema/domains.py) and the tables of the database           *)
(* (SchemaMetadata, backend/app/schema/metadata.py).                       *)
(***************************************************************************)
CONSTANTS
  Domains,
  Tables
================================================================================
