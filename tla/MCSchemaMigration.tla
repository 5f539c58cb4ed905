------------------------- MODULE MCSchemaMigration -------------------------
(***************************************************************************)
(* A small instance of SchemaMigration for TLC.                            *)
(***************************************************************************)
EXTENDS SchemaMigration

CONSTANTS r1, r2, c1, c2, phone, e1
=============================================================================
