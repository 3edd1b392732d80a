------------------------------ MODULE MCAudit ------------------------------
(***************************************************************************)
(* The compaction of a collection, `mdv compact` beside it, and a table of *)
(* three rows, a full batch beyond the ceiling of one.                     *)
(***************************************************************************)
EXTENDS Audit

CONSTANTS collector, command
=============================================================================
