------------------------------- MODULE MCExport -------------------------------
(***************************************************************************)
(* A source of each kind.  Of three instruments one cannot be read; three  *)
(* pages are too many.                                                     *)
(***************************************************************************)
EXTENDS Export

CONSTANTS spot, perp, loan

MCRegistered == [s \in Source |-> CASE s = spot -> 1 [] s = perp -> 2 [] s = loan -> 3]
MCPaging == [s \in Source |->
    CASE s = spot -> "stream" [] s = perp -> "cursor" [] s = loan -> "number"]
=============================================================================
