-------------------------- MODULE MCManualActions --------------------------
(***************************************************************************)
(* The API and a collector, one delivered action that the second build     *)
(* withdraws, one that it keeps, and one of an operator.                   *)
(***************************************************************************)
EXTENDS ManualActions

CONSTANTS api, collector, kept, withdrawn, own

MCDelivery == << <<kept, withdrawn>>, <<kept>> >>
MCVersion == <<2, 3>>
=============================================================================
