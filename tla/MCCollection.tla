---------------------------- MODULE MCCollection ----------------------------
(***************************************************************************)
(* A host with two writers: a venue with a market source and a financing   *)
(* source, and a venue whose only source retires at 1.                     *)
(***************************************************************************)
EXTENDS Collection, TLC

CONSTANTS spot, loan, rwa, c1, c2

MCPhases ==
    [s \in Source |->
       IF s = rwa THEN << [at |-> 1, collect |-> FALSE, status |-> "CLOSED"] >>
                  ELSE << >>]

MCVenue == {{spot, loan} \cap Source, {rwa} \cap Source} \ {{}}

Symmetric == Permutations({c1, c2})
=============================================================================
