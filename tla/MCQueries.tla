----------------------------- MODULE MCQueries -----------------------------
(***************************************************************************)
(* A spot market and two futures in the venue that is asked about, and a   *)
(* future in another one.  Two of the futures can belong to the asset of   *)
(* the spot market or to that of the third, and both can be targets; the   *)
(* third is a second market of its asset in its venue, or the first.       *)
(***************************************************************************)
EXTENDS Queries

CONSTANTS x, fy, hy, gx

MCSourceOf == [m \in Market |-> IF m = x THEN "SPOT" ELSE IF m = gx THEN "F2" ELSE "F1"]
MCVenue == [s \in Source |-> IF s = "F2" THEN "V2" ELSE "V1"]
MCKind == [s \in Source |-> IF s = "SPOT" THEN "SPOT" ELSE "FUTURE"]
MCBase == [m \in Market |-> IF m \in {fy, hy} THEN "Y" ELSE "X"]
MCAssets == [m \in Market |-> IF m = x THEN {"a"} ELSE IF m = hy THEN {"b"} ELSE {"a", "b"}]

\* Everything collected at 0 and mapped, gx with the spot market; the universe of gx
\* in full or in part.
MCStart ==
    {[rows |-> [m \in Market |-> [active |-> TRUE, seen |-> 0, first |-> 0, asset |-> to[m]]],
      latest |-> [s \in Source |->
                   [at |-> 0, status |-> IF s = "F2" /\ ~whole THEN "PARTIAL" ELSE "SUCCEEDED"]],
      done |-> [s \in Source |-> IF s = "F2" /\ ~whole THEN None ELSE 0]] :
        to \in {f \in [Market -> Asset] : f[gx] = "a" /\ \A m \in Market : f[m] \in Assets[m]}, whole \in BOOLEAN}
=============================================================================
