---------------------------- MODULE MCProjection ----------------------------
(***************************************************************************)
(* Two venues.  The first trades P, a thousand P (kP) and a token xA that  *)
(* hints at A; the second trades A, a share, and AS, which is A with the   *)
(* suffix STOCK.  The first lends P and kP, the second A.                  *)
(***************************************************************************)
EXTENDS Projection

CONSTANTS p, kp, xa, a, as, finP, finK, finA

MCVenue == [m \in Market |-> IF m \in {a, as} THEN "V2" ELSE "V1"]
MCKind == [m \in Market |-> IF m \in {p, as} THEN "SPOT" ELSE "FUTURE"]
MCUnit == [s \in Symbol |-> IF s = "kP" THEN "P" ELSE None]
MCStrip == [s \in Symbol |-> IF s = "AS" THEN "A" ELSE None]

Plain(symbol, active) ==
    [symbol |-> symbol, active |-> active, stock |-> FALSE, hints |-> <<>>, tags |-> {}]
Hint == [to |-> "A", displayed |-> TRUE, venues |-> {"V2"}]

MCOffers == [m \in Market |->
    CASE m = p  -> {Plain("P", TRUE), Plain("Q", TRUE)}
      [] m = kp -> {Plain("kP", TRUE)}
      [] m = xa -> {[Plain("xA", TRUE) EXCEPT !.stock = TRUE, !.hints = <<Hint>>]}
      [] m = a  -> {[Plain("A", act) EXCEPT !.stock = TRUE, !.tags = {"T"}] : act \in BOOLEAN}
      [] m = as -> {Plain("AS", TRUE)}]

MCStart == {[m \in Market |-> None], [m \in Market |-> CHOOSE o \in MCOffers[m] : o.active]}

MCOverride == {<<"V2", "AS">>, <<None, "A">>}

MCFinVenue == [f \in Product |-> IF f = finA THEN "V2" ELSE "V1"]
MCFinSymbol == [f \in Product |-> CASE f = finA -> "A" [] f = finP -> "P" [] f = finK -> "kP"]

MCTerms == {[eligible |-> TRUE, status |-> "ENABLED"], [eligible |-> FALSE, status |-> "DISABLED"]}
=============================================================================
