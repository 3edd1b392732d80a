------------------------------- MODULE MCListing -------------------------------
(***************************************************************************)
(* A spot market and a dated future of an asset in one venue, and a dated  *)
(* future whose cycle is published and a perpetual one in another venue.   *)
(* Every filter is asked by itself, and those that act on each other       *)
(* together.                                                               *)
(***************************************************************************)
EXTENDS Listing

CONSTANTS s, d, q, p, one, two

MCColumns == <<"venue", "expiry", "type">>

MCDim ==
    [m \in Market |->
        [venue |-> IF m \in {s, d} THEN "V1" ELSE "V2",
         type |-> IF m = s THEN "SPOT" ELSE "FUTURE",
         expiry |-> IF m = q THEN "Q" ELSE None]]
MCContract == [m \in Market |-> IF m = s THEN "SPOT" ELSE IF m = p THEN "PERP" ELSE "DATED"]
MCRaw == [m \in Market |-> IF m = q THEN "XQ" ELSE "X"]
MCBase == [m \in Market |-> "X"]
MCProvider == [t \in Tag |-> "V1"]
MCCanonical == [x \in Asset |-> IF x = one THEN "A" ELSE "B"]
MCMatches == [X |-> {"X", "XQ"}, E |-> {"X"}, Q |-> {"XQ"}, A |-> {"A"}]
MCLoan == {[asset |-> x, key |-> "V1:LOAN", role |-> r] :
               x \in {one, None}, r \in {"BORROWABLE", "COLLATERAL"}}

In_(dim, values) == [NoFilter EXCEPT !.in[dim] = values]
Out(dim, values) == [NoFilter EXCEPT !.out[dim] = values]
MCQuery ==
    {NoFilter, In_("venue", {"V1"}), In_("expiry", {"Q"}), Out("venue", {"V1"}), Out("expiry", {"Q"}),
     [In_("venue", {"V1"}) EXCEPT !.in["type"] = {"FUTURE"}],
     [In_("venue", {"V1"}) EXCEPT !.contract = {"CQ", "PERP"}],
     [NoFilter EXCEPT !.contract = {"DATED"}], [NoFilter EXCEPT !.contractNot = {"CQ"}],
     [NoFilter EXCEPT !.contractNot = {"PERP"}],
     [NoFilter EXCEPT !.symbol = {"Q"}], [NoFilter EXCEPT !.symbol = {"Q", "A"}],
     [NoFilter EXCEPT !.symbolNot = {"A"}], [NoFilter EXCEPT !.symbolNot = {"Q"}],
     [NoFilter EXCEPT !.tags = Tag], [NoFilter EXCEPT !.tagsNot = Tag],
     [NoFilter EXCEPT !.stock = {TRUE}], [NoFilter EXCEPT !.stockNot = {TRUE}],
     [NoFilter EXCEPT !.financing = {"V1:LOAN"}], [NoFilter EXCEPT !.financingNot = {"V1:LOAN"}],
     [NoFilter EXCEPT !.futures = {"V1", "V2"}], [NoFilter EXCEPT !.futuresNot = {"V1"}],
     [In_("expiry", {"Q"}) EXCEPT !.futuresNot = {"V1"}],
     [NoFilter EXCEPT !.futures = {"V1"}, !.futuresNot = {"V1"}],
     [NoFilter EXCEPT !.active = BOOLEAN], [NoFilter EXCEPT !.activeNot = {TRUE}]}

MCLogQuery ==
    {AnyChange, [AnyChange EXCEPT !.changed = TRUE], [AnyChange EXCEPT !.venue = "V1"],
     [AnyChange EXCEPT !.venue = "V2", !.changed = TRUE],
     [AnyChange EXCEPT !.venue = "V2", !.action = "REMOVAL"],
     [AnyChange EXCEPT !.action = "LISTING"], [AnyChange EXCEPT !.action = "TAG_REMOVED"],
     [AnyChange EXCEPT !.tag = "SEED"], [AnyChange EXCEPT !.product = "DATED"],
     [AnyChange EXCEPT !.product = "SPOT", !.action = "REMOVAL"],
     [AnyChange EXCEPT !.symbol = "E"], [AnyChange EXCEPT !.symbol = "A"],
     [AnyChange EXCEPT !.symbol = "Q", !.product = "DATED"],
     [AnyChange EXCEPT !.to = 0], [AnyChange EXCEPT !.from = 1, !.to = 2],
     [AnyChange EXCEPT !.from = 2, !.to = 1], [AnyChange EXCEPT !.tag = "SEED", !.symbol = "A"]}

\* The first collection ran over midnight; the second is of a release that logged the
\* status changes of a session.
MCRuns == [run \in 0 .. 1 |-> IF run = 0 THEN Venue ELSE {"V2"}]
MCLog(known) ==
    {[Change(0, "DISCOVERED", m) EXCEPT !.day = IF m \in {s, d} THEN 0 ELSE 1] : m \in Market}
    \union {Change(1, "SESSION", q)}
    \union {[Change(0, "ADDED", t) EXCEPT !.day = 1] : t \in IF known THEN {one} \X Tag ELSE {}}

\* Everything is active.  The perpetual future awaits the rebuild, or is the other asset's
\* in a store without tags, financing and a complete universe.
MCStart ==
    {[rows |-> [m \in Market |-> [active |-> TRUE, asset |-> IF m # p THEN one
                                                           ELSE IF known THEN None ELSE two]],
      tags |-> IF known THEN {one} \X Tag ELSE {}, loans |-> IF known THEN MCLoan ELSE {},
      complete |-> IF known THEN {"V2"} ELSE {}, runs |-> MCRuns, log |-> MCLog(known)] :
        known \in BOOLEAN}
=============================================================================
