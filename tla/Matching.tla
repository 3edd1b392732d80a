------------------------------ MODULE Matching ------------------------------
(***************************************************************************)
(* Which canonical symbol a market stands for, and how sure that is: the   *)
(* decisions of matching.py and of one rebuild, as operators over the      *)
(* markets as listed (rows) and the enabled manual actions (over).  A      *)
(* canonical symbol stands for its asset, whose id is a hash of it.        *)
(***************************************************************************)
EXTENDS Integers, Sequences, FiniteSets, FiniteSetsExt

CONSTANTS Market, Symbol, None,
          Venue, Kind,        \* of a market: its venue, and "SPOT" or "FUTURE"
          Unit, Strip         \* of a symbol: without a unit prefix, without STOCK, or None

ASSUME MatchingAssumption ==
    /\ None \notin Symbol
    /\ Kind \in [Market -> {"SPOT", "FUTURE"}]
    /\ Unit \in [Symbol -> Symbol \cup {None}]
    /\ Strip \in [Symbol -> Symbol \cup {None}]
    /\ \A s \in Symbol : Unit[s] # s /\ Strip[s] # s

ListedIn(rows) == {m \in Market : rows[m] # None}

\* The symbols any market trades under, and those of active futures of venue v.
Exact(rows) == {rows[m].symbol : m \in ListedIn(rows)}
Futures(rows, v) ==
    {m \in ListedIn(rows) : Venue[m] = v /\ Kind[m] = "FUTURE" /\ rows[m].active}
Trades(rows, v, s) == \E m \in Futures(rows, v) : rows[m].symbol = s
TradesStock(rows, v, s) == \E m \in Futures(rows, v) : rows[m].symbol = s /\ rows[m].stock

\* An alias that a provider hints at needs all five corroborations.
Checks(rows, m, hint) ==
    << hint.displayed, rows[m].stock, hint.venues # {},
       \E v \in hint.venues : Trades(rows, v, hint.to),
       \E v \in hint.venues : TradesStock(rows, v, hint.to) >>

Percent(checks) == (Cardinality({i \in DOMAIN checks : checks[i]}) * 100) \div Len(checks)

HintAccepted(rows, m, hint) ==
    LET checks == Checks(rows, m, hint) IN \A i \in DOMAIN checks : checks[i]

\* Every rule that says something about m, with what it proposes.
Proposal(rule, to, accepted, score) ==
    [rule |-> rule, to |-> to, accepted |-> accepted, score |-> score]

UnitProposals(rows, m) ==
    LET s == Unit[rows[m].symbol] IN
    IF s = None THEN {}
    ELSE {Proposal("UNIT", s, s \in Exact(rows), IF s \in Exact(rows) THEN 95 ELSE 50)}

AliasProposals(rows, m) ==
    {LET h == rows[m].hints[i]
     IN Proposal("ALIAS", h.to, HintAccepted(rows, m, h), Percent(Checks(rows, m, h)))
       : i \in DOMAIN rows[m].hints}

SuffixProposals(rows, m) ==
    IF Strip[rows[m].symbol] = None THEN {} ELSE {Proposal("SUFFIX", Strip[rows[m].symbol], TRUE, 100)}

Proposals(rows, m) == UnitProposals(rows, m) \cup AliasProposals(rows, m) \cup SuffixProposals(rows, m)

Evidence(rows, m) == Max({p.score : p \in {q \in Proposals(rows, m) : q.accepted}} \cup {0})

Choice(symbol, rule) == [symbol |-> symbol, rule |-> rule]

\* Later rules win: the exact symbol, a unit prefix, the last accepted hint, the suffix.
Policy(rows, m) ==
    LET hints == {i \in DOMAIN rows[m].hints : HintAccepted(rows, m, rows[m].hints[i])}
    IN  IF Strip[rows[m].symbol] # None THEN Choice(Strip[rows[m].symbol], "SUFFIX")
        ELSE IF hints # {} THEN Choice(rows[m].hints[Max(hints)].to, "ALIAS")
        ELSE IF Unit[rows[m].symbol] \in Exact(rows) THEN Choice(Unit[rows[m].symbol], "UNIT")
        ELSE Choice(rows[m].symbol, "EXACT")

Decide_renameRaw(rows, over, m) ==
    LET map    == over[<<Venue[m], rows[m].symbol>>]
        rename == over[<<None, rows[m].symbol>>]
    IN  IF map # None THEN Choice(map, "MANUAL_MAP")
        ELSE IF rename # None THEN Choice(rename, "MANUAL_RENAME")
        ELSE Policy(rows, m)

\* over maps the keys of manual actions to targets: <<venue, raw symbol>> of
\* MAP_SYMBOL and <<None, canonical symbol>> of RENAME_ASSET.
Decide(rows, over, m) ==
    LET policy == Policy(rows, m)
        map    == over[<<Venue[m], rows[m].symbol>>]
        rename == over[<<None, policy.symbol>>]
    IN  IF map # None THEN Choice(map, "MANUAL_MAP")
        ELSE IF rename # None THEN Choice(rename, "MANUAL_RENAME")
        ELSE policy

\* What the markets of one canonical symbol say about each other.
Paired(members) ==
    \E m, n \in members : Venue[m] = Venue[n] /\ Kind[m] = "SPOT" /\ Kind[n] = "FUTURE"

Group(members) ==
    IF Paired(members) THEN "SAME_VENUE_SPOT_FUTURE"
    ELSE IF Cardinality({Venue[m] : m \in members}) > 1 THEN "CROSS_VENUE"
    ELSE "SYMBOL_ONLY"

GroupConfidence(group) ==
    CASE group = "SAME_VENUE_SPOT_FUTURE" -> 97
      [] group = "CROSS_VENUE"            -> 85
      [] group = "SYMBOL_ONLY"            -> 65

Confidence(rule, group, evidence) ==
    IF rule \in {"MANUAL_MAP", "MANUAL_RENAME", "SUFFIX"} THEN 100
    ELSE IF rule = "EXACT" THEN GroupConfidence(group)
    ELSE Min({Max({GroupConfidence(group), evidence}), 99})

\* The mapping of every listed market.
Mapped(rows, over) ==
    LET chosen == {[market |-> m, choice |-> Decide(rows, over, m)] : m \in ListedIn(rows)}
        members(s) == {c.market : c \in {d \in chosen : d.choice.symbol = s}}
    IN  {LET group == Group(members(c.choice.symbol))
         IN  [market |-> c.market, asset |-> c.choice.symbol, rule |-> c.choice.rule, group |-> group,
              confidence |-> Confidence(c.choice.rule, group, Evidence(rows, c.market))]
           : c \in chosen}
=============================================================================
