----------------------------- MODULE Projection -----------------------------
(***************************************************************************)
(* The projections of the catalog: market mappings and their revisions,    *)
(* match candidates, unit multipliers, financing products with their       *)
(* events, financing mappings, and asset tags.  Each action is one         *)
(* transaction.  The API, manual actions and collections of other          *)
(* processes rebuild at any time, and a process can die between two of     *)
(* its transactions, so nothing but the lease orders them.                 *)
(***************************************************************************)
EXTENDS Matching, SequencesExt, Functions

CONSTANTS Offers,       \* Offers[m]: what a snapshot may say of market m
          Source,       \* Source[m]: where m is collected from
          Start,        \* catalogs nothing has been projected from yet
          Override,     \* keys of manual actions that operators use
          Target,       \* and the symbols they map them to
          Product,      \* financing products
          FinVenue, FinSymbol, FinSource,
          Terms,        \* what a financing snapshot may say of a product
          MaxChanges    \* bound on changes of markets, actions and products

Rules  == {"EXACT", "UNIT", "ALIAS", "SUFFIX", "MANUAL_MAP", "MANUAL_RENAME"}
Groups == {"SAME_VENUE_SPOT_FUTURE", "CROSS_VENUE", "SYMBOL_ONLY"}

Status == {"ENABLED", "DISABLED"}

\* The rows of the tables market_asset_mappings, financing_asset_mappings and financing_products.
MappingRow    == [market : Market, asset : Symbol, rule : Rules, group : Groups, confidence : Nat]
FinMappingRow == [asset : Symbol, exact : BOOLEAN, confidence : Nat]
ProductRow    == [active : BOOLEAN, eligible : BOOLEAN, status : Status]

ASSUME ProjectionAssumption ==
    /\ Override \subseteq (({Venue[m] : m \in Market} \cup {None}) \X Symbol)
    /\ IsFiniteSet(Market)
    /\ Start \subseteq [Market -> (UNION {Offers[m] : m \in Market}) \cup {None}]
    /\ \A r \in Start : \A m \in Market : r[m] \in Offers[m] \cup {None}
    /\ \A m \in Market : \A r \in Offers[m] :
          /\ r # None /\ r.symbol \in Symbol
          /\ \A i \in DOMAIN r.hints : r.hints[i].to \in Symbol
          /\ DOMAIN r.hints = 1 .. Len(r.hints) /\ Len(r.hints) \in Nat
    /\ Terms \subseteq [eligible : BOOLEAN, status : Status]
    /\ None \notin BOOLEAN /\ None \notin Status \cup {"MISSING"}
    /\ None \notin MappingRow /\ None \notin FinMappingRow /\ None \notin ProductRow
    /\ Target \subseteq Symbol
    /\ FinSymbol \in [Product -> Symbol]
    /\ MaxChanges \in Nat

Key == ({Venue[m] : m \in Market} \cup {None}) \X Symbol
Tag == UNION {UNION {r.tags : r \in Offers[m]} : m \in Market}

VARIABLES rows,        \* markets: what the last snapshot said of each
          over,        \* the target of each manual action that is in force
          mapping, revisions, candidates, unit,
          assets,      \* asset -> is_stock
          product,     \* financing_products
          finLog,      \* financing_lifecycle_events
          finMapping, finRevisions,
          tags, tagLog,
          changes,
          \* History, for the properties only:
          read,        \* rows and actions as the last market rebuild read them
          snapped,     \* a snapshot was applied since
          behind       \* markets or their mappings changed since the financing mappings were rebuilt

catalog   == <<rows, over>>
markets   == <<mapping, revisions, candidates, assets, read>>
history   == <<snapped, behind>>
financing == <<product, finLog>>
finMapped == <<finMapping, finRevisions>>
tagging   == <<tags, tagLog>>
vars == <<catalog, markets, unit, financing, finMapped, tagging, changes, history>>

Init ==
    /\ rows \in Start /\ over = [k \in Key |-> None]
    /\ mapping = [m \in Market |-> None] /\ revisions = [m \in Market |-> <<>>]
    /\ candidates = [m \in Market |-> {}]
    /\ unit = [m \in Market |-> rows[m] # None /\ Unit[rows[m].symbol] # None]
    /\ assets = << >>
    /\ product = [f \in Product |-> None] /\ finLog = [f \in Product |-> <<>>]
    /\ finMapping = [f \in Product |-> None] /\ finRevisions = [f \in Product |-> <<>>]
    /\ tags = {} /\ tagLog = [k \in Symbol \X Tag |-> <<>>]
    /\ changes = 0 /\ read = [rows |-> rows, over |-> over]
    /\ snapped = TRUE /\ behind = FALSE

Changing == changes < MaxChanges /\ changes' = changes + 1

-----------------------------------------------------------------------------
(* What the projections are computed from *)

\* apply_snapshot writes the multiplier of the symbol, whatever its mapping and
\* whether or not the snapshot says anything new.
ObserveMarkets(s) ==
    LET mine == {m \in Market : Source[m] = s} IN
    \E said \in (SUBSET mine) \ {{}} : \E news \in [said -> UNION {Offers[m] : m \in said}] :
        /\ \A m \in said : news[m] \in Offers[m]
        /\ rows' = [m \in Market |-> IF m \in said THEN news[m] ELSE rows[m]]
        /\ unit' = [m \in Market |-> IF m \in said THEN Unit[news[m].symbol] # None ELSE unit[m]]
        /\ snapped' = TRUE /\ behind' = TRUE
        /\ Changing /\ UNCHANGED <<over, markets, financing, finMapped, tagging>>

\* An operator's action takes effect or is withdrawn; ManualActions has the rest.
ActOn(k) ==
    /\ \E target \in (Target \cup {None}) \ {over[k]} : over' = [over EXCEPT ![k] = target]
    /\ Changing /\ UNCHANGED <<rows, markets, unit, financing, finMapped, tagging, history>>

Event(type, old, new) == [type |-> type, old |-> old, new |-> new]

EligibilityEvents(was, now) ==
    IF was.eligible = now.eligible THEN <<>>
    ELSE <<Event("ELIGIBILITY_CHANGED", was.eligible, now.eligible)>>
StatusEvents(was, now) ==
    IF was.status = now.status THEN <<>>
    ELSE <<Event("STATUS_CHANGED", was.status, now.status)>>

SeenEvents_neverMissing(was, now) ==
    IF was = None THEN <<Event("DISCOVERED", None, now.status)>>
    ELSE EligibilityEvents(was, now) \o StatusEvents(was, now)

\* The events of a product that was (None: never seen) and is now said to be.
SeenEvents(was, now) ==
    IF was = None THEN <<Event("DISCOVERED", None, now.status)>>
    ELSE IF ~was.active THEN <<Event("ACTIVATED", "MISSING", now.status)>>
    ELSE EligibilityEvents(was, now) \o StatusEvents(was, now)

MissingEvents(was) ==
    IF was = None THEN <<>>
    ELSE IF was.active THEN <<Event("MISSING", was.status, "MISSING")>> ELSE <<>>

Active(terms) == [active |-> TRUE, eligible |-> terms.eligible, status |-> terms.status]

\* One complete universe of a financing source; an empty one is refused.
ApplyFinancing(s) ==
    LET mine == {f \in Product : FinSource[f] = s} IN
    \E seen \in (SUBSET mine) \ {{}} : \E terms \in [seen -> Terms] :
        /\ product' = [f \in Product |->
             IF f \in seen THEN Active(terms[f])
             ELSE IF f \in mine /\ product[f] # None THEN [product[f] EXCEPT !.active = FALSE]
             ELSE product[f]]
        /\ finLog' = [f \in Product |->
             IF f \in seen THEN finLog[f] \o SeenEvents(product[f], terms[f])
             ELSE IF f \in mine THEN finLog[f] \o MissingEvents(product[f])
             ELSE finLog[f]]
        /\ Changing /\ UNCHANGED <<catalog, markets, unit, finMapped, tagging, history>>

-----------------------------------------------------------------------------
(* The rebuilds *)

Revised_onlyNew(log, was, now) == IF was = None THEN Append(log, now) ELSE log

Revised(log, was, now) == IF was = now THEN log ELSE Append(log, now)

Evaluated_first(m) ==
    candidates[m] \cup {p \in Proposals(rows, m) :
                          \A q \in candidates[m] : q.rule # p.rule \/ q.to # p.to}

\* Candidates are updated by market, symbol and rule, never removed.
Evaluated(m) ==
    LET new == Proposals(rows, m)
    IN  {p \in candidates[m] : \A q \in new : q.rule # p.rule \/ q.to # p.to} \cup new

Multiplied_prefix(rule, symbol) == Unit[symbol] # None
Multiplied(rule, symbol) == rule = "UNIT"

RebuildMarkets ==
    LET now   == Mapped(rows, over)
        of(m) == CHOOSE r \in now : r.market = m
        named == {r.asset : r \in now}
        stock(a) == \E r \in now : r.asset = a /\ rows[r.market].stock
    IN  /\ mapping' = [m \in Market |-> IF rows[m] = None THEN None ELSE of(m)]
        /\ revisions' = [m \in Market |->
             IF rows[m] = None THEN <<>> ELSE Revised(revisions[m], mapping[m], of(m))]
        /\ candidates' = [m \in Market |-> IF rows[m] = None THEN {} ELSE Evaluated(m)]
        /\ unit' = [m \in Market |-> rows[m] # None /\ Multiplied(of(m).rule, rows[m].symbol)]
        /\ assets' = [a \in DOMAIN assets \cup named |->
             IF a \in named THEN stock(a) ELSE assets[a]]
        /\ read' = [rows |-> rows, over |-> over] /\ snapped' = FALSE /\ behind' = TRUE
        /\ UNCHANGED <<catalog, financing, finMapped, tagging, changes>>

\* A financing symbol matches itself and itself with, or without, STOCK.
Spellings(s) ==
    {s} \cup (IF Strip[s] # None THEN {Strip[s]} ELSE {t \in Symbol : Strip[t] = s})

\* The markets of its venue it could stand for, the exact spelling first.
Candidates(f, spellings) ==
    {m \in Market : /\ mapping[m] # None /\ Venue[m] = FinVenue[f]
                    /\ rows[m].symbol \in spellings}

Options(f) == {mapping[m].asset : m \in Candidates(f, Spellings(FinSymbol[f]))}

Takes_any(f) ==
    LET all == Candidates(f, Spellings(FinSymbol[f]))
    IN  IF all = {} THEN {None}
        ELSE {[asset |-> mapping[m].asset, exact |-> rows[m].symbol = FinSymbol[f],
               confidence |-> mapping[m].confidence] : m \in all}

\* Only a single asset is taken.  Of several markets of it the scan's last counts.
Takes(f) ==
    LET exact == Candidates(f, {FinSymbol[f]})
        all   == Candidates(f, Spellings(FinSymbol[f]))
    IN  IF Cardinality(Options(f)) # 1 THEN {None}
        ELSE {[asset |-> mapping[m].asset, exact |-> exact # {}, confidence |-> mapping[m].confidence]
                : m \in IF exact # {} THEN exact ELSE all}

RebuildFinancing ==
    \E choice \in [Product -> UNION {Takes(f) : f \in Product}] :
        LET now == [f \in Product |->
                      IF product[f] # None /\ product[f].active THEN choice[f] ELSE None]
        IN  /\ \A f \in Product : choice[f] \in Takes(f)
            /\ finMapping' = now
            /\ finRevisions' = [f \in Product |->
                 IF now[f] = None THEN finRevisions[f]
                 ELSE Revised(finRevisions[f], finMapping[f], now[f])]
            /\ behind' = FALSE
            /\ UNCHANGED <<catalog, markets, unit, financing, tagging, changes, snapped>>

Desired ==
    UNION {{<<mapping[m].asset, t>> : t \in rows[m].tags}
             : m \in {n \in Market : mapping[n] # None /\ rows[n].active}}

TagEvents_firstTime(k) ==
    IF k \in Desired /\ tagLog[k] = <<>> THEN <<"ADDED">>
    ELSE IF k \in tags \ Desired THEN <<"REMOVED">> ELSE <<>>

TagEvents(k) ==
    IF k \in Desired \ tags THEN <<"ADDED">> ELSE IF k \in tags \ Desired THEN <<"REMOVED">> ELSE <<>>

\* Only a collection rebuilds tags, after the market rebuild and under the lease
\* that snapshots need too.
RebuildTags ==
    /\ ~snapped
    /\ tags' = Desired
    /\ tagLog' = [k \in Symbol \X Tag |-> tagLog[k] \o TagEvents(k)]
    /\ UNCHANGED <<catalog, markets, unit, financing, finMapped, changes, history>>

Next ==
    \/ \E s \in {Source[m] : m \in Market} : ObserveMarkets(s)
    \/ \E k \in Override : ActOn(k)
    \/ \E s \in {FinSource[f] : f \in Product} : ApplyFinancing(s)
    \/ RebuildMarkets \/ RebuildFinancing \/ RebuildTags

Spec == Init /\ [][Next]_vars

-----------------------------------------------------------------------------
(* Properties *)

\* The revisions of a market are the history of its mappings without a repetition, and
\* the last one is the mapping in force; so is the last of a product that is mapped (it
\* may have been unmapped in between, which leaves no revision).
RevisionsExplain ==
    /\ \A m \in Market :
         /\ mapping[m] = None <=> revisions[m] = <<>>
         /\ mapping[m] # None => Last(revisions[m]) = mapping[m]
         /\ \A i \in 1 .. Len(revisions[m]) - 1 : revisions[m][i] # revisions[m][i + 1]
    /\ \A f \in Product :
         finMapping[f] # None => finRevisions[f] # <<>> /\ Last(finRevisions[f]) = finMapping[f]

\* A renamed symbol is nobody's asset any more, whichever policy leads to it,
\* unless an operator maps to it.
RenameIsComplete ==
    \A m \in Market : mapping[m] # None /\ read.over[<<None, mapping[m].asset>>] # None =>
        mapping[m].rule \in {"MANUAL_MAP", "MANUAL_RENAME"}

\* The markets of one asset agree on the evidence they are for each other, those
\* that are no longer offered included, and a mapping by a policy has the accepted
\* candidate it rests on.
MappingsAgree ==
    /\ \A m, n \in Market : mapping[m] # None /\ mapping[n] # None =>
         (mapping[m].asset = mapping[n].asset => mapping[m].group = mapping[n].group)
    /\ \A m \in Market : mapping[m] # None /\ mapping[m].rule \in {"UNIT", "ALIAS", "SUFFIX"} =>
         \E p \in candidates[m] :
            p.rule = mapping[m].rule /\ p.to = mapping[m].asset /\ p.accepted

\* The thousand of a unit prefix is counted once, in the symbol or in the multiplier: a
\* market that has a multiplier is mapped to the symbol without the prefix, and one that
\* the rules map there has it.  (Between a snapshot and the rebuild it may count twice; an
\* action or an accepted hint leaves no multiplier, db.py:1803 and 1837.)
UnitCountsOnce ==
    ~snapped => \A m \in Market : mapping[m] # None =>
        /\ unit[m] => mapping[m].asset = Unit[rows[m].symbol]
        /\ (mapping[m].asset = Unit[rows[m].symbol] /\ mapping[m].rule \in {"EXACT", "UNIT"})
             => unit[m]

\* Once rebuilt after the markets, financing of an asset is financing of the one
\* asset its symbol has in its venue, though products come and go and actions change.
FinancingFollows ==
    ~behind => \A f \in Product : finMapping[f] # None => Options(f) = {finMapping[f].asset}

\* What the events of a product, each starting where the one before left off,
\* say of it at the end.
Follows(told, e) ==
    IF e.type = "ELIGIBILITY_CHANGED" THEN e.old # e.new /\ told.eligible \in {None, e.old}
                                      ELSE e.old # e.new /\ told.status = e.old
Telling(told, e) ==
    IF e.type = "ELIGIBILITY_CHANGED" THEN [told EXCEPT !.eligible = e.new]
    ELSE IF e.type = "STATUS_CHANGED" THEN [told EXCEPT !.status = e.new]
    ELSE [status |-> e.new, eligible |-> None]
ToldBy(log) ==
    LET told[i \in 0 .. Len(log)] ==
          IF i = 0 THEN [status |-> None, eligible |-> None] ELSE Telling(told[i - 1], log[i])
    IN  told

\* The events of a financing product replay to its row, without a jump: its status
\* or MISSING, and its eligibility if it has changed since the product last appeared.
FinancingLogExplains ==
    \A f \in Product :
        LET told == ToldBy(finLog[f])
            last == told[Len(finLog[f])]
        IN  /\ \A i \in 1 .. Len(finLog[f]) : Follows(told[i - 1], finLog[f][i])
            /\ product[f] = None => finLog[f] = <<>>
            /\ product[f] # None =>
                 /\ last.status = IF product[f].active THEN product[f].status ELSE "MISSING"
                 /\ last.eligible \in {None, product[f].eligible}

\* A tag is added and removed in turn, and in force after an addition.
TagLogExplains ==
    \A k \in Symbol \X Tag :
        /\ \A i \in DOMAIN tagLog[k] : tagLog[k][i] = IF i % 2 = 1 THEN "ADDED" ELSE "REMOVED"
        /\ k \in tags <=> Len(tagLog[k]) % 2 = 1
=============================================================================
