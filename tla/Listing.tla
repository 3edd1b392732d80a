-------------------------------- MODULE Listing --------------------------------
(***************************************************************************)
(* The filters of the asset and of the market listing, the metadata that   *)
(* tells which values they take, and the filters of the change log.        *)
(* Markets are filtered in SQL, whose comparisons with an absent value are *)
(* unknown; assets are filtered afterwards, from three tables read one     *)
(* after the other while others commit, and their financing is read once   *)
(* more for the page.  The log filters twice: its collection runs in SQL,  *)
(* and then the changes of those runs, read by later statements.           *)
(*                                                                         *)
(* The eight dimensions of a market are treated alike, so that a few stand *)
(* for all.  A symbol pattern is known by the names it matches; one with   *)
(* ? or [ matches differently in the two listings and is not modelled.     *)
(* Pages hold everything: LIMIT and OFFSET cut what is computed here.      *)
(***************************************************************************)
EXTENDS FiniteSets, Integers, Sequences

CONSTANTS Market, Asset, Tag, None,
          Columns,      \* the dimensions, in the order of the metadata
          Dim,          \* Dim[m][d]: a value, or None where the column is NULL
          Contract,     \* Contract[m]: "SPOT", "PERP" or "DATED"
          Raw, Base,    \* symbols of a market
          Canonical,    \* of an asset
          Matches,      \* Matches[p]: the names that pattern p matches
          Stock,        \* assets that are
          Provider,     \* Provider[t]: the venue that tag t comes from
          Loan,         \* financing offers: [asset, key, role], the key "VENUE:PRODUCT"
          Query,        \* the requests considered, of markets and assets
          LogQuery,     \* and of the log
          Start,        \* stores that a behaviour may begin with
          MaxWrites,    \* bound on the commits of one behaviour
          MaxDay        \* the last day of a request without one

Dimension == {Columns[i] : i \in DOMAIN Columns}    \* with "type", "venue" and "expiry"
Venue == {Dim[m]["venue"] : m \in Market}
Value(d) == {Dim[m][d] : m \in Market} \ {None}
Names == [m \in Market |-> {Raw[m], Base[m]}]

\* A dated future may have a cycle, an alias names one.
CycleOf == [CQ |-> "Q", NQ |-> "BQ"]

\* A change of an asset's tag; others are of a market.
OfTag(e) == e.kind \in {"ADDED", "REMOVED"}

\* Only futures expire, and every symbol is a text.
SensibleCatalog ==
    /\ Contract \in [Market -> {"SPOT", "PERP", "DATED"}]
    /\ \A m \in Market : Dim[m]["expiry"] # None => Dim[m]["type"] = "FUTURE"
    /\ \A m \in Market : None \notin Names[m]
    /\ \A a \in Asset : Canonical[a] # None
    /\ None \notin Asset \union {"SPOT", "PERP", "DATED", "Q", "BQ"}

SensibleStore(st) ==
    /\ st.rows \in [Market -> [active : BOOLEAN, asset : Asset \union {None}]]
    /\ IsFiniteSet(DOMAIN st.runs)
    /\ \A e \in st.log : e.day \in Int /\ (OfTag(e) \/ e.of \in Market)

\* A request asks for values, and for products of futures; one of the log for days.
SensibleQuery(q) ==
    /\ \A d \in Dimension : None \notin q.in[d] \union q.out[d]
    /\ q.contract \union q.contractNot \subseteq {"PERP", "DATED"} \union DOMAIN CycleOf
    /\ IsFiniteSet(q.symbol)
SensibleLogQuery(q) == q.from \in Int /\ q.to \in Int

\* The metadata has a key for every dimension, beside its other ones.
ASSUME ListingAssumption ==
    /\ {"type", "venue", "expiry"} \subseteq Dimension
    /\ Columns \in Seq(Dimension)
    /\ \A i, j \in DOMAIN Columns : Columns[i] = Columns[j] => i = j
    /\ Dimension \intersect {"futures", "tags", "financing", "markets", "assets", "changes"} = {}
    /\ Stock \subseteq Asset /\ MaxWrites \in Nat /\ MaxDay \in Nat
    /\ SensibleCatalog
    /\ \A st \in Start : SensibleStore(st)
    /\ \A q \in Query : SensibleQuery(q)
    /\ \A q \in LogQuery : SensibleLogQuery(q)

VARIABLES rows,     \* of each market: [active, asset], the asset None before a rebuild
          tags,     \* the active ones: <<asset, tag>>
          loans,    \* the offers that are active and eligible
          complete, \* venues whose futures universe has been collected completely
          runs,     \* the venues of each collection run
          log,      \* of changes: [run, day, kind, of], of a market or an asset's tag
          writes,
          page,     \* what is being read, and which statement is next
          query,    \* the request
          got,      \* what the statements so far returned
          \* History, for the properties only:
          during    \* the states the store has been in since the read began

catalog == <<rows, tags, loans, complete>>
store == <<catalog, runs, log>>
reader == <<page, query, got>>
listingVars == <<store, writes, reader, during>>

Store == [rows |-> rows, tags |-> tags, loans |-> loans, complete |-> complete,
          runs |-> runs, log |-> log]

ListingInit ==
    /\ \E st \in Start : /\ rows = st.rows /\ tags = st.tags
                         /\ loans = st.loans /\ complete = st.complete
                         /\ runs = st.runs /\ log = st.log
    /\ writes = 0 /\ page = "none" /\ query = None /\ got = None /\ during = {}

-----------------------------------------------------------------------------
(* The writers: a collection, a rebuild of the mappings, one of the tags. *)

Writing ==
    /\ writes < MaxWrites /\ writes' = writes + 1
    /\ page # "end" /\ during' = IF page = "none" THEN {} ELSE during \union {Store'}
    /\ UNCHANGED reader

\* Collection runs are numbered in their order.  A commit is of the last one or begins
\* another, whose changes are of a day of their own.
LastRun == Cardinality(DOMAIN runs) - 1
Run(run, venue) ==
    /\ runs' = [r \in DOMAIN runs \union {run} |->
                  (IF r \in DOMAIN runs THEN runs[r] ELSE {}) \union (IF r = run THEN {venue} ELSE {})]
Change(run, kind, of) == [run |-> run, day |-> run, kind |-> kind, of |-> of]

Collect(m, run) ==
    /\ rows' = [rows EXCEPT ![m].active = ~@]
    /\ complete' \in {complete, complete \union {Dim[m]["venue"]}}
    /\ Contract[m] = "SPOT" => complete' = complete
    /\ Run(run, Dim[m]["venue"])
    /\ log' = log \union {Change(run, IF rows[m].active THEN "MISSING" ELSE "ACTIVATED", m)}
    /\ UNCHANGED <<tags, loans>> /\ Writing

\* A collection that changes nothing.
Confirm(venue, run) == Run(run, venue) /\ UNCHANGED <<catalog, log>> /\ Writing

Finance(loan) ==
    /\ loans' = IF loan \in loans THEN loans \ {loan} ELSE loans \union {loan}
    /\ UNCHANGED <<rows, tags, complete, runs, log>> /\ Writing

Remap(m, a) ==
    /\ rows[m].asset # a /\ rows' = [rows EXCEPT ![m].asset = a]
    /\ UNCHANGED <<tags, loans, complete, runs, log>> /\ Writing

\* Of the run that was collected last, whatever its venue.
Retag(tag) ==
    /\ tags' = IF tag \in tags THEN tags \ {tag} ELSE tags \union {tag}
    /\ log' = log \union {Change(LastRun, IF tag \in tags THEN "REMOVED" ELSE "ADDED", tag)}
    /\ UNCHANGED <<rows, loans, complete, runs>> /\ Writing

-----------------------------------------------------------------------------
(* The market listing: one statement, whose WHERE keeps what is true. *)

Not(t) == CASE t = "true" -> "false" [] t = "false" -> "true" [] t = "unknown" -> "unknown"
Or(ts) == IF "true" \in ts THEN "true" ELSE IF "unknown" \in ts THEN "unknown" ELSE "false"
And(ts) == Not(Or({Not(t) : t \in ts}))
In(x, values) == IF x = None THEN "unknown" ELSE IF x \in values THEN "true" ELSE "false"

OfContract(m, values) ==
    Or({In(Contract[m], values \intersect {"PERP", "DATED"})} \union
       {And({In(Contract[m], {"DATED"}), In(Dim[m]["expiry"], {CycleOf[alias]})}) :
           alias \in values \intersect DOMAIN CycleOf})

Like(st, m, p) ==
    LET a == st.rows[m].asset
    IN  Or({In(name, Matches[p]) : name \in Names[m]}
           \union {IF a = None THEN "unknown" ELSE In(Canonical[a], Matches[p])})

\* A value that is absent is not an excluded one.
Passes_notIn(m, d, values) == Not(In(Dim[m][d], values)) = "true"
Passes(m, d, values) == Dim[m][d] = None \/ Not(In(Dim[m][d], values)) = "true"

ActiveFilter(active, q) ==
    IF q.active = {} /\ q.activeNot = {} THEN active
    ELSE (q.active # {} => active \in q.active) /\ active \notin q.activeNot

Tagged(st, m) == {t \in Tag : <<st.rows[m].asset, t>> \in st.tags}

\* The clauses are joined by AND, one for every pattern.
MarketList(st, q) ==
    {m \in Market :
        /\ \A d \in Dimension : q.in[d] # {} => In(Dim[m][d], q.in[d]) = "true"
        /\ \A d \in Dimension : q.out[d] # {} => Passes(m, d, q.out[d])
        /\ q.contract # {} => OfContract(m, q.contract) = "true"
        /\ q.contractNot # {} => Not(OfContract(m, q.contractNot)) = "true"
        /\ ActiveFilter(st.rows[m].active, q)
        /\ \A p \in q.symbol : Like(st, m, p) = "true"
        /\ \A p \in q.symbolNot : Not(Like(st, m, p)) = "true"
        /\ q.tags \subseteq Tagged(st, m) /\ q.tagsNot \intersect Tagged(st, m) = {}}

\* What was read before does not matter: a behaviour has one request, after any commits.
Ask(what, q) ==
    /\ page = "none" /\ page' = what /\ query' = q /\ got' = <<>>
    /\ during' = {Store} /\ UNCHANGED <<store, writes>>

ReadMarkets ==
    /\ page = "markets" /\ page' = "end" /\ got' = [markets |-> MarketList(Store, query)]
    /\ UNCHANGED <<store, writes, query, during>>

-----------------------------------------------------------------------------
(* The asset listing. *)

\* The active markets of the assets one of which a pattern matches.
ReadRows ==
    /\ page = "assets" /\ page' = "tags"
    /\ LET mapped == {m \in Market : rows[m].active /\ rows[m].asset # None}
           like == {rows[m].asset : m \in {n \in mapped :
                       \E p \in query.symbol : Like(Store, n, p) = "true"}}
       IN  got' = [rows |-> {[market |-> m, asset |-> rows[m].asset] : m \in
                      {n \in mapped : query.symbol # {} => rows[n].asset \in like}}]
    /\ UNCHANGED <<store, writes, query, during>>

ReadTags ==
    /\ page = "tags" /\ page' = "financing" /\ got' = [rows |-> got.rows, tags |-> tags]
    /\ UNCHANGED <<store, writes, query, during>>

MatchesContract(m, values) ==
    \/ Contract[m] \in values
    \/ Contract[m] = "DATED" /\ \E alias \in values \intersect DOMAIN CycleOf :
                                   Dim[m]["expiry"] = CycleOf[alias]

MatchesIncluded(m, q) ==
    /\ q.contract # {} => MatchesContract(m, q.contract)
    /\ \A d \in Dimension : q.in[d] # {} => Dim[m][d] \in q.in[d]

MatchesSymbol(a, of, patterns) ==
    \E p \in patterns, name \in {Canonical[a]} \union UNION {Names[m] : m \in of} :
        name \in Matches[p]

Borrowable_anyRole(offers, a) == {l.key : l \in {k \in offers : k.asset = a}}
Borrowable(offers, a) == {l.key : l \in {k \in offers : k.asset = a /\ k.role = "BORROWABLE"}}

\* A filter of markets is met by one market for all its dimensions, and fails by any.
\* Coverage is that of the futures which meet it.
Listed(a, of, q, taken, offers) ==
    LET ownTags  == {t \in Tag : <<a, t>> \in taken}
        keys     == Borrowable(offers, a)
        matching == {m \in of : MatchesIncluded(m, q)}
        futures  == {m \in matching : Dim[m]["type"] = "FUTURE"}
        venues   == {Dim[m]["venue"] : m \in futures}
    IN  /\ of # {}
        /\ q.financing \subseteq keys /\ q.financingNot \intersect keys = {}
        /\ q.tags \subseteq ownTags /\ q.tagsNot \intersect ownTags = {}
        /\ q.stock # {} => (a \in Stock) \in q.stock
        /\ (a \in Stock) \notin q.stockNot
        /\ ~\E m \in of : MatchesContract(m, q.contractNot)
        /\ ~\E m \in of, d \in Dimension : Dim[m][d] \in q.out[d]
        /\ (q.contract # {} \/ \E d \in Dimension : q.in[d] # {}) => matching # {}
        /\ q.contract \union q.futures \union q.futuresNot # {} => futures # {}
        /\ q.futures \subseteq venues /\ q.futuresNot \intersect venues = {}
        /\ q.symbol # {} => MatchesSymbol(a, of, q.symbol)
        /\ ~MatchesSymbol(a, of, q.symbolNot)

\* One venue cannot be required and excluded.
Refused(q) == q.futures \intersect q.futuresNot # {}

ReadFinancing ==
    /\ page = "financing" /\ page' = IF Refused(query) THEN "end" ELSE "details"
    /\ LET of(a) == {r.market : r \in {s \in got.rows : s.asset = a}}
       IN  got' = IF Refused(query) THEN [refused |-> TRUE]
                  ELSE [rows |-> got.rows, tags |-> got.tags, loans |-> loans,
                        assets |-> {a \in Asset : Listed(a, of(a), query, got.tags, loans)}]
    /\ UNCHANGED <<store, writes, query, during>>

\* The financing that the page shows.
ReadDetails ==
    /\ page = "details" /\ page' = "end"
    /\ got' = [rows |-> got.rows, tags |-> got.tags, loans |-> got.loans, assets |-> got.assets,
               shown |-> [a \in got.assets |-> {l \in loans : l.asset = a}]]
    /\ UNCHANGED <<store, writes, query, during>>

-----------------------------------------------------------------------------
(* The metadata, a statement for every kind of value. *)

Active == {m \in Market : rows[m].active}

\* Of expiries, as of other futures' dimensions, only those of futures.
Offered_anyRow(d) == Value(d)
Offered(d) ==
    {Dim[m][d] : m \in {n \in Active : d = "expiry" => Dim[n]["type"] = "FUTURE"}} \ {None}

FutureVenues ==
    IF complete # {} THEN complete
    ELSE {Dim[m]["venue"] : m \in {n \in Active : Dim[n]["type"] = "FUTURE"}}

Kinds == <<"futures", "tags", "financing">> \o Columns

Values(kind) ==
    CASE kind = "futures" -> FutureVenues
      [] kind = "tags" -> {t \in Tag : \E a \in Asset : <<a, t>> \in tags}
      [] kind = "financing" -> {l.key : l \in {k \in loans : k.role = "BORROWABLE"}}
      [] OTHER -> Offered(kind)

ReadValues ==
    /\ page = "metadata"
    /\ LET next == Cardinality(DOMAIN got) + 1
           kind == Kinds[next]
       IN  /\ got' = [k \in DOMAIN got \union {kind} |->
                          IF k = kind THEN Values(kind) ELSE got[k]]
           /\ page' = IF next = Len(Kinds) THEN "end" ELSE page
    /\ UNCHANGED <<store, writes, query, during>>

-----------------------------------------------------------------------------
(* The change log. *)

KindOf == [LISTING |-> "DISCOVERED", REMOVAL |-> "MISSING",
           TAG_ADDED |-> "ADDED", TAG_REMOVED |-> "REMOVED"]
AnyChange == [venue |-> None, action |-> None, tag |-> None, symbol |-> None, product |-> None,
              from |-> 0, to |-> MaxDay, changed |-> FALSE]
VenueOf(e) == IF OfTag(e) THEN Provider[e.of[2]] ELSE Dim[e.of]["venue"]

\* "SESSION" is a status change within a session, which releases before this one wrote.
Changed(st) == {e \in st.log : e.kind # "SESSION"}

\* Filters that no change can meet together.
Contradicts(q) ==
    \/ q.tag # None /\ (q.symbol # None \/ q.product # None)
    \/ q.tag # None /\ q.action \in {"LISTING", "REMOVAL"}
    \/ q.action \in {"TAG_ADDED", "TAG_REMOVED"} /\ (q.symbol # None \/ q.product # None)
    \/ q.from > q.to

\* Whether changes are filtered, and not only runs by their venue.
Filters(q) == q.changed \/ [q EXCEPT !.venue = None, !.changed = FALSE] # AnyChange

\* What both filters ask of a change of a market or of a tag.
Common(e, q) ==
    /\ q.action # None => e.kind = KindOf[q.action]
    /\ q.venue # None => VenueOf(e) = q.venue
    /\ e.day \in q.from .. q.to

SelectsMarket_anyVenue(st, e, q) ==
    /\ ~OfTag(e) /\ q.tag = None /\ Common(e, [q EXCEPT !.venue = None])
    /\ q.symbol # None => Like(st, e.of, q.symbol) = "true"
    /\ q.product # None => Contract[e.of] = q.product
SelectsMarket(st, e, q) ==
    /\ ~OfTag(e) /\ q.tag = None /\ Common(e, q)
    /\ q.symbol # None => Like(st, e.of, q.symbol) = "true"
    /\ q.product # None => Contract[e.of] = q.product

SelectsTag(e, q) ==
    /\ OfTag(e) /\ q.symbol = None /\ q.product = None /\ Common(e, q)
    /\ q.tag # None => e.of[2] = q.tag

\* The WHERE of the runs.
Selected(st, q) ==
    {run \in DOMAIN st.runs :
        /\ q.venue # None => q.venue \in st.runs[run]
        /\ q.changed => \E e \in st.log : e.run = run
        /\ Filters(q) => \E e \in st.log : e.run = run /\ (SelectsMarket(st, e, q) \/ SelectsTag(e, q))}

CountRuns ==
    /\ page = "log" /\ page' = IF Contradicts(query) THEN "end" ELSE "runs"
    /\ got' = IF Contradicts(query) THEN [refused |-> TRUE]
              ELSE [count |-> Cardinality(Selected(Store, query))]
    /\ UNCHANGED <<store, writes, query, during>>

ReadRuns ==
    /\ page = "runs" /\ page' = "changes"
    /\ got' = [count |-> got.count, runs |-> Selected(Store, query)]
    /\ UNCHANGED <<store, writes, query, during>>

\* The name a market's change is shown under: of its asset, as it is mapped now.
Shown(m) == IF rows[m].asset = None THEN Base[m] ELSE Canonical[rows[m].asset]

\* selected_change, over what a change shows.
Keeps(e, names, product, q) ==
    /\ Common(e, q)
    /\ q.tag # None => OfTag(e) /\ e.of[2] = q.tag
    /\ q.symbol # None => names \intersect Matches[q.symbol] # {}
    /\ q.product # None => product = q.product

ReadChanges ==
    /\ page = "changes" /\ page' = IF got.runs = {} THEN "end" ELSE "tagged"
    /\ got' = [count |-> got.count, runs |-> got.runs, changes |->
                 {e \in Changed(Store) :
                     /\ ~OfTag(e) /\ e.run \in got.runs
                     /\ Filters(query) =>
                            Keeps(e, {Shown(e.of), Raw[e.of]}, Contract[e.of], query)}]
    /\ UNCHANGED <<store, writes, query, during>>

ReadTagged ==
    /\ page = "tagged" /\ page' = "end"
    /\ got' = [got EXCEPT !.changes = @ \union
                 {e \in Changed(Store) :
                     /\ OfTag(e) /\ e.run \in got.runs
                     /\ Filters(query) => Keeps(e, {Canonical[e.of[1]]}, None, query)}]
    /\ UNCHANGED <<store, writes, query, during>>

-----------------------------------------------------------------------------
ListingNext ==
    \/ \E run \in {LastRun, LastRun + 1} :
           \/ \E m \in Market : Collect(m, run)
           \/ \E venue \in Venue : Confirm(venue, run)
    \/ \E m \in Market, a \in Asset : Remap(m, a)
    \/ \E loan \in Loan : Finance(loan)
    \/ \E tag \in Asset \X Tag : Retag(tag)
    \/ \E q \in Query : Ask("markets", q) \/ Ask("assets", q)
    \/ Ask("metadata", None) \/ \E q \in LogQuery : Ask("log", q)
    \/ ReadMarkets \/ ReadRows \/ ReadTags \/ ReadFinancing \/ ReadDetails \/ ReadValues
    \/ CountRuns \/ ReadRuns \/ ReadChanges \/ ReadTagged

ListingSpec == ListingInit /\ [][ListingNext]_listingVars

-----------------------------------------------------------------------------
(* Properties *)

NoFilter ==
    [in |-> [d \in Dimension |-> {}], out |-> [d \in Dimension |-> {}],
     contract |-> {}, contractNot |-> {}, active |-> {}, activeNot |-> {},
     symbol |-> {}, symbolNot |-> {}, tags |-> {}, tagsNot |-> {},
     stock |-> {}, stockNot |-> {}, financing |-> {}, financingNot |-> {},
     futures |-> {}, futuresNot |-> {}]

\* What the filters of assets mean, in terms of single filters of markets.
Meant(st, q) ==
    LET of(markets) == {st.rows[m].asset : m \in markets}
        some(f)     == of(MarketList(st, f))
        included    == MarketList(st, [NoFilter EXCEPT !.in = q.in, !.contract = q.contract])
        futures(a)  == {Dim[m]["venue"] : m \in {n \in included :
                           st.rows[n].asset = a /\ Dim[n]["type"] = "FUTURE"}}
        keys(a)     == {l.key : l \in {k \in st.loans : k.asset = a /\ k.role = "BORROWABLE"}}
    IN  {a \in of(included) \ {None} :
           /\ \A d \in Dimension : \A v \in q.out[d] : a \notin some([NoFilter EXCEPT !.in[d] = {v}])
           /\ \A c \in q.contractNot : a \notin some([NoFilter EXCEPT !.contract = {c}])
           /\ q.symbol # {} => \E p \in q.symbol : a \in some([NoFilter EXCEPT !.symbol = {p}])
           /\ \A p \in q.symbolNot : a \notin some([NoFilter EXCEPT !.symbol = {p}])
           /\ a \in some([NoFilter EXCEPT !.tags = q.tags])
           /\ \A t \in q.tagsNot : a \notin some([NoFilter EXCEPT !.tags = {t}])
           /\ q.stock # {} => (a \in Stock) \in q.stock
           /\ (a \in Stock) \notin q.stockNot
           /\ q.financing \subseteq keys(a) /\ q.financingNot \intersect keys(a) = {}
           /\ q.futures \subseteq futures(a) /\ q.futuresNot \intersect futures(a) = {}
           /\ q.contract \union q.futures \union q.futuresNot # {} => futures(a) # {}}

\* An asset page lists what its filters mean, taken from the two endpoints' common
\* vocabulary, of rows, tags and financing that the store held while it was read, though
\* not necessarily at once.  The financing it shows meets the filter, unless that changed.
AssetsMeanTheirFilters ==
    page = "end" /\ got # None /\ "assets" \in DOMAIN got =>
        /\ \E r, t, l \in during :
               got.assets = Meant([r EXCEPT !.tags = t.tags, !.loans = l.loans], query)
        /\ \A a \in got.assets :
               \/ query.financing \subseteq {o.key : o \in {s \in got.shown[a] : s.role = "BORROWABLE"}}
               \/ \E s, t \in during : s.loans # t.loans

\* A filter without absent values in the way: the markets that have an included value in
\* every dimension and no excluded one.
Admitted(st, q) ==
    {m \in Market :
        /\ \A d \in Dimension : (q.in[d] # {} => Dim[m][d] \in q.in[d]) /\ Dim[m][d] \notin q.out[d]
        /\ q.contract # {} => MatchesContract(m, q.contract)
        /\ ~MatchesContract(m, q.contractNot)
        /\ ActiveFilter(st.rows[m].active, q)
        /\ LET names == Names[m] \union {Canonical[a] : a \in {st.rows[m].asset} \ {None}}
               met(patterns) == \E p \in patterns : names \intersect Matches[p] # {}
           IN  (q.symbol # {} => met(q.symbol)) /\ ~met(q.symbolNot)
        /\ q.tags \subseteq Tagged(st, m) /\ q.tagsNot \intersect Tagged(st, m) = {}}

\* A market page lists only what its filters admit, and all of it but for three cases:
\* several patterns, a pattern excluded for a market without an asset, and a cycle excluded
\* for a dated future that publishes none.
MarketsMeanTheirFilters ==
    page = "end" /\ got # None /\ "markets" \in DOMAIN got =>
        \E st \in during :
            /\ got.markets \subseteq Admitted(st, query)
            /\ \A m \in Admitted(st, query) \ got.markets :
                  \/ Cardinality(query.symbol) > 1
                  \/ query.symbolNot # {} /\ st.rows[m].asset = None
                  \/ /\ query.contractNot \intersect DOMAIN CycleOf # {}
                     /\ Contract[m] = "DATED" /\ Dim[m]["expiry"] = None

\* The metadata offers exactly the values of a dimension that a market page lists, and all
\* that an asset page lists while the metadata is read, but for a futures venue that was
\* never collected completely when another one was.
MetadataOffers ==
    page = "end" /\ got # None /\ "futures" \in DOMAIN got =>
        LET lists(q) == \A st \in during : Meant(st, q) # {}
        IN  /\ \A d \in Dimension : \E st \in during :
                  got[d] = {v \in Value(d) : MarketList(st, [NoFilter EXCEPT !.in[d] = {v}]) # {}}
            /\ \A v \in Venue : lists([NoFilter EXCEPT !.futures = {v}]) =>
                  v \in got.futures \/ \E st \in during : st.complete # {} /\ v \notin st.complete
            /\ \A t \in Tag : lists([NoFilter EXCEPT !.tags = {t}]) => t \in got.tags
            /\ \A l \in Loan : lists([NoFilter EXCEPT !.financing = {l.key}]) => l.key \in got.financing

\* What a filter of the log says of a change.
Meets(st, e, q) ==
    LET asset == st.rows[e.of].asset
        names == Names[e.of] \union {Canonical[a] : a \in {asset} \ {None}}
    IN  /\ q.action # None => e.kind = KindOf[q.action]
        /\ q.venue # None => VenueOf(e) = q.venue
        /\ q.tag # None => OfTag(e) /\ e.of[2] = q.tag
        /\ q.product # None => ~OfTag(e) /\ Contract[e.of] = q.product
        /\ q.symbol # None => ~OfTag(e) /\ names \intersect Matches[q.symbol] # {}
        /\ q.from <= e.day /\ e.day <= q.to

\* The two filters of the log agree.  The runs of a page are, as its count, those of one
\* state that have a change that meets the filter (or one of a session).  It shows of them
\* no change that does not, and leaves out none that does, but for three cases: a tag is
\* shown for a symbol, beside a market's change; a base symbol is matched in the runs and
\* not in the changes; and a rebuild that maps a market anew between the two.
LogMeansItsFilter ==
    page = "end" /\ got # None /\ "changes" \in DOMAIN got =>
        LET meant(st) == {run \in DOMAIN st.runs :
                /\ query.venue # None => query.venue \in st.runs[run]
                /\ Filters(query) => \E e \in st.log : e.run = run /\ Meets(st, e, query)}
            all == UNION {Changed(st) : st \in during}
            byBase(e) == query.symbol # None /\ Base[e.of] \in Matches[query.symbol]
        IN  /\ \E st \in during : got.runs = meant(st)
            /\ \E st \in during : got.count = Cardinality(meant(st))
            /\ ~Filters(query) => \E st \in during :
                   {e \in Changed(st) : e.run \in got.runs} \subseteq got.changes
            /\ Filters(query) => \A e \in got.changes :
                   \/ \E st \in during : Meets(st, e, query)
                   \/ query.symbol # None /\ OfTag(e)
            /\ Filters(query) => \A e \in all :
                   /\ e.run \in got.runs
                   /\ \A st \in during : e \in st.log /\ Meets(st, e, query)
                   => e \in got.changes \/ byBase(e)
=============================================================================
