------------------------------- MODULE Queries -------------------------------
(***************************************************************************)
(* What readers see of a store that others write: the mapping resolver,    *)
(* the asset listing and the change log.  The resolver reads in one        *)
(* transaction.  The other two read statement by statement, and each       *)
(* statement sees the last commit before it, so that a page can put        *)
(* together rows no single state held.                                     *)
(*                                                                         *)
(* Readers change nothing, so one reader at a time is every reader.  What  *)
(* the projections compute is Projection's; here a rebuild maps a market   *)
(* to any of the assets it can belong to.                                  *)
(***************************************************************************)
EXTENDS FiniteSets, Integers

CONSTANTS Market, Source, None,
          SourceOf,     \* SourceOf[m]: where m is collected from
          Venue, Kind,  \* of a source; Kind is "SPOT" or "FUTURE"
          Base,         \* Base[m]: base symbol of a market
          Assets,       \* Assets[m]: the assets m may be mapped to
          AskVenue,     \* a resolution's source venue,
          Basket,       \* its symbols
          Wanted,       \* and the markets its target filter admits while active
          Start,        \* stores that a behaviour may begin with
          MaxTime,      \* bound on the instants considered
          MaxWrites     \* bound on the commits of one behaviour

Time == 0 .. MaxTime
Asset == UNION {Assets[m] : m \in Market}
Symbol == {Base[m] : m \in Market}

\* A market with its mapping, and an ingest run.
Row == [active : BOOLEAN, seen : Time, first : Time, asset : Asset \cup {None}]
Run == [at : Time, status : {"SUCCEEDED", "PARTIAL", "FAILED"}]

\* Only runs bring markets, and ingest_runs keeps every run.
Sensible(st) ==
    /\ st \in [rows : [Market -> Row \cup {None}], latest : [Source -> Run \cup {None}],
              done : [Source -> Time \cup {None}]]
    /\ \A m \in Market : st.rows[m] # None => st.latest[SourceOf[m]] # None

ASSUME QueriesAssumption ==
    /\ IsFiniteSet(Market) /\ SourceOf \in [Market -> Source]
    /\ Kind \in [Source -> {"SPOT", "FUTURE"}]
    /\ Asset \cap Symbol = {}        \* asset ids are UUIDs
    /\ None \notin Row \cup Run \cup Time \cup Asset
    /\ Basket # {} /\ Wanted \subseteq Market
    /\ \A st \in Start : Sensible(st)
    /\ MaxTime \in Nat /\ MaxWrites \in Nat

VARIABLES rows,    \* markets with their mapping: [active, seen, first, asset]
          latest,  \* the newest ingest run of each source by started_at: [at, status]
          done,    \* the newest SUCCEEDED one's started_at
          writes,  \* number of commits
          page,    \* what is being read, and which statement is next
          view,    \* the state the resolver's transaction reads
          got,     \* what the statements so far returned
          \* History, for the properties only:
          during   \* the states the store has been in since the read began

store  == <<rows, latest, done>>
reader == <<page, view, got>>
vars   == <<store, writes, reader, during>>

Store == [rows |-> rows, latest |-> latest, done |-> done]

Empty == [rows |-> [m \in Market |-> None],
          latest |-> [s \in Source |-> None], done |-> [s \in Source |-> None]]

Init ==
    /\ \E st \in {Empty} \cup Start : rows = st.rows /\ latest = st.latest /\ done = st.done
    /\ writes = 0 /\ page = "none" /\ view = None /\ got = None /\ during = {}

-----------------------------------------------------------------------------
(* The writers *)

Writing ==
    /\ writes < MaxWrites /\ writes' = writes + 1
    /\ IF page \in {"none", "end"}
       THEN page' = "none" /\ got' = None /\ during' = {} /\ UNCHANGED view
       ELSE during' = during \cup {Store'} /\ UNCHANGED reader

\* started_at is when a snapshot was observed, here or at an exporter, so runs need
\* not arrive in its order.  Runs of one instant are ordered by a random run_id.
LogRun(s, at, status) ==
    LET run == [at |-> at, status |-> status]
    IN  \E last \in {run, latest[s]} :
          /\ latest[s] = None \/ latest[s].at < at => last = run
          /\ latest[s] # None /\ latest[s].at > at => last = latest[s]
          /\ latest' = [latest EXCEPT ![s] = last]
          /\ done' = IF status = "SUCCEEDED" THEN [done EXCEPT ![s] = at] ELSE done

\* apply_snapshot; a PARTIAL one takes no market away.
Commit(s, at, status) ==
    LET mine == {m \in Market : SourceOf[m] = s} IN
    /\ done[s] # None => at >= done[s]
    /\ LogRun(s, at, status)
    /\ \E said \in (SUBSET mine) \ {{}} : \E on \in SUBSET said :
         rows' = [m \in Market |->
           IF m \in said
           THEN [active |-> m \in on, seen |-> at,
                 first |-> IF rows[m] = None THEN at ELSE rows[m].first,
                 asset |-> IF rows[m] = None THEN None ELSE rows[m].asset]
           ELSE IF m \in mine /\ rows[m] # None /\ status = "SUCCEEDED"
           THEN [rows[m] EXCEPT !.active = FALSE] ELSE rows[m]]
    /\ Writing

Fail(s, at) == LogRun(s, at, "FAILED") /\ UNCHANGED rows /\ Writing

Rebuild ==
    /\ \E to \in [Market -> Asset] :
         /\ \A m \in Market : to[m] \in Assets[m]
         /\ rows' = [m \in Market |->
              IF rows[m] = None THEN None ELSE [rows[m] EXCEPT !.asset = to[m]]]
    /\ rows' # rows
    /\ UNCHANGED <<latest, done>> /\ Writing

-----------------------------------------------------------------------------
(* The resolver *)

Known(st) == {m \in Market : st.rows[m] # None}
Offered(st) == {m \in Known(st) : st.rows[m].active /\ st.rows[m].asset # None}

\* A market is fresh while the newest run of its source, whatever came of it, is a
\* SUCCEEDED one that listed it.
Stale(st, m) ==
    LET last == st.latest[SourceOf[m]]
    IN  last.status # "SUCCEEDED" \/ st.rows[m].seen < last.at

SourceRows(st) ==
    {[symbol |-> Base[m], asset |-> st.rows[m].asset, stale |-> Stale(st, m)] :
        m \in {n \in Offered(st) : Venue[SourceOf[n]] = AskVenue /\ Base[n] \in Basket}}

TargetRows(st, asked) ==
    {[asset |-> st.rows[m].asset, market |-> m, stale |-> Stale(st, m)] :
        m \in {n \in Offered(st) : n \in Wanted /\ st.rows[n].asset \in asked}}

\* The state a statement reads: BEGIN fixes it at the first one.
Seen_eachStatement(st) == Store
Seen(st) == st

Result(sources, targets, symbol) ==
    LET mine   == {r \in sources : r.symbol = symbol}
        found  == {r.asset : r \in mine}
        into   == {t \in targets : t.asset \in found}
        status == IF found = {} THEN "source_not_found"
                  ELSE IF Cardinality(found) > 1 THEN "ambiguous_source"
                  ELSE IF into = {} THEN "target_not_found"
                  ELSE IF Cardinality(into) > 1 THEN "ambiguous_target"
                  ELSE IF (\A r \in mine : r.stale) \/ (\E t \in into : t.stale) THEN "stale"
                  ELSE "resolved"
    IN  [status |-> status, markets |-> IF status \in {"stale", "resolved"}
                                        THEN {t.market : t \in into} ELSE {}]

Begin(what) ==
    /\ page \in {"none", "end"} /\ page' = what /\ view' = None /\ got' = None
    /\ during' = {Store} /\ UNCHANGED <<store, writes>>

\* The first statement of the transaction reads snapshot_revision.
ReadRevision ==
    /\ page = "resolve" /\ page' = "sources" /\ view' = Store
    /\ UNCHANGED <<store, writes, got, during>>

ReadSources ==
    /\ page = "sources" /\ page' = "targets" /\ got' = SourceRows(Seen(view))
    /\ UNCHANGED <<store, writes, view, during>>

Answer ==
    /\ page = "targets" /\ page' = "end" /\ view' = None
    /\ LET targets == TargetRows(Seen(view), {r.asset : r \in got})
       IN  got' = [answer |-> [symbol \in Basket |-> Result(got, targets, symbol)]]
    /\ UNCHANGED <<store, writes, during>>

-----------------------------------------------------------------------------
(* The asset listing: future coverage of an asset, of the supported venues *)

FutureVenues(st, a) ==
    {Venue[SourceOf[m]] : m \in {n \in Offered(st) :
                                   st.rows[n].asset = a /\ Kind[SourceOf[n]] = "FUTURE"}}

Complete(st) == {Venue[s] : s \in {t \in Source : Kind[t] = "FUTURE" /\ st.done[t] # None}}

ReadAssets ==
    /\ page = "assets" /\ page' = "supported"
    /\ got' = [covered |-> [a \in Asset |-> FutureVenues(Store, a)], complete |-> Complete(Store)]
    /\ UNCHANGED <<store, writes, view, during>>

Supported_offered(st) ==
    {Venue[SourceOf[m]] : m \in {n \in Offered(st) : Kind[SourceOf[n]] = "FUTURE"}}

\* While no futures universe is complete, every venue that has a future.
Supported(st) ==
    IF Complete(st) # {} THEN Complete(st)
    ELSE {Venue[SourceOf[m]] : m \in {n \in Known(st) : Kind[SourceOf[n]] = "FUTURE"}}

ReadSupported ==
    /\ page = "supported" /\ page' = "end"
    /\ got' = [covered |-> got.covered, complete |-> got.complete, supported |-> Supported(Store)]
    /\ UNCHANGED <<store, writes, view, during>>

-----------------------------------------------------------------------------
(* The change log: which discoveries are listings *)

\* COALESCE(asset_id, base_symbol)
AssetKey(st, m) == IF st.rows[m].asset # None THEN st.rows[m].asset ELSE Base[m]

LogKey(st, m) == <<Venue[SourceOf[m]], Kind[SourceOf[m]], AssetKey(st, m)>>

\* Every market has the DISCOVERED event of its insertion.
Events(st) ==
    {[market |-> m, key |-> LogKey(st, m), first |-> st.rows[m].first] : m \in Known(st)}

ReadEvents ==
    /\ page = "log" /\ page' = "earliest" /\ got' = Events(Store)
    /\ UNCHANGED <<store, writes, view, during>>

Grouped_offered(st) == Offered(st)
Grouped(st) == Known(st)

Earliest(st, key) ==
    {st.rows[m].first : m \in {n \in Grouped(st) : /\ LogKey(st, n) = key
                                 /\ \A o \in Grouped(st) : LogKey(st, o) = key
                                      => st.rows[n].first <= st.rows[o].first}}

\* A key with no earliest market is None < first_seen_at: the request fails.
LogPage ==
    /\ page = "earliest" /\ page' = "end"
    /\ got' = IF \E e \in got : Earliest(Store, e.key) = {}
              THEN [failed |-> TRUE, events |-> got, listed |-> {}]
              ELSE [failed |-> FALSE, events |-> got,
                    listed |-> {e.market : e \in {d \in got : \E t \in Earliest(Store, d.key) : t < d.first}}]
    /\ UNCHANGED <<store, writes, view, during>>

-----------------------------------------------------------------------------
Next ==
    \/ \E s \in Source, at \in Time :
         Commit(s, at, "SUCCEEDED") \/ Commit(s, at, "PARTIAL") \/ Fail(s, at)
    \/ Rebuild
    \/ \E what \in {"resolve", "assets", "log"} : Begin(what)
    \/ ReadRevision \/ ReadSources \/ Answer
    \/ ReadAssets \/ ReadSupported
    \/ ReadEvents \/ LogPage

Spec == Init /\ [][Next]_vars

-----------------------------------------------------------------------------
(* Properties *)

\* A market that the catalog confirmed: its source's newest run is complete and saw it.
Confirmed(st, m) ==
    /\ st.latest[SourceOf[m]].status = "SUCCEEDED"
    /\ st.rows[m].seen >= st.latest[SourceOf[m]].at

\* What a basket resolves to in one state: one asset of the symbol, one market of it,
\* and both confirmed.
ResolvesTo(st, symbol) ==
    LET asked(m) == m \in Offered(st) /\ Venue[SourceOf[m]] = AskVenue /\ Base[m] = symbol
    IN  {t \in Offered(st) \cap Wanted :
           /\ Confirmed(st, t)
           /\ \E m \in Market : asked(m) /\ Confirmed(st, m)
           /\ \A m \in Market : asked(m) => st.rows[m].asset = st.rows[t].asset
           /\ \A u \in Offered(st) \cap Wanted : st.rows[u].asset = st.rows[t].asset => u = t}

\* A whole basket is resolved in one state that the store was in while the request
\* ran, though collections and rebuilds commit between its statements.
BasketIsOfOneState ==
    page = "end" /\ got # None /\ "answer" \in DOMAIN got =>
        \E st \in during : \A symbol \in Basket :
            ResolvesTo(st, symbol) =
              IF got.answer[symbol].status = "resolved" THEN got.answer[symbol].markets ELSE {}

\* A venue that covers an asset is one the page says is supported, unless its futures
\* universe was never complete and another venue's is.
CoverageIsPossible ==
    page = "end" /\ got # None /\ "supported" \in DOMAIN got =>
        \A a \in Asset : \A v \in got.covered[a] \ got.supported :
            v \notin got.complete /\ Complete(Store) # {}

\* A market of an asset that its venue already had one of.
HasEarlier(st, m) ==
    \E n \in Known(st) : LogKey(st, n) = LogKey(st, m) /\ st.rows[n].first < st.rows[m].first

\* The change log fails only when a rebuild gave a discovered market another key
\* between two of its statements.  Otherwise what it says is true of one state of
\* the store: a discovery is a listing when its group had an earlier market there.
LogFailsOnlyByRemap ==
    page = "end" /\ got # None /\ "failed" \in DOMAIN got =>
        \/ \E e \in got.events : \E st \in during :
             st.rows[e.market] # None /\ LogKey(st, e.market) # e.key
        \/ /\ ~got.failed
           /\ \E st \in during : \A e \in got.events :
                /\ st.rows[e.market] # None
                /\ e.market \in got.listed <=> HasEarlier(st, e.market)
=============================================================================
