------------------------------ MODULE Catalog ------------------------------
(***************************************************************************)
(* The market catalog of the SQLite store: what one transaction of the     *)
(* single writer does to the rows of `markets`, to `ingest_runs` and to    *)
(* the log of `market_lifecycle_events`, when it applies a provider        *)
(* snapshot, retires a source or records a failed fetch.                   *)
(*                                                                         *)
(* Snapshots reach the store from the collector of this host and from      *)
(* bundles exported elsewhere and imported later, so the observation time  *)
(* of one is any instant, not the instant it is applied.                   *)
(***************************************************************************)
EXTENDS Lifecycle

CONSTANTS
    Market,     \* market_id
    SourceOf,   \* the source that publishes a market
    Snapshots,  \* Snapshots[s]: the snapshots s can publish, as functions
                \* from the markets they list to reports
    Scope,      \* provider-defined absence cohorts
    NoScope,    \* the market belongs to none
    MaxTime,    \* bound on the instants considered
    MaxRuns     \* bound on the runs of one behaviour

Time == 0 .. MaxTime

Session == {"NONE", "OPEN", "CLOSED"}   \* trading_schedule.session_status; no schedule

\* What a validated record says of its market.
Report == [status: Status, active: BOOLEAN, session: Session, scope: Scope \cup {NoScope}]

\* A snapshot lists markets of its source, and at least one: validate()
\* refuses an empty one.
ASSUME CatalogAssumption ==
    /\ SourceOf \in [Market -> Source]
    /\ NoScope \notin Scope
    /\ \A s \in Source : \A snapshot \in Snapshots[s] :
         /\ DOMAIN snapshot # {}
         /\ \A m \in DOMAIN snapshot : SourceOf[m] = s /\ snapshot[m] \in Report
    /\ MaxTime \in Nat
    /\ MaxRuns \in Nat

VARIABLES
    rows,   \* markets: the current row of each market
    runs,   \* ingest_runs, in commit order
    told    \* market_lifecycle_events, folded: the status and activity its events leave

vars == <<rows, runs, told>>

\* "NONE" is the status of a market without a row.
Row == [status: Status \cup {"NONE"}, active: BOOLEAN,
        scope: Scope \cup {NoScope}, seen: Nat]

NoRow == [status |-> "NONE", active |-> FALSE, scope |-> NoScope, seen |-> 0]

\* A row gone dark keeps what was last observed of it.
Dark(row, status) == [status |-> status, active |-> FALSE,
                      scope  |-> row.scope, seen |-> row.seen]

Known(m) == rows[m].status # "NONE"

MarketsOf(s) == { m \in Market : SourceOf[m] = s }

\* ingest_runs: what a committed transaction says of its snapshot.
Run == [source: Source, at: Time, status: {"SUCCEEDED", "PARTIAL", "FAILED"}]

-----------------------------------------------------------------------------
\* Availability of a market, from what its provider reports.

Terminal == {"CLOSE_ONLY", "DELISTING", "DELIVERING", "SETTLING", "CLOSED", "MISSING"}

\* A closed trading session pauses a listed market, it does not end it.
ListedStatus(report) ==
    IF report.session = "CLOSED" /\ report.status = "CLOSED" THEN "PAUSED"
                                                              ELSE report.status

ListedActive_anySchedule(report) == report.active \/ report.session # "NONE"

ListedActive(report) ==
    /\ ListedStatus(report) \notin Terminal
    /\ report.active \/ report.session # "NONE"

Listed(report, t) == [status |-> ListedStatus(report), active |-> ListedActive(report),
                      scope  |-> report.scope, seen |-> t]

\* Opening and closing hours are not lifecycle events.
Hours == {"TRADING", "PAUSED", "UNKNOWN"}

SessionOnly(m, report) ==
    /\ report.session # "NONE"
    /\ rows[m].status \in Hours
    /\ ListedStatus(report) \in Hours

-----------------------------------------------------------------------------
\* Absence.

SeenScopes(snapshot) == { snapshot[m].scope : m \in DOMAIN snapshot }

Unseen(s, snapshot) == { m \in MarketsOf(s) \ DOMAIN snapshot : rows[m].active }

CohortAbsent_anyMember(s, snapshot, m) == rows[m].scope # NoScope

\* A whole cohort that is missing says the provider left it out of this
\* response, not that its markets ended.
CohortAbsent(s, snapshot, m) ==
    /\ rows[m].scope # NoScope
    /\ rows[m].scope \notin SeenScopes(snapshot)
    /\ \E n \in Unseen(s, snapshot) \ {m} : rows[n].scope = rows[m].scope

Gone_whateverQuarantined(s, snapshot, quarantined) ==
    { m \in Unseen(s, snapshot) : ~CohortAbsent(s, snapshot, m) }

\* The active markets a snapshot takes away by not listing them.
Gone(s, snapshot, quarantined) ==
    IF quarantined THEN {}
    ELSE { m \in Unseen(s, snapshot) : ~CohortAbsent(s, snapshot, m) }

-----------------------------------------------------------------------------
Init ==
    /\ rows = [m \in Market |-> NoRow]
    /\ runs = << >>
    /\ told = [m \in Market |-> [status |-> "NONE", active |-> FALSE]]

\* The ingest run of a transaction, as its commit leaves it: apply_snapshot
\* inserts it RUNNING and completes it before the commit.
LogRun(s, t, status) ==
    runs' = Append(runs, [source |-> s, at |-> t, status |-> status])

Relogged_statusOnly(m, report) ==
    LET new == [status |-> ListedStatus(report), active |-> ListedActive(report)]
    IN  IF ~Known(m) THEN new
        ELSE [told[m] EXCEPT !.status = IF SessionOnly(m, report) THEN @ ELSE new.status]

\* The events apply_snapshot logs for a listed market.
Relogged(m, report) ==
    LET new == [status |-> ListedStatus(report), active |-> ListedActive(report)]
    IN  IF ~Known(m) THEN new                                         \* DISCOVERED
        ELSE IF SessionOnly(m, report) THEN told[m]
        ELSE [status |-> IF rows[m].status # new.status THEN new.status  \* STATUS_CHANGED
                                                        ELSE told[m].status,
              active |-> IF rows[m].active # new.active THEN new.active  \* (DE)ACTIVATED
                                                        ELSE told[m].active]

Effective_whenDecided(s, decided, at, report) == Restricted(s, decided, report)

\* The lifecycle phase that restricts a snapshot is the one at its
\* observation; the one that decided to fetch it was read when the
\* collection began.
Effective(s, decided, at, report) == Restricted(s, at, report)

OrderOk_lastRunOnly(s, at) ==
    \A i \in DOMAIN runs :
      i = Len(runs) /\ runs[i].source = s /\ runs[i].status = "SUCCEEDED" => runs[i].at <= at

\* _assert_snapshot_order: against the newest SUCCEEDED run of the source.
OrderOk(s, at) ==
    \A i \in DOMAIN runs :
      runs[i].source = s /\ runs[i].status = "SUCCEEDED" => runs[i].at <= at

\* The instants at which a collection that observes s at `at` can have begun.
Fetched(s, at) == { t \in Time : t <= at /\ Collectable(s, t) }

\* _collect_unlocked and _apply_collection_bundle_unlocked hand one valid,
\* non-empty snapshot of a source to apply_snapshot. `quarantined` says that
\* some of its records were refused and became issues.
ApplySnapshot(s, decided, at, snapshot, quarantined) ==
    LET report(m) == Effective(s, decided, at, snapshot[m])
        gone      == Gone(s, snapshot, quarantined)
    IN  /\ decided \in Fetched(s, at)
        /\ OrderOk(s, at)
        /\ LogRun(s, at, IF quarantined THEN "PARTIAL" ELSE "SUCCEEDED")
        /\ rows' = [m \in Market |->
                      IF m \in DOMAIN snapshot THEN Listed(report(m), at)
                      ELSE IF m \in gone THEN Dark(rows[m], "MISSING")
                      ELSE rows[m]]
        /\ told' = [m \in Market |->
                      IF m \in DOMAIN snapshot THEN Relogged(m, report(m))
                      ELSE IF m \in gone THEN [status |-> "MISSING", active |-> FALSE]
                      ELSE told[m]]

\* The rows source_has_unretired_markets and apply_source_lifecycle select.
Unretired(s, status) == { m \in MarketsOf(s) : Known(m) /\ rows[m].status # status }

\* apply_source_lifecycle, for a source whose phase no longer collects.
RetireSource(s, at) ==
    LET status   == PhaseAt(s, at).status
        retiring == Unretired(s, status)
    IN  /\ ~Collectable(s, at)
        /\ retiring # {}
        /\ OrderOk(s, at)
        /\ LogRun(s, at, "SUCCEEDED")
        /\ rows' = [m \in Market |->
                      IF m \in retiring THEN Dark(rows[m], status) ELSE rows[m]]
        /\ told' = [m \in Market |->
                      IF m \in retiring
                      THEN [status |-> status,
                            active |-> IF rows[m].active THEN FALSE ELSE told[m].active]
                      ELSE told[m]]

\* record_failed_run for a source whose fetch or snapshot was refused.
RecordFailure(s, at) ==
    /\ LogRun(s, at, "FAILED")
    /\ UNCHANGED <<rows, told>>

Next ==
    /\ Len(runs) < MaxRuns
    /\ \E s \in Source, at \in Time :
         \/ \E decided \in Fetched(s, at), snapshot \in Snapshots[s], quarantined \in BOOLEAN :
              ApplySnapshot(s, decided, at, snapshot, quarantined)
         \/ RetireSource(s, at)
         \/ RecordFailure(s, at)

Spec == Init /\ [][Next]_vars

-----------------------------------------------------------------------------
TypeOK ==
    /\ rows \in [Market -> Row]
    /\ runs \in Seq(Run)
    /\ told \in [Market -> [status: Status \cup {"NONE"}, active: BOOLEAN]]

\* A market the catalog offers is in no terminal status, whichever of a
\* snapshot, a restriction, an absence or a retirement wrote its row last
\* (market_availability, apply_snapshot, apply_source_lifecycle).
ActiveIsNotTerminal ==
    \A m \in Market : rows[m].active => rows[m].status \notin Terminal \cup {"NONE"}

\* The lifecycle log explains the catalog: a market never goes dark without
\* an event, and its logged status is its status unless both are opening
\* hours, which apply_snapshot leaves out of the log on purpose.
LogExplainsCatalog ==
    \A m \in Market :
      /\ told[m].active => rows[m].active
      /\ \/ told[m].status = rows[m].status
         \/ {told[m].status, rows[m].status} \subseteq Hours

\* A market outside the cohorts that the catalog offers was seen when the
\* newest complete run of its source was observed, or later, in whatever order
\* the snapshots of several hosts arrive, and whichever complete, partial, failed
\* and retiring runs lie between: no snapshot brings back a market that a
\* newer one ended (_assert_snapshot_order, apply_snapshot's absence rule).
ActiveIsConfirmed ==
    \A m \in Market : rows[m].active /\ rows[m].scope = NoScope =>
      \A i \in DOMAIN runs :
        runs[i].source = SourceOf[m] /\ runs[i].status = "SUCCEEDED"
          => runs[i].at <= rows[m].seen

\* A run that this step recorded for s with that status.
Recorded(s, status) ==
    /\ Len(runs') = Len(runs) + 1
    /\ runs'[Len(runs')].source = s
    /\ runs'[Len(runs')].status = status

\* Only a complete snapshot, or a retirement, takes a market away because it
\* was not seen: a partial one leaves every market it does not list as it
\* was (API.md, PARTIAL universes).
UnseenSurvivesPartial ==
    [][\A m \in Market :
         Recorded(SourceOf[m], "PARTIAL") /\ Known(m)
           => \/ rows'[m] = rows[m]
              \/ rows'[m].seen = runs'[Len(runs')].at]_vars

\* After a complete snapshot every market of its source that is still active
\* was in it, or belongs to a cohort of which the snapshot shows nothing and
\* which has another active member (apply_snapshot's absence rule).
CompleteSnapshotSettles ==
    [][\A m \in Market :
         Recorded(SourceOf[m], "SUCCEEDED") /\ rows'[m].active
           => \/ rows'[m].seen = runs'[Len(runs')].at
              \/ /\ rows'[m].scope # NoScope
                 /\ rows'[m] = rows[m]
                 /\ \A n \in MarketsOf(SourceOf[m]) :
                      rows'[n] # rows[n] => rows'[n].scope # rows'[m].scope
                 /\ \E n \in MarketsOf(SourceOf[m]) \ {m} :
                      rows'[n].active /\ rows'[n].scope = rows'[m].scope]_vars

\* While a collecting phase restricts a source to a terminal status, no
\* snapshot observed in that phase leaves one of its markets active
\* (lifecycle_snapshot, applied at the snapshot's own time). CLOSED is no
\* restriction: market_availability cannot tell it from a closed session.
RestrictionHolds ==
    [][\A m \in Market :
         LET phase == PhaseAt(SourceOf[m], rows'[m].seen)
         IN  /\ rows'[m] # rows[m]
             /\ rows'[m].active
             /\ phase.collect
             => phase.status \notin Terminal \ {"CLOSED"}]_vars
=============================================================================
