--------------------------- MODULE CatalogProofs ---------------------------
(***************************************************************************)
(* Proofs about the catalog, for any sources, markets, lifecycles and      *)
(* snapshots: its type, that it offers no market in a terminal status,     *)
(* that the lifecycle log explains it, and that the newest complete run    *)
(* confirms what it offers.                                                *)
(***************************************************************************)
EXTENDS Catalog, FiniteSetTheorems, TLAPS

\* A source is always in a well-formed phase, and in one that names the
\* status to leave behind when it no longer collects (phase_at).
LEMMA PhaseAtType ==
    ASSUME NEW s \in Source, NEW t \in Nat
    PROVE  /\ PhaseAt(s, t) \in Phase
           /\ ~PhaseAt(s, t).collect => PhaseAt(s, t).status \in RetiredStatus
<1> DEFINE due == Due(s, t)
           n   == Len(Phases[s])
<1>1. Phases[s] \in Seq(Phase) /\ n \in Nat /\ DOMAIN Phases[s] = 1 .. n
  BY PhasesAssumption
<1>2. due \subseteq 1 .. n
  BY <1>1 DEF Due
<1>3. IsFiniteSet(1 .. n) /\ Cardinality(1 .. n) = n
  BY <1>1, FS_Interval
<1>4. IsFiniteSet(due) /\ Cardinality(due) \in Nat /\ Cardinality(due) <= n
  BY <1>1, <1>2, <1>3, FS_Subset, FS_CardinalityType
<1>5. CASE due = {}
  BY <1>5 DEF PhaseAt, NoPhase, Phase
<1>6. CASE due # {}
  <2>1. Cardinality(due) \in 1 .. n
    BY <1>1, <1>4, <1>6, FS_EmptySet
  <2>2. PhaseAt(s, t) = Phases[s][Cardinality(due)]
    BY <1>6 DEF PhaseAt
  <2>3. Phases[s][Cardinality(due)] \in Phase
    BY <1>1, <2>1
  <2>4. ~Phases[s][Cardinality(due)].collect
          => Phases[s][Cardinality(due)].status \in RetiredStatus
    BY <1>1, <2>1, PhasesAssumption
  <2> QED
    BY <2>2, <2>3, <2>4
<1> QED
  BY <1>5, <1>6

\* What the lifecycle makes of a report is a report (lifecycle_snapshot).
LEMMA EffectiveType ==
    ASSUME NEW s \in Source, NEW decided, NEW at \in Nat, NEW report \in Report
    PROVE  Effective(s, decided, at, report) \in Report
<1>1. PhaseAt(s, at) \in Phase
  BY PhaseAtType
<1>2. PhaseAt(s, at).status # "NONE" => PhaseAt(s, at).status \in Status
  BY <1>1 DEF Phase
<1> QED
  BY <1>2 DEF Effective, Restricted, Report

\* market_availability never lists a market as active in a terminal status.
LEMMA ListedRow ==
    ASSUME NEW report \in Report, NEW t \in Nat
    PROVE  /\ Listed(report, t) \in Row
           /\ Listed(report, t).status \in Status
           /\ Listed(report, t).active => Listed(report, t).status \notin Terminal
BY DEF Listed, ListedStatus, ListedActive, Report, Row, Session, Status

-----------------------------------------------------------------------------
\* The inductive invariant: no row can be judged without its type, and no
\* log without the row, which the session rule reads.
IInv == TypeOK /\ ActiveIsNotTerminal /\ LogExplainsCatalog

LogEntry == [status: Status \cup {"NONE"}, active: BOOLEAN]

\* One market: its row is typed, not active in a terminal status, and
\* explained by its log.
Sound(row, log) ==
    /\ row \in Row
    /\ log \in LogEntry
    /\ row.active => row.status \notin Terminal \cup {"NONE"}
    /\ log.active => row.active
    /\ \/ log.status = row.status
       \/ {log.status, row.status} \subseteq Hours

\* The invariant is the soundness of each market and the type of the runs.
LEMMA InvariantByMarket ==
    IInv <=> /\ rows = [m \in Market |-> rows[m]]
             /\ told = [m \in Market |-> told[m]]
             /\ runs \in Seq(Run)
             /\ \A m \in Market : Sound(rows[m], told[m])
<1>1. ASSUME IInv
      PROVE  /\ rows = [m \in Market |-> rows[m]]
             /\ told = [m \in Market |-> told[m]]
             /\ runs \in Seq(Run)
             /\ \A m \in Market : Sound(rows[m], told[m])
  BY <1>1 DEF IInv, TypeOK, ActiveIsNotTerminal, LogExplainsCatalog, Sound, LogEntry
<1>2. ASSUME rows = [m \in Market |-> rows[m]],
             told = [m \in Market |-> told[m]],
             runs \in Seq(Run),
             \A m \in Market : Sound(rows[m], told[m])
      PROVE  IInv
  <2>1. rows \in [Market -> Row]
    BY <1>2 DEF Sound
  <2>2. told \in [Market -> LogEntry]
    BY <1>2 DEF Sound
  <2> QED
    BY <1>2, <2>1, <2>2
       DEF IInv, TypeOK, ActiveIsNotTerminal, LogExplainsCatalog, Sound, LogEntry
<1> QED
  BY <1>1, <1>2

\* The same of the next state, for the steps of Next.
LEMMA InvariantByMarketNext ==
    ASSUME rows' = [m \in Market |-> rows'[m]],
           told' = [m \in Market |-> told'[m]],
           runs' \in Seq(Run),
           \A m \in Market : Sound(rows'[m], told'[m])
    PROVE  IInv'
<1>1. rows' \in [Market -> Row] /\ told' \in [Market -> LogEntry]
  BY DEF Sound
<1> QED
  BY <1>1 DEF IInv, TypeOK, ActiveIsNotTerminal, LogExplainsCatalog, Sound, LogEntry

\* A market a snapshot lists stays sound, whatever its row and log were.
LEMMA ListedIsSound ==
    ASSUME NEW m \in Market, NEW report \in Report, NEW t \in Nat,
           Sound(rows[m], told[m])
    PROVE  Sound(Listed(report, t), Relogged(m, report))
<1> DEFINE row == Listed(report, t)
           log == Relogged(m, report)
<1>1. /\ row \in Row
      /\ row.status \in Status
      /\ row.active => row.status \notin Terminal
      /\ row.status = ListedStatus(report)
      /\ row.active = ListedActive(report)
      /\ row.active \in BOOLEAN
  BY ListedRow DEF Listed, ListedActive, Row
<1>2. row.status # "NONE"
  BY <1>1 DEF Status
<1>3. CASE ~Known(m)
  BY <1>1, <1>2, <1>3 DEF Relogged, Sound, LogEntry
<1>4. CASE Known(m) /\ SessionOnly(m, report)
  <2>1. log = told[m]
    BY <1>4 DEF Relogged
  <2>2. row.status \in Hours /\ rows[m].status \in Hours /\ row.active
    BY <1>1, <1>4 DEF SessionOnly, ListedActive, Hours, Terminal
  <2>3. told[m].status \in Hours
    BY <2>2 DEF Sound
  <2> QED
    BY <1>1, <1>2, <2>1, <2>2, <2>3 DEF Sound
<1>5. CASE Known(m) /\ ~SessionOnly(m, report)
  <2>1. log = [status |-> IF rows[m].status # row.status THEN row.status
                                                         ELSE told[m].status,
               active |-> IF rows[m].active # row.active THEN row.active
                                                         ELSE told[m].active]
    BY <1>1, <1>5 DEF Relogged
  <2>2. log \in LogEntry
    BY <1>1, <2>1 DEF Sound, LogEntry
  <2>3. log.active => row.active
    BY <1>1, <2>1 DEF Sound, LogEntry, Row
  <2>4. log.status = row.status \/ {log.status, row.status} \subseteq Hours
    BY <2>1 DEF Sound
  <2> QED
    BY <1>1, <1>2, <2>2, <2>3, <2>4 DEF Sound
<1> QED
  BY <1>3, <1>4, <1>5

\* A run that LogRun appends is one.
LEMMA LogRunType ==
    ASSUME runs \in Seq(Run), NEW s \in Source, NEW t \in Time,
           NEW status \in {"SUCCEEDED", "PARTIAL", "FAILED"},
           LogRun(s, t, status)
    PROVE  /\ runs' \in Seq(Run)
           /\ runs' = Append(runs, [source |-> s, at |-> t, status |-> status])
           /\ [source |-> s, at |-> t, status |-> status] \in Run
BY DEF LogRun, Run

\* The instants of a model are naturals.
LEMMA TimeType == Time \subseteq Nat
BY CatalogAssumption DEF Time

-----------------------------------------------------------------------------
\* An empty catalog is sound.
LEMMA InitIInv == Init => IInv
<1> SUFFICES ASSUME Init PROVE IInv
  OBVIOUS
<1>1. NoRow \in Row /\ [status |-> "NONE", active |-> FALSE] \in LogEntry
  BY DEF NoRow, Row, LogEntry
<1>2. \A m \in Market : Sound(rows[m], told[m])
  BY <1>1 DEF Init, Sound, NoRow
<1> QED
  BY <1>2, InvariantByMarket DEF Init

\* Applying a snapshot: every market it lists, takes away or leaves alone
\* stays sound.
LEMMA ApplySnapshotIInv ==
    ASSUME IInv, NEW s \in Source, NEW decided \in Time, NEW at \in Time,
           NEW snapshot \in Snapshots[s], NEW quarantined \in BOOLEAN,
           ApplySnapshot(s, decided, at, snapshot, quarantined)
    PROVE  IInv'
<1> DEFINE report(m) == Effective(s, decided, at, snapshot[m])
           gone      == Gone(s, snapshot, quarantined)
<1>1. /\ runs \in Seq(Run)
      /\ \A m \in Market : Sound(rows[m], told[m])
  BY InvariantByMarket
<1>2. at \in Nat
  BY TimeType
<1>3. rows' = [m \in Market |->
                 IF m \in DOMAIN snapshot THEN Listed(report(m), at)
                 ELSE IF m \in gone THEN Dark(rows[m], "MISSING")
                 ELSE rows[m]]
  BY DEF ApplySnapshot
<1>4. told' = [m \in Market |->
                 IF m \in DOMAIN snapshot THEN Relogged(m, report(m))
                 ELSE IF m \in gone THEN [status |-> "MISSING", active |-> FALSE]
                 ELSE told[m]]
  BY DEF ApplySnapshot
<1>5. runs' \in Seq(Run)
  BY <1>1, LogRunType DEF ApplySnapshot
<1>6. ASSUME NEW m \in Market PROVE Sound(rows'[m], told'[m])
  <2>1. CASE m \in DOMAIN snapshot
    <3>1. report(m) \in Report
      BY <1>2, <2>1, EffectiveType, CatalogAssumption
    <3>2. rows'[m] = Listed(report(m), at) /\ told'[m] = Relogged(m, report(m))
      BY <1>3, <1>4, <2>1
    <3> QED
      BY <1>1, <1>2, <3>1, <3>2, ListedIsSound
  <2>2. CASE m \notin DOMAIN snapshot /\ m \in gone
    <3>1. /\ rows'[m] = Dark(rows[m], "MISSING")
          /\ told'[m] = [status |-> "MISSING", active |-> FALSE]
      BY <1>3, <1>4, <2>2
    <3> QED
      BY <1>1, <3>1 DEF Dark, Sound, Row, LogEntry, Status
  <2>3. CASE m \notin DOMAIN snapshot /\ m \notin gone
    BY <1>1, <1>3, <1>4, <2>3
  <2> QED
    BY <2>1, <2>2, <2>3
<1>7. \A m \in Market : Sound(rows'[m], told'[m])
  BY <1>6
<1>8. /\ rows' = [m \in Market |-> rows'[m]]
      /\ told' = [m \in Market |-> told'[m]]
  BY <1>3, <1>4
<1> QED
  BY <1>5, <1>7, <1>8, InvariantByMarketNext

\* Retiring a source: every row it rewrites is inactive and logged as such.
LEMMA RetireSourceIInv ==
    ASSUME IInv, NEW s \in Source, NEW at \in Time, RetireSource(s, at)
    PROVE  IInv'
<1> DEFINE status   == PhaseAt(s, at).status
           retiring == Unretired(s, status)
<1>1. /\ runs \in Seq(Run)
      /\ \A m \in Market : Sound(rows[m], told[m])
  BY InvariantByMarket
<1>2. status \in Status
  BY TimeType, PhaseAtType DEF RetireSource, Collectable, RetiredStatus, Status
<1>3. rows' = [m \in Market |->
                 IF m \in retiring THEN Dark(rows[m], status) ELSE rows[m]]
  BY DEF RetireSource
<1>4. told' = [m \in Market |->
                 IF m \in retiring
                 THEN [status |-> status,
                       active |-> IF rows[m].active THEN FALSE ELSE told[m].active]
                 ELSE told[m]]
  BY DEF RetireSource
<1>5. runs' \in Seq(Run)
  BY <1>1, LogRunType DEF RetireSource
<1>6. ASSUME NEW m \in Market PROVE Sound(rows'[m], told'[m])
  <2>1. CASE m \in retiring
    <3>1. /\ rows'[m] = Dark(rows[m], status)
          /\ told'[m] = [status |-> status,
                         active |-> IF rows[m].active THEN FALSE ELSE told[m].active]
      BY <1>3, <1>4, <2>1
    <3>2. (IF rows[m].active THEN FALSE ELSE told[m].active) = FALSE
      BY <1>1 DEF Sound, LogEntry
    <3>3. told'[m] = [status |-> status, active |-> FALSE]
      BY <3>1, <3>2
    <3>4. rows'[m] \in Row /\ rows'[m].status = status /\ ~rows'[m].active
      BY <1>1, <1>2, <3>1 DEF Dark, Sound, Row
    <3> QED
      BY <1>2, <3>3, <3>4 DEF Sound, LogEntry, Status
  <2>2. CASE m \notin retiring
    BY <1>1, <1>3, <1>4, <2>2
  <2> QED
    BY <2>1, <2>2
<1>7. \A m \in Market : Sound(rows'[m], told'[m])
  BY <1>6
<1>8. /\ rows' = [m \in Market |-> rows'[m]]
      /\ told' = [m \in Market |-> told'[m]]
  BY <1>3, <1>4
<1> QED
  BY <1>5, <1>7, <1>8, InvariantByMarketNext

\* A failed fetch touches no market (record_failed_run).
LEMMA RecordFailureIInv ==
    ASSUME IInv, NEW s \in Source, NEW at \in Time, RecordFailure(s, at)
    PROVE  IInv'
<1>1. runs' \in Seq(Run)
  BY LogRunType DEF RecordFailure, IInv, TypeOK
<1> QED
  BY <1>1 DEF RecordFailure, IInv, TypeOK, ActiveIsNotTerminal, LogExplainsCatalog

\* The invariant is inductive, one action at a time.
LEMMA NextIInv == IInv /\ [Next]_vars => IInv'
<1> SUFFICES ASSUME IInv, [Next]_vars PROVE IInv'
  OBVIOUS
<1>1. CASE UNCHANGED vars
  BY <1>1 DEF vars, IInv, TypeOK, ActiveIsNotTerminal, LogExplainsCatalog
<1>2. ASSUME NEW s \in Source, NEW at \in Time, NEW decided \in Fetched(s, at),
             NEW snapshot \in Snapshots[s], NEW quarantined \in BOOLEAN,
             ApplySnapshot(s, decided, at, snapshot, quarantined)
      PROVE  IInv'
  BY <1>2, ApplySnapshotIInv DEF Fetched
<1>3. ASSUME NEW s \in Source, NEW at \in Time, RetireSource(s, at) PROVE IInv'
  BY <1>3, RetireSourceIInv
<1>4. ASSUME NEW s \in Source, NEW at \in Time, RecordFailure(s, at) PROVE IInv'
  BY <1>4, RecordFailureIInv
<1> QED
  BY <1>1, <1>2, <1>3, <1>4 DEF Next

\* The invariant holds of every reachable catalog.
THEOREM Invariance == Spec => []IInv
BY InitIInv, NextIInv, PTL DEF Spec

\* The state is always what the schema's columns allow.
THEOREM TypeCorrect == Spec => []TypeOK
<1>1. IInv => TypeOK
  BY DEF IInv
<1> QED
  BY <1>1, Invariance, PTL

\* Whatever wrote a row last, no market is offered in a terminal status
\* (market_availability, apply_snapshot, apply_source_lifecycle).
THEOREM OffersNoTerminal == Spec => []ActiveIsNotTerminal
<1>1. IInv => ActiveIsNotTerminal
  BY DEF IInv
<1> QED
  BY <1>1, Invariance, PTL

\* The market_lifecycle_events of every history explain the rows it leaves
\* (_insert_event's calls).
THEOREM LogIsFaithful == Spec => []LogExplainsCatalog
<1>1. IInv => LogExplainsCatalog
  BY DEF IInv
<1> QED
  BY <1>1, Invariance, PTL

-----------------------------------------------------------------------------
\* What the last run of a step that applies a snapshot says.
LEMMA RecordedByApply ==
    ASSUME IInv, NEW s \in Source, NEW decided, NEW at \in Time,
           NEW snapshot \in Snapshots[s], NEW quarantined \in BOOLEAN,
           ApplySnapshot(s, decided, at, snapshot, quarantined)
    PROVE  /\ Len(runs') = Len(runs) + 1
           /\ runs'[Len(runs')].source = s
           /\ runs'[Len(runs')].at = at
           /\ runs'[Len(runs')].status = IF quarantined THEN "PARTIAL" ELSE "SUCCEEDED"
BY DEF ApplySnapshot, LogRun, IInv, TypeOK

\* What the last run of a retirement says.
LEMMA RecordedByRetire ==
    ASSUME IInv, NEW s \in Source, NEW at \in Time, RetireSource(s, at)
    PROVE  /\ Len(runs') = Len(runs) + 1
           /\ runs'[Len(runs')].source = s
           /\ runs'[Len(runs')].status = "SUCCEEDED"
BY DEF RetireSource, LogRun, IInv, TypeOK

\* A partial snapshot removes no market it does not list (apply_snapshot's
\* absence rule, under `if not snapshot.issues`).
THEOREM PartialRemovesNothing == Spec => UnseenSurvivesPartial
<1> DEFINE Survives ==
      \A m \in Market :
        Recorded(SourceOf[m], "PARTIAL") /\ Known(m)
          => \/ rows'[m] = rows[m]
             \/ rows'[m].seen = runs'[Len(runs')].at
<1>1. IInv /\ [Next]_vars => [Survives]_vars
  <2> SUFFICES ASSUME IInv, [Next]_vars, NEW m \in Market,
                      Recorded(SourceOf[m], "PARTIAL")
               PROVE  rows'[m] = rows[m] \/ rows'[m].seen = runs'[Len(runs')].at
    OBVIOUS
  <2>1. CASE UNCHANGED vars
    BY <2>1 DEF vars
  <2>2. ASSUME NEW s \in Source, NEW at \in Time, NEW decided \in Fetched(s, at),
               NEW snapshot \in Snapshots[s], NEW quarantined \in BOOLEAN,
               ApplySnapshot(s, decided, at, snapshot, quarantined)
        PROVE  rows'[m] = rows[m] \/ rows'[m].seen = runs'[Len(runs')].at
    <3>1. quarantined /\ runs'[Len(runs')].at = at
      BY <2>2, RecordedByApply DEF Recorded
    <3>2. Gone(s, snapshot, quarantined) = {}
      BY <3>1 DEF Gone
    <3>3. CASE m \in DOMAIN snapshot
      BY <2>2, <3>1, <3>3 DEF ApplySnapshot, Listed
    <3>4. CASE m \notin DOMAIN snapshot
      BY <2>2, <3>2, <3>4 DEF ApplySnapshot
    <3> QED
      BY <3>3, <3>4
  <2>3. ASSUME NEW s \in Source, NEW at \in Time, RetireSource(s, at)
        PROVE  FALSE
    BY <2>3, RecordedByRetire DEF Recorded
  <2>4. ASSUME NEW s \in Source, NEW at \in Time, RecordFailure(s, at)
        PROVE  rows'[m] = rows[m]
    BY <2>4 DEF RecordFailure
  <2> QED
    BY <2>1, <2>2, <2>3, <2>4 DEF Next
<1> QED
  BY <1>1, Invariance, PTL DEF Spec, UnseenSurvivesPartial

\* A phase that restricts a source to a terminal status is obeyed by every
\* snapshot observed in it (lifecycle_snapshot, market_availability).
THEOREM RestrictionIsObeyed == Spec => RestrictionHolds
<1> DEFINE Obeyed ==
      \A m \in Market :
        LET phase == PhaseAt(SourceOf[m], rows'[m].seen)
        IN  /\ rows'[m] # rows[m]
            /\ rows'[m].active
            /\ phase.collect
            => phase.status \notin Terminal \ {"CLOSED"}
<1>1. IInv /\ [Next]_vars => [Obeyed]_vars
  <2> SUFFICES ASSUME IInv, [Next]_vars, NEW m \in Market,
                      rows'[m] # rows[m], rows'[m].active,
                      PhaseAt(SourceOf[m], rows'[m].seen).collect
               PROVE  PhaseAt(SourceOf[m], rows'[m].seen).status \notin Terminal \ {"CLOSED"}
    OBVIOUS
  <2>1. ASSUME NEW s \in Source, NEW at \in Time, NEW decided \in Fetched(s, at),
               NEW snapshot \in Snapshots[s], NEW quarantined \in BOOLEAN,
               ApplySnapshot(s, decided, at, snapshot, quarantined)
        PROVE  PhaseAt(SourceOf[m], rows'[m].seen).status \notin Terminal \ {"CLOSED"}
    <3> DEFINE report == Effective(s, decided, at, snapshot[m])
               phase  == PhaseAt(s, at)
    <3>1. m \in DOMAIN snapshot
      BY <2>1 DEF ApplySnapshot, Dark
    <3>2. SourceOf[m] = s /\ snapshot[m] \in Report
      BY <3>1, CatalogAssumption
    <3>3. rows'[m] = Listed(report, at)
      BY <2>1, <3>1 DEF ApplySnapshot
    <3>4. rows'[m].seen = at /\ ListedStatus(report) \notin Terminal
      BY <3>3 DEF Listed, ListedActive
    <3>5. SUFFICES ASSUME phase.status \in Terminal \ {"CLOSED"} PROVE FALSE
      BY <3>2, <3>4
    <3>6. phase.status # "NONE" /\ phase.collect
      BY <3>2, <3>4, <3>5 DEF Terminal
    <3>7. report.status = phase.status /\ report.active = FALSE /\ report.session \in Session
      BY <3>2, <3>6 DEF Effective, Restricted, Report
    <3>8. ListedStatus(report) = phase.status
      BY <3>5, <3>7 DEF ListedStatus
    <3> QED
      BY <3>4, <3>5, <3>8
  <2>2. ASSUME NEW s \in Source, NEW at \in Time, RetireSource(s, at)
        PROVE  FALSE
    BY <2>2 DEF RetireSource, Dark
  <2>3. ASSUME NEW s \in Source, NEW at \in Time, RecordFailure(s, at)
        PROVE  FALSE
    BY <2>3 DEF RecordFailure
  <2> QED
    BY <2>1, <2>2, <2>3 DEF Next, vars
<1> QED
  BY <1>1, Invariance, PTL DEF Spec, RestrictionHolds
-----------------------------------------------------------------------------
\* A retirement leaves no market of its source active: one that is active is
\* in no terminal status, so it is among those retired.
LEMMA RetirementSettles ==
    ASSUME IInv, NEW s \in Source, NEW at \in Time, RetireSource(s, at),
           NEW m \in Market, SourceOf[m] = s
    PROVE  ~rows'[m].active
<1> DEFINE status == PhaseAt(s, at).status
<1>1. status \in {"CLOSED", "MISSING"}
  BY TimeType, PhaseAtType DEF RetireSource, Collectable, RetiredStatus
<1>2. CASE m \in Unretired(s, status)
  BY <1>2 DEF RetireSource, Dark
<1>3. CASE m \notin Unretired(s, status)
  <2>1. rows[m].status \in {"NONE", "CLOSED", "MISSING"}
    BY <1>1, <1>3 DEF Unretired, Known, MarketsOf
  <2>2. ~rows[m].active
    BY <2>1 DEF IInv, ActiveIsNotTerminal, Terminal
  <2>3. rows'[m] = rows[m]
    BY <1>3 DEF RetireSource
  <2> QED
    BY <2>2, <2>3
<1> QED
  BY <1>2, <1>3

\* A lifecycle changes no cohort.
LEMMA EffectiveScope ==
    ASSUME NEW s, NEW decided, NEW at, NEW report \in Report
    PROVE  Effective(s, decided, at, report).scope = report.scope
BY DEF Effective, Restricted, Report

\* The step left m as it was, with all its cohort, another active member
\* included.
CohortKept(s, m) ==
    /\ rows'[m].scope # NoScope
    /\ rows'[m] = rows[m]
    /\ \A n \in MarketsOf(s) : rows'[n] # rows[n] => rows'[n].scope # rows'[m].scope
    /\ \E n \in MarketsOf(s) \ {m} : rows'[n].active /\ rows'[n].scope = rows'[m].scope

\* Among the markets a complete snapshot does not list, those that stay
\* active are of a cohort of which it lists nothing and takes away nothing.
LEMMA CohortSurvives ==
    ASSUME NEW s \in Source, NEW decided, NEW at \in Time,
           NEW snapshot \in Snapshots[s],
           ApplySnapshot(s, decided, at, snapshot, FALSE),
           NEW m \in MarketsOf(s), m \notin DOMAIN snapshot, rows'[m].active
    PROVE  CohortKept(s, m)
<1> DEFINE gone   == Gone(s, snapshot, FALSE)
           unseen == Unseen(s, snapshot)
<1>1. m \in Market /\ MarketsOf(s) \subseteq Market
  BY DEF MarketsOf
<1>2. gone = { n \in unseen : ~CohortAbsent(s, snapshot, n) }
  BY DEF Gone
<1>3. m \notin gone /\ rows'[m] = rows[m]
  BY <1>1 DEF ApplySnapshot, Dark
<1>4. m \in unseen
  BY <1>3 DEF Unseen
<1>5. CohortAbsent(s, snapshot, m)
  BY <1>2, <1>3, <1>4
<1>6. PICK n \in unseen \ {m} : rows[n].scope = rows[m].scope
  BY <1>5 DEF CohortAbsent
<1>7. CohortAbsent(s, snapshot, n)
  BY <1>4, <1>5, <1>6 DEF CohortAbsent
<1>8. n \in MarketsOf(s) \ {m} /\ n \notin DOMAIN snapshot /\ n \notin gone
  BY <1>2, <1>6, <1>7 DEF Unseen
<1>9. rows'[n] = rows[n] /\ rows[n].active
  BY <1>1, <1>6, <1>8 DEF ApplySnapshot, Unseen
<1>10. ASSUME NEW k \in MarketsOf(s), rows'[k] # rows[k]
       PROVE  rows'[k].scope # rows'[m].scope
  <2>1. CASE k \in DOMAIN snapshot
    <3>1. snapshot[k] \in Report
      BY <2>1, CatalogAssumption
    <3>2. rows'[k] = Listed(Effective(s, decided, at, snapshot[k]), at)
      BY <1>1, <2>1 DEF ApplySnapshot
    <3>3. rows'[k].scope = snapshot[k].scope
      BY <3>1, <3>2, EffectiveScope DEF Listed
    <3>4. rows'[k].scope \in SeenScopes(snapshot)
      BY <2>1, <3>3 DEF SeenScopes
    <3> QED
      BY <1>3, <1>5, <3>4 DEF CohortAbsent
  <2>2. CASE k \notin DOMAIN snapshot
    <3>1. k \in gone /\ rows'[k] = Dark(rows[k], "MISSING")
      BY <1>1, <1>10, <2>2 DEF ApplySnapshot
    <3>2. k # m /\ k \in unseen /\ ~CohortAbsent(s, snapshot, k)
      BY <1>2, <1>3, <3>1
    <3>3. rows[k].scope # rows[m].scope
      BY <1>4, <1>5, <3>2 DEF CohortAbsent
    <3> QED
      BY <1>3, <3>1, <3>3 DEF Dark
  <2> QED
    BY <2>1, <2>2
<1> QED
  BY <1>3, <1>5, <1>6, <1>8, <1>9, <1>10 DEF CohortAbsent, CohortKept

\* What a complete snapshot leaves active it lists, or it says nothing of a
\* whole cohort (apply_snapshot's absence rule).
THEOREM CompleteSettles == Spec => CompleteSnapshotSettles
<1> DEFINE Settled(m) ==
      \/ rows'[m].seen = runs'[Len(runs')].at
      \/ /\ rows'[m].scope # NoScope
         /\ rows'[m] = rows[m]
         /\ \A n \in MarketsOf(SourceOf[m]) :
              rows'[n] # rows[n] => rows'[n].scope # rows'[m].scope
         /\ \E n \in MarketsOf(SourceOf[m]) \ {m} :
              rows'[n].active /\ rows'[n].scope = rows'[m].scope
<1>1. IInv /\ [Next]_vars
        => [\A m \in Market :
              Recorded(SourceOf[m], "SUCCEEDED") /\ rows'[m].active => Settled(m)]_vars
  <2> SUFFICES ASSUME IInv, [Next]_vars, ~UNCHANGED vars, NEW m \in Market,
                      Recorded(SourceOf[m], "SUCCEEDED"), rows'[m].active
               PROVE  Settled(m)
    OBVIOUS
  <2>1. ASSUME NEW s \in Source, NEW at \in Time, NEW decided \in Fetched(s, at),
               NEW snapshot \in Snapshots[s], NEW quarantined \in BOOLEAN,
               ApplySnapshot(s, decided, at, snapshot, quarantined)
        PROVE  Settled(m)
    <3>1. /\ quarantined = FALSE
          /\ SourceOf[m] = s
          /\ runs'[Len(runs')].at = at
      BY <2>1, RecordedByApply DEF Recorded
    <3>2. m \in MarketsOf(s)
      BY <3>1 DEF MarketsOf
    <3>3. CASE m \in DOMAIN snapshot
      BY <2>1, <3>1, <3>3 DEF ApplySnapshot, Listed
    <3>4. CASE m \notin DOMAIN snapshot
      <4>1. ApplySnapshot(s, decided, at, snapshot, FALSE)
        BY <2>1, <3>1
      <4>2. CohortKept(s, m)
        BY <3>2, <3>4, <4>1, CohortSurvives
      <4> QED
        BY <3>1, <4>2 DEF CohortKept
    <3> QED
      BY <3>3, <3>4
  <2>2. ASSUME NEW s \in Source, NEW at \in Time, RetireSource(s, at)
        PROVE  FALSE
    BY <2>2, RecordedByRetire, RetirementSettles DEF Recorded
  <2>3. ASSUME NEW s \in Source, NEW at \in Time, RecordFailure(s, at)
        PROVE  FALSE
    BY <2>3 DEF RecordFailure, LogRun, Recorded, IInv, TypeOK
  <2> QED
    BY <2>1, <2>2, <2>3 DEF Next
<1> QED
  BY <1>1, Invariance, PTL DEF Spec, CompleteSnapshotSettles

-----------------------------------------------------------------------------
\* The complete runs of a market's source are no newer than t.
NoneNewer(m, t) ==
    \A i \in DOMAIN runs :
      runs[i].source = SourceOf[m] /\ runs[i].status = "SUCCEEDED" => runs[i].at <= t

\* A run more, which is no newer or not a complete one of the market's source.
LEMMA OneMoreRun ==
    ASSUME IInv, NEW m \in Market, NEW t, NEW s, NEW at, NEW status,
           LogRun(s, at, status), NoneNewer(m, t),
           s = SourceOf[m] /\ status = "SUCCEEDED" => at <= t
    PROVE  NoneNewer(m, t)'
<1> DEFINE run == [source |-> s, at |-> at, status |-> status]
<1>1. runs \in Seq(Run) /\ runs' = Append(runs, run)
  BY DEF IInv, TypeOK, LogRun
<1>2. SUFFICES ASSUME NEW i \in DOMAIN runs',
                      runs'[i].source = SourceOf[m], runs'[i].status = "SUCCEEDED"
               PROVE  runs'[i].at <= t
  BY DEF NoneNewer
<1>3. CASE i \in DOMAIN runs
  BY <1>1, <1>2, <1>3 DEF NoneNewer
<1>4. CASE i \notin DOMAIN runs
  <2>1. runs'[i] = run
    BY <1>1, <1>4
  <2> QED
    BY <1>2, <2>1
<1> QED
  BY <1>3, <1>4

\* Applying a snapshot: what it lists was seen no earlier than any complete
\* run before it, and what a complete one does not list is taken away.
LEMMA ApplySnapshotConfirms ==
    ASSUME IInv, ActiveIsConfirmed, NEW s \in Source, NEW decided, NEW at \in Time,
           NEW snapshot \in Snapshots[s], NEW quarantined \in BOOLEAN,
           ApplySnapshot(s, decided, at, snapshot, quarantined),
           NEW m \in Market, rows'[m].active, rows'[m].scope = NoScope,
           NEW t, rows'[m].seen = t
    PROVE  NoneNewer(m, t)'
<1> DEFINE status == IF quarantined THEN "PARTIAL" ELSE "SUCCEEDED"
<1>1. LogRun(s, at, status) /\ OrderOk(s, at) /\ at \in Nat
  BY TimeType DEF ApplySnapshot
<1>2. CASE m \in DOMAIN snapshot
  <2>1. SourceOf[m] = s /\ t = at
    BY <1>2, CatalogAssumption DEF ApplySnapshot, Listed
  <2>2. NoneNewer(m, t)
    BY <1>1, <2>1 DEF OrderOk, NoneNewer
  <2>3. at <= t
    BY <1>1, <2>1
  <2> QED
    BY <1>1, <2>2, <2>3, OneMoreRun
<1>3. CASE m \notin DOMAIN snapshot
  <2>1. m \notin Gone(s, snapshot, quarantined) /\ rows'[m] = rows[m]
    BY <1>3 DEF ApplySnapshot, Dark
  <2>2. NoneNewer(m, t)
    BY <2>1 DEF ActiveIsConfirmed, NoneNewer
  <2>3. ~(s = SourceOf[m] /\ status = "SUCCEEDED")
    <3> SUFFICES ASSUME s = SourceOf[m], ~quarantined PROVE FALSE
      OBVIOUS
    <3>1. m \in Unseen(s, snapshot)
      BY <1>3, <2>1 DEF Unseen, MarketsOf
    <3>2. ~CohortAbsent(s, snapshot, m)
      BY <2>1 DEF CohortAbsent
    <3> QED
      BY <2>1, <3>1, <3>2 DEF Gone
  <2> QED
    BY <1>1, <2>2, <2>3, OneMoreRun
<1> QED
  BY <1>2, <1>3

\* Retiring a source leaves none of its markets active, and others as they were.
LEMMA RetireSourceConfirms ==
    ASSUME IInv, ActiveIsConfirmed, NEW s \in Source, NEW at \in Time,
           RetireSource(s, at),
           NEW m \in Market, rows'[m].active, rows'[m].scope = NoScope,
           NEW t, rows'[m].seen = t
    PROVE  NoneNewer(m, t)'
<1>1. SourceOf[m] # s
  BY RetirementSettles
<1>2. rows'[m] = rows[m] /\ LogRun(s, at, "SUCCEEDED")
  BY <1>1 DEF RetireSource, Unretired, MarketsOf
<1>3. NoneNewer(m, t)
  BY <1>2 DEF ActiveIsConfirmed, NoneNewer
<1> QED
  BY <1>1, <1>2, <1>3, OneMoreRun

\* A failed fetch adds no complete run.
LEMMA RecordFailureConfirms ==
    ASSUME IInv, ActiveIsConfirmed, NEW s \in Source, NEW at \in Time,
           RecordFailure(s, at),
           NEW m \in Market, rows'[m].active, rows'[m].scope = NoScope,
           NEW t, rows'[m].seen = t
    PROVE  NoneNewer(m, t)'
<1>1. rows' = rows /\ LogRun(s, at, "FAILED")
  BY DEF RecordFailure
<1>2. NoneNewer(m, t)
  BY <1>1 DEF ActiveIsConfirmed, NoneNewer
<1> QED
  BY <1>1, <1>2, OneMoreRun

\* A market that is offered was confirmed by the newest complete run of its
\* source, or later (_assert_snapshot_order, apply_snapshot's absence rule,
\* apply_source_lifecycle).
THEOREM OffersAreConfirmed == Spec => []ActiveIsConfirmed
<1>1. Init => ActiveIsConfirmed
  BY DEF Init, ActiveIsConfirmed
<1>2. IInv /\ ActiveIsConfirmed /\ [Next]_vars => ActiveIsConfirmed'
  <2> SUFFICES ASSUME IInv, ActiveIsConfirmed, [Next]_vars, NEW m \in Market,
                      rows'[m].active, rows'[m].scope = NoScope,
                      NEW t, rows'[m].seen = t
               PROVE  NoneNewer(m, t)'
    BY DEF ActiveIsConfirmed, NoneNewer
  <2>1. CASE UNCHANGED vars
    BY <2>1 DEF vars, ActiveIsConfirmed, NoneNewer
  <2>2. ASSUME NEW s \in Source, NEW at \in Time, NEW decided \in Fetched(s, at),
               NEW snapshot \in Snapshots[s], NEW quarantined \in BOOLEAN,
               ApplySnapshot(s, decided, at, snapshot, quarantined)
        PROVE  NoneNewer(m, t)'
    BY <2>2, ApplySnapshotConfirms
  <2>3. ASSUME NEW s \in Source, NEW at \in Time, RetireSource(s, at)
        PROVE  NoneNewer(m, t)'
    BY <2>3, RetireSourceConfirms
  <2>4. ASSUME NEW s \in Source, NEW at \in Time, RecordFailure(s, at)
        PROVE  NoneNewer(m, t)'
    BY <2>4, RecordFailureConfirms
  <2> QED
    BY <2>1, <2>2, <2>3, <2>4 DEF Next
<1> QED
  BY <1>1, <1>2, Invariance, PTL DEF Spec
=============================================================================
