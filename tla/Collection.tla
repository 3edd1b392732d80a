----------------------------- MODULE Collection -----------------------------
(***************************************************************************)
(* Collections and bundle imports, from lease to release: how the writers  *)
(* of one host (the timer's collector, an operator's `mdv collect`, an     *)
(* import of a bundle exported elsewhere) fetch the sources concurrently,  *)
(* write one ingest run per source, rebuild the projections and settle     *)
(* their collection run, while any of them may crash and while the API     *)
(* process reconciles abandoned collection runs and rebuilds the mappings. *)
(*                                                                         *)
(* What a transaction does to the markets is Catalog's; here a source is   *)
(* its ingest runs and what the projections have read of them.             *)
(***************************************************************************)
EXTENDS Lifecycle

CONSTANTS
    Financing,    \* the sources that publish financing catalogs
    Venue,        \* the venues, as sets of sources
    Collector,    \* processes that collect or import
    None,         \* nobody, nothing
    MaxFetch,     \* max_concurrent_fetches
    Ahead,        \* how far the clock of an exporting host may run ahead
    MaxTime, MaxParents, MaxCrashes   \* bounds of a behaviour

ASSUME CollectionAssumption ==
    /\ Financing \subseteq Source
    /\ Venue \subseteq SUBSET Source
    /\ {} \notin Venue
    /\ None \notin Collector \cup Source
    /\ MaxFetch \in Nat \ {0}
    /\ Ahead \in Nat
    /\ MaxTime \in Nat /\ MaxParents \in Nat /\ MaxCrashes \in Nat

VARIABLES
    now,       \* the host's clock
    holder,    \* who holds the flock on <database>.collection.lock
    job,       \* job[c]: the call frame of c
    parents,   \* collection_runs
    runs,      \* ingest_runs, in commit order
    mapped,    \* the runs the market and financing mappings have read
    tagged,    \* the runs the asset tags have read
    crashes

vars == <<now, holder, job, parents, runs, mapped, tagged, crashes>>

Stage == {"idle", "reconcile", "open", "retire", "gather", "commit", "fail",
          "abort", "project", "tag", "finish", "release"}

\* What a collection knows of one source: not selected, to be retired, its
\* fetch waiting for the semaphore or under way, what the fetch returned,
\* and the result: ok, not ok, or none.
Progress == {"none", "retire", "queued", "fetching", "complete", "issues", "error",
             "ok", "failed", "skipped"}

\* A source to be fetched that has no result yet.
Pending == {"queued", "fetching", "complete", "issues", "error"}

Instant == 0 .. (MaxTime + Ahead)

Job == [stage: Stage, import: BOOLEAN, parent: 0 .. MaxParents, begun: 0 .. MaxTime,
        source: Source \cup {None}, got: [Source -> Progress], at: [Source -> Instant],
        snapshots: BOOLEAN, error: BOOLEAN]

\* `snapshots`: a market snapshot was applied, so tags are to be rebuilt;
\* `error`: projection_error.
Idle == [stage |-> "idle", import |-> FALSE, parent |-> 0, begun |-> 0,
         source |-> None, got |-> [s \in Source |-> "none"], at |-> [s \in Source |-> 0],
         snapshots |-> FALSE, error |-> FALSE]

\* A collection run; `stale` once it is older than stale_after_seconds.
Parent == [status: {"RUNNING", "SUCCEEDED", "PARTIAL", "FAILED"}, stale: BOOLEAN]

ChildStatus == {"SUCCEEDED", "PARTIAL", "FAILED"}

\* An ingest run; `kind` is what wrote it.
Child == [source: Source, at: Instant, status: ChildStatus,
          kind: {"snapshot", "retirement", "failure"}, parent: 1 .. MaxParents]

Unsettled(p) == parents[p].status = "RUNNING"

ChildrenOf(p) == { i \in DOMAIN runs : runs[i].parent = p }

OwnerOf(p) == { c \in Collector : job[c].stage # "idle" /\ job[c].parent = p }

\* _assert_snapshot_order.
OrderOk(s, t) ==
    \A i \in DOMAIN runs :
      runs[i].source = s /\ runs[i].status = "SUCCEEDED" => runs[i].at <= t

\* Whether source_has_unretired_markets finds a row: a snapshot of s was
\* applied since its last retirement. A snapshot all of whose rows were
\* already closed leaves none, which the actions allow for.
MayBeUnretired(s) ==
    /\ s \notin Financing
    /\ \E i \in DOMAIN runs :
         /\ runs[i].source = s /\ runs[i].kind = "snapshot"
         /\ \A j \in i + 1 .. Len(runs) : runs[j].source = s => runs[j].kind # "retirement"

-----------------------------------------------------------------------------
Init ==
    /\ now = 0
    /\ holder = None
    /\ job = [c \in Collector |-> Idle]
    /\ parents = << >>
    /\ runs = << >>
    /\ mapped = 0
    /\ tagged = 0
    /\ crashes = 0

Tick ==
    /\ now < MaxTime
    /\ now' = now + 1
    /\ UNCHANGED <<holder, job, parents, runs, mapped, tagged, crashes>>

Take(c, import) ==
    /\ job[c].stage = "idle"
    /\ holder' = c
    /\ job' = [job EXCEPT ![c].stage  = IF import THEN "open" ELSE "reconcile",
                          ![c].import = import]
    /\ UNCHANGED <<now, parents, runs, mapped, tagged, crashes>>

Acquire_whoeverHolds(c, import) == Take(c, import)

\* collection_writer_lease: the flock does not block; who finds it taken
\* fails with CollectionBusyError and changes nothing.
Acquire(c, import) == holder = None /\ Take(c, import)

\* reconcile_stale_collection_runs: one transaction over every old parent.
\* No committed child is RUNNING, since a child is inserted and completed in
\* one transaction, so only parents are failed.
FailStale_withChildren ==
    parents' = [p \in DOMAIN parents |->
                  IF Unsettled(p) /\ parents[p].stale /\ ChildrenOf(p) # {}
                  THEN [parents[p] EXCEPT !.status = "FAILED"]
                  ELSE parents[p]]

FailStale_whateverAge ==
    parents' = [p \in DOMAIN parents |->
                  IF Unsettled(p) THEN [parents[p] EXCEPT !.status = "FAILED"]
                                  ELSE parents[p]]

FailStale ==
    parents' = [p \in DOMAIN parents |->
                  IF Unsettled(p) /\ parents[p].stale
                  THEN [parents[p] EXCEPT !.status = "FAILED"]
                  ELSE parents[p]]

Reconcile(c) ==
    /\ job[c].stage = "reconcile"
    /\ FailStale
    /\ job' = [job EXCEPT ![c].stage = "open"]
    /\ UNCHANGED <<now, holder, runs, mapped, tagged, crashes>>

\* The API's start, `mdv doctor`, and an import before it takes the lease.
ReconcileUnleased ==
    /\ FailStale
    /\ UNCHANGED <<now, holder, job, runs, mapped, tagged, crashes>>

\* A selection or a bundle that is refused, or a selection with nothing to
\* collect and nothing to retire: ValueError, under the lease.
Refuse(c) ==
    /\ job[c].stage = "open"
    /\ job' = [job EXCEPT ![c].stage = "release"]
    /\ UNCHANGED <<now, holder, parents, runs, mapped, tagged, crashes>>

Enter(c, first, got, at) ==
    /\ Len(parents) < MaxParents
    /\ parents' = Append(parents, [status |-> "RUNNING", stale |-> FALSE])
    /\ job' = [job EXCEPT ![c].stage = first, ![c].parent = Len(parents) + 1,
                          ![c].begun = now, ![c].got = got, ![c].at = at]
    /\ UNCHANGED <<now, holder, runs, mapped, tagged, crashes>>

\* _collect_unlocked up to start_collection_run: the venues asked for, each
\* source to be fetched or retired by its lifecycle now.
OpenCollection(c) ==
    /\ job[c].stage = "open" /\ ~job[c].import
    /\ \E venues \in (SUBSET Venue) \ {{}} :
         LET selected == UNION venues
         IN  /\ \E s \in selected : Collectable(s, now) \/ MayBeUnretired(s)
             /\ Enter(c, "retire",
                      [s \in Source |-> IF s \notin selected THEN "none"
                                        ELSE IF Collectable(s, now) THEN "queued"
                                        ELSE "retire"],
                      [s \in Source |-> 0])

\* _apply_collection_bundle_unlocked: every source of one venue, with what
\* the exporting host fetched and when its clock said so. An export leaves out
\* the sources that no longer collect, and a bundle without all is refused.
OpenImport(c) ==
    /\ job[c].stage = "open" /\ job[c].import
    /\ \E venue \in Venue :
       \E got \in [venue -> {"complete", "issues", "error"}] :
       \E exported \in 0 .. now + Ahead :
       \E at \in [venue -> exported .. now + Ahead] :
         /\ \A s \in venue : Collectable(s, exported)
         /\ \A s \in venue \cap Financing : got[s] # "issues"
         /\ Enter(c, "gather",
                  [s \in Source |-> IF s \in venue THEN got[s] ELSE "none"],
                  [s \in Source |-> IF s \in venue THEN at[s] ELSE 0])

-----------------------------------------------------------------------------
\* Fetches. They run as tasks of the collector's event loop, which no
\* transaction yields to.

Fetching(c) == { s \in Source : job[c].got[s] = "fetching" }

StartFetch(c, s) ==
    /\ job[c].stage = "gather" /\ job[c].got[s] = "queued"
    /\ Cardinality(Fetching(c)) < MaxFetch
    /\ job' = [job EXCEPT ![c].got[s] = "fetching"]
    /\ UNCHANGED <<now, holder, parents, runs, mapped, tagged, crashes>>

\* connector.fetch returns a snapshot observed now, or raises. Financing
\* snapshots have no issues.
EndFetch(c, s) ==
    /\ job[c].stage = "gather" /\ job[c].got[s] = "fetching"
    /\ \E outcome \in {"complete", "issues", "error"} :
         /\ s \in Financing => outcome # "issues"
         /\ job' = [job EXCEPT ![c].got[s] = outcome, ![c].at[s] = now]
    /\ UNCHANGED <<now, holder, parents, runs, mapped, tagged, crashes>>

-----------------------------------------------------------------------------
\* One source at a time: the order check reads the store, the transaction
\* that follows writes it.

\* The retirement of a source that has nothing left to retire.
SkipRetirement(c, s) ==
    /\ job[c].stage = "retire" /\ job[c].got[s] = "retire"
    /\ job' = [job EXCEPT ![c].got[s] = "skipped"]
    /\ UNCHANGED <<now, holder, parents, runs, mapped, tagged, crashes>>

\* apply_source_lifecycle carries the time the collection began.
CheckRetirement(c, s) ==
    /\ job[c].stage = "retire" /\ job[c].got[s] = "retire"
    /\ MayBeUnretired(s)
    /\ job' = IF OrderOk(s, job[c].begun)
              THEN [job EXCEPT ![c].stage = "commit", ![c].source = s,
                               ![c].at[s] = job[c].begun]
              ELSE [job EXCEPT ![c].stage = "abort"]
    /\ UNCHANGED <<now, holder, parents, runs, mapped, tagged, crashes>>

Retired(c) ==
    /\ job[c].stage = "retire"
    /\ \A s \in Source : job[c].got[s] # "retire"
    /\ job' = [job EXCEPT ![c].stage = "gather"]
    /\ UNCHANGED <<now, holder, parents, runs, mapped, tagged, crashes>>

CheckSnapshot(c, s) ==
    /\ job[c].stage = "gather" /\ job[c].got[s] \in {"complete", "issues"}
    /\ job' = [job EXCEPT ![c].source = s,
                          ![c].stage  = IF OrderOk(s, job[c].at[s]) THEN "commit" ELSE "fail"]
    /\ UNCHANGED <<now, holder, parents, runs, mapped, tagged, crashes>>

FetchFailed(c, s) ==
    /\ job[c].stage = "gather" /\ job[c].got[s] = "error"
    /\ job' = [job EXCEPT ![c].source = s, ![c].stage = "fail"]
    /\ UNCHANGED <<now, holder, parents, runs, mapped, tagged, crashes>>

\* The transaction of apply_snapshot, apply_financing_snapshot or
\* apply_source_lifecycle.
Commit(c) ==
    LET s    == job[c].source
        got  == job[c].got[s]
        kind == IF got = "retire" THEN "retirement" ELSE "snapshot"
    IN  /\ job[c].stage = "commit"
        /\ runs' = Append(runs, [source |-> s, at |-> job[c].at[s],
                                 status |-> IF got = "issues" THEN "PARTIAL" ELSE "SUCCEEDED",
                                 kind |-> kind, parent |-> job[c].parent])
        /\ job' = [job EXCEPT ![c].stage  = IF got = "retire" THEN "retire" ELSE "gather",
                              ![c].source = None,
                              ![c].got[s] = IF got = "issues" THEN "failed" ELSE "ok",
                              ![c].at[s]  = 0,
                              ![c].snapshots = @ \/ (kind = "snapshot" /\ s \notin Financing)]
        /\ UNCHANGED <<now, holder, parents, mapped, tagged, crashes>>

\* record_failed_run: the run of this source in this collection, if there is
\* one, becomes FAILED; otherwise a FAILED one is inserted.
LogFailure(s, p) ==
    LET mine == { i \in ChildrenOf(p) : runs[i].source = s }
    IN  runs' = IF mine = {}
                THEN Append(runs, [source |-> s, at |-> now, status |-> "FAILED",
                                   kind |-> "failure", parent |-> p])
                ELSE [runs EXCEPT ![CHOOSE i \in mine : TRUE].status = "FAILED"]

\* The store raises. A retirement, and a failure that cannot be recorded,
\* leave the per-source handlers of a collection; the latter ends an import.
StoreFails(c) ==
    LET retiring == job[c].got[job[c].source] = "retire"
    IN  /\ \/ job[c].stage = "commit"
           \/ job[c].stage = "fail" /\ ~job[c].import
        /\ job' = [job EXCEPT ![c].stage  = IF @ = "commit" /\ ~retiring THEN "fail"
                                                                       ELSE "abort",
                              ![c].source = IF job[c].stage = "commit" /\ ~retiring
                                            THEN @ ELSE None]
        /\ UNCHANGED <<now, holder, parents, runs, mapped, tagged, crashes>>

RecordFailure(c) ==
    LET s == job[c].source
    IN  /\ job[c].stage = "fail"
        /\ LogFailure(s, job[c].parent)
        /\ job' = [job EXCEPT ![c].stage = "gather", ![c].source = None,
                              ![c].got[s] = "failed", ![c].at[s] = 0]
        /\ UNCHANGED <<now, holder, parents, mapped, tagged, crashes>>

\* An exception outside the per-source handlers: every pending source is
\* failed, and fetches under way are abandoned.
Abort(c, s) ==
    /\ job[c].stage = "abort" /\ job[c].got[s] \in Pending
    /\ LogFailure(s, job[c].parent)
    /\ job' = [job EXCEPT ![c].got[s] = "failed", ![c].at[s] = 0]
    /\ UNCHANGED <<now, holder, parents, mapped, tagged, crashes>>

-----------------------------------------------------------------------------
NonePending(c) == \A s \in Source : job[c].got[s] \notin Pending

AnyOk(c) == \E s \in Source : job[c].got[s] = "ok"

Gathered_early(c) ==
    /\ job[c].stage \in {"gather", "abort"}
    /\ \A s \in Source : job[c].got[s] \notin Pending \ {"fetching"}
    /\ job' = [job EXCEPT ![c].stage = IF AnyOk(c) THEN "project" ELSE "finish"]
    /\ UNCHANGED <<now, holder, parents, runs, mapped, tagged, crashes>>

\* Every fetch is accounted for, or the collection was aborted: any(result.ok).
Gathered(c) ==
    /\ job[c].stage \in {"gather", "abort"}
    /\ NonePending(c)
    /\ job' = [job EXCEPT ![c].stage = IF AnyOk(c) THEN "project" ELSE "finish"]
    /\ UNCHANGED <<now, holder, parents, runs, mapped, tagged, crashes>>

\* rebuild_symbol_matches.
Project(c) ==
    /\ job[c].stage = "project"
    /\ mapped' = Len(runs)
    /\ job' = [job EXCEPT ![c].stage = IF job[c].snapshots THEN "tag" ELSE "finish"]
    /\ UNCHANGED <<now, holder, parents, runs, tagged, crashes>>

\* rebuild_asset_tags.
Tag(c) ==
    /\ job[c].stage = "tag"
    /\ tagged' = Len(runs)
    /\ job' = [job EXCEPT ![c].stage = "finish"]
    /\ UNCHANGED <<now, holder, parents, runs, mapped, crashes>>

ProjectionFails(c) ==
    /\ job[c].stage \in {"project", "tag"}
    /\ job' = [job EXCEPT ![c].stage = "finish", ![c].error = TRUE]
    /\ UNCHANGED <<now, holder, parents, runs, mapped, tagged, crashes>>

\* rebuild_symbol_matches at the API's start and after a manual action.
ProjectUnleased ==
    /\ mapped' = Len(runs)
    /\ UNCHANGED <<now, holder, job, parents, runs, tagged, crashes>>

Outcome_childrenOnly(p, error) ==
    LET statuses == { runs[i].status : i \in ChildrenOf(p) }
    IN  IF statuses \subseteq {"FAILED"} THEN "FAILED"
        ELSE IF statuses = {"SUCCEEDED"} THEN "SUCCEEDED" ELSE "PARTIAL"

Outcome(p, error) ==
    LET statuses == { runs[i].status : i \in ChildrenOf(p) }
    IN  IF error \/ statuses \subseteq {"FAILED"} THEN "FAILED"
        ELSE IF statuses = {"SUCCEEDED"} THEN "SUCCEEDED" ELSE "PARTIAL"

\* finish_collection_run, whatever the run's status has become.
Finish(c) ==
    LET p == job[c].parent
    IN  /\ job[c].stage = "finish"
        /\ parents' = [parents EXCEPT ![p].status = Outcome(p, job[c].error)]
        /\ job' = [job EXCEPT ![c].stage = "release"]
        /\ UNCHANGED <<now, holder, runs, mapped, tagged, crashes>>

Leave(c) ==
    /\ job' = [job EXCEPT ![c] = Idle]
    /\ holder' = None
    /\ UNCHANGED <<now, parents, runs, mapped, tagged>>

\* The audit history is compacted, which touches none of this, and the lease
\* released.
Release(c) == job[c].stage = "release" /\ Leave(c) /\ UNCHANGED crashes

\* The process dies; the kernel drops its flock, SQLite its transaction.
Crash(c) ==
    /\ job[c].stage # "idle"
    /\ crashes < MaxCrashes
    /\ crashes' = crashes + 1
    /\ Leave(c)

\* stale_after_seconds pass for a collection run, whether its writer is dead or
\* slow: systemd kills a refresh long before, but not an operator's collection
\* or import.
Age(p) ==
    /\ Unsettled(p) /\ ~parents[p].stale
    /\ parents' = [parents EXCEPT ![p].stale = TRUE]
    /\ UNCHANGED <<now, holder, job, runs, mapped, tagged, crashes>>

-----------------------------------------------------------------------------
\* What a collection does on its own.
Step(c) ==
    \/ Reconcile(c) \/ Refuse(c) \/ OpenCollection(c) \/ OpenImport(c)
    \/ \E s \in Source :
         \/ StartFetch(c, s) \/ EndFetch(c, s)
         \/ SkipRetirement(c, s) \/ CheckRetirement(c, s)
         \/ CheckSnapshot(c, s) \/ FetchFailed(c, s) \/ Abort(c, s)
    \/ Retired(c) \/ Commit(c) \/ StoreFails(c) \/ RecordFailure(c) \/ Gathered(c)
    \/ Project(c) \/ Tag(c) \/ ProjectionFails(c) \/ Finish(c) \/ Release(c)

Next ==
    \/ Tick \/ ReconcileUnleased \/ ProjectUnleased
    \/ \E c \in Collector :
         \/ \E import \in BOOLEAN : Acquire(c, import)
         \/ Step(c)
         \/ Crash(c)
    \/ \E p \in DOMAIN parents : Age(p)

Spec == Init /\ [][Next]_vars

\* A writer that is not killed goes on: a fetch ends by its timeouts and
\* bounded retries, a transaction by SQLite's. Time passes for an abandoned
\* run, and the timer starts collections again and again.
Fairness ==
    /\ \A c \in Collector : WF_vars(Step(c))
    /\ \A p \in 1 .. MaxParents : WF_vars(p \in DOMAIN parents /\ Age(p))
    /\ SF_vars(\E c \in Collector : Acquire(c, FALSE))

FairSpec == Spec /\ Fairness

-----------------------------------------------------------------------------
TypeOK ==
    /\ now \in 0 .. MaxTime
    /\ holder \in Collector \cup {None}
    /\ job \in [Collector -> Job]
    /\ parents \in Seq(Parent) /\ Len(parents) <= MaxParents
    /\ runs \in Seq(Child)
    /\ mapped \in 0 .. Len(runs)
    /\ tagged \in 0 .. Len(runs)
    /\ crashes \in 0 .. MaxCrashes

\* When a collection counts its children, each source it was to fetch has
\* exactly one, and so has each it retired (finish_collection_run reads no
\* more than those rows).
EverySourceAccounted ==
    \A c \in Collector : job[c].stage = "finish" =>
      \A s \in Source :
        Cardinality({ i \in ChildrenOf(job[c].parent) : runs[i].source = s })
          = IF job[c].got[s] \in {"none", "retire", "skipped"} THEN 0 ELSE 1

\* A collection run that says SUCCEEDED has complete snapshots only, all of
\* them in the mappings and its market snapshots in the tags as well
\* (rebuild_collection_projections before finish_collection_run).
SucceededIsProjected ==
    \A p \in DOMAIN parents : parents[p].status = "SUCCEEDED" =>
      \A i \in ChildrenOf(p) :
        /\ runs[i].status = "SUCCEEDED"
        /\ i <= mapped
        /\ runs[i].kind = "snapshot" /\ runs[i].source \notin Financing => i <= tagged

\* The writer of the collection run has yet to settle it.
AtWork(p) == \E c \in OwnerOf(p) : job[c].stage # "release"

\* A reconciliation took a live writer for a dead one, by the age of its run.
Overtaken(p) == parents[p].status = "FAILED" /\ parents[p].stale /\ AtWork(p)

\* A settled collection run keeps its outcome, with one exception: that of a
\* run whose live writer was taken for dead. Its writer revises it, once, when
\* it settles it itself, and to what its ingest runs say
\* (reconcile_stale_collection_runs, finish_collection_run).
OutcomeIsFinal ==
    [][\A p \in DOMAIN parents :
         ~Unsettled(p) /\ parents'[p].status # parents[p].status
           => /\ Overtaken(p) /\ ~AtWork(p)'
              /\ parents'[p].status = Outcome(p, FALSE)]_vars

\* The ingest runs are a ledger: whatever crashes, waits in a bundle or runs
\* beside it, no snapshot is recorded behind a newer complete one, and no
\* run is ever revoked, by the failure branch of record_failed_run either.
LedgerOf == INSTANCE Ledger WITH
    Time <- Instant,
    runs <- [i \in DOMAIN runs |->
               [source |-> runs[i].source, at |-> runs[i].at, status |-> runs[i].status]]

ImplementsLedger == LedgerOf!Spec

\* No collection run stays RUNNING: its writer finishes it, or a later
\* reconciliation fails it, whenever a writer starts again.
RunsSettle ==
    \A p \in 1 .. MaxParents :
      (p \in DOMAIN parents /\ Unsettled(p)) ~> (p \in DOMAIN parents /\ ~Unsettled(p))
=============================================================================
