# Asset Master Data: a TLA+ verification project

Asset Master Data (`mdv`) collects the public market catalogs of exchange
venues into a SQLite database, keeps the history of every market, derives the
mappings from venue symbols to canonical assets, and serves the result. This
directory models the parts of it whose correctness depends on order, time and
failure, checks the models with TLC, and proves the most important facts with
TLAPS. Paths below are relative to the repository.

## The system

| Component | State it keeps | Operations | Modelled in |
| --- | --- | --- | --- |
| Source lifecycles (`src/mdv/lifecycle.py`, `config.py`) | configured phases of a source | phase in force at an instant, whether to fetch, rewriting a snapshot | `Lifecycle` |
| Market catalog (`db.py`: `apply_snapshot`, `apply_source_lifecycle`, `record_failed_run`; `connectors/base.py`: `market_availability`) | `markets`, `market_lifecycle_events`, `ingest_runs` | apply a snapshot, retire a source, record a failure | `Catalog` |
| Run ledger (`ingest_runs`) | the runs, in commit order | append | `Ledger` (abstract) |
| Collection and bundle import (`collection.py`, `bundles.py`, `db.py`) | the writer lease, the call frame of each writer, `collection_runs`, `ingest_runs` | acquire, reconcile, retire, fetch, check, commit, fail, project, finish, release, crash | `Collection` |
| Schema migrations and backfills (`db.py`, `migrations/`) | `schema_migrations`, `data_backfills` | migrate, backfill once | `ManualActions` |
| Manual asset actions (`db.py`, `web.py`, `manual_asset_actions.json`) | delivered and local actions, tombstones | synchronise at start, create, edit, delete, rebuild | `ManualActions` |
| Symbol matching (`db.py`, `matching.py`) | none: a function of the rows and the actions | candidates, decision, group, confidence | `Matching` |
| Mappings, tags (`db.py`) | mappings and revisions, candidates, multipliers, tags and their events | rebuild | `Projection` |
| Financing catalog (`db.py`, `connectors/financing.py`) | products, events, mappings and revisions | apply a financing snapshot, rebuild | `Projection`; its runs in `Collection` |
| Mapping resolver (`db.py`, `resolution.py`) | none, reads | resolve a basket | `Queries` |
| Change log, coverage of an asset (`db.py`) | none, reads | read a page | `Queries`; the filters of the log in `Listing` |
| Market and asset listings, filter metadata (`db.py`, `web.py`) | none, reads | filter, page | `Listing` |
| Audit compaction (`db.py`: `compact_audit_history`) | observation tables, `audit_compaction_stats` | expire, clear payloads, prune, count | `Audit` |
| Sign-in (`web.py`) | failures per address, reservations, hash slots | authenticate | `SignIn` |
| Bundle export (`bundles.py`, `cli.py`), provider connectors (`connectors/*.py`) | the file of the bundle | fetch with retries and pages, write, replace | `Export` |
| Deployment and runtime backup (`deploy/systemd/deploy.sh`, `runtime_backup.py`) | releases, current link, archive and keys, units | build, quiesce, back up, migrate, switch, check, roll back, resume | `Deployment` |
| Sessions and the cache of credentials (`web.py`), readiness and diagnostics (`db.py`), financing list, HTML pages, version | see below | read | not modelled |

How they interact. A systemd timer starts `mdv collect`, a process of its own;
an operator may run `mdv collect` or `mdv bundle-import` at the same time. Each
takes the advisory lock on `<database>.collection.lock` without waiting, and
the one that finds it taken fails. The holder fails abandoned collection runs,
opens one of its own, retires the sources that are past their cutoff, fetches
the others as tasks of one event loop under a semaphore, and for every result
reads the order of the runs and then writes the source in one transaction.
Finally it rebuilds the projections, settles its collection run from its
ingest runs, compacts the history and releases the lock. The API process reads
the same database, and at its start reconciles collection runs and rebuilds
the mappings *without* the lease; so do `mdv doctor` (reconciling) and manual
actions (rebuilding). A bundle carries one venue's snapshots from another host
whose clock is its own, and may be imported long after it was exported.

What is hard, and the property that watches it:

- A snapshot is *observed* at one time and *applied* at another. Several
  hosts, bundles and retries can apply them in any order (`ImplementsLedger` of
  `Collection`), and none may bring back what a newer one ended (`ActiveIsConfirmed`).
- The phase that decides a fetch, the phase that restricts what was fetched
  and the phase that retires a source are read at different instants
  (`RestrictionHolds`).
- Absence is evidence only in a complete snapshot, and not even there when a
  whole cohort of session markets is missing (`UnseenSurvivesPartial`,
  `CompleteSnapshotSettles`).
- The availability of a market, its log and its trading hours are written by
  different branches (`ActiveIsNotTerminal`, `LogExplainsCatalog`).
- The order check is not in the transaction that relies on it; only the lease
  makes the pair atomic (`ImplementsLedger` of `Collection`).
- An exception can end a collection while some sources have results, some are
  in flight and some have not started (`EverySourceAccounted`).
- A writer can die anywhere, and another process may declare a writer that is
  alive dead (`RunsSettle`, `OutcomeIsFinal`).
- The projections are rebuilt after the snapshots are committed, if at all
  (`SucceededIsProjected`), in several transactions between which rows and
  actions change (`MappingsAgree`, `FinancingFollows`, `UnitCountsOnce`), and
  their histories must not miss a step (`RevisionsExplain`,
  `FinancingLogExplains`, `TagLogExplains`).
- Every process migrates, synchronises and backfills when it opens the
  database, outside any lock and beside operators (`UseIsPrepared`,
  `EveryStartSucceeds`, `DeliveryArrives`, `SettledChangesSurvive`, and the
  violated `LocalChangesSurvive`).
- Reads are several statements, mostly without a transaction, and comparisons
  with NULL are neither true nor false (`BasketIsOfOneState`,
  `CoverageIsPossible`, `LogFailsOnlyByRemap`, `AssetsMeanTheirFilters`,
  `MarketsMeanTheirFilters`, `MetadataOffers`), and the log filters once in SQL
  and once in code (`LogMeansItsFilter`).
- Compaction works in batches of a transaction each, and counts in another
  (`CountersAccount`, `CeilingReached`, `UnchangedExpire`).
- A password is hashed in a thread while other attempts are admitted
  (`BudgetHolds`, `ReservationsAccount`).
- A page is retried while a provider lists and delists, and a file is replaced
  where a kill or a power loss may come between (`FetchIsExact`,
  `FileIsWhole`).
- A deployment is a script that may die at any command while systemd starts
  and restarts what it deploys (`QuietMigration`, `ServesItsSchema`,
  `ScheduleRestored`).

The list of hazards, each at its line, is in `PROJECT.json`.

## The modules

`Lifecycle` has no state. `Phases[s]` is the list of phases an operator gives
source `s`; `PhaseAt(s, t)` is the one in force, `Collectable` decides whether
`s` is fetched, and `Restricted` is `lifecycle_snapshot` on one record.
`PhasesAssumption` is what `from_yaml` accepts: increasing instants, and a
status of `CLOSED` or `MISSING` where collection stops. An empty list is a
source without a lifecycle.

`Ledger` is the abstract promise about `ingest_runs`: rows are only appended,
and a snapshot is recorded only if no complete one of its source is newer.
`Collection`, where the order check and the transaction that relies on it are
separate steps of several writers, is shown to implement it. In `Catalog` the
check is in the transaction, and the refinement would say nothing; there
`ActiveIsConfirmed` states what the order is for.

`Catalog` is the store's market side, one transaction per step. `rows[m]` is the
row of `markets` (status, activity, absence cohort, `last_seen_at`); `runs` is
`ingest_runs`; `told[m]` folds `market_lifecycle_events` into the status and the
activity its events leave behind. (A `DISCOVERED` event carries the status
only; its activity is read from the observation of the same run.)
`ApplySnapshot` is the whole of `apply_snapshot`: order check, run, listed rows
with `market_availability`, events with the session rule, and the absence rule
with its cohorts; `decided` is the instant at which the collection found the
source collectable, `at` the observation. `RetireSource` is
`apply_source_lifecycle`, `RecordFailure` the insertion of a failed run. The
other attributes of a market, its observations and raw payloads are not state
here: no property tells them apart.

`Collection` is what happens around those transactions, for several writers.
`job[c]` is the call frame of process `c`: its stage, its parent collection
run, what it knows of each source (`got`) and when that was observed (`at`),
whether a market snapshot was applied and whether a projection failed. A stage
is a place where another process can run or this one can die, so the order
check (`CheckSnapshot`, `CheckRetirement`) and the transaction (`Commit`) are
separate steps, as are the commits, each projection, the settling and the
release. Retirements run first and outside the per-source handlers, as in the
code, so a refused one goes to `Abort`; an import has no retirements and no
outer handler. `parents[p].stale` says that `stale_after_seconds` have passed
for a run: time enters only through that and through `now`, the host's clock.
What a snapshot does to the markets is `Catalog`'s; here a source is its runs,
and `mapped` and `tagged` are how many of them the mappings and the tags have
read.

`ManualActions` is how a process opens the database. `pc[p]` is its place
between two statements: it reads the applied versions (`Open`), runs each
missing file in a transaction (`RunScript`, or `ScriptFails` when another
process was faster), reads the tombstones, looks at one delivered action
(`Peek`) and writes it (`Write`) in another statement, lists the delivered rows
and deletes those its build no longer has (`Prune`), and backfills under a
marker. The API then rebuilds and serves `Create`, `Edit` and `Delete`, each of
which rebuilds before it returns. `local`, `touched` and `resynced` are history
for the properties.

`Matching` is the pure part of `_rebuild_market_symbol_matches`: which markets
are listed, the proposals of the unit, alias and suffix policies with their
evidence (`evaluate_alias_hint`), the choice among them and the operators' actions
(`Decide`), and what the markets of a symbol say of each other
(`score_symbol_groups`). How a symbol is normalised is a table (`Unit`, `Strip`).
`Projection` has the transactions around it: snapshots, financing snapshots,
actions, and the three rebuilds, which any process may run at any time and may
die between. `read` remembers what the last market rebuild read, `snapped` that a
snapshot was applied since, and `behind` that something was committed since the
financing rebuild followed it. A snapshot writes the multiplier even when it says
nothing new. Only a collection rebuilds tags, and it holds the lease
from its snapshots on, hence the guard of `RebuildTags`.

`Queries` and `Listing` are readers beside writers. A reader is a `page` and the
statement it is at; `during` collects the states the store was in while the
request ran, so that a property can ask of which of them the answer is. The
resolver reads in one transaction and its `view` stays; the others see the
last commit at every statement. In `Queries` a rebuild maps a market to any
asset it may belong to. In `Listing` a filter is a record of sets, SQL's
comparisons are three-valued (`Not`, `Or`, `And`, `In`), and the reference
definitions are the properties' own: `Meant` for assets, composed of single
filters of markets, and `Admitted` for markets, in two-valued logic. The log is
the set of `Change`s that collections and tag rebuilds append to their collection
run; a request counts and reads the runs (`Selected`), and then the changes of
those runs (`Keeps`), in four statements. `Meets` is what its filter says.

`Audit` is the loop over one observation table; a compactor is at the phase it
runs, and each batch is one action. `done` and `lost` are history: what batches
did, and what killed compactors had not told.

`SignIn` is `authenticate_bounded`: `Admit` and `Refuse` are what happens before
the await, `Succeed`, `Fail` and `Raise` what happens after it with the finally
clause. `remembered` is the insertion order of the dictionary, of which the
first is evicted at `Capacity`. `counted` is history.

`Export` goes from the provider to the file. `listed[s]` is what the provider has,
`fetch[s]` the state of one fetch (attempt, page or cursor, rows so far, and the
rest of a streamed response), `stage` where the command is, `file` what is at the
path and `durable` what would be there after a power loss. `Accepted` is
`_validate_bundle` of the importing host.

`Deployment` is `deploy.sh` command by command, with `Fail` (the exit trap, which
rolls back from where it is) and `Kill` (no trap) at each, beside the timer,
the collector and the service, which systemd starts on its own. `schema` is the
release that migrated the database last.

The `MC` modules give the constants small values. `CatalogProofs`,
`CollectionProofs`, `DeploymentProofs`, `AuditProofs`, `ManualActionsProofs`,
`ProjectionProofs`, `QueriesProofs` and `ServiceProofs` hold the proofs. The last is
about three machines that share nothing, `SignIn`, `Export` and `Listing`, whose
definitions therefore have prefixed names (`SignInSpec`, `exportVars`, `ListingNext`).

## The runs

| Run | What it shows |
| --- | --- |
| `catalog` | Three transactions in any order, at any of three instants, keep the catalog, its log and its runs consistent. |
| `collection` | Two writers and two collection runs: one ingest run per source, a successful collection is projected, the runs are a ledger. |
| `collection_live` | The same with a crash and fairness: every collection run settles, and a settled one keeps its outcome unless its live writer was taken for dead, who then revises it once. |
| `manual_actions` | An API and a collector open the database at once, twice, with two operator changes, a crash and a deployment: use is prepared, the delivery arrives, mappings follow, settled changes survive, and every start succeeds. |
| `manual_actions_local` | *Violated.* A synchronisation overwrites what an operator does while it runs. |
| `projection` | Three changes and any rebuilds between them: mappings, revisions, multipliers, financing and tags are what the rows say. |
| `queries` | Two commits and any rebuilds during a resolution, an asset page or a log page. |
| `audit` | Two compactors, one of them killed, over three observations and three instants. |
| `sign_in` | Three requests of two addresses on two slots, with a clock, eviction and an error. |
| `deployment` | Any deployments of four releases, each failing or killed anywhere. |
| `export` | Two exports of a streamed, a cursor-paged and a counted source while the provider changes, with kills and power losses. |
| `listing` | Every request of a list that has each filter alone and those that interact, of assets, markets, metadata and the log, torn by two writes. |

Bounds, and why they are enough:

- `MaxTime` (instants `0 .. MaxTime`). The catalog needs an instant before,
  within and after its two phases: 2. The collection needs one before and one
  at the cutoff: 1. `Ahead` is how far an exporting host's clock may be ahead:
  with 1, its snapshot is newer than anything this host can observe now.
- `MaxRuns = 3`. Two transactions set a state up and a third breaks it; the
  absence rule needs one snapshot that lists a cohort and one that omits it.
- The catalog's markets are two session markets, which may form a cohort (the
  smallest one that can be wholly absent), and an ordinary one; the session
  markets are interchangeable, hence the symmetry.
- `MaxParents = 2`: a collection run of each writer, or an abandoned one and
  its successor. `MaxFetch = 1`: with two sources, one waits for the semaphore.
- `collection` has a financing source and a market source that retires, in two
  venues. It has no crash; `collection_live` has one, with one source, no
  symmetry (it would be unsound for liveness) and no clock, since its
  properties do not depend on lifecycles.
- No run bounds how long a writer takes: `Age` may strike the collection run of a
  live writer at any moment, and a reconciliation then fails it.
- `manual_actions`: a delivered action that the second build keeps, one that it
  withdraws and one of an operator are every kind there is. Two changes make
  an edit and a deletion, the order in which they differ.
- `projection`: two venues, a symbol that is renamed, a unit prefix, a token that
  hints at a share and a suffix are every policy once; three changes
  (`MaxChanges`) let a market or product appear, change and return. Rebuilds
  are not counted, so a history with every interleaving of them is explored.
- `queries`: two commits (`MaxWrites`) fall between any two of a page's
  statements, and the store starts empty or mapped in several ways. Two of the
  futures can be of one asset and venue, so that one is the other's predecessor.
- `audit`: a batch of two over three rows leaves one for a second batch; a
  ceiling of one is exceeded by two.
- `sign_in`: `Capacity = 1` stands for 1024, so that the second address evicts the
  first; four failures exceed a budget of two by as much as the slots.
- `export`: two attempts and two pages, and three instruments, so that a third page
  is one too many; one change of the listings during a fetch (`MaxListings`).
  `Terminal` is empty here: with a terminal source no bundle of the venue is
  accepted at all, which is finding 7.
- `listing`: four markets have an asset in two venues, a NULL cycle and a market
  without a mapping. `MaxWrites = 2` puts a commit between two statements twice.
  Two collection runs are in the log at the start, of which one has changes of two
  venues and days and the other a session's status change only.
- `deployment` has no counter: its state is finite. Of four releases two are installed, so a second success leaves one to prune.

Deadlock is checked where a process may always come: the collection, the manual
actions, the compaction, the sign-ins, the exports and the deployments. In
`catalog`, `projection`, `queries` and `listing` a behaviour may end with its last
bounded change or its one request, and the check is off.

Fairness. *Collection* (`FairSpec`): every `Step` of a writer is weakly fair: a
fetch ends by the client's timeouts and its bounded retries, a transaction by
SQLite's busy timeout, and `TimeoutStartSec` kills a refresh that does not end,
which is `Crash`. `Age` is weakly fair: `stale_after_seconds` pass. The acquisition
of the lease by a collection (not by an import) is strongly fair: the timer
starts a collection again and again, and even if it sometimes finds the lease
taken it does not always. Crashes, imports, the API's reconciliation and its
rebuilds are never forced.
*Manual actions*: a process that is down is started again, by the service's
`Restart=on-failure` or by the timer, and its own statements go on; operators,
crashes and deployments are never forced. *Audit*: a compactor that began goes
on, and the timer begins another. The other modules state safety only.

## What was found

Each is in `PROJECT.json` with the lines it contradicts. Those without a run were
met while a module was written, and its properties say what remains true.

1. `_assert_snapshot_order` looks at `SUCCEEDED` runs only. After a `PARTIAL`
   snapshot an older snapshot is applied and takes the rows back. (`Ledger`
   says no more than the code does.)
2. A source whose phase still collects when the collection begins, but is
   observed at its terminal cutoff, is not restricted by `lifecycle_snapshot`, and
   its markets become active again until the next collection.
3. When every source of a collection ends `PARTIAL`, no result is `ok` and the
   projections are not rebuilt, although the catalog changed.
4. An order refusal while retiring one source leaves the try block, and every
   other source is recorded `FAILED` without having been fetched.
5. Reconciliation judges a run by its age, not by its writer; a live writer's
   run is failed, and its own settling then overwrites that. `OutcomeIsFinal`
   states that nothing else ever changes a settled outcome, and that this happens
   once. With the defaults (1800 seconds of `TimeoutStartSec`, 7200 of
   `stale_after_seconds`) it takes an operator's own `mdv collect`, which has no
   such limit, or another setting.
6. A collecting phase with the status `CLOSED` does not restrict a market whose
   session is closed: `market_availability` reads it as a pause. Found when the
   proof of `RestrictionIsObeyed` could not be finished; `RestrictionHolds`
   excludes that status.
7. An export leaves out the sources that no longer collect, and an import
   refuses a bundle without all registered sources, so a venue one of whose
   sources is terminal cannot be imported at all.
8. The synchronisation of delivered actions overwrites what an operator does
   between its reading and its writing (`manual_actions_local`), and it delivers
   again an action that was edited and then deleted, since only a row that is
   still the delivery's leaves a tombstone. `LocalChangesSurvive` forbids both; the
   trace TLC prints is the first, and `SettledChangesSurvive` is what remains.
9. A snapshot sets the multiplier of a mapped `1000X` market again until the next
   rebuild; `UnitCountsOnce` speaks of rebuilt mappings. Where a manual action
   maps the market or renames its asset (or a hint is accepted), the multiplier
   is reset to 1, so that neither the asset nor the unit says the thousand;
   `UnitCountsOnce` asks for it of the rules only.
10. The `STOCK` suffix alone is accepted as an identity, against one of the two
    sentences about it.
11. A mapping is stale after any run that is not complete; the API's document
    says after one that is.
12. Coverage can read "2/1 VENUES", the change log can raise a `TypeError`, and
    an asset page can show several states at once, because their statements
    are not in a transaction.
13. `SYMBOL` means other things than documented on the change log (no base
    symbols, but the tags of runs that are listed anyway) and on markets (all of several values, and no market without a
    mapping when excluded); `CONTRACT!=CQ` drops dated futures without a cycle,
    an unknown `CONTRACT` is a server error, `FUTURES!=V` drops assets without
    futures, and the metadata may omit a venue whose runs are all partial.
    `CHANGES_ONLY` lists runs without a change where an earlier release logged the
    status changes of sessions.
14. A deployment that is killed leaves the timer stopped, and the next one takes
    that for the operator's wish; its second backup overwrites the first; a
    rollback loses what was committed since the backup; half a key pair blocks
    every later backup.
15. A financing product that returns is logged as `ACTIVATED` with its status
   only; if its eligibility changed meanwhile, no event says so.
   `FinancingLogExplains` therefore takes the eligibility for unknown from a
   product's appearance to its next change.
16. The compaction counters lose what a killed compactor had done but not reported;
   `CountersAccount` states that nothing else is lost or counted twice.
17. XT's counted pages can skip a currency when another is delisted between
    them (`FetchIsExact` speaks of streams and cursors); several connectors
    leave siblings running after a failure.

## What is proved

The theorems hold for every value of the constants that satisfies the modules'
assumptions: any set of sources, markets, writers, venues and phases, any bound
on time, runs, collection runs and crashes, any number of releases. `PhasesAssumption` is what
`from_yaml` enforces; `CatalogAssumption` and `CollectionAssumption` give the
constants their types (and say that a venue has a source); `DeploymentAssumption`
says that the first release is one of them. `SignInAssumption` and
`AuditAssumption` say that requests and compactors are finitely many.
`ExportAssumption` says the same of instruments, and that there is at least one
instrument to a page, one page, one attempt and one fetch at a time.
`ListingAssumption` describes the catalog and the requests, and each part has its reason in the
code: symbols are `NOT NULL` columns (`SensibleCatalog`); only connectors of futures set
an expiry cycle; a start has finitely many collection runs (`SensibleStore`); `CONTRACT`
is one of `PERP`, `DATED` and the cycles or refused, other filter values are the texts of a
query string, and days are dates (`SensibleQuery`, `SensibleLogQuery`).
`ManualActionsAssumption` says that a single process serves the API (`mdv serve`
runs uvicorn without workers) and that there is a build;
`ProjectionAssumption` that there are finitely many markets, that symbols and hints
are of the given types, that no provider reports the status `MISSING`, and that
`None` is no row; `QueriesAssumption` that there are finitely many markets, and
that a behaviour begins with a store in which every market has a run of its
source. The types of the catalog and of the
collection are proved as `TypeCorrect`, and `Invariance` (in `ServiceProofs`
`SignInInvariant`, `ExportInvariant` and `ListingInvariant`) is the inductive
invariant, of the deployment its types included; the others are:

| Module | Theorem | What it establishes |
| --- | --- | --- |
| `CatalogProofs` | `OffersNoTerminal` | no market is active in a terminal status |
|  | `LogIsFaithful` | the lifecycle events explain every row |
|  | `PartialRemovesNothing` | a partial snapshot removes no market it does not list |
|  | `RestrictionIsObeyed` | what a restricting phase rewrites stays restricted |
|  | `CompleteSettles` | what a complete snapshot leaves active it lists, or a whole cohort is missing |
|  | `OffersAreConfirmed` | what is offered outside the cohorts was seen by the newest complete run of its source, or since |
| `CollectionProofs` | `WritersExclude` | at most one writer is at work, whoever crashes |
|  | `SourcesAreAccounted` | a collection that settles has one run for every source |
|  | `KeepsLedger` | the collection implements `Ledger` |
|  | `OutcomesStay` | a settled collection run keeps its outcome, unless its live writer was taken for dead and revises it |
|  | `SuccessIsProjected` | a collection run that succeeded has been projected |
| `DeploymentProofs` | `MigrationIsQuiet` | nothing has the database open, or can start, while it is archived, migrated or restored |
|  | `SchemaIsServed` | what runs is complete and finds its own schema, unless a deployment could not finish |
|  | `ScheduleIsRestored` | a deployment that ends leaves the timer as it found it, unless it was killed or says so |
| `ServiceProofs` | `SlotsAreReturned` | reservations and taken slots are exactly those of the attempts under way |
|  | `BudgetIsKept` | no window has more counted failures of an address than the budget |
|  | `FetchesAreExact` | a complete stream is one listing; complete pages by cursor have what was listed throughout and nothing that never was |
|  | `FilesAreWhole` | the file is absent or whole, with every collectable source, and none older than an export that exited |
|  | `FilesAreAccepted` | that file is accepted by an import, if no source is terminal |
|  | `AssetPagesMeanTheirFilters` | the assets listed are those that single filters of markets, composed, mean |
|  | `MarketPagesMeanTheirFilters` | comparisons with NULL omit a market in three cases only, and never add one |
|  | `MetadataOffersWhatPagesList` | the metadata offers what lists something |
|  | `LogPagesMeanTheirFilter` | the log's filter in SQL and its filter in code agree but for the cases named |
| `AuditProofs` | `CountersAreExact` | the counters are what was cleared and pruned, but for what killed compactors had not told |
|  | `CeilingIsReached` | a compactor that stops pruning leaves the table at the ceiling or below |
| `ManualActionsProofs` | `UseFollowsPreparation` | nobody uses a database that is not migrated and backfilled; the backfill happens once |
|  | `StartDelivers` | what no operator changed is what the build delivers |
|  | `ServingFollows` | between requests of the API the mappings reflect every action |
|  | `ChangesSurvive` | a synchronisation takes away only changes made while it ran, or deletions without a tombstone |
| `ProjectionProofs` | `RevisionsAreTheHistory` | the mapping in force is the last of its revisions, none of which repeats |
|  | `RenamesAreComplete` | a renamed symbol is nobody's asset but by an action |
|  | `AssetsAgree` | the markets of an asset have the same evidence, and a policy an accepted candidate |
|  | `UnitsCountOnce` | the thousand of a prefix that the rules remove is in the multiplier, and never in both |
|  | `FinancingIsCurrent` | financing of an asset is financing of the one asset of its symbol |
|  | `FinancingIsTold` | the events of a product replay to its row |
|  | `TagsAreTold` | a tag is added and removed in turn |
| `QueriesProofs` | `BasketIsRead` | a whole basket is resolved in one state of the store |
|  | `CoverageIsRead` | coverage exceeds the supported venues only by venues that were not complete |
|  | `LogIsRead` | the log fails only by a remapping; otherwise its listings are those of one state |

The arguments:

- *Catalog.* `IInv` is `TypeOK /\ ActiveIsNotTerminal /\ LogExplainsCatalog`. No
  part is inductive alone: the session rule writes an event or not depending
  on the row before, so the log needs the row's type, and that it never says
  active of an inactive row. Since each transaction treats each market
  by itself, the proof is about one market (`Sound`) and one lemma per way a
  row is written: listed, absent, retired. The action properties then
  follow from the type and the definition of the step.
- *Confirmation.* That what is offered was seen by the newest complete run is
  inductive with the types of the catalog. A complete snapshot either lists a market,
  and then the row carries its instant, or ends it, unless a cohort excuses it;
  by `OrderOk` no complete run of the source is newer than that instant
  (`NoneNewer`), which is also why a partial snapshot or a retirement cannot take a
  row behind one. There is a lemma for each transaction.
- *Ledger.* In `Collection` the order check is a step before the transaction, so
  `Framed` carries it: at stage `commit` the order still holds of the source being
  written. It survives the steps of all other writers because `Exclusive` (whoever
  is not idle has the lease) keeps them idle, and those that need no lease
  write no runs.
- *Accounting.* `Framed` also says that a source with a result has exactly one
  run in the writer's collection run and every other source none. A new
  collection run has none, because every run belongs to a collection run that
  exists (`Parented`); each result then adds one and overwrites none. `IInv` is
  `TypeOK`, `Exclusive`, `Parented` and `Framed` of every call frame.
- *Outcomes.* `Held` says that the collection run of a writer at work is `Standing`:
  running, or failed by its age. One writer is at work at a time, so nobody but it
  settles its run in another way (`NextHeld`). A step that changes a settled outcome
  is then that writer's `Finish`, without a projection error to report (its outcome
  would be `FAILED` again), and after it nobody is at work on the run
  (`FinishRevises`).
- *Projection.* `Prepared` says what each stage knows: a complete snapshot has
  made its result `ok`, a market snapshot has asked for tags, and at `finish`
  without an error every run of the collection has been read. `SInv` joins it
  to `SucceededIsProjected`, and to the fact that a writer at work has a
  collection run that has not succeeded.

- *Deployment.* `IInv` has a part for each thing the script relies on later:
  `Staged` says which flags a place implies (the exit trap decides by them how
  much to undo), `Quiet` what is already stopped, `Installed` which directories
  are complete, `Scheduled` what is remembered of the timer, `Archived` that the
  archive is this deployment's, and `OfCurrent` whose schema the database has.
  The last needs all the others: a rollback restores the schema only if the
  archive is its own, and between the migration and the switch the schema is
  not the current release's, which is harmless because by `Quiet` nothing can
  open it. `Ordered` keeps a deployment from migrating backwards. `stranded` and
  `lost` except the deployments that were killed or whose rollback failed. There
  is a lemma for each part (`TypeStep`, `StagedStep`, ...).

- *Sign-in.* The budget is shared by the failures that are counted and the attempts
  that are not: `IInv` says that the part of the history within any window is a
  tail of it that the deque of the address still holds, and that the deque and
  the reservations of an address together stay within the limit. A failure
  moves one from the reservations to the deque; eviction and success forget both
  the deque and its history. Cardinalities of the requests under way move by one.
- *Audit.* The counters are a sum over the compactors, defined by recursion over a
  set. That the sum of one compactor's change is that change is proved by
  induction over the set (`FoldMoves`), as is what a bounded batch takes
  (`OldestCounts`). A batch then moves as much from the rows to its compactor's
  result, a report from the result to the counters, a kill from it to `lost`.
- *Opening the database.* `Passed(p)` says what a process has behind it at each place
  (its scripts, the marker, what it has synchronised and deleted), `Looked(p)` what
  its last reading is worth at the write that follows it: the row is as it was
  read, or someone has touched it since. With one serving process, a row that
  differs from the mappings is one that a synchronisation wrote.
- *Projections.* A market rebuild is a function of what it reads: `MapOf(rows, over, m)`
  is the row `Mapped` has for market `m` (`MappedIs`), and `Projected` says that
  a mapping is `MapOf` of `read`. What the policies choose (`PolicyChooses`,
  `DecideChooses`) then gives each property about mappings without another
  induction. `Current` ties `read` to the rows until the next snapshot, and the
  multipliers to the mappings that a prefix decided. The
  financing mappings rest on the catalog alone, since a set of one
  element has no other. The two logs have invariants of their own; that the
  events of a product tell a state at all, and the same one when more are appended,
  is proved by induction on the length of the log (`TellsSomething`, `SoundGoesOn`).

- *Readers.* `Grows` is what all commits have in common: a market stays, with its
  first instant, and a universe once complete stays so. `IInv` says that every
  state in `during` has grown into the present one (`DuringInv`) and what a page
  has so far is a function of one of them (`GotInv`). The rest is about two states,
  one grown into the other: the earliest market of a group that has one exists
  (`LogTells`), and an unsupported venue was not complete (`SupportedLasts`).
  For the basket it is about one state: the rows that the two statements return
  and the code counts are what `ResolvesTo` quantifies over (`ResultMeans`).
- *Exports.* `ExportIInv` has two parts. `FetchesSound` says what a fetch has of the
  listings that its source had since it began (`seen`): a stream's rows and the rest of
  its response are together one of them, in order, with the end mark (`Served`); pages up to the
  cursor have every instrument that was listed throughout, and none that never was. The cursor
  carries it from page to page: a page is the first instruments beyond the
  cursor of what is listed now (`FirstOf`), so whatever it skips was not listed now, and the
  new cursor is its last. A retried page has the rows before it and the same cursor; a
  retried stream must begin with none (`Kept`), since its next response may be
  another listing. `StagesOrdered` says which export `file` and `durable` are of at each stage; a
  power loss leaves one of the two, and neither is older than an export that exited,
  because that one forced the directory to disk. `FilesAreAccepted` has the hypothesis `Terminal = {}`, the bound of the
  run too: without it the property is false (finding 7), and `FilesAreWhole` is what remains.
- *Listings.* `ListingIInv` says that `during` has the present store (`StoresRemembered`) and
  that each field of `got` is what its statement returns in one of these states (`Gathered`),
  for each statement a reader may be at. A writer only adds to `during`, so it keeps both. The rest is about
  the states a page was read in: that a list is `Meant` of them, by one lemma for each
  filter in which SQL's third value is followed through `Not`, `Or` and `And` to
  where it is true only if the two-valued reading is, or the case the property names. The
  log's two filters can disagree because runs and changes are read at two instants; a log
  that only grows bounds how. Metadata is read key by key in a fixed order, whose keys are
  distinct (`Kinds`), so that none is read twice. The four properties are conjuncts, since a
  page that has ended keeps them while the writers go on.

*Induction.* The library's theorems on induction and recursion take an operator as a
parameter, which the installed provers do not instantiate. `AuditProofs` and
`ProjectionProofs` state what they need about sets instead (`NumberInduction`: a set
of numbers with 0 and closed under successor is all of them; `SetInduction`: a set
of subsets of a finite set that grows by one element has them all), from the
well-foundedness of the naturals (`LeastNumber`).

Only model-checked: the liveness properties `RunsSettle`, `EveryStartSucceeds` and
`UnchangedExpire`, since the prover has no reasoning about fairness and `ENABLED`.
Every safety property of a passing run is proved. `LogFailsOnlyByRemap` is in the form the proof needed: that
a listing has an earlier discovery on the same page, as it once said, is false, since
a partial snapshot of an earlier instant may bring the predecessor between the two
statements.

## What is not modelled, and what is assumed

- SQLite's transactions are atomic and durable, a statement outside one sees
  the last commit, and the kernel drops a dead process's lock. All are taken
  from their documentation.
- Exporting hosts have the same lifecycles configured as the importing one.
- `finish_collection_run` is not interrupted by a reconciliation (each is one
  transaction).
- Durations: a fetch ends, but how long it may take is not computed.
- Data translation (payloads of the providers, decimals, digests, spelling of
  symbols, pages and HTML) has no state of its own.
- Market attributes other than those a property tells apart; in `Listing` three
  columns stand for all that are filtered alike, and patterns with `?` or `[`
  are left out. So are requests that are refused for a value no filter knows (the
  `ValueError`s of `db.py`:2654), which read nothing.
- A financing symbol stands for itself and for itself with, or without, the suffix
  `STOCK` (`Spellings`). The symbol `STOCK`, which has an empty stem, is left out.
- `LIMIT` and `OFFSET`, and the financing list with its separate count: a page
  shows part of what the models compute.
- Sessions and the cache of accepted credentials: dictionaries that expire by
  the clock, without an await inside an operation.
- Readiness, diagnostics and statistics: read-only reports in several
  statements; a deployment takes the answer as either.
- Entitlement files: two commands that read, change and replace the same file
  keep the last one's; the replacement itself is `Export`'s.
- The first deployment over a legacy checkout and its database path.

## What is left

The liveness properties, for which this prover has no rules, and the parts that are
not modelled.
