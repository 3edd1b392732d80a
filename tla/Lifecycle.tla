----------------------------- MODULE Lifecycle -----------------------------
(***************************************************************************)
(* Configured source lifecycles: the phases an operator gives a market     *)
(* source in collection.source_lifecycles, and how the phase in force at   *)
(* an instant decides whether the source is fetched and what a fetched     *)
(* snapshot is allowed to say about its markets.                           *)
(***************************************************************************)
EXTENDS Naturals, Sequences, FiniteSets

CONSTANTS
    Source,   \* the collected universes, one connector each
    Phases    \* Phases[s]: the configured phases of s, oldest first

\* A status normalize_status can return.
Status == { "TRADING", "PAUSED", "UNKNOWN", "PRELAUNCH", "BUY_ONLY", "SELL_ONLY",
            "API_RESTRICTED", "CLOSE_ONLY", "DELISTING", "DELIVERING", "SETTLING",
            "CLOSED", "MISSING" }

\* The statuses a non-collecting phase may leave behind.
RetiredStatus == {"CLOSED", "MISSING"}

\* A phase without a configured status keeps the provider's own: "NONE".
Phase == [at: Nat, collect: BOOLEAN, status: Status \cup {"NONE"}]

\* What from_yaml accepts: increasing instants, a terminal status once
\* collection stops.
ASSUME PhasesAssumption ==
    /\ Phases \in [Source -> Seq(Phase)]
    /\ \A s \in Source :
         /\ \A i, j \in DOMAIN Phases[s] : i < j => Phases[s][i].at < Phases[s][j].at
         /\ \A i \in DOMAIN Phases[s] :
              ~Phases[s][i].collect => Phases[s][i].status \in RetiredStatus

\* The source behaves as its provider says.
NoPhase == [at |-> 0, collect |-> TRUE, status |-> "NONE"]

Due(s, t) == { i \in DOMAIN Phases[s] : Phases[s][i].at <= t }

\* The phases are in order, so the ones due are the first ones.
PhaseAt(s, t) ==
    IF Due(s, t) = {} THEN NoPhase ELSE Phases[s][Cardinality(Due(s, t))]

Collectable(s, t) == PhaseAt(s, t).collect

\* lifecycle_snapshot on one record: only a collecting phase with a status
\* rewrites it.
Restricted(s, t, report) ==
    LET phase == PhaseAt(s, t)
    IN  IF phase.collect /\ phase.status # "NONE"
        THEN [report EXCEPT !.status = phase.status, !.active = FALSE]
        ELSE report
=============================================================================
