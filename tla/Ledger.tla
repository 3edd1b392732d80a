------------------------------- MODULE Ledger -------------------------------
(***************************************************************************)
(* What the store promises about the ingest runs it keeps, whatever        *)
(* processes write them: a run is only ever appended and never revoked,    *)
(* and a snapshot is recorded only if no complete snapshot of its source   *)
(* is newer. Collection implements this specification.                     *)
(***************************************************************************)
EXTENDS Naturals, Sequences

CONSTANTS
    Source,   \* the collected universes
    Time      \* the instants a run can carry, a set of naturals

VARIABLE runs

\* A row of ingest_runs, in commit order.
Run == [source: Source, at: Time, status: {"SUCCEEDED", "PARTIAL", "FAILED"}]

NotOlder(s, t) ==
    \A i \in DOMAIN runs :
      runs[i].source = s /\ runs[i].status = "SUCCEEDED" => runs[i].at <= t

Init == runs = << >>

Applied(run) ==
    /\ run.status # "FAILED"
    /\ NotOlder(run.source, run.at)
    /\ runs' = Append(runs, run)

Failed(run) ==
    /\ run.status = "FAILED"
    /\ runs' = Append(runs, run)

Next == \E run \in Run : Applied(run) \/ Failed(run)

Spec == Init /\ [][Next]_runs
=============================================================================
