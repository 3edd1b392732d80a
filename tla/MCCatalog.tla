----------------------------- MODULE MCCatalog -----------------------------
(***************************************************************************)
(* A small catalog: one source with two session markets, which may form an *)
(* absence cohort, and an ordinary one, under a lifecycle that restricts   *)
(* the source at 1 and retires it at 2.                                    *)
(***************************************************************************)
EXTENDS Catalog, TLC

CONSTANTS gold, oil, btc, Rwa

MCMarket == {gold, oil, btc}
MCSourceOf == [m \in MCMarket |-> Rwa]

MCPhases ==
    Rwa :> << [at |-> 1, collect |-> TRUE,  status |-> "CLOSE_ONLY"],
              [at |-> 2, collect |-> FALSE, status |-> "CLOSED"] >>

Says(status, active, session, scope) ==
    [status |-> status, active |-> active, session |-> session, scope |-> scope]

\* A session market in hours, out of hours, or delisted; an ordinary one
\* that trades or is halted.
SessionReport ==
    { Says("TRADING", TRUE,  "OPEN",   "TRADFI"),
      Says("CLOSED",  FALSE, "CLOSED", "TRADFI"),
      Says("CLOSED",  FALSE, "NONE",   NoScope) }

OrdinaryReport ==
    { Says("TRADING", TRUE,  "NONE", NoScope),
      Says("PAUSED",  FALSE, "NONE", NoScope) }

ReportOf(m) == IF m = btc THEN OrdinaryReport ELSE SessionReport

MCSnapshots ==
    Rwa :> UNION { { snapshot \in [listed -> SessionReport \cup OrdinaryReport] :
                       \A m \in listed : snapshot[m] \in ReportOf(m) } :
                   listed \in SUBSET MCMarket \ {{}} }

Symmetric == Permutations({gold, oil})
=============================================================================
