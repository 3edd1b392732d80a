-------------------------------- MODULE Audit --------------------------------
(***************************************************************************)
(* Audit compaction of one observation table (the other is the same loop   *)
(* run after it).  Compactors delete unchanged rows, clear old payloads    *)
(* and prune the oldest change rows beyond a ceiling, each in batches of   *)
(* one transaction, and then add what they did to audit_compaction_stats.  *)
(* The collector compacts under its lease, `mdv compact` and bundle        *)
(* imports without it, so that compactors and collections interleave       *)
(* between any two transactions, and any of them can be killed there.      *)
(***************************************************************************)
EXTENDS FiniteSetsExt, Integers

CONSTANTS Compactor,
          UnchangedRetention,  \* 0 disables each of the three
          PayloadRetention,
          Ceiling,
          BatchSize,
          MaxRows, MaxTime, MaxKills   \* bounds on observations, the clock and kills

ASSUME AuditAssumption ==
    /\ {UnchangedRetention, PayloadRetention, Ceiling, MaxRows, MaxTime, MaxKills} \subseteq Nat
    /\ BatchSize \in Nat \ {0}
    /\ IsFiniteSet(Compactor)

Time == 0 .. MaxTime

VARIABLES rows,     \* the table: [id, at, kept (raw_retained), cleared (payload_compacted)]
          stats,    \* audit_compaction_stats of the table
          now,
          pc, began, result,  \* of each compactor
          made,     \* number of rows ever inserted
          kills,
          \* History, for the properties only:
          done,     \* payloads cleared and rows pruned by anyone
          lost      \* those of compactors killed before they told

table == <<rows, stats>>
compactor == <<pc, began, result>>
vars == <<table, now, compactor, made, kills, done, lost>>

Nothing == [cleared |-> 0, pruned |-> 0]
Plus(a, b) == [cleared |-> a.cleared + b.cleared, pruned |-> a.pruned + b.pruned]

Kept == {r \in rows : r.kept}

Init ==
    /\ rows = {} /\ stats = Nothing /\ now = 0
    /\ pc = [c \in Compactor |-> "idle"] /\ began = [c \in Compactor |-> 0]
    /\ result = [c \in Compactor |-> Nothing]
    /\ made = 0 /\ kills = 0 /\ done = Nothing /\ lost = Nothing

Tick == /\ now < MaxTime /\ now' = now + 1
        /\ UNCHANGED <<table, compactor, made, kills, done, lost>>

\* A snapshot's observations, of this moment or, from a bundle, of an earlier one;
\* those that changed something keep their payload.
Observe ==
    \E at \in 0 .. now, kept \in BOOLEAN, n \in 1 .. MaxRows - made :
        /\ made' = made + n
        /\ rows' = rows \cup {[id |-> i, at |-> at, kept |-> kept, cleared |-> FALSE] :
                                i \in made + 1 .. made + n}
        /\ UNCHANGED <<stats, now, compactor, kills, done, lost>>

-----------------------------------------------------------------------------
(* A compactor.  Every batch is a transaction of its own. *)

Before(r, q) == r.at < q.at \/ (r.at = q.at /\ r.id < q.id)

\* ORDER BY observed_at, rowid LIMIT n
Oldest(set, n) == {r \in set : Cardinality({q \in set : Before(q, r)}) < n}

Begin(c) ==
    /\ pc[c] = "idle" /\ pc' = [pc EXCEPT ![c] = "expire"]
    /\ began' = [began EXCEPT ![c] = now]
    /\ UNCHANGED <<table, now, result, made, kills, done, lost>>

Leave(c) ==
    /\ pc' = [pc EXCEPT ![c] = "idle"]
    /\ began' = [began EXCEPT ![c] = 0] /\ result' = [result EXCEPT ![c] = Nothing]

\* The loop of a phase goes on after a full batch.
NextPhase(c, count, phase) ==
    pc' = [pc EXCEPT ![c] = IF count < BatchSize THEN phase ELSE @]

Expired_newer(c) == {r \in rows : ~r.kept /\ r.at > began[c] - UnchangedRetention}

\* The cutoff is that of the beginning, whatever the time since.
Expired(c) == {r \in rows : ~r.kept /\ r.at < began[c] - UnchangedRetention}

Expire(c) ==
    /\ pc[c] = "expire"
    /\ LET batch == IF UnchangedRetention = 0 THEN {} ELSE Oldest(Expired(c), BatchSize)
       IN  rows' = rows \ batch /\ NextPhase(c, Cardinality(batch), "clear")
    /\ UNCHANGED <<stats, now, began, result, made, kills, done, lost>>

Clearable(c) == {r \in Kept : ~r.cleared /\ r.at < began[c] - PayloadRetention}

Clear(c) ==
    /\ pc[c] = "clear"
    /\ LET batch == IF PayloadRetention = 0 THEN {} ELSE Oldest(Clearable(c), BatchSize)
           count == [cleared |-> Cardinality(batch), pruned |-> 0]
       IN  /\ rows' = (rows \ batch) \cup {[r EXCEPT !.cleared = TRUE] : r \in batch}
           /\ result' = [result EXCEPT ![c] = Plus(@, count)]
           /\ done' = Plus(done, count)
           /\ NextPhase(c, count.cleared, "prune")
    /\ UNCHANGED <<stats, now, began, made, kills, lost>>

Excess_atBeginning(c) == Cardinality({r \in Kept : r.at <= began[c]}) - Ceiling

\* The excess is counted in the transaction that prunes it.
Excess(c) == Cardinality(Kept) - Ceiling

Pruned(c) ==
    IF Ceiling = 0 \/ Excess(c) <= 0 THEN {} ELSE Oldest(Kept, Min({Excess(c), BatchSize}))

Prune(c) ==
    /\ pc[c] = "prune"
    /\ LET count == [cleared |-> 0, pruned |-> Cardinality(Pruned(c))]
       IN  /\ rows' = rows \ Pruned(c)
           /\ result' = [result EXCEPT ![c] = Plus(@, count)]
           /\ done' = Plus(done, count)
           /\ NextPhase(c, count.pruned, "tell")
    /\ UNCHANGED <<stats, now, began, made, kills, lost>>

Added_overwritten(c) == result[c]
Added(c) == Plus(stats, result[c])

\* One UPDATE adds the counts, and only a compactor with something to tell runs it.
Tell(c) ==
    /\ pc[c] = "tell" /\ Leave(c)
    /\ stats' = IF result[c] = Nothing THEN stats ELSE Added(c)
    /\ UNCHANGED <<rows, now, made, kills, done, lost>>

\* Killed, or failed because the database stayed locked.
Kill(c) ==
    /\ pc[c] # "idle" /\ kills < MaxKills /\ kills' = kills + 1
    /\ lost' = Plus(lost, result[c]) /\ Leave(c)
    /\ UNCHANGED <<table, now, made, done>>

Work(c) == Begin(c) \/ Expire(c) \/ Clear(c) \/ Prune(c) \/ Tell(c)

Next == Tick \/ Observe \/ \E c \in Compactor : Work(c) \/ Kill(c)

Spec == Init /\ [][Next]_vars

\* The timer starts a collection again and again, and it compacts at its end.
FairSpec == Spec /\ \A c \in Compactor : WF_vars(Work(c))

-----------------------------------------------------------------------------
(* Properties *)

\* A compactor that stops pruning leaves the table at the ceiling or below, though
\* observations arrived and others pruned since it began
\* (OPERATIONS_REFERENCE.md: "an exact ... ceiling").
CeilingReached ==
    [][\A c \in Compactor :
         pc[c] = "prune" /\ pc'[c] = "tell" /\ Ceiling > 0
           => Cardinality({r \in rows' : r.kept}) <= Ceiling]_vars

\* The counters say of every payload and every row, once, that it was compacted or
\* pruned, but for those of compactors that have not told yet or were killed first.
CountersAccount ==
    done = FoldSet(LAMBDA c, sum : Plus(sum, result[c]), Plus(stats, lost), Compactor)

\* Every unchanged observation goes once its retention is over.
UnchangedExpire ==
    \A i \in 1 .. MaxRows :
      (\E r \in rows : r.id = i /\ ~r.kept /\ UnchangedRetention > 0
                       /\ r.at < now - UnchangedRetention)
        ~> ~(\E r \in rows : r.id = i)
=============================================================================
