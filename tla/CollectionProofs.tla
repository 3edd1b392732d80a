-------------------------- MODULE CollectionProofs --------------------------
(***************************************************************************)
(* Proofs about collections and imports, for any number of writers,        *)
(* sources, venues and lifecycles, with crashes anywhere and clocks ahead: *)
(* the type, the exclusion of writers, that every source is accounted for, *)
(* that the ingest runs are a ledger, and what a collection run ends as.   *)
(***************************************************************************)
EXTENDS Collection, FiniteSetTheorems, SequenceTheorems, TLAPS

\* The runs a collection run has for a source.
RunsOf(p, s) == { i \in ChildrenOf(p) : runs[i].source = s }

\* The stages at which a writer has opened its collection run and not yet
\* settled it.
Working == {"retire", "gather", "commit", "fail", "abort", "project", "tag", "finish"}

\* A source has one run in the collection once it has a result, none before.
Accounted(j, s) ==
    IF j.got[s] \in {"ok", "failed"} THEN \E i \in DOMAIN runs : RunsOf(j.parent, s) = {i}
                                     ELSE RunsOf(j.parent, s) = {}

\* What a call frame can rely on: its collection run exists, the source it is
\* writing has no run in it yet and is in order, and every source is
\* accounted for.
Framed(j) ==
    /\ j.stage \in Working =>
         /\ j.parent \in DOMAIN parents
         /\ \A s \in Source : Accounted(j, s)
    /\ j.stage \in {"commit", "fail"} => j.source \in Source
    /\ j.stage = "commit" =>
         /\ j.got[j.source] \in Pending \cup {"retire"}
         /\ OrderOk(j.source, j.at[j.source])
    /\ j.stage = "fail" => j.got[j.source] \in Pending
    /\ j.stage \in {"project", "tag", "finish"} =>
         \A s \in Source : j.got[s] \notin Pending

\* A writer has the lease.
Exclusive == \A c \in Collector : job[c].stage # "idle" => holder = c

\* A run belongs to a collection run that exists.
Parented == \A i \in DOMAIN runs : runs[i].parent \in DOMAIN parents

\* The inductive invariant. The order that was checked still holds when the
\* transaction starts, since the lease keeps every other writer idle; a
\* source without a result has no run to overwrite, since a new collection
\* run has none and each result adds one.
IInv ==
    /\ TypeOK
    /\ Exclusive
    /\ Parented
    /\ \A c \in Collector : Framed(job[c])

-----------------------------------------------------------------------------
\* The fields of a call frame.
LEMMA FrameType ==
    ASSUME TypeOK, NEW c \in Collector
    PROVE  /\ job[c] \in Job
           /\ job = [d \in Collector |-> job[d]]
           /\ DOMAIN job[c] = DOMAIN Idle
BY DEF TypeOK, Job, Idle

\* An empty call frame is framed.
LEMMA IdleFrame == Idle \in Job /\ Framed(Idle)
BY CollectionAssumption DEF Idle, Job, Stage, Progress, Instant, Framed, Working

\* While a writer is not idle, or nobody holds the lease, every other is.
LEMMA OthersIdle ==
    ASSUME IInv, NEW c \in Collector, job[c].stage # "idle" \/ holder = None
    PROVE  \A d \in Collector \ {c} : job[d].stage = "idle"
BY CollectionAssumption DEF IInv, Exclusive

\* An idle call frame relies on nothing.
LEMMA IdleRelies ==
    ASSUME NEW j, j.stage = "idle"
    PROVE  Framed(j)
BY DEF Framed, Working

\* It is enough to look at the call frame of the writer that takes a step.
LEMMA OneFrame ==
    ASSUME IInv, NEW c \in Collector, job[c].stage # "idle" \/ holder = None,
           NEW j \in Job, job' = [job EXCEPT ![c] = j],
           j.stage # "idle" => holder' = c,
           holder' \in Collector \cup {None}, now' \in 0 .. MaxTime,
           parents' \in Seq(Parent), Len(parents') <= MaxParents,
           runs' \in Seq(Child),
           mapped' \in 0 .. Len(runs'), tagged' \in 0 .. Len(runs'),
           crashes' \in 0 .. MaxCrashes,
           Parented', Framed(j)'
    PROVE  IInv'
<1>1. \A d \in Collector \ {c} : job[d].stage = "idle"
  BY OthersIdle
<1>2. job' \in [Collector -> Job]
  BY DEF IInv, TypeOK
<1>3. \A d \in Collector \ {c} : job'[d] = job[d]
  BY DEF IInv, TypeOK
<1>4. job'[c] = j
  BY DEF IInv, TypeOK
<1>5. TypeOK'
  BY <1>2 DEF TypeOK
<1>6. Exclusive'
  BY <1>1, <1>3, <1>4 DEF Exclusive
<1>7. ASSUME NEW d \in Collector PROVE Framed(job[d])'
  <2>1. CASE d = c
    <3>1. job'[d] = j
      BY <2>1, <1>4
    <3> QED
      BY <3>1, Zenon DEF Framed
  <2>2. CASE d # c
    BY <2>2, <1>1, <1>3 DEF Framed, Working
  <2> QED
    BY <2>1, <2>2
<1> QED
  BY <1>5, <1>6, <1>7 DEF IInv

\* A step that only changes a call frame.
LEMMA FrameOnly ==
    ASSUME IInv, NEW c \in Collector, job[c].stage # "idle",
           NEW j \in Job, job' = [job EXCEPT ![c] = j], j.stage # "idle", Framed(j),
           UNCHANGED <<now, holder, parents, runs, mapped, tagged, crashes>>
    PROVE  IInv'
<1>1. Framed(j)'
  BY DEF Framed, Accounted, RunsOf, ChildrenOf, OrderOk
<1>2. Parented' /\ holder = c
  BY DEF IInv, Parented, Exclusive
<1> QED
  BY <1>1, <1>2, OneFrame DEF IInv, TypeOK

\* A fetch starts: the source has no result, before and after.
LEMMA StartFetchIInv ==
    ASSUME IInv, NEW c \in Collector, NEW s \in Source, StartFetch(c, s)
    PROVE  IInv'
<1> DEFINE j == [job[c] EXCEPT !.got[s] = "fetching"]
<1>1. job[c] \in Job /\ Framed(job[c]) /\ job[c].stage # "idle" /\ TypeOK
  BY FrameType DEF IInv, StartFetch
<1>2. job' = [job EXCEPT ![c] = j]
  BY <1>1 DEF StartFetch
<1>3. j \in Job /\ j.stage # "idle"
  BY <1>1 DEF StartFetch, Job, Stage, Progress
<1>4. Framed(j)
  BY <1>1, <1>3 DEF StartFetch, Framed, Accounted, RunsOf, Working, Job, Pending, Fetching
<1> HIDE DEF j
<1> QED
  BY <1>1, <1>2, <1>3, <1>4, FrameOnly DEF StartFetch

\* A retirement with nothing to retire writes no run.
LEMMA SkipRetirementIInv ==
    ASSUME IInv, NEW c \in Collector, NEW s \in Source, SkipRetirement(c, s)
    PROVE  IInv'
<1> DEFINE j == [job[c] EXCEPT !.got[s] = "skipped"]
<1>1. job[c] \in Job /\ Framed(job[c]) /\ job[c].stage # "idle" /\ TypeOK
  BY FrameType DEF IInv, SkipRetirement
<1>2. job' = [job EXCEPT ![c] = j]
  BY <1>1 DEF SkipRetirement
<1>3. j \in Job /\ j.stage # "idle"
  BY <1>1 DEF SkipRetirement, Job, Stage, Progress
<1>4. Framed(j)
  BY <1>1, <1>3 DEF SkipRetirement, Framed, Accounted, RunsOf, Working, Job, Pending, Fetching
<1> HIDE DEF j
<1> QED
  BY <1>1, <1>2, <1>3, <1>4, FrameOnly DEF SkipRetirement

\* A failed fetch is to be recorded.
LEMMA FetchFailedIInv ==
    ASSUME IInv, NEW c \in Collector, NEW s \in Source, FetchFailed(c, s)
    PROVE  IInv'
<1> DEFINE j == [job[c] EXCEPT !.source = s, !.stage = "fail"]
<1>1. job[c] \in Job /\ Framed(job[c]) /\ job[c].stage # "idle" /\ TypeOK
  BY FrameType DEF IInv, FetchFailed
<1>2. job' = [job EXCEPT ![c] = j]
  BY <1>1 DEF FetchFailed
<1>3. j \in Job /\ j.stage # "idle"
  BY <1>1 DEF FetchFailed, Job, Stage, Progress
<1>4. Framed(j)
  BY <1>1, <1>3 DEF FetchFailed, Framed, Accounted, RunsOf, Working, Job, Pending, Fetching
<1> HIDE DEF j
<1> QED
  BY <1>1, <1>2, <1>3, <1>4, FrameOnly DEF FetchFailed

\* The order check: what it read holds in the state that Commit starts from.
LEMMA CheckSnapshotIInv ==
    ASSUME IInv, NEW c \in Collector, NEW s \in Source, CheckSnapshot(c, s)
    PROVE  IInv'
<1> DEFINE j == [job[c] EXCEPT !.source = s,
                            !.stage = IF OrderOk(s, job[c].at[s]) THEN "commit" ELSE "fail"]
<1>1. job[c] \in Job /\ Framed(job[c]) /\ job[c].stage # "idle" /\ TypeOK
  BY FrameType DEF IInv, CheckSnapshot
<1>2. job' = [job EXCEPT ![c] = j]
  BY <1>1 DEF CheckSnapshot
<1>3. j \in Job /\ j.stage # "idle"
  BY <1>1 DEF CheckSnapshot, Job, Stage, Progress
<1>4. Framed(j)
  BY <1>1, <1>3 DEF CheckSnapshot, Framed, Accounted, RunsOf, Working, Job, Pending, Fetching
<1> HIDE DEF j
<1> QED
  BY <1>1, <1>2, <1>3, <1>4, FrameOnly DEF CheckSnapshot

\* The retirements are done.
LEMMA RetiredIInv ==
    ASSUME IInv, NEW c \in Collector, Retired(c)
    PROVE  IInv'
<1> DEFINE j == [job[c] EXCEPT !.stage = "gather"]
<1>1. job[c] \in Job /\ Framed(job[c]) /\ job[c].stage # "idle" /\ TypeOK
  BY FrameType DEF IInv, Retired
<1>2. job' = [job EXCEPT ![c] = j]
  BY <1>1 DEF Retired
<1>3. j \in Job /\ j.stage # "idle"
  BY <1>1 DEF Retired, Job, Stage, Progress
<1>4. Framed(j)
  BY <1>1, <1>3 DEF Retired, Framed, Accounted, RunsOf, Working, Job, Pending, Fetching
<1> HIDE DEF j
<1> QED
  BY <1>1, <1>2, <1>3, <1>4, FrameOnly DEF Retired

\* A projection fails.
LEMMA ProjectionFailsIInv ==
    ASSUME IInv, NEW c \in Collector, ProjectionFails(c)
    PROVE  IInv'
<1> DEFINE j == [job[c] EXCEPT !.stage = "finish", !.error = TRUE]
<1>1. job[c] \in Job /\ Framed(job[c]) /\ job[c].stage # "idle" /\ TypeOK
  BY FrameType DEF IInv, ProjectionFails
<1>2. job' = [job EXCEPT ![c] = j]
  BY <1>1 DEF ProjectionFails
<1>3. j \in Job /\ j.stage # "idle"
  BY <1>1 DEF ProjectionFails, Job, Stage, Progress
<1>4. Framed(j)
  BY <1>1, <1>3 DEF ProjectionFails, Framed, Accounted, RunsOf, Working, Job, Pending, Fetching
<1> HIDE DEF j
<1> QED
  BY <1>1, <1>2, <1>3, <1>4, FrameOnly DEF ProjectionFails

\* A refusal before anything is written.
LEMMA RefuseIInv ==
    ASSUME IInv, NEW c \in Collector, Refuse(c)
    PROVE  IInv'
<1> DEFINE j == [job[c] EXCEPT !.stage = "release"]
<1>1. job[c] \in Job /\ Framed(job[c]) /\ job[c].stage # "idle" /\ TypeOK
  BY FrameType DEF IInv, Refuse
<1>2. job' = [job EXCEPT ![c] = j]
  BY <1>1 DEF Refuse
<1>3. j \in Job /\ j.stage # "idle"
  BY <1>1 DEF Refuse, Job, Stage, Progress
<1>4. Framed(j)
  BY <1>1, <1>3 DEF Refuse, Framed, Accounted, RunsOf, Working, Job, Pending, Fetching
<1> HIDE DEF j
<1> QED
  BY <1>1, <1>2, <1>3, <1>4, FrameOnly DEF Refuse

\* No source is pending when a collection goes on to its projections.
LEMMA GatheredIInv ==
    ASSUME IInv, NEW c \in Collector, Gathered(c)
    PROVE  IInv'
<1> DEFINE j == [job[c] EXCEPT !.stage = IF AnyOk(c) THEN "project" ELSE "finish"]
<1>1. job[c] \in Job /\ Framed(job[c]) /\ job[c].stage # "idle" /\ TypeOK
  BY FrameType DEF IInv, Gathered
<1>2. job' = [job EXCEPT ![c] = j]
  BY <1>1 DEF Gathered
<1>3. j \in Job /\ j.stage # "idle"
  BY <1>1 DEF Gathered, Job, Stage, Progress, NonePending
<1>4. Framed(j)
  BY <1>1, <1>3 DEF Gathered, Framed, Accounted, RunsOf, Working, Job, Pending, Fetching, NonePending
<1> HIDE DEF j
<1> QED
  BY <1>1, <1>2, <1>3, <1>4, FrameOnly DEF Gathered

\* A fetch ends with a snapshot observed now, or an error.
LEMMA EndFetchIInv ==
    ASSUME IInv, NEW c \in Collector, NEW s \in Source, EndFetch(c, s)
    PROVE  IInv'
<1>1. PICK outcome \in {"complete", "issues", "error"} :
        job' = [job EXCEPT ![c].got[s] = outcome, ![c].at[s] = now]
  BY DEF EndFetch
<1> DEFINE j == [job[c] EXCEPT !.got[s] = outcome, !.at[s] = now]
<1>2. job[c] \in Job /\ Framed(job[c]) /\ job[c].stage = "gather" /\ now \in Instant
  BY FrameType, CollectionAssumption DEF IInv, TypeOK, EndFetch, Instant
<1>3. job' = [job EXCEPT ![c] = j]
  BY <1>1, <1>2 DEF IInv, TypeOK, Job
<1>4. j \in Job /\ j.stage # "idle"
  BY <1>2 DEF Job, Progress
<1>5. Framed(j)
  BY <1>2, <1>4 DEF EndFetch, Framed, Accounted, RunsOf, Working, Job
<1> HIDE DEF j
<1> QED
  BY <1>2, <1>3, <1>4, <1>5, FrameOnly DEF EndFetch

\* A retirement is checked against the time the collection began.
LEMMA CheckRetirementIInv ==
    ASSUME IInv, NEW c \in Collector, NEW s \in Source, CheckRetirement(c, s)
    PROVE  IInv'
<1>1. job[c] \in Job /\ Framed(job[c]) /\ job[c].stage = "retire"
  BY FrameType DEF IInv, CheckRetirement
<1>a. job[c].begun \in Instant
  BY <1>1, CollectionAssumption DEF Instant, Job
<1>2. CASE OrderOk(s, job[c].begun)
  <2> DEFINE j == [job[c] EXCEPT !.stage = "commit", !.source = s, !.at[s] = job[c].begun]
  <2>1. job' = [job EXCEPT ![c] = j]
    BY <1>1, <1>2 DEF CheckRetirement, IInv, TypeOK, Job
  <2>2. j \in Job /\ j.stage # "idle"
    BY <1>1, <1>a DEF Job, Stage
  <2>3. Framed(j)
    BY <1>1, <1>2, <2>2 DEF CheckRetirement, Framed, Accounted, RunsOf, Working, Job
  <2> HIDE DEF j
  <2> QED
    BY <1>1, <2>1, <2>2, <2>3, FrameOnly DEF CheckRetirement
<1>3. CASE ~OrderOk(s, job[c].begun)
  <2> DEFINE j == [job[c] EXCEPT !.stage = "abort"]
  <2>1. job' = [job EXCEPT ![c] = j]
    BY <1>1, <1>3 DEF CheckRetirement
  <2>2. j \in Job /\ j.stage # "idle"
    BY <1>1 DEF Job, Stage
  <2>3. Framed(j)
    BY <1>1, <2>2 DEF Framed, Accounted, RunsOf, Working, Job
  <2> HIDE DEF j
  <2> QED
    BY <1>1, <2>1, <2>2, <2>3, FrameOnly DEF CheckRetirement
<1> QED
  BY <1>2, <1>3

\* The store raises before it has written: the source keeps its turn to be
\* recorded as failed, or the collection is aborted.
LEMMA StoreFailsIInv ==
    ASSUME IInv, NEW c \in Collector, StoreFails(c)
    PROVE  IInv'
<1> DEFINE again == job[c].stage = "commit" /\ job[c].got[job[c].source] # "retire"
           j == [job[c] EXCEPT !.stage  = IF again THEN "fail" ELSE "abort",
                               !.source = IF again THEN @ ELSE None]
<1>1. job[c] \in Job /\ Framed(job[c]) /\ job[c].stage \in {"commit", "fail"}
  BY FrameType DEF IInv, StoreFails
<1>2. job' = [job EXCEPT ![c] = j]
  BY <1>1 DEF StoreFails, IInv, TypeOK, Job
<1>3. j \in Job /\ j.stage # "idle"
  BY <1>1, ZenonT(60) DEF Job, Stage
<1>4. Framed(j)
  BY <1>1, <1>3 DEF Framed, Accounted, RunsOf, Working, Job
<1> HIDE DEF j
<1> QED
  BY <1>1, <1>2, <1>3, <1>4, FrameOnly DEF StoreFails

-----------------------------------------------------------------------------
\* The lease is taken, and left, with an empty call frame.
LEMMA AcquireIInv ==
    ASSUME IInv, NEW c \in Collector, NEW import \in BOOLEAN, Acquire(c, import)
    PROVE  IInv'
<1>1. job[c] \in Job /\ holder = None /\ holder' = c
  BY FrameType DEF IInv, Acquire, Take
<1>2. PICK j \in Job : /\ j.stage \in {"open", "reconcile"}
                       /\ job' = [job EXCEPT ![c] = j]
  <2> DEFINE new == [job[c] EXCEPT !.stage = IF import THEN "open" ELSE "reconcile",
                                   !.import = import]
  <2>1. new \in Job /\ new.stage \in {"open", "reconcile"}
    BY <1>1 DEF Job, Stage
  <2>2. job' = [job EXCEPT ![c] = new]
    BY <1>1 DEF Acquire, Take, IInv, TypeOK, Job
  <2> QED
    BY <2>1, <2>2
<1>3. Framed(j)'
  BY <1>2 DEF Framed, Working
<1>4. Parented'
  BY DEF IInv, Parented, Acquire, Take
<1>5. /\ now' \in 0 .. MaxTime /\ crashes' \in 0 .. MaxCrashes
      /\ parents' \in Seq(Parent) /\ Len(parents') <= MaxParents
      /\ runs' \in Seq(Child)
      /\ mapped' \in 0 .. Len(runs') /\ tagged' \in 0 .. Len(runs')
  BY DEF Acquire, Take, IInv, TypeOK
<1> QED
  BY <1>1, <1>2, <1>3, <1>4, <1>5, OneFrame

\* The lease is left, by a release or a crash, with nothing kept.
LEMMA LeaveIInv ==
    ASSUME IInv, NEW c \in Collector, job[c].stage # "idle", Leave(c),
           crashes' \in 0 .. MaxCrashes
    PROVE  IInv'
<1>1. Idle \in Job /\ Framed(Idle)'
  BY IdleFrame, IdleRelies DEF Idle, Framed, Working
<1>2. Parented'
  BY DEF IInv, Parented, Leave
<1> QED
  BY <1>1, <1>2, OneFrame DEF Leave, IInv, TypeOK, Idle

-----------------------------------------------------------------------------
\* Steps that touch collection runs only keep as many of them.
LEMMA SameParents ==
    ASSUME IInv, parents' \in Seq(Parent), Len(parents') = Len(parents),
           UNCHANGED <<now, holder, job, runs, mapped, tagged, crashes>>
    PROVE  IInv'
<1>1. DOMAIN parents' = DOMAIN parents
  BY DEF IInv, TypeOK
<1>2. TypeOK'
  BY DEF IInv, TypeOK
<1>3. Exclusive' /\ Parented'
  BY <1>1 DEF IInv, Exclusive, Parented
<1>4. ASSUME NEW c \in Collector PROVE Framed(job[c])'
  BY <1>1 DEF IInv, Framed, Accounted, RunsOf, ChildrenOf, OrderOk
<1> QED
  BY <1>2, <1>3, <1>4 DEF IInv

\* A function on 1 .. n is a sequence of that length.
LEMMA IntervalFunction ==
    ASSUME NEW S, NEW n \in Nat, NEW f \in [1 .. n -> S]
    PROVE  f \in Seq(S) /\ Len(f) = n
OBVIOUS

\* A reconciliation fails collection runs, and removes none.
LEMMA FailStaleType ==
    ASSUME TypeOK, FailStale
    PROVE  parents' \in Seq(Parent) /\ Len(parents') = Len(parents)
<1>1. parents \in Seq(Parent) /\ DOMAIN parents = 1 .. Len(parents) /\ Len(parents) \in Nat
  BY DEF TypeOK
<1>2. DOMAIN parents' = 1 .. Len(parents)
  BY <1>1 DEF FailStale
<1>3. ASSUME NEW p \in 1 .. Len(parents) PROVE parents'[p] \in Parent
  <2>1. parents[p] \in Parent
    BY <1>1
  <2>2. [parents[p] EXCEPT !.status = "FAILED"] \in Parent
    BY <2>1 DEF Parent
  <2> QED
    BY <1>1, <2>1, <2>2 DEF FailStale
<1>4. parents' \in [1 .. Len(parents) -> Parent]
  BY <1>1, <1>3 DEF FailStale
<1> HIDE DEF FailStale
<1> QED
  BY <1>1, <1>4, IntervalFunction

\* The reconciliation by a process without the lease.
LEMMA ReconcileUnleasedIInv ==
    ASSUME IInv, ReconcileUnleased
    PROVE  IInv'
BY FailStaleType, SameParents DEF IInv, ReconcileUnleased

\* A collection run that grows old.
LEMMA AgeIInv ==
    ASSUME IInv, NEW p \in DOMAIN parents, Age(p)
    PROVE  IInv'
<1> DEFINE aged == [parents[p] EXCEPT !.stale = TRUE]
<1>1. parents \in Seq(Parent) /\ p \in 1 .. Len(parents) /\ Len(parents) \in Nat
  BY DEF IInv, TypeOK
<1>2. aged \in Parent /\ parents' = [parents EXCEPT ![p] = aged]
  <2>1. parents[p] \in Parent
    BY <1>1
  <2> QED
    BY <1>1, <2>1 DEF Age, Parent
<1>3. parents' \in [1 .. Len(parents) -> Parent]
  BY <1>1, <1>2
<1>4. parents' \in Seq(Parent) /\ Len(parents') = Len(parents)
  BY <1>1, <1>3, IntervalFunction
<1> QED
  BY <1>4, SameParents DEF Age

\* Time passes.
LEMMA TickIInv ==
    ASSUME IInv, Tick
    PROVE  IInv'
<1>1. TypeOK'
  BY CollectionAssumption DEF IInv, TypeOK, Tick
<1>2. Exclusive' /\ Parented'
  BY DEF IInv, Exclusive, Parented, Tick
<1>3. ASSUME NEW c \in Collector PROVE Framed(job[c])'
  BY DEF IInv, Tick, Framed, Accounted, RunsOf, ChildrenOf, OrderOk
<1> QED
  BY <1>1, <1>2, <1>3 DEF IInv

\* The mappings are rebuilt by a process without the lease.
LEMMA ProjectUnleasedIInv ==
    ASSUME IInv, ProjectUnleased
    PROVE  IInv'
<1>1. TypeOK'
  BY DEF IInv, TypeOK, ProjectUnleased
<1>2. Exclusive' /\ Parented'
  BY DEF IInv, Exclusive, Parented, ProjectUnleased
<1>3. ASSUME NEW c \in Collector PROVE Framed(job[c])'
  BY DEF IInv, ProjectUnleased, Framed, Accounted, RunsOf, ChildrenOf, OrderOk
<1> QED
  BY <1>1, <1>2, <1>3 DEF IInv

-----------------------------------------------------------------------------
\* The runs of a source in a collection run, after one more run.
LEMMA OneMoreRun ==
    ASSUME TypeOK, NEW run \in Child, runs' = Append(runs, run), NEW p, NEW s
    PROVE  RunsOf(p, s)' = IF run.parent = p /\ run.source = s
                           THEN RunsOf(p, s) \cup {Len(runs) + 1}
                           ELSE RunsOf(p, s)
<1>1. /\ runs \in Seq(Child) /\ Len(runs) \in Nat
      /\ DOMAIN runs = 1 .. Len(runs)
      /\ DOMAIN runs' = 1 .. Len(runs) + 1
      /\ runs'[Len(runs) + 1] = run
      /\ \A i \in 1 .. Len(runs) : runs'[i] = runs[i]
  BY DEF TypeOK
<1> QED
  BY <1>1 DEF RunsOf, ChildrenOf

\* Recording the result of a source that has none accounts for it, and
\* leaves the accounts of the others as they were.
LEMMA ResultAccounts ==
    ASSUME IInv, NEW c \in Collector, job[c].stage \in Working,
           NEW s \in Source, job[c].got[s] \notin {"ok", "failed"},
           NEW run \in Child, run.source = s, run.parent = job[c].parent,
           runs' = Append(runs, run),
           NEW result \in {"ok", "failed"},
           NEW j \in Job, j.parent = job[c].parent,
           j.got = [job[c].got EXCEPT ![s] = result]
    PROVE  \A z \in Source : Accounted(j, z)'
<1>1. TypeOK /\ job[c] \in Job /\ \A z \in Source : Accounted(job[c], z)
  BY FrameType DEF IInv, Framed
<1>2. Len(runs) + 1 \in DOMAIN runs' /\ DOMAIN runs \subseteq DOMAIN runs'
  BY <1>1 DEF TypeOK
<1> TAKE z \in Source
<1>3. CASE z = s
  <2>1. RunsOf(j.parent, z)' = {Len(runs) + 1}
    BY <1>1, <1>3, OneMoreRun DEF Accounted
  <2>2. j.got[z] \in {"ok", "failed"}
    BY <1>1, <1>3 DEF Job
  <2> QED
    BY <1>2, <2>1, <2>2 DEF Accounted
<1>4. CASE z # s
  <2>1. RunsOf(j.parent, z)' = RunsOf(j.parent, z)
    BY <1>1, <1>4, OneMoreRun
  <2>2. j.got[z] = job[c].got[z]
    BY <1>1, <1>4 DEF Job
  <2> QED
    BY <1>1, <1>2, <2>1, <2>2 DEF Accounted
<1> QED
  BY <1>3, <1>4

\* A failure to record has no run to overwrite, so it appends one.
LEMMA FailureAppends ==
    ASSUME IInv, NEW c \in Collector, job[c].stage \in Working,
           NEW s \in Source, job[c].got[s] \in Pending, LogFailure(s, job[c].parent)
    PROVE  \E run \in Child :
             /\ run.source = s /\ run.parent = job[c].parent
             /\ run.status = "FAILED" /\ run.kind = "failure"
             /\ runs' = Append(runs, run)
<1> DEFINE run == [source |-> s, at |-> now, status |-> "FAILED",
                   kind |-> "failure", parent |-> job[c].parent]
<1>1. RunsOf(job[c].parent, s) = {}
  BY DEF IInv, Framed, Accounted, Pending
<1>2. runs' = Append(runs, run)
  BY <1>1 DEF LogFailure, RunsOf
<1>3. now \in Instant /\ job[c].parent \in 1 .. MaxParents
  BY CollectionAssumption DEF IInv, TypeOK, Framed, Instant
<1>4. run \in Child
  BY <1>3 DEF Child, ChildStatus
<1> QED
  BY <1>2, <1>4

\* A transaction that writes the run of a source: whatever wrote it, the
\* source has a result now, and the writer goes on with the others.
LEMMA ResultIInv ==
    ASSUME IInv, NEW c \in Collector,
           job[c].stage \in {"commit", "fail", "abort"},
           NEW s \in Source, job[c].got[s] \notin {"ok", "failed"},
           NEW run \in Child, run.source = s, run.parent = job[c].parent,
           runs' = Append(runs, run),
           NEW result \in {"ok", "failed"},
           NEW j \in Job, j.parent = job[c].parent,
           j.got = [job[c].got EXCEPT ![s] = result],
           j.stage \in {"retire", "gather", "abort"},
           job' = [job EXCEPT ![c] = j],
           UNCHANGED <<now, holder, parents, mapped, tagged, crashes>>
    PROVE  IInv'
<1>1. TypeOK /\ holder = c /\ Framed(job[c]) /\ job[c].stage \in Working
  BY DEF IInv, Exclusive, Working
<1>2. \A z \in Source : Accounted(j, z)'
  BY <1>1, ResultAccounts, ZenonT(60)
<1>3. Framed(j)'
  BY <1>1, <1>2 DEF Framed, Working
<1>4. /\ runs' \in Seq(Child) /\ Len(runs') = Len(runs) + 1 /\ Len(runs) \in Nat
      /\ \A i \in DOMAIN runs' : (i \in DOMAIN runs /\ runs'[i] = runs[i]) \/ runs'[i] = run
  BY <1>1 DEF TypeOK
<1>5. Parented'
  BY <1>1, <1>4 DEF IInv, Parented, Framed
<1>6. /\ now' \in 0 .. MaxTime /\ crashes' \in 0 .. MaxCrashes
      /\ parents' \in Seq(Parent) /\ Len(parents') <= MaxParents
      /\ mapped' \in 0 .. Len(runs') /\ tagged' \in 0 .. Len(runs')
      /\ holder' = c
  BY <1>1, <1>4 DEF TypeOK
<1> QED
  BY <1>1, <1>3, <1>4, <1>5, <1>6, OneFrame

\* A committed snapshot or retirement.
LEMMA CommitIInv ==
    ASSUME IInv, NEW c \in Collector, Commit(c)
    PROVE  IInv'
<1> DEFINE s   == job[c].source
           got == job[c].got[s]
           kind == IF got = "retire" THEN "retirement" ELSE "snapshot"
           result == IF got = "issues" THEN "failed" ELSE "ok"
           run == [source |-> s, at |-> job[c].at[s],
                   status |-> IF got = "issues" THEN "PARTIAL" ELSE "SUCCEEDED",
                   kind |-> kind, parent |-> job[c].parent]
           j   == [job[c] EXCEPT !.stage  = IF got = "retire" THEN "retire" ELSE "gather",
                                 !.source = None,
                                 !.got[s] = result,
                                 !.at[s]  = 0,
                                 !.snapshots = @ \/ (kind = "snapshot" /\ s \notin Financing)]
<1>1. TypeOK /\ job[c] \in Job /\ job[c].stage = "commit" /\ s \in Source
  BY FrameType DEF IInv, Commit, Framed
<1>2. got \in Pending \cup {"retire"} /\ job[c].parent \in 1 .. MaxParents
  <2>1. Framed(job[c])
    BY DEF IInv
  <2>2. job[c].parent \in DOMAIN parents /\ got \in Pending \cup {"retire"}
    BY <1>1, <2>1 DEF Framed, Working
  <2>3. DOMAIN parents \subseteq 1 .. MaxParents
    BY <1>1, CollectionAssumption DEF TypeOK
  <2> QED
    BY <2>2, <2>3
<1>3. run \in Child
  BY <1>1, <1>2 DEF Child, ChildStatus, Job
<1>4. 0 \in Instant
  BY CollectionAssumption DEF Instant
<1>5. j \in Job
  BY <1>1, <1>4, ZenonT(60) DEF Job, Stage, Progress
<1>6. /\ j.parent = job[c].parent
      /\ j.got = [job[c].got EXCEPT ![s] = result]
      /\ j.stage \in {"retire", "gather", "abort"}
  BY <1>1 DEF Job
<1>7. runs' = Append(runs, run) /\ job' = [job EXCEPT ![c] = j]
  BY <1>1, ZenonT(60) DEF Commit, TypeOK, Job
<1>8. got \notin {"ok", "failed"} /\ result \in {"ok", "failed"}
  BY <1>2 DEF Pending
<1>9. run.source = s /\ run.parent = job[c].parent
  OBVIOUS
<1>10. UNCHANGED <<now, holder, parents, mapped, tagged, crashes>>
  BY DEF Commit
<1> HIDE DEF j, run, result
<1> QED
  BY <1>1, <1>3, <1>5, <1>6, <1>7, <1>8, <1>9, <1>10, ResultIInv, ZenonT(60)

\* The failure of one source.
LEMMA RecordFailureIInv ==
    ASSUME IInv, NEW c \in Collector, RecordFailure(c)
    PROVE  IInv'
<1> DEFINE s == job[c].source
           j == [job[c] EXCEPT !.stage = "gather", !.source = None,
                               !.got[s] = "failed", !.at[s] = 0]
<1>1. job[c] \in Job /\ job[c].stage = "fail" /\ s \in Source /\ job[c].got[s] \in Pending
  BY FrameType DEF IInv, RecordFailure, Framed
<1>2. PICK run \in Child : /\ run.source = s /\ run.parent = job[c].parent
                           /\ runs' = Append(runs, run)
  BY <1>1, FailureAppends DEF RecordFailure, Working
<1>3. 0 \in Instant
  BY CollectionAssumption DEF Instant
<1>4. j \in Job
  BY <1>1, <1>3 DEF Job, Stage, Progress
<1>5. /\ j.parent = job[c].parent
      /\ j.got = [job[c].got EXCEPT ![s] = "failed"]
      /\ j.stage = "gather"
  BY <1>1 DEF Job
<1>6. job' = [job EXCEPT ![c] = j]
  BY <1>1 DEF RecordFailure, IInv, TypeOK, Job
<1>7. job[c].got[s] \notin {"ok", "failed"}
  BY <1>1 DEF Pending
<1>8. UNCHANGED <<now, holder, parents, mapped, tagged, crashes>>
  BY DEF RecordFailure
<1> HIDE DEF j
<1> QED
  BY <1>1, <1>2, <1>4, <1>5, <1>6, <1>7, <1>8, ResultIInv

\* The failure of every source that an aborted collection leaves behind.
LEMMA AbortIInv ==
    ASSUME IInv, NEW c \in Collector, NEW s \in Source, Abort(c, s)
    PROVE  IInv'
<1> DEFINE j == [job[c] EXCEPT !.got[s] = "failed", !.at[s] = 0]
<1>1. job[c] \in Job /\ job[c].stage = "abort" /\ job[c].got[s] \in Pending
  BY FrameType DEF IInv, Abort
<1>2. PICK run \in Child : /\ run.source = s /\ run.parent = job[c].parent
                           /\ runs' = Append(runs, run)
  BY <1>1, FailureAppends DEF Abort, Working
<1>3. 0 \in Instant
  BY CollectionAssumption DEF Instant
<1>4. j \in Job
  BY <1>1, <1>3 DEF Job, Progress
<1>5. /\ j.parent = job[c].parent
      /\ j.got = [job[c].got EXCEPT ![s] = "failed"]
      /\ j.stage = "abort"
  BY <1>1 DEF Job
<1>6. job' = [job EXCEPT ![c] = j]
  BY <1>1 DEF Abort, IInv, TypeOK, Job
<1>7. job[c].got[s] \notin {"ok", "failed"}
  BY <1>1 DEF Pending
<1>8. UNCHANGED <<now, holder, parents, mapped, tagged, crashes>>
  BY DEF Abort
<1> HIDE DEF j
<1> QED
  BY <1>1, <1>2, <1>4, <1>5, <1>6, <1>7, <1>8, ResultIInv

-----------------------------------------------------------------------------
\* A new collection run has no runs: those there are belong to older ones.
LEMMA EnterIInv ==
    ASSUME IInv, NEW c \in Collector, job[c].stage = "open",
           NEW first \in {"retire", "gather"},
           NEW got \in [Source -> Progress], NEW at \in [Source -> Instant],
           \A s \in Source : got[s] \notin {"ok", "failed"},
           Enter(c, first, got, at)
    PROVE  IInv'
<1>1. /\ TypeOK /\ job[c] \in Job /\ holder = c
      /\ Len(parents) \in Nat /\ Len(parents) < MaxParents
      /\ DOMAIN parents = 1 .. Len(parents)
  BY FrameType DEF IInv, Enter, Exclusive, TypeOK
<1>2. /\ parents' \in Seq(Parent) /\ Len(parents') = Len(parents) + 1
      /\ DOMAIN parents' = 1 .. Len(parents) + 1
  <2>1. [status |-> "RUNNING", stale |-> FALSE] \in Parent
    BY DEF Parent
  <2> QED
    BY <1>1, <2>1 DEF Enter, TypeOK
<1>n. PICK n \in 1 .. MaxParents : n = Len(parents) + 1
  BY <1>1, CollectionAssumption
<1>3. \A s \in Source : RunsOf(n, s)' = {}
  <2>1. \A i \in DOMAIN runs : runs[i].parent # n
    BY <1>1, <1>n DEF IInv, Parented
  <2> QED
    BY <2>1 DEF Enter, RunsOf, ChildrenOf
<1>4. PICK j \in Job : /\ j.stage = first /\ j.parent = n /\ j.got = got
                       /\ job' = [job EXCEPT ![c] = j]
  <2> DEFINE new == [job[c] EXCEPT !.stage = first, !.parent = n,
                                   !.begun = now, !.got = got, !.at = at]
  <2>1. now \in 0 .. MaxTime /\ n \in 0 .. MaxParents
    BY <1>1, CollectionAssumption DEF TypeOK
  <2>2. new \in Job
    BY <1>1, <2>1 DEF Job, Stage
  <2>3. new.stage = first /\ new.parent = n /\ new.got = got
    BY <1>1 DEF Job
  <2>4. job' = [job EXCEPT ![c] = new]
    BY <1>1, <1>n DEF Enter, TypeOK, Job
  <2> QED
    BY <2>2, <2>3, <2>4
<1>5. Framed(j)'
  <2>1. \A s \in Source : Accounted(j, s)'
    BY <1>3, <1>4 DEF Accounted
  <2> QED
    BY <1>1, <1>2, <1>4, <1>n, <2>1 DEF Framed
<1>6. Parented'
  BY <1>1, <1>2 DEF IInv, Parented, Enter
<1>7. /\ now' \in 0 .. MaxTime /\ crashes' \in 0 .. MaxCrashes
      /\ runs' \in Seq(Child)
      /\ mapped' \in 0 .. Len(runs') /\ tagged' \in 0 .. Len(runs')
      /\ holder' = c /\ Len(parents') <= MaxParents
  BY <1>1, <1>2, CollectionAssumption DEF TypeOK, Enter
<1> QED
  BY <1>1, <1>2, <1>4, <1>5, <1>6, <1>7, OneFrame

\* A collection enters with sources to fetch and sources to retire.
LEMMA OpenCollectionIInv ==
    ASSUME IInv, NEW c \in Collector, OpenCollection(c)
    PROVE  IInv'
<1>1. PICK selected :
        Enter(c, "retire",
              [s \in Source |-> IF s \notin selected THEN "none"
                                ELSE IF Collectable(s, now) THEN "queued" ELSE "retire"],
              [s \in Source |-> 0])
  BY DEF OpenCollection
<1> DEFINE got == [s \in Source |-> IF s \notin selected THEN "none"
                                    ELSE IF Collectable(s, now) THEN "queued" ELSE "retire"]
           at == [s \in Source |-> 0]
<1>2. got \in [Source -> Progress] /\ \A s \in Source : got[s] \notin {"ok", "failed"}
  BY DEF Progress
<1>3. at \in [Source -> Instant]
  BY CollectionAssumption DEF Instant
<1>4. job[c].stage = "open" /\ Enter(c, "retire", got, at)
  BY <1>1 DEF OpenCollection
<1> HIDE DEF got, at
<1> QED
  BY <1>2, <1>3, <1>4, EnterIInv

\* An import enters with everything fetched.
LEMMA OpenImportIInv ==
    ASSUME IInv, NEW c \in Collector, OpenImport(c)
    PROVE  IInv'
<1> DEFINE Enters(venue, got, at) ==
             Enter(c, "gather",
                   [s \in Source |-> IF s \in venue THEN got[s] ELSE "none"],
                   [s \in Source |-> IF s \in venue THEN at[s] ELSE 0])
<1>0. PICK venue \in Venue :
        \E got \in [venue -> {"complete", "issues", "error"}] :
        \E exported \in 0 .. now + Ahead :
        \E at \in [venue -> exported .. now + Ahead] : Enters(venue, got, at)
  BY DEF OpenImport
<1>1. PICK got \in [venue -> {"complete", "issues", "error"}], exported \in 0 .. now + Ahead :
        \E at \in [venue -> exported .. now + Ahead] : Enters(venue, got, at)
  BY <1>0
<1>a. PICK at \in [venue -> exported .. now + Ahead] : Enters(venue, got, at)
  BY <1>1
<1> DEFINE all == [s \in Source |-> IF s \in venue THEN got[s] ELSE "none"]
           when == [s \in Source |-> IF s \in venue THEN at[s] ELSE 0]
<1>2. all \in [Source -> Progress] /\ \A s \in Source : all[s] \notin {"ok", "failed"}
  BY DEF Progress
<1>3. when \in [Source -> Instant]
  <2>1. now \in 0 .. MaxTime /\ MaxTime \in Nat /\ Ahead \in Nat
    BY CollectionAssumption DEF IInv, TypeOK
  <2>2. exported .. now + Ahead \subseteq 0 .. MaxTime + Ahead /\ 0 \in 0 .. MaxTime + Ahead
    BY <2>1
  <2> QED
    BY <2>2 DEF Instant
<1>4. job[c].stage = "open" /\ Enter(c, "gather", all, when)
  BY <1>a DEF OpenImport
<1> HIDE DEF all, when
<1> QED
  BY <1>2, <1>3, <1>4, EnterIInv

-----------------------------------------------------------------------------
\* A step that changes a call frame and either the collection runs, but not
\* how many there are, or what the projections have read.
LEMMA FrameAndParents ==
    ASSUME IInv, NEW c \in Collector, job[c].stage # "idle",
           NEW j \in Job, job' = [job EXCEPT ![c] = j], j.stage # "idle", Framed(j),
           parents' \in Seq(Parent), Len(parents') = Len(parents),
           mapped' \in 0 .. Len(runs), tagged' \in 0 .. Len(runs),
           UNCHANGED <<now, holder, runs, crashes>>
    PROVE  IInv'
<1>1. DOMAIN parents' = DOMAIN parents /\ holder = c
  BY DEF IInv, TypeOK, Exclusive
<1>2. Framed(j)'
  BY <1>1 DEF Framed, Accounted, RunsOf, ChildrenOf, OrderOk
<1>3. Parented'
  BY <1>1 DEF IInv, Parented
<1> QED
  BY <1>1, <1>2, <1>3, OneFrame DEF IInv, TypeOK

\* The holder of the lease reconciles.
LEMMA ReconcileIInv ==
    ASSUME IInv, NEW c \in Collector, Reconcile(c)
    PROVE  IInv'
<1> DEFINE j == [job[c] EXCEPT !.stage = "open"]
<1>1. TypeOK /\ job[c] \in Job /\ job[c].stage = "reconcile"
  BY FrameType DEF IInv, Reconcile
<1>2. j \in Job /\ j.stage # "idle" /\ job' = [job EXCEPT ![c] = j]
  BY <1>1 DEF Reconcile, Job, Stage
<1>3. Framed(j)
  BY <1>1 DEF Framed, Working, Job
<1>4. parents' \in Seq(Parent) /\ Len(parents') = Len(parents)
  BY <1>1, FailStaleType DEF Reconcile
<1>5. mapped' \in 0 .. Len(runs) /\ tagged' \in 0 .. Len(runs)
  BY <1>1 DEF TypeOK, Reconcile
<1> HIDE DEF j
<1> QED
  BY <1>1, <1>2, <1>3, <1>4, <1>5, FrameAndParents DEF Reconcile

\* The mappings are rebuilt.
LEMMA ProjectIInv ==
    ASSUME IInv, NEW c \in Collector, Project(c)
    PROVE  IInv'
<1> DEFINE j == [job[c] EXCEPT !.stage = IF job[c].snapshots THEN "tag" ELSE "finish"]
<1>1. TypeOK /\ job[c] \in Job /\ job[c].stage = "project" /\ Framed(job[c])
  BY FrameType DEF IInv, Project
<1>2. j \in Job /\ j.stage # "idle" /\ job' = [job EXCEPT ![c] = j]
  BY <1>1 DEF Project, Job, Stage
<1>3. Framed(j)
  BY <1>1, <1>2 DEF Framed, Accounted, RunsOf, Working, Job
<1>4. /\ parents' \in Seq(Parent) /\ Len(parents') = Len(parents)
      /\ mapped' \in 0 .. Len(runs) /\ tagged' \in 0 .. Len(runs)
  BY <1>1 DEF TypeOK, Project
<1> HIDE DEF j
<1> QED
  BY <1>1, <1>2, <1>3, <1>4, FrameAndParents DEF Project

\* The tags are rebuilt.
LEMMA TagIInv ==
    ASSUME IInv, NEW c \in Collector, Tag(c)
    PROVE  IInv'
<1> DEFINE j == [job[c] EXCEPT !.stage = "finish"]
<1>1. TypeOK /\ job[c] \in Job /\ job[c].stage = "tag" /\ Framed(job[c])
  BY FrameType DEF IInv, Tag
<1>2. j \in Job /\ j.stage # "idle" /\ job' = [job EXCEPT ![c] = j]
  BY <1>1 DEF Tag, Job, Stage
<1>3. Framed(j)
  BY <1>1, <1>2 DEF Framed, Accounted, RunsOf, Working, Job
<1>4. /\ parents' \in Seq(Parent) /\ Len(parents') = Len(parents)
      /\ mapped' \in 0 .. Len(runs) /\ tagged' \in 0 .. Len(runs)
  BY <1>1 DEF TypeOK, Tag
<1> HIDE DEF j
<1> QED
  BY <1>1, <1>2, <1>3, <1>4, FrameAndParents DEF Tag

\* The collection run is settled.
LEMMA FinishIInv ==
    ASSUME IInv, NEW c \in Collector, Finish(c)
    PROVE  IInv'
<1> DEFINE j == [job[c] EXCEPT !.stage = "release"]
           p == job[c].parent
           settled == [parents[p] EXCEPT !.status = Outcome(p, job[c].error)]
<1>1. TypeOK /\ job[c] \in Job /\ job[c].stage = "finish" /\ Framed(job[c])
  BY FrameType DEF IInv, Finish
<1>2. j \in Job /\ j.stage # "idle" /\ job' = [job EXCEPT ![c] = j]
  BY <1>1 DEF Finish, Job, Stage
<1>3. Framed(j)
  BY <1>1 DEF Framed, Working, Job
<1>4. parents' \in Seq(Parent) /\ Len(parents') = Len(parents)
  <2>1. /\ parents \in Seq(Parent) /\ Len(parents) \in Nat
        /\ DOMAIN parents = 1 .. Len(parents) /\ p \in DOMAIN parents
    BY <1>1 DEF TypeOK, Framed, Working
  <2>2. parents[p] \in Parent
    BY <2>1
  <2>3. Outcome(p, job[c].error) \in {"SUCCEEDED", "PARTIAL", "FAILED"}
    BY DEF Outcome
  <2>4. settled \in Parent
    BY <2>2, <2>3 DEF Parent
  <2>5. parents' = [parents EXCEPT ![p] = settled]
    BY <2>1 DEF Finish
  <2> HIDE DEF settled
  <2>6. parents' \in [1 .. Len(parents) -> Parent]
    BY <2>1, <2>4, <2>5
  <2> QED
    BY <2>1, <2>6, IntervalFunction
<1>5. mapped' \in 0 .. Len(runs) /\ tagged' \in 0 .. Len(runs)
  BY <1>1 DEF TypeOK, Finish
<1> HIDE DEF j
<1> QED
  BY <1>1, <1>2, <1>3, <1>4, <1>5, FrameAndParents DEF Finish

-----------------------------------------------------------------------------
\* Nothing is under way at first.
LEMMA InitIInv == Init => IInv
<1> SUFFICES ASSUME Init PROVE IInv
  OBVIOUS
<1>1. job \in [Collector -> Job] /\ \A c \in Collector : job[c] = Idle
  BY IdleFrame DEF Init
<1>2. TypeOK
  BY <1>1, CollectionAssumption DEF Init, TypeOK
<1>3. Exclusive /\ Parented
  BY <1>1 DEF Init, Exclusive, Parented, Idle
<1>4. \A c \in Collector : Framed(job[c])
  BY <1>1, IdleFrame
<1> QED
  BY <1>2, <1>3, <1>4 DEF IInv

\* Release and Crash leave the lease.
LEMMA ReleaseIInv ==
    ASSUME IInv, NEW c \in Collector, Release(c) \/ Crash(c)
    PROVE  IInv'
<1>1. job[c].stage # "idle" /\ Leave(c)
  BY DEF Release, Crash
<1>2. crashes' \in 0 .. MaxCrashes
  BY CollectionAssumption DEF IInv, TypeOK, Release, Crash
<1> QED
  BY <1>1, <1>2, LeaveIInv

\* The invariant is inductive, one action at a time.
LEMMA NextIInv == IInv /\ [Next]_vars => IInv'
<1> SUFFICES ASSUME IInv, [Next]_vars PROVE IInv'
  OBVIOUS
<1>1. CASE UNCHANGED vars
  <2>1. TypeOK' /\ Exclusive' /\ Parented'
    BY <1>1 DEF vars, IInv, TypeOK, Exclusive, Parented
  <2>2. ASSUME NEW c \in Collector PROVE Framed(job[c])'
    BY <1>1 DEF vars, IInv, Framed, Accounted, RunsOf, ChildrenOf, OrderOk
  <2> QED
    BY <2>1, <2>2 DEF IInv
<1>2. CASE Tick \/ ReconcileUnleased \/ ProjectUnleased
  BY <1>2, TickIInv, ReconcileUnleasedIInv, ProjectUnleasedIInv
<1>3. ASSUME NEW p \in DOMAIN parents, Age(p) PROVE IInv'
  BY <1>3, AgeIInv
<1>4. ASSUME NEW c \in Collector, NEW import \in BOOLEAN, Acquire(c, import) PROVE IInv'
  BY <1>4, AcquireIInv
<1>5. ASSUME NEW c \in Collector, NEW s \in Source,
             \/ StartFetch(c, s) \/ EndFetch(c, s)
             \/ SkipRetirement(c, s) \/ CheckRetirement(c, s)
             \/ CheckSnapshot(c, s) \/ FetchFailed(c, s) \/ Abort(c, s)
      PROVE  IInv'
  BY <1>5, StartFetchIInv, EndFetchIInv, SkipRetirementIInv, CheckRetirementIInv,
     CheckSnapshotIInv, FetchFailedIInv, AbortIInv
<1>6. ASSUME NEW c \in Collector,
             \/ Reconcile(c) \/ Refuse(c) \/ OpenCollection(c) \/ OpenImport(c)
             \/ Retired(c) \/ Commit(c) \/ StoreFails(c) \/ RecordFailure(c)
      PROVE  IInv'
  BY <1>6, ReconcileIInv, RefuseIInv, OpenCollectionIInv, OpenImportIInv,
     RetiredIInv, CommitIInv, StoreFailsIInv, RecordFailureIInv
<1>7. ASSUME NEW c \in Collector,
             \/ Gathered(c) \/ Project(c) \/ Tag(c) \/ ProjectionFails(c)
             \/ Finish(c) \/ Release(c) \/ Crash(c)
      PROVE  IInv'
  BY <1>7, GatheredIInv, ProjectIInv, TagIInv, ProjectionFailsIInv, FinishIInv, ReleaseIInv
<1>8. ASSUME NEW c \in Collector, Step(c) PROVE IInv'
  BY <1>5, <1>6, <1>7, <1>8 DEF Step
<1> QED
  BY <1>1, <1>2, <1>3, <1>4, <1>7, <1>8 DEF Next

\* The invariant holds of every reachable state.
THEOREM Invariance == Spec => []IInv
BY InitIInv, NextIInv, PTL DEF Spec

\* The state is always what the tables' columns and the collector's variables
\* allow.
THEOREM TypeCorrect == Spec => []TypeOK
<1>1. IInv => TypeOK
  BY DEF IInv
<1> QED
  BY <1>1, Invariance, PTL

\* At most one writer is at work.
OneWriter ==
    \A c, d \in Collector :
      job[c].stage # "idle" /\ job[d].stage # "idle" => c = d

\* The lease excludes every second writer, whoever crashes
\* (collection_writer_lease).
THEOREM WritersExclude == Spec => []OneWriter
<1>1. IInv => OneWriter
  BY DEF IInv, Exclusive, OneWriter
<1> QED
  BY <1>1, Invariance, PTL

\* When a collection counts its runs, every source it was to fetch has
\* exactly one, however the fetches, failures and an abort fell
\* (_collect_unlocked, finish_collection_run).
THEOREM SourcesAreAccounted == Spec => []EverySourceAccounted
<1>1. IInv => EverySourceAccounted
  <2> SUFFICES ASSUME IInv, NEW c \in Collector, job[c].stage = "finish", NEW s \in Source
               PROVE  Cardinality(RunsOf(job[c].parent, s))
                        = IF job[c].got[s] \in {"none", "retire", "skipped"} THEN 0 ELSE 1
    BY DEF EverySourceAccounted, RunsOf
  <2>1. /\ Accounted(job[c], s)
        /\ job[c].got[s] \in Progress \ Pending
    BY DEF IInv, TypeOK, Framed, Working, Job
  <2>2. CASE job[c].got[s] \in {"ok", "failed"}
    BY <2>1, <2>2, FS_Singleton DEF Accounted
  <2>3. CASE job[c].got[s] \notin {"ok", "failed"}
    BY <2>1, <2>3, FS_EmptySet DEF Accounted, Progress, Pending
  <2> QED
    BY <2>2, <2>3
<1> QED
  BY <1>1, Invariance, PTL

-----------------------------------------------------------------------------
\* The rows of the ledger that the runs stand for.
Entry(run) == [source |-> run.source, at |-> run.at, status |-> run.status]
Entries == [i \in DOMAIN runs |-> Entry(runs[i])]

\* One more run is one more row.
LEMMA EntriesAppend ==
    ASSUME TypeOK, NEW run \in Child, runs' = Append(runs, run)
    PROVE  Entries' = Append(Entries, Entry(run))
<1>1. /\ Len(runs) \in Nat /\ DOMAIN runs = 1 .. Len(runs)
      /\ DOMAIN runs' = 1 .. Len(runs) + 1
      /\ runs'[Len(runs) + 1] = run
      /\ \A i \in 1 .. Len(runs) : runs'[i] = runs[i] /\ runs[i] \in Child
  BY DEF TypeOK
<1>2. \A i \in 1 .. Len(runs) : Entry(runs[i]) \in LedgerOf!Run
  BY <1>1 DEF Entry, LedgerOf!Run, Child, ChildStatus
<1>3. Entries \in [1 .. Len(runs) -> LedgerOf!Run]
  BY <1>1, <1>2 DEF Entries
<1>4. Entries \in Seq(LedgerOf!Run) /\ Len(Entries) = Len(runs)
  BY <1>1, <1>3, IntervalFunction
<1>5. Entry(run) \in LedgerOf!Run
  BY DEF Entry, LedgerOf!Run, Child, ChildStatus
<1>6. Entries' \in Seq(LedgerOf!Run) /\ Len(Entries') = Len(runs) + 1
  <2>1. Entries' \in [1 .. Len(runs) + 1 -> LedgerOf!Run]
    BY <1>1, <1>2, <1>5 DEF Entries
  <2> QED
    BY <1>1, <2>1, IntervalFunction
<1>7. /\ Append(Entries, Entry(run)) \in Seq(LedgerOf!Run)
      /\ Len(Append(Entries, Entry(run))) = Len(runs) + 1
  BY <1>4, <1>5
<1>8. \A i \in 1 .. Len(runs) + 1 : Entries'[i] = Append(Entries, Entry(run))[i]
  BY <1>1, <1>4, <1>5 DEF Entries
<1> QED
  BY <1>6, <1>7, <1>8, SeqEqual

\* A run recorded as failed is a Failed step of the ledger.
LEMMA FailureIsLogged ==
    ASSUME IInv, NEW c \in Collector, NEW s \in Source,
           (RecordFailure(c) /\ s = job[c].source) \/ Abort(c, s)
    PROVE  LedgerOf!Next
<1>1. /\ job[c].stage \in Working /\ job[c].got[s] \in Pending
      /\ LogFailure(s, job[c].parent)
  BY DEF IInv, Framed, RecordFailure, Abort, Working
<1>2. PICK run \in Child : run.status = "FAILED" /\ runs' = Append(runs, run)
  BY <1>1, FailureAppends
<1>3. Entry(run) \in LedgerOf!Run /\ Entry(run).status = "FAILED"
  BY <1>2 DEF Entry, LedgerOf!Run, Child, ChildStatus
<1>4. Entries' = Append(Entries, Entry(run))
  BY <1>2, EntriesAppend DEF IInv
<1>5. LedgerOf!Failed(Entry(run))
  BY <1>3, <1>4, ZenonT(60) DEF LedgerOf!Failed, Entries, Entry
<1> QED
  BY <1>3, <1>5 DEF LedgerOf!Next

\* A commit appends a run that is in order: the check still holds.
LEMMA CommitAppends ==
    ASSUME IInv, NEW c \in Collector, Commit(c)
    PROVE  \E run \in Child :
             /\ runs' = Append(runs, run)
             /\ run.parent = job[c].parent
             /\ run.status # "FAILED"
             /\ OrderOk(run.source, run.at)
             /\ run.source = job[c].source
             /\ run.status = "SUCCEEDED" => job[c].got[job[c].source] # "issues"
             /\ run.kind = "snapshot" => job[c].got[job[c].source] # "retire"
<1> DEFINE s   == job[c].source
           got == job[c].got[s]
           new == [source |-> s, at |-> job[c].at[s],
                   status |-> IF got = "issues" THEN "PARTIAL" ELSE "SUCCEEDED",
                   kind |-> IF got = "retire" THEN "retirement" ELSE "snapshot",
                   parent |-> job[c].parent]
<1>1. TypeOK /\ job[c] \in Job /\ Framed(job[c]) /\ job[c].stage = "commit"
  BY FrameType DEF IInv, Commit
<1>2. s \in Source /\ job[c].parent \in DOMAIN parents /\ OrderOk(s, job[c].at[s])
  BY <1>1 DEF Framed, Working
<1>3. job[c].parent \in 1 .. MaxParents /\ job[c].at[s] \in Instant
  BY <1>1, <1>2, CollectionAssumption, SMTT(60) DEF TypeOK, Job
<1>4. new \in Child
  BY <1>2, <1>3 DEF Child, ChildStatus
<1>5. /\ runs' = Append(runs, new)
      /\ new.parent = job[c].parent
      /\ new.status # "FAILED"
      /\ OrderOk(new.source, new.at)
      /\ new.source = job[c].source
      /\ new.status = "SUCCEEDED" => job[c].got[job[c].source] # "issues"
      /\ new.kind = "snapshot" => job[c].got[job[c].source] # "retire"
  BY <1>2 DEF Commit, OrderOk
<1> HIDE DEF new
<1> QED
  BY <1>4, <1>5, SMTT(60) DEF OrderOk

\* A committed snapshot or retirement is an Applied step of the ledger.
LEMMA CommitIsApplied ==
    ASSUME IInv, NEW c \in Collector, Commit(c)
    PROVE  LedgerOf!Next
<1>1. PICK run \in Child : /\ runs' = Append(runs, run)
                           /\ run.status # "FAILED"
                           /\ OrderOk(run.source, run.at)
  BY CommitAppends
<1>2. Entries' = Append(Entries, Entry(run))
  BY <1>1, EntriesAppend DEF IInv
<1>3. /\ Entry(run) \in LedgerOf!Run /\ Entry(run).status # "FAILED"
      /\ Entry(run).source = run.source /\ Entry(run).at = run.at
  BY <1>1 DEF Entry, LedgerOf!Run, Child, ChildStatus
<1>4. LedgerOf!NotOlder(run.source, run.at)
  BY <1>1, SMTT(60) DEF OrderOk, LedgerOf!NotOlder
<1>5. LedgerOf!Applied(Entry(run))
  BY <1>2, <1>3, <1>4 DEF LedgerOf!Applied, Entries, Entry
<1> QED
  BY <1>3, <1>5 DEF LedgerOf!Next

\* The ingest runs are a ledger, whatever crashes, overlaps or arrives late:
\* nothing is recorded behind a newer complete snapshot of its source, and no
\* run is revoked (_assert_snapshot_order, record_failed_run).
THEOREM KeepsLedger == Spec => ImplementsLedger
<1>1. Init => LedgerOf!Init
  BY DEF Init, LedgerOf!Init
<1>2. IInv /\ [Next]_vars => [LedgerOf!Next]_Entries
  <2> SUFFICES ASSUME IInv, Next, runs' # runs PROVE LedgerOf!Next
    BY DEF Entries, vars
  <2>1. ASSUME NEW c \in Collector, Commit(c) PROVE LedgerOf!Next
    BY <2>1, CommitIsApplied
  <2>2. ASSUME NEW c \in Collector, RecordFailure(c) PROVE LedgerOf!Next
    <3>1. job[c].source \in Source
      BY <2>2 DEF IInv, Framed, RecordFailure
    <3> QED
      BY <2>2, <3>1, FailureIsLogged
  <2>3. ASSUME NEW c \in Collector, NEW s \in Source, Abort(c, s) PROVE LedgerOf!Next
    BY <2>3, FailureIsLogged
  <2>4. ASSUME NEW c \in Collector, NEW s \in Source,
               \/ StartFetch(c, s) \/ EndFetch(c, s) \/ SkipRetirement(c, s)
               \/ CheckRetirement(c, s) \/ CheckSnapshot(c, s) \/ FetchFailed(c, s)
        PROVE  FALSE
    BY <2>4 DEF StartFetch, EndFetch, SkipRetirement, CheckRetirement, CheckSnapshot,
                FetchFailed
  <2>5. ASSUME NEW c \in Collector,
               \/ Reconcile(c) \/ Refuse(c) \/ OpenCollection(c) \/ OpenImport(c)
               \/ Retired(c) \/ StoreFails(c) \/ Gathered(c) \/ Project(c) \/ Tag(c)
               \/ ProjectionFails(c) \/ Finish(c) \/ Release(c) \/ Crash(c)
        PROVE  FALSE
    BY <2>5, ZenonT(60) DEF Reconcile, Refuse, OpenCollection, OpenImport, Enter, Retired, StoreFails,
                Gathered, Project, Tag, ProjectionFails, Finish, Release, Crash, Leave
  <2>6. ASSUME \/ Tick \/ ReconcileUnleased \/ ProjectUnleased
               \/ \E c \in Collector, import \in BOOLEAN : Acquire(c, import)
               \/ \E p \in DOMAIN parents : Age(p)
        PROVE  FALSE
    BY <2>6 DEF Tick, ReconcileUnleased, ProjectUnleased, Acquire, Take, Age
  <2> QED
    BY <2>1, <2>2, <2>3, <2>4, <2>5, <2>6 DEF Next, Step
<1> QED
  BY <1>1, <1>2, Invariance, PTL DEF Spec, ImplementsLedger, LedgerOf!Spec, Entries, Entry

-----------------------------------------------------------------------------
(* What a collection run ends as: that only a live writer that was taken for *)
(* dead revises its outcome, and that a success means that the projections   *)
(* have read all of it.                                                      *)

\* A collection run that nobody has settled, or that was failed by its age.
Standing(parent) ==
    \/ parent.status = "RUNNING"
    \/ parent.status = "FAILED" /\ parent.stale

\* The collection run of a writer at work is one of these.
Held ==
    \A c \in Collector : job[c].stage \in Working => Standing(parents[job[c].parent])

\* A step of one writer that leaves the collection runs alone, and the
\* writer at the same one.
Continues(c) ==
    /\ job[c].stage \in Working
    /\ parents' = parents
    /\ \A d \in Collector \ {c} : job'[d] = job[d]
    /\ job'[c].parent = job[c].parent

\* Such a step keeps its collection run as it was.
LEMMA ContinuesHeld ==
    ASSUME IInv, Held, NEW c \in Collector, Continues(c)
    PROVE  Held'
BY DEF IInv, TypeOK, Held, Continues

\* Nearly every step of a writer is one.
LEMMA StepContinues ==
    ASSUME IInv, NEW c \in Collector, NEW s,
           \/ StartFetch(c, s) \/ EndFetch(c, s)
           \/ SkipRetirement(c, s) \/ CheckRetirement(c, s)
           \/ CheckSnapshot(c, s) \/ FetchFailed(c, s) \/ Abort(c, s)
           \/ Retired(c) \/ Commit(c) \/ StoreFails(c) \/ RecordFailure(c) \/ Gathered(c)
           \/ Project(c) \/ Tag(c) \/ ProjectionFails(c)
    PROVE  Continues(c)
<1>1. job \in [Collector -> Job] /\ job[c] \in Job
  BY DEF IInv, TypeOK
<1>2. CASE StartFetch(c, s)
  BY <1>1, <1>2 DEF Continues, Working, Job, StartFetch
<1>3. CASE EndFetch(c, s)
  BY <1>1, <1>3 DEF Continues, Working, Job, EndFetch
<1>4. CASE SkipRetirement(c, s)
  BY <1>1, <1>4 DEF Continues, Working, Job, SkipRetirement
<1>5. CASE CheckRetirement(c, s)
  BY <1>1, <1>5 DEF Continues, Working, Job, CheckRetirement
<1>6. CASE CheckSnapshot(c, s)
  BY <1>1, <1>6 DEF Continues, Working, Job, CheckSnapshot
<1>7. CASE FetchFailed(c, s)
  BY <1>1, <1>7 DEF Continues, Working, Job, FetchFailed
<1>8. CASE Abort(c, s)
  BY <1>1, <1>8 DEF Continues, Working, Job, Abort
<1>9. CASE Retired(c)
  BY <1>1, <1>9 DEF Continues, Working, Job, Retired
<1>10. CASE Commit(c)
  BY <1>1, <1>10, ZenonT(60) DEF Continues, Working, Job, Commit
<1>11. CASE StoreFails(c)
  BY <1>1, <1>11 DEF Continues, Working, Job, StoreFails
<1>12. CASE RecordFailure(c)
  BY <1>1, <1>12 DEF Continues, Working, Job, RecordFailure
<1>13. CASE Gathered(c)
  BY <1>1, <1>13 DEF Continues, Working, Job, Gathered
<1>14. CASE Project(c)
  BY <1>1, <1>14 DEF Continues, Working, Job, Project
<1>15. CASE Tag(c)
  BY <1>1, <1>15 DEF Continues, Working, Job, Tag
<1>16. CASE ProjectionFails(c)
  BY <1>1, <1>16 DEF Continues, Working, Job, ProjectionFails
<1> QED
  BY <1>2, <1>3, <1>4, <1>5, <1>6, <1>7, <1>8, <1>9, <1>10, <1>11, <1>12, <1>13, <1>14, <1>15, <1>16

\* A step after which c is not at work, nor anybody else.
Rests(c) ==
    /\ job[c].stage # "idle" \/ holder = None
    /\ \A d \in Collector \ {c} : job'[d] = job[d]
    /\ job'[c].stage \notin Working

\* Nobody is at work after it.
LEMMA RestsIdle ==
    ASSUME IInv, NEW c \in Collector, Rests(c)
    PROVE  \A d \in Collector : job'[d].stage \notin Working
BY OthersIdle DEF Rests, Working

\* The other steps of a writer, the opening of a collection run apart, and
\* the acquisition of the lease.
LEMMA StepRests ==
    ASSUME IInv, NEW c \in Collector, NEW import \in BOOLEAN,
           \/ Acquire(c, import) \/ Reconcile(c) \/ Refuse(c) \/ Finish(c)
           \/ Release(c) \/ Crash(c)
    PROVE  Rests(c)
<1>1. job \in [Collector -> Job] /\ job[c] \in Job
  BY DEF IInv, TypeOK
<1>2. CASE Acquire(c, import)
  BY <1>1, <1>2 DEF Rests, Working, Job, Acquire, Take
<1>3. CASE Reconcile(c)
  BY <1>1, <1>3 DEF Rests, Working, Job, Reconcile
<1>4. CASE Refuse(c)
  BY <1>1, <1>4 DEF Rests, Working, Job, Refuse
<1>5. CASE Finish(c)
  BY <1>1, <1>5 DEF Rests, Working, Job, Finish
<1>6. CASE Release(c) \/ Crash(c)
  <2>1. Idle.stage = "idle"
    BY DEF Idle
  <2> QED
    BY <1>1, <1>6, <2>1 DEF Rests, Working, Release, Crash, Leave
<1> QED
  BY <1>2, <1>3, <1>4, <1>5, <1>6

\* The opening of a collection run: it is the newest, running and not old.
Opens(c) ==
    /\ job[c].stage = "open"
    /\ \A d \in Collector \ {c} : job'[d] = job[d]
    /\ job'[c].stage \in {"retire", "gather"}
    /\ job'[c].parent = Len(parents) + 1
    /\ parents' = Append(parents, [status |-> "RUNNING", stale |-> FALSE])
    /\ UNCHANGED <<runs, mapped, tagged>>

\* Both ways to open one.
LEMMA StepOpens ==
    ASSUME IInv, NEW c \in Collector, OpenCollection(c) \/ OpenImport(c)
    PROVE  Opens(c)
<1>1. job \in [Collector -> Job] /\ job[c] \in Job
  BY DEF IInv, TypeOK
<1>2. ASSUME NEW first \in {"retire", "gather"}, NEW got, NEW at,
             job[c].stage = "open", Enter(c, first, got, at)
      PROVE  Opens(c)
  BY <1>1, <1>2 DEF Opens, Enter, Job
<1>3. CASE OpenCollection(c)
  BY <1>2, <1>3 DEF OpenCollection
<1>4. CASE OpenImport(c)
  BY <1>2, <1>4 DEF OpenImport
<1> QED
  BY <1>3, <1>4

\* Every step of Next is of one of these kinds, or is not a writer's.
LEMMA StepKinds ==
    ASSUME IInv, Next
    PROVE  \/ \E c \in Collector : Continues(c) \/ Rests(c) \/ Opens(c)
           \/ Tick \/ ReconcileUnleased \/ ProjectUnleased
           \/ \E p \in DOMAIN parents : Age(p)
<1>1. ASSUME NEW c \in Collector, NEW import \in BOOLEAN, Acquire(c, import) PROVE Rests(c)
  BY <1>1, StepRests
<1>2. ASSUME NEW c \in Collector, Crash(c) PROVE Rests(c)
  BY <1>2, StepRests
<1>3. ASSUME NEW c \in Collector, Step(c) PROVE Continues(c) \/ Rests(c) \/ Opens(c)
  <2>1. CASE Reconcile(c) \/ Refuse(c) \/ Finish(c) \/ Release(c)
    BY <2>1, StepRests
  <2>2. CASE OpenCollection(c) \/ OpenImport(c)
    BY <2>2, StepOpens
  <2>3. ASSUME NEW s \in Source,
               \/ StartFetch(c, s) \/ EndFetch(c, s)
               \/ SkipRetirement(c, s) \/ CheckRetirement(c, s)
               \/ CheckSnapshot(c, s) \/ FetchFailed(c, s) \/ Abort(c, s)
        PROVE  Continues(c)
    BY <2>3, StepContinues
  <2>4. CASE \/ Retired(c) \/ Commit(c) \/ StoreFails(c) \/ RecordFailure(c) \/ Gathered(c)
             \/ Project(c) \/ Tag(c) \/ ProjectionFails(c)
    BY <2>4, StepContinues
  <2> QED
    BY <1>3, <2>1, <2>2, <2>3, <2>4 DEF Step
<1> QED
  BY <1>1, <1>2, <1>3 DEF Next

-----------------------------------------------------------------------------
\* Ageing and reconciliation leave a collection run standing.
LEMMA StandingLasts ==
    ASSUME IInv, NEW q \in DOMAIN parents, Standing(parents[q]),
           FailStale \/ \E p \in DOMAIN parents : Age(p)
    PROVE  Standing(parents'[q])
<1>1. parents[q] \in Parent
  BY DEF IInv, TypeOK
<1>2. CASE FailStale
  <2>1. parents'[q] = parents[q]
           \/ /\ parents[q].stale
              /\ parents'[q] = [parents[q] EXCEPT !.status = "FAILED"]
    BY <1>2 DEF FailStale
  <2> QED
    BY <1>1, <2>1 DEF Standing, Parent
<1>3. ASSUME NEW p \in DOMAIN parents, Age(p) PROVE Standing(parents'[q])
  <2>1. parents'[q] = parents[q] \/ parents'[q] = [parents[q] EXCEPT !.stale = TRUE]
    BY <1>3 DEF Age
  <2> QED
    BY <1>1, <2>1 DEF Standing, Parent
<1> QED
  BY <1>2, <1>3

\* A writer at work finds its collection run running, or failed by its age.
LEMMA NextHeld ==
    ASSUME IInv, Held, [Next]_vars
    PROVE  Held'
<1>1. CASE UNCHANGED vars
  BY <1>1 DEF vars, Held
<1>2. ASSUME NEW c \in Collector, Continues(c) PROVE Held'
  BY <1>2, ContinuesHeld
<1>3. ASSUME NEW c \in Collector, Rests(c) PROVE Held'
  BY <1>3, RestsIdle DEF Held
<1>4. ASSUME NEW c \in Collector, Opens(c) PROVE Held'
  <2>1. \A d \in Collector \ {c} : job'[d].stage \notin Working
    BY <1>4, OthersIdle DEF Opens, Working
  <2>2. parents'[job'[c].parent] = [status |-> "RUNNING", stale |-> FALSE]
    BY <1>4 DEF IInv, TypeOK, Opens
  <2>3. Standing(parents'[job'[c].parent])
    BY <2>2 DEF Standing
  <2> QED
    BY <2>1, <2>3 DEF Held
<1>5. CASE Tick \/ ProjectUnleased
  BY <1>5 DEF Tick, ProjectUnleased, Held
<1>6. CASE ReconcileUnleased \/ \E p \in DOMAIN parents : Age(p)
  <2>1. job' = job /\ (FailStale \/ \E p \in DOMAIN parents : Age(p))
    BY <1>6 DEF ReconcileUnleased, Age
  <2> SUFFICES ASSUME NEW c \in Collector, job[c].stage \in Working
               PROVE  Standing(parents'[job[c].parent])
    BY <2>1 DEF Held
  <2>2. job[c].parent \in DOMAIN parents /\ Standing(parents[job[c].parent])
    BY DEF IInv, Framed, Held
  <2> QED
    BY <2>1, <2>2, StandingLasts
<1> QED
  BY <1>1, <1>2, <1>3, <1>4, <1>5, <1>6, StepKinds

\* What can happen to the collection runs in a step.
LEMMA ParentsKinds ==
    ASSUME IInv, Next
    PROVE  \/ parents' = parents
           \/ FailStale
           \/ \E c \in Collector : Opens(c) \/ Finish(c)
           \/ \E p \in DOMAIN parents : Age(p)
<1>1. CASE Tick \/ ReconcileUnleased \/ ProjectUnleased
  BY <1>1 DEF Tick, ReconcileUnleased, ProjectUnleased
<1>2. CASE \E p \in DOMAIN parents : Age(p)
  BY <1>2
<1>3. ASSUME NEW c \in Collector, NEW import \in BOOLEAN, Acquire(c, import) \/ Crash(c)
      PROVE  parents' = parents
  BY <1>3 DEF Acquire, Take, Crash, Leave
<1>4. ASSUME NEW c \in Collector, Step(c)
      PROVE  parents' = parents \/ FailStale \/ Opens(c) \/ Finish(c)
  <2>1. CASE Reconcile(c) \/ Refuse(c) \/ Release(c)
    BY <2>1 DEF Reconcile, Refuse, Release, Leave
  <2>2. CASE OpenCollection(c) \/ OpenImport(c)
    BY <2>2, StepOpens
  <2>3. ASSUME NEW s \in Source,
               \/ StartFetch(c, s) \/ EndFetch(c, s)
               \/ SkipRetirement(c, s) \/ CheckRetirement(c, s)
               \/ CheckSnapshot(c, s) \/ FetchFailed(c, s) \/ Abort(c, s)
        PROVE  parents' = parents
    BY <2>3, StepContinues DEF Continues
  <2>4. CASE \/ Retired(c) \/ Commit(c) \/ StoreFails(c) \/ RecordFailure(c) \/ Gathered(c)
             \/ Project(c) \/ Tag(c) \/ ProjectionFails(c)
    BY <2>4, StepContinues DEF Continues
  <2> QED
    BY <1>4, <2>1, <2>2, <2>3, <2>4 DEF Step
<1> QED
  BY <1>1, <1>2, <1>3, <1>4 DEF Next

\* A writer that settles a collection run already settled was taken for dead,
\* and makes it what its ingest runs say, or leaves it failed.
LEMMA FinishRevises ==
    ASSUME IInv, Held, NEW c \in Collector, Finish(c), NEW p \in DOMAIN parents,
           ~Unsettled(p), parents'[p].status # parents[p].status
    PROVE  /\ Overtaken(p) /\ ~AtWork(p)'
           /\ parents'[p].status = Outcome(p, FALSE)
<1>1. job \in [Collector -> Job] /\ job[c] \in Job /\ job[c].stage = "finish"
  BY DEF IInv, TypeOK, Finish
<1>2. job[c].parent = p /\ parents'[p].status = Outcome(p, job[c].error)
  BY DEF Finish
<1>3. parents[p].status = "FAILED" /\ parents[p].stale
  BY <1>1, <1>2 DEF Held, Standing, Working, Unsettled
<1>4. AtWork(p)
  BY <1>1, <1>2 DEF AtWork, OwnerOf
<1>5. ~AtWork(p)'
  <2>1. job'[c].stage = "release"
    BY <1>1 DEF Finish
  <2>2. \A d \in Collector \ {c} : job'[d].stage = "idle"
    BY <1>1, OthersIdle DEF Finish
  <2> QED
    BY <2>1, <2>2 DEF AtWork, OwnerOf
<1>6. job[c].error = FALSE
  BY <1>1, <1>2, <1>3 DEF Outcome, Job
<1> QED
  BY <1>2, <1>3, <1>4, <1>5, <1>6 DEF Overtaken

\* The outcome of a collection run changes only where a reconciliation failed
\* it while its writer was alive, and then to what its ingest runs say
\* (reconcile_stale_collection_runs, finish_collection_run).
THEOREM OutcomesStay == Spec => OutcomeIsFinal
<1> DEFINE Revised(p) == /\ Overtaken(p) /\ ~AtWork(p)'
                         /\ parents'[p].status = Outcome(p, FALSE)
           Stay == \A p \in DOMAIN parents :
                     ~Unsettled(p) /\ parents'[p].status # parents[p].status => Revised(p)
<1>1. Init => Held
  BY DEF Init, Held, Idle, Working
<1>2. IInv /\ Held /\ [Next]_vars => Held'
  BY NextHeld
<1>3. IInv /\ Held /\ [Next]_vars => [Stay]_vars
  <2> SUFFICES ASSUME IInv, Held, Next, NEW p \in DOMAIN parents,
                      ~Unsettled(p), parents'[p].status # parents[p].status
               PROVE  Revised(p)
    OBVIOUS
  <2>1. CASE FailStale
    BY <2>1 DEF FailStale
  <2>2. ASSUME NEW c \in Collector, Opens(c)
        PROVE  FALSE
    BY <2>2 DEF Opens, IInv, TypeOK
  <2>3. ASSUME NEW c \in Collector, Finish(c)
        PROVE  Revised(p)
    BY <2>3, FinishRevises
  <2>4. ASSUME NEW q \in DOMAIN parents, Age(q)
        PROVE  FALSE
    BY <2>4 DEF Age
  <2> QED
    BY <2>1, <2>2, <2>3, <2>4, ParentsKinds
<1> QED
  BY <1>1, <1>2, <1>3, Invariance, PTL DEF Spec, OutcomeIsFinal

-----------------------------------------------------------------------------
MarketSnapshot(run) == run.kind = "snapshot" /\ run.source \notin Financing

\* The projections have read the i-th run as far as they are to.
Read(i) == i <= mapped /\ (MarketSnapshot(runs[i]) => i <= tagged)

\* What a writer relies on when it settles its collection run: a complete
\* snapshot made its result ok, a market snapshot asked for tags, and a
\* projection that did not fail has read every run.
Prepared(j) ==
    /\ j.stage \in Working =>
         \A i \in ChildrenOf(j.parent) :
           /\ runs[i].status = "SUCCEEDED" => j.got[runs[i].source] = "ok"
           /\ MarketSnapshot(runs[i]) => j.snapshots
    /\ j.stage = "tag" => \A i \in ChildrenOf(j.parent) : i <= mapped
    /\ j.stage = "finish" /\ ~j.error /\ (\E s \in Source : j.got[s] = "ok") =>
         \A i \in ChildrenOf(j.parent) : Read(i)

\* A writer at work has a collection run that has not succeeded.
Unsucceeded ==
    \A c \in Collector : job[c].stage \in Working =>
      parents[job[c].parent].status # "SUCCEEDED"

\* The inductive invariant of SucceededIsProjected.
SInv ==
    /\ SucceededIsProjected
    /\ Unsucceeded
    /\ \A c \in Collector : Prepared(job[c])

\* A reconciliation makes no collection run succeed, and neither does age.
LEMMA NextUnsucceeded ==
    ASSUME IInv, Unsucceeded, [Next]_vars
    PROVE  Unsucceeded'
<1>1. CASE UNCHANGED vars
  BY <1>1 DEF vars, Unsucceeded
<1>2. ASSUME NEW c \in Collector, Continues(c) PROVE Unsucceeded'
  BY <1>2 DEF IInv, TypeOK, Unsucceeded, Continues
<1>3. ASSUME NEW c \in Collector, Rests(c) PROVE Unsucceeded'
  BY <1>3, RestsIdle DEF Unsucceeded
<1>4. ASSUME NEW c \in Collector, Opens(c) PROVE Unsucceeded'
  <2>1. \A d \in Collector \ {c} : job'[d].stage \notin Working
    BY <1>4, OthersIdle DEF Opens, Working
  <2>2. parents'[job'[c].parent].status = "RUNNING"
    BY <1>4 DEF IInv, TypeOK, Opens
  <2> QED
    BY <2>1, <2>2 DEF Unsucceeded
<1>5. CASE Tick \/ ProjectUnleased
  BY <1>5 DEF Tick, ProjectUnleased, Unsucceeded
<1>6. \A c \in Collector : job[c].stage \in Working => job[c].parent \in 1 .. Len(parents)
  BY DEF IInv, TypeOK, Framed
<1>7. \A p \in 1 .. Len(parents) : parents[p] \in Parent
  BY DEF IInv, TypeOK
<1>8. CASE ReconcileUnleased
  BY <1>6, <1>7, <1>8 DEF ReconcileUnleased, FailStale, Unsucceeded, Parent, IInv, TypeOK
<1>9. ASSUME NEW p \in DOMAIN parents, Age(p) PROVE Unsucceeded'
  BY <1>6, <1>7, <1>9 DEF Age, Unsucceeded, Parent, IInv, TypeOK
<1> QED
  BY <1>1, <1>2, <1>3, <1>4, <1>5, <1>8, <1>9, StepKinds

\* A run that is written is of a writer at work, and what the projections
\* have read only grows.
LEMMA RunsKinds ==
    ASSUME IInv, Next
    PROVE  /\ \/ runs' = runs
              \/ \E c \in Collector, run \in Child :
                   /\ job[c].stage \in Working
                   /\ run.parent = job[c].parent
                   /\ runs' = Append(runs, run)
           /\ mapped' \in {mapped, Len(runs)}
           /\ tagged' \in {tagged, Len(runs)}
<1>1. ASSUME NEW c \in Collector, NEW import \in BOOLEAN, Acquire(c, import) \/ Crash(c)
      PROVE  UNCHANGED <<runs, mapped, tagged>>
  BY <1>1 DEF Acquire, Take, Crash, Leave
<1>2. CASE \/ Tick \/ ReconcileUnleased \/ ProjectUnleased
           \/ \E p \in DOMAIN parents : Age(p)
  BY <1>2 DEF Tick, ReconcileUnleased, ProjectUnleased, Age
<1>3. ASSUME NEW c \in Collector, NEW s \in Source,
             \/ StartFetch(c, s) \/ EndFetch(c, s) \/ SkipRetirement(c, s)
             \/ CheckRetirement(c, s) \/ CheckSnapshot(c, s) \/ FetchFailed(c, s)
      PROVE  UNCHANGED <<runs, mapped, tagged>>
  BY <1>3 DEF StartFetch, EndFetch, SkipRetirement, CheckRetirement, CheckSnapshot,
              FetchFailed
<1>4. ASSUME NEW c \in Collector,
             \/ Reconcile(c) \/ Refuse(c) \/ OpenCollection(c) \/ OpenImport(c)
             \/ Retired(c) \/ StoreFails(c) \/ Gathered(c)
             \/ ProjectionFails(c) \/ Finish(c) \/ Release(c)
      PROVE  UNCHANGED <<runs, mapped, tagged>>
  BY <1>4, ZenonT(60) DEF Reconcile, Refuse, OpenCollection, OpenImport, Enter, Retired, StoreFails,
              Gathered, ProjectionFails, Finish, Release, Leave
<1>5. ASSUME NEW c \in Collector, Project(c) \/ Tag(c)
      PROVE  runs' = runs /\ mapped' \in {mapped, Len(runs)} /\ tagged' \in {tagged, Len(runs)}
  BY <1>5 DEF Project, Tag
<1>6. ASSUME NEW c \in Collector, NEW s \in Source,
             (RecordFailure(c) /\ s = job[c].source) \/ Abort(c, s)
      PROVE  /\ job[c].stage \in Working /\ mapped' = mapped /\ tagged' = tagged
             /\ \E run \in Child : run.parent = job[c].parent /\ runs' = Append(runs, run)
  <2>1. /\ job[c].stage \in Working /\ job[c].got[s] \in Pending
        /\ LogFailure(s, job[c].parent)
    BY <1>6 DEF IInv, Framed, RecordFailure, Abort, Working
  <2> QED
    BY <1>6, <2>1, FailureAppends DEF RecordFailure, Abort
<1>7. ASSUME NEW c \in Collector, RecordFailure(c) PROVE job[c].source \in Source
  BY <1>7 DEF IInv, Framed, RecordFailure
<1>8. ASSUME NEW c \in Collector, Commit(c)
      PROVE  /\ job[c].stage \in Working /\ mapped' = mapped /\ tagged' = tagged
             /\ \E run \in Child : run.parent = job[c].parent /\ runs' = Append(runs, run)
  BY <1>8, CommitAppends, ZenonT(60) DEF Commit, Working
<1>9. ASSUME NEW c \in Collector, Step(c)
      PROVE  /\ \/ runs' = runs
                \/ /\ job[c].stage \in Working
                   /\ \E run \in Child : run.parent = job[c].parent /\ runs' = Append(runs, run)
             /\ mapped' \in {mapped, Len(runs)}
             /\ tagged' \in {tagged, Len(runs)}
  <2>1. CASE RecordFailure(c)
    BY <2>1, <1>6, <1>7
  <2> QED
    BY <1>3, <1>4, <1>5, <1>6, <1>8, <1>9, <2>1 DEF Step
<1> QED
  BY <1>1, <1>2, <1>9 DEF Next

\* A run is of a source.
LEMMA RunSources ==
    ASSUME TypeOK
    PROVE  \A i \in DOMAIN runs : runs[i].source \in Source
<1> SUFFICES ASSUME NEW i \in DOMAIN runs PROVE runs[i].source \in Source
  OBVIOUS
<1>1. runs[i] \in Child
  BY DEF TypeOK
<1> QED
  BY <1>1 DEF Child

\* A success stays projected, and one that is new was projected before.
LEMMA NextProjected ==
    ASSUME IInv, SInv, Next
    PROVE  SucceededIsProjected'
<1> SUFFICES ASSUME NEW p \in DOMAIN parents', parents'[p].status = "SUCCEEDED",
                    NEW i \in ChildrenOf(p)'
             PROVE  runs'[i].status = "SUCCEEDED" /\ Read(i)'
  BY DEF SucceededIsProjected, Read, MarketSnapshot
<1>1. /\ runs \in Seq(Child) /\ Len(runs) \in Nat /\ DOMAIN runs = 1 .. Len(runs)
      /\ mapped \in 0 .. Len(runs) /\ tagged \in 0 .. Len(runs)
      /\ parents \in Seq(Parent) /\ Len(parents) \in Nat /\ DOMAIN parents = 1 .. Len(parents)
  BY DEF IInv, TypeOK
<1>2. ASSUME NEW k \in DOMAIN runs, runs'[k] = runs[k], Read(k)
      PROVE  Read(k)'
  BY <1>1, <1>2, RunsKinds DEF Read, MarketSnapshot
<1>3. CASE p \in DOMAIN parents /\ parents[p].status = "SUCCEEDED"
  <2>1. \A c \in Collector : job[c].stage \in Working => job[c].parent # p
    BY <1>3 DEF SInv, Unsucceeded
  <2>2. i \in ChildrenOf(p) /\ runs'[i] = runs[i]
    BY <1>1, <2>1, RunsKinds DEF ChildrenOf
  <2>3. runs[i].status = "SUCCEEDED" /\ Read(i)
    BY <1>3, <2>2 DEF SInv, SucceededIsProjected, Read, MarketSnapshot
  <2> QED
    BY <1>2, <2>2, <2>3 DEF ChildrenOf
<1>4. CASE ~(p \in DOMAIN parents /\ parents[p].status = "SUCCEEDED")
  <2>1. PICK c \in Collector : Finish(c) /\ p = job[c].parent
    <3>1. parents' # parents
      BY <1>4
    <3>2. ASSUME NEW q \in DOMAIN parents PROVE parents[q] \in Parent
      BY <1>1
    <3>3. CASE FailStale
      BY <1>4, <3>2, <3>3 DEF FailStale, Parent
    <3>4. ASSUME NEW c \in Collector, Opens(c) PROVE FALSE
      BY <1>1, <1>4, <3>4 DEF Opens
    <3>5. ASSUME NEW q \in DOMAIN parents, Age(q) PROVE FALSE
      BY <1>4, <3>2, <3>5 DEF Age, Parent
    <3>6. ASSUME NEW c \in Collector, Finish(c) PROVE p = job[c].parent
      BY <1>4, <3>6 DEF Finish
    <3> QED
      BY <3>1, <3>3, <3>4, <3>5, <3>6, ParentsKinds
  <2>2. runs' = runs /\ i \in ChildrenOf(p) /\ p \in DOMAIN parents /\ job[c].stage = "finish"
    BY <2>1 DEF Finish, ChildrenOf, IInv, Framed, Working
  <2>3. Outcome(p, job[c].error) = "SUCCEEDED"
    <3>1. parents[p] \in Parent
      BY <1>1, <2>2
    <3> QED
      BY <2>1, <2>2, <3>1 DEF Finish, Parent, Outcome
  <2>4. ~job[c].error /\ \A k \in ChildrenOf(p) : runs[k].status = "SUCCEEDED"
    BY <2>3 DEF Outcome
  <2>5. runs[i].source \in Source /\ job[c].got[runs[i].source] = "ok"
    BY <2>1, <2>2, <2>4, RunSources DEF SInv, Prepared, Working, ChildrenOf, IInv
  <2>6. Read(i)
    BY <2>1, <2>2, <2>4, <2>5 DEF SInv, Prepared
  <2> QED
    BY <1>2, <2>2, <2>4, <2>6 DEF ChildrenOf
<1> QED
  BY <1>3, <1>4

-----------------------------------------------------------------------------
\* A step that writes no run, keeps every ok and asks for no less tags.
LEMMA QuietPrepared ==
    ASSUME IInv, NEW c \in Collector, Prepared(job[c]), job[c].stage \in Working,
           UNCHANGED <<runs, mapped, tagged>>,
           job'[c].parent = job[c].parent, job'[c].snapshots = job[c].snapshots,
           \A s \in Source : job[c].got[s] = "ok" => job'[c].got[s] = "ok",
           job'[c].stage \notin {"tag", "finish"}
    PROVE  Prepared(job[c])'
<1>1. \A i \in DOMAIN runs : runs[i].source \in Source
  BY RunSources DEF IInv
<1> QED
  BY <1>1 DEF Prepared, ChildrenOf, MarketSnapshot

\* A step that writes the run of a source without one.
LEMMA ResultPrepared ==
    ASSUME IInv, NEW c \in Collector, Prepared(job[c]), job[c].stage \in Working,
           NEW s \in Source, job[c].got[s] \notin {"ok", "failed"},
           NEW run \in Child, run.source = s, run.parent = job[c].parent,
           runs' = Append(runs, run),
           job'[c].parent = job[c].parent,
           \A z \in Source \ {s} : job'[c].got[z] = job[c].got[z],
           run.status = "SUCCEEDED" => job'[c].got[s] = "ok",
           job[c].snapshots \/ MarketSnapshot(run) => job'[c].snapshots,
           job'[c].stage \notin {"tag", "finish"}
    PROVE  Prepared(job[c])'
<1>1. /\ runs \in Seq(Child) /\ Len(runs) \in Nat /\ DOMAIN runs = 1 .. Len(runs)
      /\ DOMAIN runs' = 1 .. Len(runs) + 1 /\ runs'[Len(runs) + 1] = run
      /\ \A i \in 1 .. Len(runs) : runs'[i] = runs[i] /\ runs[i].source \in Source
  BY RunSources DEF IInv, TypeOK
<1>2. RunsOf(job[c].parent, s) = {}
  BY DEF IInv, Framed, Accounted
<1>3. ASSUME NEW i \in ChildrenOf(job[c].parent)'
      PROVE  /\ runs'[i].status = "SUCCEEDED" => job'[c].got[runs'[i].source] = "ok"
             /\ MarketSnapshot(runs'[i]) => job'[c].snapshots
  <2>1. CASE i = Len(runs) + 1
    BY <1>1, <2>1
  <2>2. CASE i # Len(runs) + 1
    <3>1. i \in ChildrenOf(job[c].parent) /\ runs'[i] = runs[i]
      BY <1>1, <1>3, <2>2 DEF ChildrenOf
    <3>2. runs[i].source # s
      BY <1>2, <3>1 DEF RunsOf
    <3> QED
      BY <1>1, <3>1, <3>2 DEF Prepared, ChildrenOf
  <2> QED
    BY <2>1, <2>2
<1> QED
  BY <1>3 DEF Prepared, MarketSnapshot

\* A writer at work stays prepared.
LEMMA ContinuesPrepared ==
    ASSUME IInv, NEW c \in Collector, Prepared(job[c]), NEW s,
           \/ StartFetch(c, s) \/ EndFetch(c, s) \/ SkipRetirement(c, s) \/ CheckRetirement(c, s)
           \/ CheckSnapshot(c, s) \/ FetchFailed(c, s) \/ Retired(c) \/ StoreFails(c)
    PROVE  Prepared(job[c])'
<1>1. job \in [Collector -> Job] /\ job[c] \in Job
  BY DEF IInv, TypeOK
<1>2. CASE StartFetch(c, s)
  BY <1>1, <1>2, QuietPrepared DEF Working, Job, StartFetch
<1>3. CASE EndFetch(c, s)
  <2>1. /\ job[c].stage \in Working /\ UNCHANGED <<runs, mapped, tagged>>
        /\ job[c].stage = "gather" /\ job[c].got[s] = "fetching"
    BY <1>3 DEF EndFetch, Working
  <2>2. PICK outcome, time : job' = [job EXCEPT ![c].got[s] = outcome, ![c].at[s] = time]
    BY <1>3 DEF EndFetch
  <2>3. /\ job'[c].parent = job[c].parent /\ job'[c].snapshots = job[c].snapshots
        /\ job'[c].stage = "gather"
    BY <1>1, <2>1, <2>2 DEF Job
  <2>4. \A z \in Source : job[c].got[z] = "ok" => job'[c].got[z] = "ok"
    BY <1>1, <2>1, <2>2 DEF Job
  <2> QED
    BY <2>1, <2>3, <2>4, QuietPrepared
<1>4. CASE SkipRetirement(c, s)
  BY <1>1, <1>4, QuietPrepared DEF Working, Job, SkipRetirement
<1>5. CASE CheckRetirement(c, s)
  BY <1>1, <1>5, QuietPrepared DEF Working, Job, CheckRetirement
<1>6. CASE CheckSnapshot(c, s)
  BY <1>1, <1>6, QuietPrepared DEF Working, Job, CheckSnapshot
<1>7. CASE FetchFailed(c, s)
  BY <1>1, <1>7, QuietPrepared DEF Working, Job, FetchFailed
<1>8. CASE Retired(c)
  BY <1>1, <1>8, QuietPrepared, ZenonT(60) DEF Working, Job, Retired
<1>9. CASE StoreFails(c)
  BY <1>1, <1>9, QuietPrepared, ZenonT(60) DEF Working, Job, StoreFails
<1> QED
  BY <1>2, <1>3, <1>4, <1>5, <1>6, <1>7, <1>8, <1>9

\* Recording a failure is no success, and asks for no tags.
LEMMA FailurePrepared ==
    ASSUME IInv, NEW c \in Collector, Prepared(job[c]), NEW s \in Source,
           (RecordFailure(c) /\ s = job[c].source) \/ Abort(c, s)
    PROVE  Prepared(job[c])'
<1>1. job \in [Collector -> Job] /\ job[c] \in Job
  BY DEF IInv, TypeOK
<1>2. /\ job[c].stage \in Working /\ job[c].got[s] \in Pending
      /\ LogFailure(s, job[c].parent)
  BY DEF IInv, Framed, RecordFailure, Abort, Working
<1>3. PICK run \in Child : /\ run.source = s /\ run.parent = job[c].parent
                           /\ run.status = "FAILED" /\ run.kind = "failure"
                           /\ runs' = Append(runs, run)
  BY <1>2, FailureAppends
<1>4. /\ job'[c].parent = job[c].parent
      /\ \A z \in Source \ {s} : job'[c].got[z] = job[c].got[z]
      /\ job'[c].snapshots = job[c].snapshots
      /\ job'[c].stage \notin {"tag", "finish"}
  <2>1. CASE RecordFailure(c) /\ s = job[c].source
    BY <1>1, <2>1 DEF RecordFailure, Job
  <2>2. CASE Abort(c, s)
    BY <1>1, <2>2 DEF Abort, Job
  <2> QED
    BY <2>1, <2>2
<1>5. job[c].got[s] \notin {"ok", "failed"} /\ ~MarketSnapshot(run)
  BY <1>2, <1>3 DEF Pending, MarketSnapshot
<1> QED
  BY <1>2, <1>3, <1>4, <1>5, ResultPrepared

\* A commit makes its source ok unless it is partial, and a market snapshot
\* asks for tags.
LEMMA CommitPrepared ==
    ASSUME IInv, NEW c \in Collector, Prepared(job[c]), Commit(c)
    PROVE  Prepared(job[c])'
<1> DEFINE s   == job[c].source
           got == job[c].got[s]
<1>1. job \in [Collector -> Job] /\ job[c] \in Job /\ s \in Source
  BY Zenon DEF IInv, TypeOK, Framed, Commit
<1>2. job[c].stage \in Working /\ got \in Pending \cup {"retire"}
  BY DEF IInv, Framed, Commit, Working
<1>3. PICK z \in Source : z = s
  BY <1>1
<1>4. PICK run \in Child :
        /\ run.source = z /\ run.parent = job[c].parent /\ runs' = Append(runs, run)
        /\ run.status = "SUCCEEDED" => got # "issues"
        /\ run.kind = "snapshot" => got # "retire"
  BY <1>1, <1>3, CommitAppends
<1>5. /\ job'[c].parent = job[c].parent
      /\ \A y \in Source \ {z} : job'[c].got[y] = job[c].got[y]
      /\ got # "issues" => job'[c].got[z] = "ok"
      /\ job[c].snapshots \/ (got # "retire" /\ z \notin Financing) => job'[c].snapshots
      /\ job'[c].stage \notin {"tag", "finish"}
  BY <1>1, <1>3, ZenonT(60) DEF Commit, Job
<1>6. job[c].got[z] \notin {"ok", "failed"}
  BY <1>2, <1>3 DEF Pending
<1>7. job[c].snapshots \/ MarketSnapshot(run) => job'[c].snapshots
  BY <1>4, <1>5 DEF MarketSnapshot
<1> QED
  BY <1>2, <1>4, <1>5, <1>6, <1>7, ResultPrepared, SMTT(60)

\* A projection reads every run there is.
LEMMA ProjectPrepared ==
    ASSUME IInv, NEW c \in Collector, Prepared(job[c]),
           Gathered(c) \/ Project(c) \/ Tag(c) \/ ProjectionFails(c)
    PROVE  Prepared(job[c])'
<1>1. job \in [Collector -> Job] /\ job[c] \in Job
  BY DEF IInv, TypeOK
<1>2. Len(runs) \in Nat /\ DOMAIN runs = 1 .. Len(runs)
  BY DEF IInv, TypeOK
<1>3. CASE Gathered(c)
  BY <1>1, <1>3 DEF Gathered, AnyOk, Prepared, Working, ChildrenOf, MarketSnapshot, Job
<1>4. CASE Project(c)
  BY <1>1, <1>2, <1>4 DEF Project, Prepared, Working, ChildrenOf, MarketSnapshot, Read, Job
<1>5. CASE Tag(c)
  BY <1>1, <1>2, <1>5 DEF Tag, Prepared, Working, ChildrenOf, MarketSnapshot, Read, Job
<1>6. CASE ProjectionFails(c)
  BY <1>1, <1>6 DEF ProjectionFails, Prepared, Working, ChildrenOf, MarketSnapshot, Job
<1> QED
  BY <1>3, <1>4, <1>5, <1>6

\* A writer that is not at work relies on no projection.
LEMMA RestingPrepared ==
    ASSUME NEW j, j.stage \notin Working
    PROVE  Prepared(j)
BY DEF Prepared, Working

\* What a writer relies on, step by step.
LEMMA NextPrepared ==
    ASSUME IInv, \A c \in Collector : Prepared(job[c]), [Next]_vars
    PROVE  \A c \in Collector : Prepared(job[c])'
<1>1. CASE UNCHANGED vars
  BY <1>1 DEF vars, Prepared, ChildrenOf, MarketSnapshot, Read
<1>2. ASSUME NEW c \in Collector, Rests(c)
      PROVE  \A d \in Collector : Prepared(job[d])'
  BY <1>2, RestsIdle DEF Prepared, Working
<1>3. ASSUME NEW c \in Collector, Opens(c)
      PROVE  \A d \in Collector : Prepared(job[d])'
  <2>1. \A d \in Collector \ {c} : job'[d].stage \notin Working
    BY <1>3, OthersIdle DEF Opens, Working
  <2>2. Len(parents) + 1 \notin DOMAIN parents
    BY DEF IInv, TypeOK
  <2>3. Prepared(job[c])'
    BY <1>3, <2>2 DEF Prepared, Opens, ChildrenOf, IInv, Parented
  <2> QED
    BY <2>1, <2>3 DEF Prepared, Working
<1>4. ASSUME NEW c \in Collector, Continues(c), Prepared(job[c])'
      PROVE  \A d \in Collector : Prepared(job[d])'
  <2>1. \A d \in Collector \ {c} : job'[d].stage \notin Working
    BY <1>4, OthersIdle DEF Continues, Working
  <2> QED
    BY <1>4, <2>1 DEF Prepared, Working
<1>5. CASE Tick \/ ReconcileUnleased \/ ProjectUnleased \/ \E p \in DOMAIN parents : Age(p)
  <2>1. UNCHANGED <<job, runs, tagged>> /\ mapped' \in {mapped, Len(runs)}
    BY <1>5 DEF Tick, ReconcileUnleased, ProjectUnleased, Age
  <2>2. /\ Len(runs) \in Nat /\ DOMAIN runs = 1 .. Len(runs)
        /\ mapped \in 0 .. Len(runs) /\ tagged \in 0 .. Len(runs)
    BY DEF IInv, TypeOK
  <2> QED
    BY <2>1, <2>2 DEF Prepared, ChildrenOf, MarketSnapshot, Read
<1>6. ASSUME NEW c \in Collector, NEW import \in BOOLEAN, Acquire(c, import) \/ Crash(c)
      PROVE  Rests(c)
  BY <1>6, StepRests
<1>7. ASSUME NEW c \in Collector, Step(c)
      PROVE  Rests(c) \/ Opens(c) \/ (Continues(c) /\ Prepared(job[c])')
  <2>1. CASE Reconcile(c) \/ Refuse(c) \/ Finish(c) \/ Release(c)
    BY <2>1, StepRests
  <2>2. CASE OpenCollection(c) \/ OpenImport(c)
    BY <2>2, StepOpens
  <2>3. ASSUME NEW s \in Source,
               \/ StartFetch(c, s) \/ EndFetch(c, s)
               \/ SkipRetirement(c, s) \/ CheckRetirement(c, s)
               \/ CheckSnapshot(c, s) \/ FetchFailed(c, s)
        PROVE  Continues(c) /\ Prepared(job[c])'
    BY <2>3, StepContinues, ContinuesPrepared
  <2>4. ASSUME NEW s \in Source, Abort(c, s)
        PROVE  Continues(c) /\ Prepared(job[c])'
    BY <2>4, StepContinues, FailurePrepared
  <2>5. CASE RecordFailure(c)
    <3>1. PICK s \in Source : s = job[c].source
      BY <2>5 DEF IInv, Framed, RecordFailure
    <3> QED
      BY <2>5, <3>1, StepContinues, FailurePrepared
  <2>6. CASE Retired(c) \/ StoreFails(c)
    BY <2>6, StepContinues, ContinuesPrepared
  <2>7. CASE Commit(c)
    BY <2>7, StepContinues, CommitPrepared
  <2>8. CASE Gathered(c) \/ Project(c) \/ Tag(c) \/ ProjectionFails(c)
    BY <2>8, StepContinues, ProjectPrepared
  <2> QED
    BY <1>7, <2>1, <2>2, <2>3, <2>4, <2>5, <2>6, <2>7, <2>8 DEF Step
<1> QED
  BY <1>1, <1>2, <1>3, <1>4, <1>5, <1>6, <1>7 DEF Next

\* A collection run that says SUCCEEDED is projected, whoever else collects,
\* reconciles or rebuilds (rebuild_collection_projections,
\* finish_collection_run).
THEOREM SuccessIsProjected == Spec => []SucceededIsProjected
<1>1. Init => SInv
  BY DEF Init, SInv, SucceededIsProjected, Unsucceeded, Prepared, Idle, Working
<1>2. IInv /\ SInv /\ [Next]_vars => SInv'
  <2> SUFFICES ASSUME IInv, SInv, [Next]_vars PROVE SInv'
    OBVIOUS
  <2>1. Unsucceeded' /\ \A c \in Collector : Prepared(job[c])'
    BY NextUnsucceeded, NextPrepared DEF SInv
  <2>2. SucceededIsProjected'
    <3>1. CASE Next
      BY <3>1, NextProjected
    <3>2. CASE UNCHANGED vars
      BY <3>2 DEF SInv, SucceededIsProjected, ChildrenOf, vars
    <3> QED
      BY <3>1, <3>2
  <2> QED
    BY <2>1, <2>2 DEF SInv
<1>3. SInv => SucceededIsProjected
  BY DEF SInv
<1> QED
  BY <1>1, <1>2, <1>3, Invariance, PTL DEF Spec
=============================================================================
