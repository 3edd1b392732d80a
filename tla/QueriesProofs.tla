---------------------------- MODULE QueriesProofs ----------------------------
(***************************************************************************)
(* What a page shows is told from the states its statements read.  A store *)
(* only gains markets, instants and completed universes, so that whatever  *)
(* an earlier statement read is bounded by what a later one reads.         *)
(***************************************************************************)
EXTENDS Queries, FiniteSetTheorems, WellFoundedInduction, TLAPS

\* What commits leave alone: the markets and their first instants, and that a
\* universe was completed.
Grows(st, su) ==
    /\ \A m \in Known(st) : m \in Known(su) /\ su.rows[m].first = st.rows[m].first
    /\ \A s \in Source : st.done[s] # None => su.done[s] # None

Answers(st) ==
    [answer |-> [symbol \in Basket |->
       Result(SourceRows(st), TargetRows(st, {r.asset : r \in SourceRows(st)}), symbol)]]

Covers(st) == [covered |-> [a \in Asset |-> FutureVenues(st, a)], complete |-> Complete(st)]

Shows(st, su) ==
    [covered |-> Covers(st).covered, complete |-> Complete(st), supported |-> Supported(su)]

Listings(E, st) ==
    {e.market : e \in {d \in E : \E t \in Earliest(st, d.key) : t < d.first}}

Log(E, st) ==
    IF \E e \in E : Earliest(st, e.key) = {}
    THEN [failed |-> TRUE, events |-> E, listed |-> {}]
    ELSE [failed |-> FALSE, events |-> E, listed |-> Listings(E, st)]

Pages == {"none", "resolve", "sources", "targets", "assets", "supported", "log", "earliest", "end"}

\* The states a read has seen, the last of them the present one.
DuringInv ==
    page # "none" => /\ Store \in during
                     /\ \A st \in during : Sensible(st) /\ Grows(st, Store)

GotInv ==
    /\ page \in {"sources", "targets"} => view \in during
    /\ page = "targets" => got = SourceRows(view)
    /\ page = "supported" => \E st \in during : got = Covers(st)
    /\ page = "earliest" => \E st \in during : got = Events(st)
    /\ page = "end" => \E st \in during :
         got = Answers(st) \/ got = Shows(st, Store) \/ got = Log(Events(st), Store)

IInv == Sensible(Store) /\ page \in Pages /\ DuringInv /\ GotInv

-----------------------------------------------------------------------------
(* Numbers and small sets *)

\* Every set of natural numbers that is not empty has a least element.
LEMMA LeastNumber ==
  ASSUME NEW T \in SUBSET Nat, T # {}
  PROVE  \E x \in T : \A y \in T : x <= y
<1> DEFINE R == OpToRel(<, Nat)
<1>1. IsWellFoundedOn(R, Nat)
  BY NatLessThanWellFounded
<1>2. \A x, y \in Nat : <<y, x>> \in R <=> y < x
  BY DEF OpToRel
<1> HIDE DEF R
<1>3. PICK x \in T : \A y \in T : ~ (<<y, x>> \in R)
  BY <1>1, WFMin
<1>4. \A y \in T : ~ (y < x)
  BY <1>2, <1>3
<1>5. x \in Nat /\ T \subseteq Nat
  OBVIOUS
<1> HIDE <1>2, <1>3
<1> QED
  BY <1>4, <1>5

\* The values of a function on a finite set are finitely many.
LEMMA ValuesFinite ==
  ASSUME NEW S, IsFiniteSet(S), NEW f
  PROVE  IsFiniteSet({f[x] : x \in S})
<1> DEFINE T == {f[x] : x \in S}
           g == [x \in S |-> f[x]]
<1>1. g \in Surjection(S, T)
  <2>1. g \in [S -> T]
    OBVIOUS
  <2>2. \A t \in T : \E s \in S : g[s] = t
    OBVIOUS
  <2> HIDE DEF g, T
  <2> QED
    BY <2>1, <2>2 DEF Surjection
<1> HIDE DEF g, T
<1>2. IsFiniteSet(T)
  BY <1>1, FS_Surjection
<1> QED
  BY <1>2 DEF T

\* A finite set has several members when it has more than one.
LEMMA SeveralMembers ==
  ASSUME NEW S, IsFiniteSet(S)
  PROVE  Cardinality(S) > 1 <=> \E x, y \in S : x # y
<1>1. Cardinality(S) \in Nat
  BY FS_CardinalityType
<1>2. Cardinality(S) = 0 <=> S = {}
  BY FS_EmptySet
<1>3. Cardinality(S) = 1 <=> \E x : S = {x}
  BY FS_Singleton
<1>4. Cardinality(S) > 1 <=> Cardinality(S) # 0 /\ Cardinality(S) # 1
  BY <1>1
<1>5. (\E x, y \in S : x # y) <=> S # {} /\ ~ \E x : S = {x}
  OBVIOUS
<1> QED
  BY <1>2, <1>3, <1>4, <1>5, Zenon

-----------------------------------------------------------------------------
(* The store *)

LEMMA GrowthComposes ==
  ASSUME NEW st, NEW su, NEW sv, Grows(st, su), Grows(su, sv)
  PROVE  Grows(st, sv)
  BY DEF Grows

LEMMA StaysAsItIs == ASSUME NEW st PROVE Grows(st, st)
  BY DEF Grows

LEMMA InitSensible == Init => Sensible(Store)
<1> SUFFICES ASSUME Init PROVE Sensible(Store)
  OBVIOUS
<1>1. PICK st \in {Empty} \cup Start : rows = st.rows /\ latest = st.latest /\ done = st.done
  BY DEF Init
<1>2. Sensible(Empty)
  BY DEF Sensible, Empty
<1>3. Sensible(st)
  BY <1>2, QueriesAssumption
<1> QED
  BY <1>1, <1>3 DEF Sensible, Store

\* A run is logged, and no source loses its runs or its last complete one.
LEMMA RunLogged ==
  ASSUME Sensible(Store), NEW s \in Source, NEW at \in Time,
         NEW status \in {"SUCCEEDED", "PARTIAL", "FAILED"}, LogRun(s, at, status)
  PROVE  /\ latest' \in [Source -> Run \cup {None}] /\ done' \in [Source -> Time \cup {None}]
         /\ latest'[s] # None
         /\ \A t \in Source : /\ latest[t] # None => latest'[t] # None
                              /\ done[t] # None => done'[t] # None
<1> DEFINE run == [at |-> at, status |-> status]
<1>1. run \in Run /\ None \notin Run /\ None \notin Time
  BY QueriesAssumption DEF Run
<1>2. latest \in [Source -> Run \cup {None}] /\ done \in [Source -> Time \cup {None}]
  BY DEF Sensible, Store
<1> HIDE DEF run
<1>3. PICK last \in {run, latest[s]} :
        /\ latest[s] = None => last = run
        /\ latest' = [latest EXCEPT ![s] = last]
        /\ done' = IF status = "SUCCEEDED" THEN [done EXCEPT ![s] = at] ELSE done
  BY DEF LogRun, run
<1>4. last \in Run
  BY <1>1, <1>2, <1>3
<1> QED
  BY <1>1, <1>2, <1>3, <1>4

LEMMA CommitGrows ==
  ASSUME Sensible(Store), NEW s \in Source, NEW at \in Time,
         NEW status \in {"SUCCEEDED", "PARTIAL"}, Commit(s, at, status)
  PROVE  Sensible(Store') /\ Grows(Store, Store')
<1>1. /\ latest' \in [Source -> Run \cup {None}] /\ done' \in [Source -> Time \cup {None}]
      /\ latest'[s] # None
      /\ \A t \in Source : /\ latest[t] # None => latest'[t] # None
                           /\ done[t] # None => done'[t] # None
  BY RunLogged DEF Commit
<1>2. /\ rows \in [Market -> Row \cup {None}]
      /\ \A m \in Market : rows[m] # None => latest[SourceOf[m]] # None
  BY DEF Sensible, Store
<1> DEFINE mine == {m \in Market : SourceOf[m] = s}
           New(m, said, on) ==
             IF m \in said
             THEN [active |-> m \in on, seen |-> at,
                   first |-> IF rows[m] = None THEN at ELSE rows[m].first,
                   asset |-> IF rows[m] = None THEN None ELSE rows[m].asset]
             ELSE IF m \in mine /\ rows[m] # None /\ status = "SUCCEEDED"
             THEN [rows[m] EXCEPT !.active = FALSE] ELSE rows[m]
<1>3. PICK said \in SUBSET mine : \E on \in SUBSET said :
        rows' = [m \in Market |-> New(m, said, on)]
  BY DEF Commit
<1>4. PICK on \in SUBSET said : rows' = [m \in Market |-> New(m, said, on)]
  BY <1>3
<1>5. ASSUME NEW m \in Market
      PROVE  /\ rows'[m] \in Row \cup {None}
             /\ rows'[m] # None => rows[m] # None \/ SourceOf[m] = s
             /\ rows[m] # None => rows'[m] # None /\ rows'[m].first = rows[m].first
  <2>1. rows'[m] = New(m, said, on) /\ None \notin Row
    BY <1>4, QueriesAssumption
  <2>2. rows[m] \in Row \cup {None}
    BY <1>2
  <2>3. CASE m \in said
    <3>1. rows'[m] = [active |-> m \in on, seen |-> at,
                      first |-> IF rows[m] = None THEN at ELSE rows[m].first,
                      asset |-> IF rows[m] = None THEN None ELSE rows[m].asset]
      BY <2>1, <2>3
    <3>2. SourceOf[m] = s
      BY <2>3
    <3>3. rows'[m] \in Row
      BY <2>2, <3>1 DEF Row
    <3> HIDE DEF New, mine
    <3> QED
      BY <2>1, <3>1, <3>2, <3>3
  <2>4. CASE m \notin said /\ m \in mine /\ rows[m] # None /\ status = "SUCCEEDED"
    <3>1. rows'[m] = [rows[m] EXCEPT !.active = FALSE] /\ rows[m] \in Row
      BY <2>1, <2>2, <2>4
    <3>2. rows'[m] \in Row /\ rows'[m].first = rows[m].first
      BY <3>1 DEF Row
    <3> QED
      BY <2>1, <2>4, <3>2
  <2>5. CASE m \notin said /\ ~ (m \in mine /\ rows[m] # None /\ status = "SUCCEEDED")
    <3>1. rows'[m] = rows[m]
      BY <2>1, <2>5
    <3> QED
      BY <2>2, <3>1
  <2> QED
    BY <2>3, <2>4, <2>5
<1>6. rows' \in [Market -> Row \cup {None}]
  <2> HIDE DEF New
  <2> QED
    BY <1>4, <1>5
<1>7. ASSUME NEW m \in Market, rows'[m] # None PROVE latest'[SourceOf[m]] # None
  BY <1>1, <1>2, <1>5, <1>7, QueriesAssumption
<1>8. Sensible(Store')
  BY <1>1, <1>6, <1>7 DEF Sensible, Store
<1> QED
  BY <1>1, <1>5, <1>8 DEF Grows, Known, Store

LEMMA FailGrows ==
  ASSUME Sensible(Store), NEW s \in Source, NEW at \in Time, Fail(s, at)
  PROVE  Sensible(Store') /\ Grows(Store, Store')
<1>1. /\ latest' \in [Source -> Run \cup {None}] /\ done' \in [Source -> Time \cup {None}]
      /\ \A t \in Source : /\ latest[t] # None => latest'[t] # None
                           /\ done[t] # None => done'[t] # None
      /\ rows' = rows
  BY RunLogged DEF Fail
<1>2. /\ rows \in [Market -> Row \cup {None}]
      /\ \A m \in Market : rows[m] # None => latest[SourceOf[m]] # None
  BY DEF Sensible, Store
<1>3. \A m \in Market : rows[m] # None => latest'[SourceOf[m]] # None
  BY <1>1, <1>2, QueriesAssumption
<1> QED
  BY <1>1, <1>2, <1>3 DEF Sensible, Grows, Known, Store

LEMMA RebuildGrows ==
  ASSUME Sensible(Store), Rebuild
  PROVE  Sensible(Store') /\ Grows(Store, Store')
<1>1. PICK to \in [Market -> Asset] :
        rows' = [m \in Market |->
                   IF rows[m] = None THEN None ELSE [rows[m] EXCEPT !.asset = to[m]]]
  BY DEF Rebuild
<1>2. /\ rows \in [Market -> Row \cup {None}]
      /\ \A m \in Market : rows[m] # None => latest[SourceOf[m]] # None
      /\ latest \in [Source -> Run \cup {None}] /\ done \in [Source -> Time \cup {None}]
      /\ latest' = latest /\ done' = done
  BY DEF Sensible, Store, Rebuild
<1>3. ASSUME NEW m \in Market
      PROVE  /\ rows'[m] \in Row \cup {None}
             /\ rows'[m] = None <=> rows[m] = None
             /\ rows[m] # None => rows'[m].first = rows[m].first
  <2>1. CASE rows[m] = None
    BY <1>1, <2>1
  <2>2. CASE rows[m] # None
    <3>1. rows'[m] = [rows[m] EXCEPT !.asset = to[m]] /\ rows[m] \in Row /\ to[m] \in Asset
      BY <1>1, <1>2, <2>2
    <3>2. rows'[m] \in Row /\ rows'[m].first = rows[m].first
      BY <3>1 DEF Row
    <3> QED
      BY <2>2, <3>2, QueriesAssumption
  <2> QED
    BY <2>1, <2>2
<1>4. rows' \in [Market -> Row \cup {None}]
  BY <1>1, <1>3
<1>5. Sensible(Store')
  BY <1>2, <1>3, <1>4 DEF Sensible, Store
<1> QED
  BY <1>2, <1>3, <1>5 DEF Grows, Known, Store

-----------------------------------------------------------------------------
(* Reading *)

LEMMA WritingInv ==
  ASSUME IInv, Writing, Sensible(Store'), Grows(Store, Store')
  PROVE  IInv'
<1>1. CASE page \in {"none", "end"}
  <2>1. page' = "none"
    BY <1>1 DEF Writing
  <2> QED
    BY <2>1 DEF IInv, DuringInv, GotInv, Pages
<1>2. CASE page \notin {"none", "end"}
  <2>1. during' = during \cup {Store'} /\ page' = page /\ view' = view /\ got' = got
    BY <1>2 DEF Writing, reader
  <2>2. Store \in during /\ \A st \in during : Sensible(st) /\ Grows(st, Store)
    BY <1>2 DEF IInv, DuringInv
  <2>3. ASSUME NEW st \in during' PROVE Sensible(st) /\ Grows(st, Store')
    BY <2>1, <2>2, GrowthComposes, StaysAsItIs
  <2>4. DuringInv'
    BY <2>1, <2>3 DEF DuringInv
  <2>5. GotInv'
    BY <1>2, <2>1 DEF IInv, GotInv
  <2> QED
    BY <2>1, <2>4, <2>5 DEF IInv
<1> QED
  BY <1>1, <1>2

LEMMA BeginInv ==
  ASSUME IInv, NEW what \in {"resolve", "assets", "log"}, Begin(what)
  PROVE  IInv'
<1>1. /\ page' = what /\ during' = {Store} /\ Store' = Store
  BY DEF Begin, store, Store
<1>2. DuringInv'
  BY <1>1, StaysAsItIs DEF IInv, DuringInv
<1>3. GotInv'
  BY <1>1 DEF GotInv
<1> QED
  BY <1>1, <1>2, <1>3 DEF IInv, Pages

\* A statement leaves the store and the states seen alone.
LEMMA StatementInv ==
  ASSUME IInv, UNCHANGED store, during' = during, page # "none", page' \in Pages, GotInv'
  PROVE  IInv'
<1>1. Store' = Store
  BY DEF store, Store
<1> QED
  BY <1>1 DEF IInv, DuringInv

LEMMA ResolverInv ==
  ASSUME IInv, ReadRevision \/ ReadSources \/ Answer
  PROVE  IInv'
<1>1. Store \in during \/ page = "none"
  BY DEF IInv, DuringInv
<1>2. CASE ReadRevision
  <2>1. page = "resolve" /\ page' = "sources" /\ view' = Store /\ during' = during
    BY <1>2 DEF ReadRevision
  <2>2. GotInv'
    BY <1>1, <2>1 DEF GotInv
  <2> QED
    BY <1>2, <2>1, <2>2, StatementInv DEF ReadRevision, Pages
<1>3. CASE ReadSources
  <2>1. page = "sources" /\ page' = "targets" /\ view' = view /\ during' = during
        /\ got' = SourceRows(view)
    BY <1>3 DEF ReadSources, Seen
  <2>2. GotInv'
    BY <2>1 DEF IInv, GotInv
  <2> QED
    BY <1>3, <2>1, <2>2, StatementInv DEF ReadSources, Pages
<1>4. CASE Answer
  <2>1. page = "targets" /\ page' = "end" /\ during' = during
    BY <1>4 DEF Answer
  <2>2. view \in during /\ got = SourceRows(view)
    BY <2>1 DEF IInv, GotInv
  <2>3. got' = Answers(view)
    BY <1>4, <2>2 DEF Answer, Answers, Seen
  <2>4. GotInv'
    BY <2>1, <2>2, <2>3 DEF GotInv
  <2> QED
    BY <1>4, <2>1, <2>4, StatementInv DEF Answer, Pages
<1> QED
  BY <1>2, <1>3, <1>4

LEMMA ListingInv ==
  ASSUME IInv, ReadAssets \/ ReadSupported
  PROVE  IInv'
<1>1. Store \in during \/ page = "none"
  BY DEF IInv, DuringInv
<1>2. CASE ReadAssets
  <2>1. page = "assets" /\ page' = "supported" /\ during' = during /\ got' = Covers(Store)
    BY <1>2 DEF ReadAssets, Covers
  <2>2. GotInv'
    BY <1>1, <2>1 DEF GotInv
  <2> QED
    BY <1>2, <2>1, <2>2, StatementInv DEF ReadAssets, Pages
<1>3. CASE ReadSupported
  <2>1. page = "supported" /\ page' = "end" /\ during' = during /\ Store' = Store
    BY <1>3 DEF ReadSupported, store, Store
  <2>2. PICK st \in during : got = Covers(st)
    BY <2>1 DEF IInv, GotInv
  <2>3. got' = Shows(st, Store)
    BY <1>3, <2>2 DEF ReadSupported, Shows, Covers
  <2>4. GotInv'
    BY <2>1, <2>2, <2>3 DEF GotInv
  <2> QED
    BY <1>3, <2>1, <2>4, StatementInv DEF ReadSupported, Pages
<1> QED
  BY <1>2, <1>3

LEMMA LogInv ==
  ASSUME IInv, ReadEvents \/ LogPage
  PROVE  IInv'
<1>1. Store \in during \/ page = "none"
  BY DEF IInv, DuringInv
<1>2. CASE ReadEvents
  <2>1. page = "log" /\ page' = "earliest" /\ during' = during /\ got' = Events(Store)
    BY <1>2 DEF ReadEvents
  <2>2. GotInv'
    BY <1>1, <2>1 DEF GotInv
  <2> QED
    BY <1>2, <2>1, <2>2, StatementInv DEF ReadEvents, Pages
<1>3. CASE LogPage
  <2>1. page = "earliest" /\ page' = "end" /\ during' = during /\ Store' = Store
    BY <1>3 DEF LogPage, store, Store
  <2>2. PICK st \in during : got = Events(st)
    BY <2>1 DEF IInv, GotInv
  <2>3. got' = Log(got, Store)
    BY <1>3, Zenon DEF LogPage, Log, Listings
  <2>4. GotInv'
    BY <2>1, <2>2, <2>3 DEF GotInv
  <2> QED
    BY <1>3, <2>1, <2>4, StatementInv DEF LogPage, Pages
<1> QED
  BY <1>2, <1>3

LEMMA NextInv == IInv /\ [Next]_vars => IInv'
<1> SUFFICES ASSUME IInv, [Next]_vars PROVE IInv'
  OBVIOUS
<1>1. Sensible(Store)
  BY DEF IInv
<1>2. ASSUME NEW s \in Source, NEW at \in Time, NEW status \in {"SUCCEEDED", "PARTIAL"},
             Commit(s, at, status)
      PROVE  IInv'
  <2>1. Writing
    BY <1>2 DEF Commit
  <2>2. Sensible(Store') /\ Grows(Store, Store')
    BY <1>1, <1>2, CommitGrows
  <2> QED
    BY <2>1, <2>2, WritingInv
<1>3. ASSUME NEW s \in Source, NEW at \in Time, Fail(s, at) PROVE IInv'
  <2>1. Writing
    BY <1>3 DEF Fail
  <2>2. Sensible(Store') /\ Grows(Store, Store')
    BY <1>1, <1>3, FailGrows
  <2> QED
    BY <2>1, <2>2, WritingInv
<1>4. CASE Rebuild
  <2>1. Writing
    BY <1>4 DEF Rebuild
  <2>2. Sensible(Store') /\ Grows(Store, Store')
    BY <1>1, <1>4, RebuildGrows
  <2> QED
    BY <2>1, <2>2, WritingInv
<1>5. ASSUME NEW what \in {"resolve", "assets", "log"}, Begin(what) PROVE IInv'
  BY <1>5, BeginInv
<1>6. CASE ReadRevision \/ ReadSources \/ Answer
  BY <1>6, ResolverInv
<1>7. CASE ReadAssets \/ ReadSupported
  BY <1>7, ListingInv
<1>8. CASE ReadEvents \/ LogPage
  BY <1>8, LogInv
<1>9. CASE UNCHANGED vars
  <2>1. Store' = Store /\ page' = page /\ view' = view /\ got' = got /\ during' = during
    BY <1>9 DEF vars, store, reader, Store
  <2> QED
    BY <2>1 DEF IInv, DuringInv, GotInv
<1> QED
  BY <1>2, <1>3, <1>4, <1>5, <1>6, <1>7, <1>8, <1>9 DEF Next

\* What a read has shown so far was read from states the store was in since it began,
\* and the store has since kept their markets and their completed universes.
THEOREM Invariance == Spec => []IInv
<1>1. Init => IInv
  BY InitSensible DEF Init, IInv, DuringInv, GotInv, Pages
<1> QED
  BY <1>1, NextInv, PTL DEF Spec

-----------------------------------------------------------------------------
(* What the pages mean *)

\* The change log of the events of a state, shown with the groups of a later one that
\* keys its markets alike, tells the listings of the later one.
LEMMA LogTells ==
  ASSUME NEW st, NEW su, Sensible(st), Sensible(su), Grows(st, su),
         \A e \in Events(st) : LogKey(su, e.market) = e.key
  PROVE  LET log == Log(Events(st), su)
         IN  ~log.failed /\ log.events = Events(st)
             /\ \A e \in Events(st) :
                  /\ su.rows[e.market] # None
                  /\ e.market \in log.listed <=> HasEarlier(su, e.market)
<1> DEFINE E == Events(st)
<1>1. ASSUME NEW e \in E
      PROVE  /\ e.market \in Known(su) /\ e.market \in Market
             /\ e.first = su.rows[e.market].first /\ LogKey(su, e.market) = e.key
             /\ \A d \in E : d.market = e.market => d = e
  <2>1. PICK m \in Known(st) :
          e = [market |-> m, key |-> LogKey(st, m), first |-> st.rows[m].first]
    BY DEF Events
  <2>2. e.market = m /\ e.first = st.rows[m].first
    BY <2>1
  <2>3. m \in Known(su) /\ su.rows[m].first = st.rows[m].first /\ m \in Market
    BY DEF Grows, Known
  <2>4. ASSUME NEW d \in E, d.market = e.market PROVE d = e
    <3>1. PICK n \in Known(st) :
            d = [market |-> n, key |-> LogKey(st, n), first |-> st.rows[n].first]
      BY DEF Events
    <3>2. n = m
      BY <2>2, <2>4, <3>1
    <3> QED
      BY <2>1, <3>1, <3>2
  <2>5. LogKey(su, e.market) = e.key
    OBVIOUS
  <2> HIDE DEF E
  <2> QED
    BY <2>2, <2>3, <2>4, <2>5
<1>2. \A n \in Known(su) : n \in Market /\ su.rows[n] # None /\ su.rows[n].first \in Nat
  BY QueriesAssumption DEF Known, Sensible, Row, Time
<1>3. ASSUME NEW e \in E
      PROVE  /\ Earliest(su, e.key) # {}
             /\ (\E t \in Earliest(su, e.key) : t < e.first) <=> HasEarlier(su, e.market)
  <2> DEFINE group == {n \in Known(su) : LogKey(su, n) = e.key}
             T == {su.rows[n].first : n \in group}
  <2>1. e.market \in group
    BY <1>1
  <2>2. T \in SUBSET Nat /\ T # {}
    BY <1>2, <2>1
  <2> HIDE DEF T
  <2>3. PICK t \in T : \A u \in T : t <= u
    BY <2>2, LeastNumber
  <2>4. PICK least \in group : su.rows[least].first = t
    BY DEF T
  <2>5. \A n \in group : t <= su.rows[n].first
    BY <2>3 DEF T
  <2>6. t \in Earliest(su, e.key)
    BY <2>4, <2>5 DEF Earliest, Grouped
  <2>7. \A u \in Earliest(su, e.key) : \E n \in group : u = su.rows[n].first
    BY DEF Earliest, Grouped
  <2>8. HasEarlier(su, e.market) <=> \E n \in group : su.rows[n].first < e.first
    BY <1>1 DEF HasEarlier
  <2>9. t \in Nat /\ e.first \in Nat /\ \A n \in group : su.rows[n].first \in Nat
    BY <1>1, <1>2, <2>2
  <2> HIDE DEF group, E
  <2>10. ASSUME NEW n \in group, su.rows[n].first < e.first
         PROVE  t < e.first
    BY <2>5, <2>9, <2>10
  <2> QED
    BY <2>6, <2>7, <2>8, <2>10
<1>4. Log(E, su) = [failed |-> FALSE, events |-> E, listed |-> Listings(E, su)]
  <2> HIDE DEF E
  <2> QED
    BY <1>3 DEF Log
<1>5. ASSUME NEW e \in E
      PROVE  e.market \in Listings(E, su) <=> HasEarlier(su, e.market)
  <2>1. e.market \in Listings(E, su) <=>
          \E d \in E : d.market = e.market /\ \E t \in Earliest(su, d.key) : t < d.first
    BY DEF Listings
  <2> HIDE DEF E
  <2>2. e.market \in Listings(E, su) <=> \E t \in Earliest(su, e.key) : t < e.first
    BY <1>1, <2>1, Zenon
  <2> QED
    BY <1>3, <2>2
<1> HIDE DEF E
<1>6. \A e \in E : su.rows[e.market] # None
  BY <1>1, <1>2
<1> QED
  BY <1>4, <1>5, <1>6 DEF E

\* A venue whose futures a state has is supported in every later one, or it was not
\* complete and another is.
LEMMA SupportedLasts ==
  ASSUME NEW st, NEW su, Sensible(st), Sensible(su), Grows(st, su), NEW a \in Asset,
         NEW v \in FutureVenues(st, a), v \notin Supported(su)
  PROVE  v \notin Complete(st) /\ Complete(su) # {}
<1>1. PICK m \in Known(st) : Venue[SourceOf[m]] = v /\ Kind[SourceOf[m]] = "FUTURE"
  BY DEF FutureVenues, Offered
<1>2. m \in Known(su)
  BY DEF Grows
<1>3. Complete(su) # {}
  BY <1>1, <1>2 DEF Supported
<1>4. Complete(st) \subseteq Complete(su)
  BY DEF Complete, Grows
<1> QED
  BY <1>3, <1>4 DEF Supported

\* A market is stale when its source's newest run does not confirm it.
LEMMA StaleOrConfirmed ==
  ASSUME NEW st, Sensible(st), NEW m \in Known(st)
  PROVE  Stale(st, m) <=> ~Confirmed(st, m)
<1> DEFINE last == st.latest[SourceOf[m]]
<1>1. m \in Market /\ st.rows[m] \in Row /\ last \in Run
  BY QueriesAssumption DEF Known, Sensible
<1>2. st.rows[m].seen \in Nat /\ last.at \in Nat
  BY <1>1, QueriesAssumption DEF Row, Run, Time
<1>3. st.rows[m].seen < last.at <=> ~(st.rows[m].seen >= last.at)
  BY <1>2
<1> QED
  BY <1>3 DEF Stale, Confirmed

\* A symbol is resolved to what one state makes of it.
LEMMA ResultMeans ==
  ASSUME NEW st, Sensible(st), NEW symbol \in Basket
  PROVE  ResolvesTo(st, symbol) =
           IF Answers(st).answer[symbol].status = "resolved"
           THEN Answers(st).answer[symbol].markets ELSE {}
<1> DEFINE S == SourceRows(st)
           A == {r.asset : r \in S}
           T == TargetRows(st, A)
           mine == {r \in S : r.symbol = symbol}
           found == {r.asset : r \in mine}
           into == {t \in T : t.asset \in found}
           asked == {m \in Offered(st) : Venue[SourceOf[m]] = AskVenue /\ Base[m] = symbol}
           usable == Offered(st) \cap Wanted
           hit == {n \in usable : \E m \in asked : st.rows[m].asset = st.rows[n].asset}
           Said(m) == [symbol |-> Base[m], asset |-> st.rows[m].asset, stale |-> Stale(st, m)]
           Meant(n) == [asset |-> st.rows[n].asset, market |-> n, stale |-> Stale(st, n)]
<1>1. /\ \A m \in asked : Said(m) \in mine
      /\ \A r \in mine : \E m \in asked : r = Said(m)
  <2>1. S = {Said(m) : m \in {n \in Offered(st) : Venue[SourceOf[n]] = AskVenue /\ Base[n] \in Basket}}
    BY DEF SourceRows
  <2>2. ASSUME NEW m \in asked PROVE Said(m) \in S /\ Said(m).symbol = symbol
    BY <2>1
  <2>3. ASSUME NEW r \in mine PROVE \E m \in asked : r = Said(m)
    <3>1. PICK m \in Offered(st) : Venue[SourceOf[m]] = AskVenue /\ r = Said(m)
      BY <2>1
    <3>2. Base[m] = symbol
      BY <3>1
    <3> QED
      BY <3>1, <3>2
  <2> HIDE DEF S, asked, Said
  <2> QED
    BY <2>2, <2>3
<1>2. \A a : a \in found <=> \E m \in asked : st.rows[m].asset = a
  <2>1. \A m : Said(m).asset = st.rows[m].asset
    OBVIOUS
  <2> HIDE DEF mine, asked, Said
  <2> QED
    BY <1>1, <2>1
<1>3. /\ \A n \in hit : Meant(n) \in into
      /\ \A t \in into : \E n \in hit : t = Meant(n)
  <2>1. T = {Meant(n) : n \in {o \in Offered(st) : o \in Wanted /\ st.rows[o].asset \in A}}
    BY DEF TargetRows
  <2>2. found \subseteq A
    OBVIOUS
  <2>3. \A n \in usable : n \in hit <=> st.rows[n].asset \in found
    BY <1>2
  <2>4. \A n : Meant(n).asset = st.rows[n].asset
    OBVIOUS
  <2> HIDE DEF found, A, asked
  <2>5. ASSUME NEW n \in hit PROVE Meant(n) \in into
    <3>1. n \in usable /\ st.rows[n].asset \in found
      BY <2>3
    <3>2. Meant(n) \in T
      BY <2>1, <2>2, <3>1
    <3> HIDE DEF T, Meant
    <3> QED
      BY <2>4, <3>1, <3>2
  <2>6. ASSUME NEW t \in into PROVE \E n \in hit : t = Meant(n)
    <3>1. PICK n \in usable : t = Meant(n)
      BY <2>1
    <3>2. st.rows[n].asset \in found
      BY <2>4, <3>1
    <3> QED
      BY <2>3, <3>1, <3>2
  <2> QED
    BY <2>5, <2>6
<1>4. \A m : /\ Said(m).stale = Stale(st, m) /\ Meant(m).stale = Stale(st, m)
             /\ Meant(m).market = m
  OBVIOUS
<1>5. IsFiniteSet(found) /\ IsFiniteSet(into)
  <2>1. IsFiniteSet(asked) /\ IsFiniteSet(hit)
    BY FS_Subset, QueriesAssumption DEF Offered, Known
  <2> DEFINE f == [m \in Market |-> st.rows[m].asset]
             g == [m \in Market |-> Meant(m)]
  <2>2. asked \subseteq Market /\ hit \subseteq Market
    BY DEF Offered, Known
  <2>3. \A m \in asked : f[m] = st.rows[m].asset
    BY <2>2
  <2>4. \A n \in hit : g[n] = Meant(n)
    BY <2>2
  <2> HIDE DEF f, g, asked, hit, found, into, Meant
  <2>5. IsFiniteSet({f[m] : m \in asked}) /\ IsFiniteSet({g[n] : n \in hit})
    BY <2>1, ValuesFinite
  <2>6. found \subseteq {f[m] : m \in asked} /\ into \subseteq {g[n] : n \in hit}
    BY <1>2, <1>3, <2>3, <2>4
  <2> QED
    BY <2>5, <2>6, FS_Subset
<1>6. \A m \in Offered(st) : Stale(st, m) <=> ~Confirmed(st, m)
  BY StaleOrConfirmed DEF Offered
<1> DEFINE result == Answers(st).answer[symbol]
           allStale == \A r \in mine : r.stale
           someStale == \E t \in into : t.stale
<1>7. /\ result.status = "resolved" <=>
           /\ found # {} /\ ~(Cardinality(found) > 1)
           /\ into # {} /\ ~(Cardinality(into) > 1)
           /\ ~(allStale \/ someStale)
      /\ result.status = "resolved" => result.markets = {t.market : t \in into}
  <2>1. result = Result(S, T, symbol)
    BY DEF Answers
  <2> DEFINE status == IF found = {} THEN "source_not_found"
                       ELSE IF Cardinality(found) > 1 THEN "ambiguous_source"
                       ELSE IF into = {} THEN "target_not_found"
                       ELSE IF Cardinality(into) > 1 THEN "ambiguous_target"
                       ELSE IF allStale \/ someStale THEN "stale"
                       ELSE "resolved"
             markets == {t.market : t \in into}
  <2>2. Result(S, T, symbol) = [status |-> status, markets |-> IF status \in {"stale", "resolved"}
                                                              THEN markets ELSE {}]
    BY Zenon DEF Result
  <2> HIDE DEF markets, found, into, allStale, someStale, S, T, result
  <2>3. status = "resolved" <=>
           /\ found # {} /\ ~(Cardinality(found) > 1)
           /\ into # {} /\ ~(Cardinality(into) > 1)
           /\ ~(allStale \/ someStale)
    OBVIOUS
  <2> HIDE DEF status
  <2> QED
    BY <2>1, <2>2, <2>3 DEF markets
<1>8. Cardinality(found) > 1 <=> \E m, n \in asked : st.rows[m].asset # st.rows[n].asset
  <2>1. Cardinality(found) > 1 <=> \E a, b \in found : a # b
    <3> HIDE DEF found
    <3> QED
      BY <1>5, SeveralMembers
  <2> HIDE DEF found, asked
  <2>2. \A m \in asked : st.rows[m].asset \in found
    BY <1>2, Zenon
  <2>3. \A a \in found : \E m \in asked : st.rows[m].asset = a
    BY <1>2, Zenon
  <2> QED
    BY <2>1, <2>2, <2>3, Zenon
<1>9. Cardinality(into) > 1 <=> \E n, o \in hit : n # o
  <2>1. Cardinality(into) > 1 <=> \E t, u \in into : t # u
    <3> HIDE DEF into
    <3> QED
      BY <1>5, SeveralMembers
  <2> HIDE DEF into, hit, Meant
  <2> QED
    BY <1>3, <1>4, <2>1
<1>10. /\ found = {} <=> asked = {}
       /\ into = {} <=> hit = {}
       /\ {t.market : t \in into} = hit
       /\ allStale <=> \A m \in asked : ~Confirmed(st, m)
       /\ someStale <=> \E n \in hit : ~Confirmed(st, n)
  <2>1. asked \subseteq Offered(st) /\ hit \subseteq Offered(st)
    OBVIOUS
  <2>2. found = {} <=> asked = {}
    <3> HIDE DEF found, asked
    <3> QED
      BY <1>2
  <2> HIDE DEF mine, found, into, asked, hit, Said, Meant
  <2>3. into = {} <=> hit = {}
    BY <1>3
  <2>4. {t.market : t \in into} = hit
    BY <1>3, <1>4
  <2>5. allStale <=> \A m \in asked : ~Confirmed(st, m)
    <3>1. allStale <=> \A m \in asked : Said(m).stale
      BY <1>1, Zenon
    <3> QED
      BY <1>4, <1>6, <2>1, <3>1, Zenon
  <2>6. someStale <=> \E n \in hit : ~Confirmed(st, n)
    <3>1. someStale <=> \E n \in hit : Meant(n).stale
      BY <1>3, Zenon
    <3> QED
      BY <1>4, <1>6, <2>1, <3>1, Zenon
  <2> QED
    BY <2>2, <2>3, <2>4, <2>5, <2>6
<1>11. ResolvesTo(st, symbol) =
         {t \in usable :
            /\ Confirmed(st, t)
            /\ \E m \in asked : Confirmed(st, m)
            /\ \A m \in asked : st.rows[m].asset = st.rows[t].asset
            /\ \A u \in usable : st.rows[u].asset = st.rows[t].asset => u = t}
  BY DEF ResolvesTo, Offered, Known
<1> HIDE DEF result, asked, usable, found, into, allStale, someStale
<1>12. CASE result.status = "resolved"
  <2>1. result.markets = hit
    BY <1>7, <1>10, <1>12
  <2>2. /\ asked # {} /\ \A m, n \in asked : st.rows[m].asset = st.rows[n].asset
        /\ hit # {} /\ \A n, o \in hit : n = o
        /\ \E m \in asked : Confirmed(st, m)
        /\ \A n \in hit : Confirmed(st, n)
    BY <1>7, <1>8, <1>9, <1>10, <1>12
  <2>3. ResolvesTo(st, symbol) = hit
    BY <1>11, <2>2
  <2> QED
    BY <1>12, <2>1, <2>3 DEF result
<1>13. CASE result.status # "resolved"
  <2>1. ASSUME NEW t \in ResolvesTo(st, symbol) PROVE FALSE
    <3>1. /\ t \in usable /\ Confirmed(st, t)
          /\ \E m \in asked : Confirmed(st, m)
          /\ \A m \in asked : st.rows[m].asset = st.rows[t].asset
          /\ \A u \in usable : st.rows[u].asset = st.rows[t].asset => u = t
      BY <1>11
    <3>2. t \in hit /\ \A n \in hit : n = t
      BY <3>1
    <3> HIDE DEF hit
    <3>3. ~(\E m, n \in asked : st.rows[m].asset # st.rows[n].asset)
      BY <3>1
    <3>4. ~(\E n, o \in hit : n # o) /\ hit # {} /\ asked # {}
      BY <3>1, <3>2
    <3> QED
      BY <1>7, <1>8, <1>9, <1>10, <1>13, <3>1, <3>2, <3>3, <3>4, Zenon
  <2> QED
    BY <1>13, <2>1 DEF result
<1> QED
  BY <1>12, <1>13

-----------------------------------------------------------------------------
(* The properties *)

\* A whole basket is resolved in one state that the store was in while the request
\* ran, though collections and rebuilds commit between its statements.
THEOREM BasketIsRead == Spec => []BasketIsOfOneState
<1>1. ASSUME IInv PROVE BasketIsOfOneState
  <2> SUFFICES ASSUME page = "end", "answer" \in DOMAIN got
               PROVE  \E st \in during : \A symbol \in Basket :
                        ResolvesTo(st, symbol) = IF got.answer[symbol].status = "resolved"
                                                 THEN got.answer[symbol].markets ELSE {}
    BY DEF BasketIsOfOneState
  <2>1. PICK st \in during :
          got = Answers(st) \/ got = Shows(st, Store) \/ got = Log(Events(st), Store)
    BY <1>1 DEF IInv, GotInv
  <2>2. got # Shows(st, Store)
    BY DEF Shows
  <2>3. got # Log(Events(st), Store)
    BY DEF Log
  <2>4. got = Answers(st)
    BY <2>1, <2>2, <2>3
  <2>5. Sensible(st)
    BY <1>1 DEF IInv, DuringInv
  <2> QED
    BY <2>4, <2>5, ResultMeans
<1> QED
  BY <1>1, Invariance, PTL

\* A venue that covers an asset is one the page says is supported, unless its futures
\* universe was never complete and another venue's is: the asset listing counts its
\* coverage in two statements.
THEOREM CoverageIsRead == Spec => []CoverageIsPossible
<1>1. ASSUME IInv PROVE CoverageIsPossible
  <2> SUFFICES ASSUME page = "end", "supported" \in DOMAIN got, NEW a \in Asset,
                      NEW v \in got.covered[a] \ got.supported
               PROVE  v \notin got.complete /\ Complete(Store) # {}
    BY DEF CoverageIsPossible
  <2>1. PICK st \in during :
          got = Answers(st) \/ got = Shows(st, Store) \/ got = Log(Events(st), Store)
    BY <1>1 DEF IInv, GotInv
  <2>2. got # Answers(st)
    BY DEF Answers
  <2>3. got # Log(Events(st), Store)
    BY DEF Log
  <2>4. got = Shows(st, Store)
    BY <2>1, <2>2, <2>3
  <2>5. Sensible(st) /\ Grows(st, Store) /\ Sensible(Store)
    BY <1>1 DEF IInv, DuringInv
  <2>6. /\ got.covered[a] = FutureVenues(st, a) /\ got.complete = Complete(st)
        /\ got.supported = Supported(Store)
    BY <2>4 DEF Shows, Covers
  <2> QED
    BY <2>5, <2>6, SupportedLasts
<1> QED
  BY <1>1, Invariance, PTL

\* The change log fails only when a rebuild gave a discovered market another key
\* between two of its statements; otherwise its listings are those of one state.
THEOREM LogIsRead == Spec => []LogFailsOnlyByRemap
<1>1. ASSUME IInv PROVE LogFailsOnlyByRemap
  <2> SUFFICES ASSUME page = "end", "failed" \in DOMAIN got,
                      \A e \in got.events : \A st \in during :
                        st.rows[e.market] # None => LogKey(st, e.market) = e.key
               PROVE  /\ ~got.failed
                      /\ \E st \in during : \A e \in got.events :
                           /\ st.rows[e.market] # None
                           /\ e.market \in got.listed <=> HasEarlier(st, e.market)
    BY DEF LogFailsOnlyByRemap
  <2>1. PICK st \in during :
          got = Answers(st) \/ got = Shows(st, Store) \/ got = Log(Events(st), Store)
    BY <1>1 DEF IInv, GotInv
  <2>2. got # Answers(st)
    BY DEF Answers
  <2>3. got # Shows(st, Store)
    BY DEF Shows
  <2>4. got = Log(Events(st), Store)
    BY <2>1, <2>2, <2>3
  <2>5. Sensible(st) /\ Grows(st, Store) /\ Sensible(Store) /\ Store \in during
    BY <1>1 DEF IInv, DuringInv
  <2>6. got.events = Events(st)
    BY <2>4 DEF Log
  <2>7. ASSUME NEW e \in Events(st) PROVE LogKey(Store, e.market) = e.key
    <3>1. PICK m \in Known(st) : e.market = m
      BY DEF Events
    <3>2. Store.rows[m] # None
      BY <2>5 DEF Grows, Known
    <3> QED
      BY <2>5, <2>6, <3>1, <3>2
  <2>8. /\ ~got.failed
        /\ \A e \in Events(st) : /\ Store.rows[e.market] # None
                                 /\ e.market \in got.listed <=> HasEarlier(Store, e.market)
    BY <2>4, <2>5, <2>7, LogTells
  <2> QED
    BY <2>5, <2>6, <2>8
<1> QED
  BY <1>1, Invariance, PTL
=============================================================================
