------------------------- MODULE ManualActionsProofs -------------------------
(***************************************************************************)
(* What holds of the manual asset actions and of the database's            *)
(* preparation, whatever processes open it and operators do meanwhile.     *)
(* IInv says, for each place of a process, what it has established of the  *)
(* schema and of the actions it has passed, and what an operator may have  *)
(* changed since it looked.                                                *)
(***************************************************************************)
EXTENDS ManualActions, FiniteSetTheorems, TLAPS

Pc == {"off", "migrating", "sync", "write", "prune", "backfill", "up", "serving"}
Syncing == {"sync", "write", "prune"}
Started == {"up", "serving"}
Migrated == Pc \ {"off", "migrating"}

\* A row is an operator's just when the last thing that was done to the action is
\* that an operator wrote it; a deleted action has none.  What a process has seen
\* applied is applied.
TypeOK ==
    /\ build \in Build /\ tombs \subseteq Action
    /\ rows \in [Action -> {None, LocalRow} \cup {DeliveryRow(b) : b \in Build}]
    /\ local \in [Action -> {"none", "written", "deleted"}]
    /\ \A i \in Action : /\ local[i] = "written" <=> rows[i] = LocalRow
                         /\ local[i] = "deleted" => rows[i] = None
    /\ pc \in [Proc -> Pc] /\ todo \in [Proc -> Seq(Action)]
    /\ dead \in [Proc -> SUBSET Action] /\ touched \in [Proc -> SUBSET Action]
    /\ seen \in [Proc -> SUBSET ledger]
    /\ mapped \in [Action -> {None, LocalRow} \cup {DeliveryRow(b) : b \in Build}]
    /\ marker \in BOOLEAN /\ backfills = IF marker THEN 1 ELSE 0

\* A process goes on with all the migrations of its build, and starts with the backfill.
Prepared ==
    \A p \in Proc :
      /\ pc[p] \in Migrated => 1 .. Version[build] \subseteq ledger
      /\ pc[p] \in Started => marker

\* What is not an operator's is as the build delivers it.
Settled(i) ==
    local[i] = "none" /\ i \notin tombs =>
        rows[i] = IF i \in Delivered(build) THEN DeliveryRow(build) ELSE None

\* The actions a process has passed are settled, and stay so whatever the others do:
\* they write what the same build delivers and delete only what it does not.
Passed(p) ==
    /\ pc[p] \in {"sync", "write"} =>
          /\ ToSet(todo[p]) \subseteq Delivered(build)
          /\ \A i \in Delivered(build) \ ToSet(todo[p]) : Settled(i)
    /\ pc[p] = "write" => todo[p] # <<>>
    /\ pc[p] = "prune" =>
          /\ ToSet(todo[p]) \cap Delivered(build) = {}
          /\ \A i \in Action \ ToSet(todo[p]) : Settled(i)
    /\ pc[p] \in {"backfill", "up", "serving"} => \A i \in Action : Settled(i)

\* What a synchronisation looked at is as it looked, but for what operators have
\* changed since.
Looked(p) ==
    /\ pc[p] \in Syncing => dead[p] \subseteq tombs /\ tombs \subseteq dead[p] \cup touched[p]
    /\ pc[p] = "write" =>
          LET i == Head(todo[p])
          IN  i \in touched[p] \/ (i \notin dead[p] /\ local[i] # "written")
    /\ pc[p] = "prune" => \A i \in ToSet(todo[p]) : i \in touched[p] \/ local[i] = "none"

IInv ==
    /\ TypeOK /\ Prepared /\ MappingsFollow
    /\ \A p \in Proc : Passed(p) /\ Looked(p)

-----------------------------------------------------------------------------
(* Rows and lists *)

\* Three kinds of rows, told apart by their origin.
LEMMA RowKinds ==
    /\ LocalRow # None /\ LocalRow.origin = "LOCAL"
    /\ \A b \in Build : /\ DeliveryRow(b) # None /\ DeliveryRow(b) # LocalRow
                        /\ DeliveryRow(b).origin = "DELIVERY"
BY ManualActionsAssumption DEF LocalRow, DeliveryRow

\* The actions of a list are its first one and those of the rest.
LEMMA HeadTail ==
  ASSUME NEW s \in Seq(Action), s # <<>>
  PROVE  /\ Head(s) \in Action /\ Tail(s) \in Seq(Action)
         /\ Head(s) \in ToSet(s) /\ ToSet(s) \subseteq Action
         /\ ToSet(s) = ToSet(Tail(s)) \cup {Head(s)}
<1>1. Len(s) \in Nat \ {0} /\ Head(s) = s[1] /\ Tail(s) \in Seq(Action)
  OBVIOUS
<1>2. Len(Tail(s)) = Len(s) - 1 /\ \A k \in 1 .. Len(s) - 1 : Tail(s)[k] = s[k + 1]
  OBVIOUS
<1>3. DOMAIN s = 1 .. Len(s) /\ DOMAIN Tail(s) = 1 .. Len(s) - 1
  BY <1>1, <1>2
<1>4. \A k \in 1 .. Len(s) : s[k] \in Action
  BY <1>3
<1>5. ASSUME NEW x \in ToSet(s) PROVE x \in ToSet(Tail(s)) \cup {Head(s)}
  <2>1. PICK k \in 1 .. Len(s) : x = s[k]
    BY <1>3 DEF ToSet
  <2>2. CASE k = 1
    BY <1>1, <2>1, <2>2
  <2>3. CASE k # 1
    <3>1. k - 1 \in 1 .. Len(s) - 1 /\ Tail(s)[k - 1] = s[k]
      BY <1>1, <1>2, <2>1, <2>3
    <3> QED
      BY <1>3, <2>1, <3>1 DEF ToSet
  <2> QED
    BY <2>2, <2>3
<1>6. ASSUME NEW x \in ToSet(Tail(s)) PROVE x \in ToSet(s)
  <2>1. PICK k \in 1 .. Len(s) - 1 : x = Tail(s)[k]
    BY <1>3 DEF ToSet
  <2>2. k + 1 \in 1 .. Len(s) /\ x = s[k + 1]
    BY <1>1, <1>2, <2>1
  <2> QED
    BY <1>3, <2>2 DEF ToSet
<1>7. Head(s) \in ToSet(s)
  BY <1>1, <1>3 DEF ToSet
<1>8. ToSet(s) \subseteq Action
  BY <1>3, <1>4 DEF ToSet
<1> QED
  BY <1>1, <1>5, <1>6, <1>7, <1>8

\* The list of a finite set has its elements.
LEMMA ListOfSet ==
  ASSUME NEW S \in SUBSET Action
  PROVE  SetToSeq(S) \in Seq(Action) /\ ToSet(SetToSeq(S)) = S
<1>1. IsFiniteSet(S) /\ Cardinality(S) \in Nat
  BY ManualActionsAssumption, FS_Subset, FS_CardinalityType
<1> DEFINE n == Cardinality(S)
           f == SetToSeq(S)
<1>2. \E g \in [1 .. n -> S] : IsInjective(g)
  <2>1. ExistsBijection(1 .. n, S)
    BY <1>1, FS_CardinalityType
  <2> QED
    BY <2>1, Zenon DEF ExistsBijection, Bijection, Injection
<1>3. f \in [1 .. n -> S] /\ IsInjective(f)
  BY <1>2, Zenon DEF SetToSeq
<1>4. f \in Injection(1 .. n, S)
  BY <1>3, Zenon DEF Injection
<1>5. Cardinality(1 .. n) = n
  BY <1>1, FS_Interval
<1> HIDE DEF f
<1>6. f \in Surjection(1 .. n, S)
  BY <1>1, <1>4, <1>5, FS_Injection
<1>7. ToSet(f) = S
  BY <1>3, <1>6 DEF ToSet, Surjection
<1>8. f \in Seq(Action)
  <2> HIDE DEF n
  <2>1. f \in [1 .. n -> Action] /\ n \in Nat
    BY <1>1, <1>3 DEF n
  <2> QED
    BY <2>1
<1> QED
  BY <1>7, <1>8 DEF f

\* What a build delivers are actions.
LEMMA DeliveredActions ==
  ASSUME NEW b \in Build
  PROVE  Delivery[b] \in Seq(Action) /\ Delivered(b) \in SUBSET Action
<1>1. Delivery[b] \in Seq(Action)
  BY ManualActionsAssumption
<1> QED
  BY <1>1 DEF Delivered, ToSet

-----------------------------------------------------------------------------
(* What the steps of others leave alone *)

\* A process that stands where it stood keeps what it has established, while no row,
\* tombstone or build changes.
LEMMA Standing ==
  ASSUME NEW p, Passed(p), Looked(p), UNCHANGED <<rows, local, tombs, build>>,
         pc'[p] = pc[p], todo'[p] = todo[p], dead'[p] = dead[p], touched'[p] = touched[p]
  PROVE  Passed(p)' /\ Looked(p)'
<1>1. \A i : Settled(i)' <=> Settled(i)
  BY DEF Settled, Delivered
<1>2. Passed(p)'
  BY <1>1 DEF Passed, Delivered
<1>3. Looked(p)'
  BY DEF Looked
<1> QED
  BY <1>2, <1>3

\* A process that is off, or migrates, has established nothing yet.
LEMMA Outside ==
  ASSUME NEW p, pc'[p] \in {"off", "migrating"}
  PROVE  Passed(p)' /\ Looked(p)'
BY DEF Passed, Looked, Syncing

\* A step of one process that touches no row: the others stand.
LEMMA AloneInv ==
  ASSUME IInv, NEW p \in Proc, UNCHANGED <<rows, local, tombs, build>>,
         NEW k \in Pc, pc' = [pc EXCEPT ![p] = k],
         \A q \in Proc \ {p} : /\ todo'[q] = todo[q] /\ dead'[q] = dead[q]
                               /\ touched'[q] = touched[q],
         Passed(p)', Looked(p)'
  PROVE  \A q \in Proc : Passed(q)' /\ Looked(q)'
<1> SUFFICES ASSUME NEW q \in Proc, q # p PROVE Passed(q)' /\ Looked(q)'
  OBVIOUS
<1>1. pc'[q] = pc[q]
  BY DEF IInv, TypeOK
<1>2. Passed(q) /\ Looked(q)
  BY DEF IInv
<1>3. todo'[q] = todo[q] /\ dead'[q] = dead[q] /\ touched'[q] = touched[q]
  OBVIOUS
<1> QED
  BY <1>1, <1>2, <1>3, Standing

\* What was settled stays so, unless its row leaves what the build delivers while the
\* action counts as untouched.
LEMMA StaysSettled ==
  ASSUME NEW i, Settled(i), build' = build, tombs \subseteq tombs',
         \/ rows'[i] = rows[i] /\ local'[i] = local[i]
         \/ local'[i] # "none"
         \/ rows'[i] = IF i \in Delivered(build) THEN DeliveryRow(build) ELSE None
  PROVE  Settled(i)'
BY DEF Settled, Delivered

\* A process that ends has no frame, and the store and the actions stay.
LEMMA ExitInv ==
  ASSUME IInv, NEW p \in Proc, Exit(p), UNCHANGED <<store, acts, build>>
  PROVE  IInv'
<1>1. /\ pc' = [pc EXCEPT ![p] = "off"] /\ seen' = [seen EXCEPT ![p] = {}]
      /\ todo' = [todo EXCEPT ![p] = <<>>] /\ dead' = [dead EXCEPT ![p] = {}]
      /\ touched' = [touched EXCEPT ![p] = {}] /\ ledger' = ledger
  BY DEF Exit, Goto, store
<1>2. pc \in [Proc -> Pc] /\ todo \in [Proc -> Seq(Action)] /\ seen \in [Proc -> SUBSET ledger]
      /\ dead \in [Proc -> SUBSET Action] /\ touched \in [Proc -> SUBSET Action]
  BY DEF IInv, TypeOK
<1>3. /\ pc' \in [Proc -> Pc] /\ todo' \in [Proc -> Seq(Action)]
      /\ seen' \in [Proc -> SUBSET ledger']
      /\ dead' \in [Proc -> SUBSET Action] /\ touched' \in [Proc -> SUBSET Action]
  BY <1>1, <1>2 DEF Pc
<1>4. TypeOK'
  BY <1>3 DEF IInv, TypeOK, store, acts
<1>5. Prepared'
  BY <1>1, <1>2 DEF IInv, Prepared, store, Migrated, Started
<1>6. MappingsFollow'
  BY <1>1, <1>2 DEF IInv, MappingsFollow, acts
<1>7. Passed(p)' /\ Looked(p)'
  BY <1>1, <1>2, Outside
<1>8. \A q \in Proc : Passed(q)' /\ Looked(q)'
  BY <1>1, <1>2, <1>7, AloneInv DEF acts, Pc
<1> QED
  BY <1>4, <1>5, <1>6, <1>8 DEF IInv

LEMMA OpenInv == ASSUME IInv, NEW p \in Proc, Open(p) PROVE IInv'
<1>1. /\ pc' = [pc EXCEPT ![p] = "migrating"] /\ seen' = [seen EXCEPT ![p] = ledger]
      /\ UNCHANGED <<store, acts, todo, dead, touched, build>> /\ ledger' = ledger
  BY DEF Open, Applied, Goto, store
<1>2. pc \in [Proc -> Pc] /\ seen \in [Proc -> SUBSET ledger]
  BY DEF IInv, TypeOK
<1>3. pc' \in [Proc -> Pc] /\ seen' \in [Proc -> SUBSET ledger']
  BY <1>1, <1>2 DEF Pc
<1>4. TypeOK'
  BY <1>1, <1>3 DEF IInv, TypeOK, store, acts
<1>5. Prepared'
  BY <1>1, <1>2 DEF IInv, Prepared, store, Migrated, Started
<1>6. MappingsFollow'
  BY <1>1, <1>2 DEF IInv, MappingsFollow, acts
<1>7. Passed(p)' /\ Looked(p)'
  BY <1>1, <1>2, Outside
<1>8. \A q \in Proc : Passed(q)' /\ Looked(q)'
  BY <1>1, <1>7, AloneInv DEF acts, Pc
<1> QED
  BY <1>4, <1>5, <1>6, <1>8 DEF IInv

LEMMA RunScriptInv == ASSUME IInv, NEW p \in Proc, RunScript(p) PROVE IInv'
<1> DEFINE v == Script(p)
<1>1. /\ ledger' = ledger \cup {v} /\ seen' = [seen EXCEPT ![p] = @ \cup {v}]
      /\ UNCHANGED <<marker, backfills, acts, pc, todo, dead, touched, build>>
  BY DEF RunScript, CommitScript
<1> HIDE DEF v
<1>2. seen \in [Proc -> SUBSET ledger] /\ pc \in [Proc -> Pc]
  BY DEF IInv, TypeOK
<1>3. seen' \in [Proc -> SUBSET ledger']
  BY <1>1, <1>2
<1>4. TypeOK'
  BY <1>1, <1>3 DEF IInv, TypeOK, acts
<1>5. Prepared'
  BY <1>1 DEF IInv, Prepared
<1>6. MappingsFollow'
  BY <1>1 DEF IInv, MappingsFollow, acts
<1>7. \A q \in Proc : Passed(q)' /\ Looked(q)'
  BY <1>1, Standing DEF IInv, acts
<1> QED
  BY <1>4, <1>5, <1>6, <1>7 DEF IInv

LEMMA ReadTombstonesInv == ASSUME IInv, NEW p \in Proc, ReadTombstones(p) PROVE IInv'
<1>1. /\ pc' = [pc EXCEPT ![p] = "sync"] /\ dead' = [dead EXCEPT ![p] = tombs]
      /\ todo' = [todo EXCEPT ![p] = Delivery[build]] /\ touched' = [touched EXCEPT ![p] = {}]
      /\ UNCHANGED <<store, acts, seen, build>> /\ Missing(p) = {}
  BY DEF ReadTombstones, Goto
<1>2. /\ pc \in [Proc -> Pc] /\ todo \in [Proc -> Seq(Action)] /\ build \in Build
      /\ dead \in [Proc -> SUBSET Action] /\ touched \in [Proc -> SUBSET Action]
      /\ seen \in [Proc -> SUBSET ledger] /\ tombs \in SUBSET Action
  BY DEF IInv, TypeOK
<1>3. /\ pc' \in [Proc -> Pc] /\ todo' \in [Proc -> Seq(Action)]
      /\ dead' \in [Proc -> SUBSET Action] /\ touched' \in [Proc -> SUBSET Action]
  BY <1>1, <1>2, DeliveredActions DEF Pc
<1>4. TypeOK'
  BY <1>1, <1>3 DEF IInv, TypeOK, store, acts
<1>5. Prepared'
  <2>1. 1 .. Version[build] \subseteq ledger
    BY <1>1, <1>2 DEF Missing
  <2> QED
    BY <1>1, <1>2, <2>1 DEF IInv, Prepared, store, Migrated, Started
<1>6. MappingsFollow'
  BY <1>1, <1>2 DEF IInv, MappingsFollow, acts
<1>7. Passed(p)' /\ Looked(p)'
  <2>1. pc'[p] = "sync" /\ todo'[p] = Delivery[build] /\ dead'[p] = tombs /\ tombs' = tombs
        /\ build' = build
    BY <1>1, <1>2 DEF acts
  <2>2. ToSet(todo'[p]) = Delivered(build)'
    BY <2>1 DEF Delivered
  <2> QED
    BY <2>1, <2>2 DEF Passed, Looked
<1>8. \A q \in Proc : Passed(q)' /\ Looked(q)'
  BY <1>1, <1>2, <1>7, AloneInv DEF acts, Pc
<1> QED
  BY <1>4, <1>5, <1>6, <1>8 DEF IInv

\* What is left alone is settled: a tombstone or an operator's row excuses it.
LEMMA PeekInv == ASSUME IInv, NEW p \in Proc, Peek(p) PROVE IInv'
<1>0. PICK i : i = Head(todo[p])
  OBVIOUS
<1>1. /\ pc[p] = "sync" /\ todo[p] # <<>>
      /\ UNCHANGED <<store, acts, seen, dead, touched, build>>
  BY DEF Peek
<1>2. pc \in [Proc -> Pc] /\ todo \in [Proc -> Seq(Action)] /\ todo[p] \in Seq(Action)
  BY DEF IInv, TypeOK
<1>3. Passed(p) /\ Looked(p)
  BY DEF IInv
<1>4. /\ i \in Action /\ Tail(todo[p]) \in Seq(Action) /\ i \in ToSet(todo[p])
      /\ ToSet(todo[p]) = ToSet(Tail(todo[p])) \cup {i}
  BY <1>0, <1>1, <1>2, HeadTail
<1>5. CASE LeftAlone(p, i)
  <2>1. todo' = [todo EXCEPT ![p] = Tail(@)] /\ pc' = pc
    BY <1>0, <1>5 DEF Peek
  <2>2. todo' \in [Proc -> Seq(Action)] /\ todo'[p] = Tail(todo[p])
    BY <1>2, <1>4, <2>1
  <2>3. TypeOK'
    BY <1>1, <2>1, <2>2 DEF IInv, TypeOK, store, acts
  <2>4. Prepared' /\ MappingsFollow'
    BY <1>1, <2>1 DEF IInv, Prepared, MappingsFollow, store, acts
  <2>5. Settled(i)'
    <3>1. dead[p] \subseteq tombs
      BY <1>1 DEF IInv, Looked, Syncing
    <3>2. i \in tombs \/ local[i] # "none"
      BY <1>4, <1>5, <3>1, RowKinds DEF LeftAlone, IInv, TypeOK
    <3> QED
      BY <1>1, <3>2 DEF Settled, acts
  <2>6. Passed(p)'
    <3>1. \A j : Settled(j) => Settled(j)'
      BY <1>1, StaysSettled DEF acts
    <3>2. pc'[p] = "sync" /\ build' = build
      BY <1>1, <2>1
    <3>3. ToSet(todo[p]) \subseteq Delivered(build)
          /\ \A j \in Delivered(build) \ ToSet(todo[p]) : Settled(j)
      BY <1>1, <1>3 DEF Passed
    <3>4. ToSet(todo'[p]) \subseteq Delivered(build)
          /\ \A j \in Delivered(build) \ ToSet(todo'[p]) : Settled(j)'
      BY <1>4, <2>2, <2>5, <3>1, <3>3
    <3> QED
      BY <3>2, <3>4 DEF Passed, Delivered
  <2>7. Looked(p)'
    BY <1>1, <1>3, <2>1 DEF Looked, acts, Syncing
  <2>8. pc' = [pc EXCEPT ![p] = "sync"]
    BY <1>1, <1>2, <2>1
  <2>9. \A q \in Proc : Passed(q)' /\ Looked(q)'
    BY <1>1, <1>2, <2>1, <2>6, <2>7, <2>8, AloneInv DEF acts, Pc
  <2> QED
    BY <2>3, <2>4, <2>9 DEF IInv
<1>6. CASE ~ LeftAlone(p, i)
  <2>1. pc' = [pc EXCEPT ![p] = "write"] /\ todo' = todo
    BY <1>0, <1>6 DEF Peek, Goto
  <2>2. pc' \in [Proc -> Pc] /\ pc'[p] = "write"
    BY <1>2, <2>1 DEF Pc
  <2>3. TypeOK'
    BY <1>1, <2>1, <2>2 DEF IInv, TypeOK, store, acts
  <2>4. Prepared'
    BY <1>1, <1>2, <2>1 DEF IInv, Prepared, store, acts, Migrated, Started, Pc
  <2>5. MappingsFollow'
    BY <1>1, <1>2, <2>1 DEF IInv, MappingsFollow, acts
  <2>6. Passed(p)'
    <3>1. \A j : Settled(j) => Settled(j)'
      BY <1>1, StaysSettled DEF acts
    <3> QED
      BY <1>1, <1>3, <2>1, <2>2, <3>1 DEF Passed, Delivered
  <2>7. Looked(p)'
    <3>1. i \notin dead[p] /\ local[i] # "written"
      BY <1>4, <1>6, RowKinds DEF LeftAlone, IInv, TypeOK
    <3>2. UNCHANGED <<tombs, dead, touched, local>> /\ pc'[p] = "write" /\ todo' = todo
      BY <1>1, <2>1, <2>2 DEF acts
    <3>3. dead[p] \subseteq tombs /\ tombs \subseteq dead[p] \cup touched[p]
      BY <1>1, <1>3 DEF Looked, Syncing
    <3> QED
      BY <1>0, <3>1, <3>2, <3>3 DEF Looked
  <2>8. \A q \in Proc : Passed(q)' /\ Looked(q)'
    BY <1>1, <1>2, <2>1, <2>6, <2>7, AloneInv DEF acts, Pc
  <2> QED
    BY <2>3, <2>4, <2>5, <2>8 DEF IInv
<1> QED
  BY <1>5, <1>6

\* What is withdrawn is listed once: the rest of what the build does not deliver is
\* settled already.
LEMMA ListDeliveredInv == ASSUME IInv, NEW p \in Proc, ListDelivered(p) PROVE IInv'
<1>1. /\ pc[p] = "sync" /\ todo[p] = <<>> /\ todo' = [todo EXCEPT ![p] = SetToSeq(Withdrawn)]
      /\ pc' = [pc EXCEPT ![p] = "prune"] /\ UNCHANGED <<store, acts, seen, dead, touched, build>>
  BY DEF ListDelivered, Goto
<1>2. pc \in [Proc -> Pc] /\ todo \in [Proc -> Seq(Action)]
  BY DEF IInv, TypeOK
<1>3. SetToSeq(Withdrawn) \in Seq(Action) /\ ToSet(SetToSeq(Withdrawn)) = Withdrawn
  <2>1. Withdrawn \in SUBSET Action
    BY DEF Withdrawn
  <2> QED
    BY <2>1, ListOfSet
<1>4. /\ pc' \in [Proc -> Pc] /\ pc'[p] = "prune" /\ todo' \in [Proc -> Seq(Action)]
      /\ ToSet(todo'[p]) = Withdrawn
  BY <1>1, <1>2, <1>3 DEF Pc
<1>5. TypeOK'
  BY <1>1, <1>4 DEF IInv, TypeOK, store, acts
<1>6. Prepared'
  BY <1>1, <1>2 DEF IInv, Prepared, store, acts, Migrated, Started, Pc
<1>7. MappingsFollow'
  BY <1>1, <1>2 DEF IInv, MappingsFollow, acts
<1>8. Passed(p)'
  <2>1. \A j : Settled(j) => Settled(j)'
    BY <1>1, StaysSettled DEF acts
  <2>2. ToSet(<<>>) = {}
    BY DEF ToSet
  <2>3. \A j \in Delivered(build) : Settled(j)
    BY <1>1, <2>2 DEF IInv, Passed
  <2>4. ASSUME NEW j \in Action \ Withdrawn, j \notin Delivered(build) PROVE Settled(j)
    <3>1. rows[j] = None \/ rows[j].origin # "DELIVERY"
      BY <2>4 DEF Withdrawn
    <3>2. rows[j] = None \/ rows[j] = LocalRow
      BY <3>1, RowKinds DEF IInv, TypeOK
    <3> QED
      BY <2>4, <3>2 DEF Settled, IInv, TypeOK
  <2>5. Withdrawn \cap Delivered(build) = {}
    BY DEF Withdrawn
  <2>6. \A j \in Action \ Withdrawn : Settled(j)'
    BY <2>1, <2>3, <2>4
  <2>7. build' = build
    BY <1>1
  <2> QED
    BY <1>4, <2>5, <2>6, <2>7 DEF Passed, Delivered
<1>9. Looked(p)'
  <2>1. ASSUME NEW j \in Withdrawn PROVE local[j] = "none"
    <3>1. j \in Action /\ rows[j] # None /\ rows[j].origin = "DELIVERY"
      BY DEF Withdrawn
    <3>2. rows[j] # LocalRow
      BY <3>1, RowKinds
    <3> QED
      BY <3>1, <3>2 DEF IInv, TypeOK
  <2>2. dead[p] \subseteq tombs /\ tombs \subseteq dead[p] \cup touched[p]
    BY <1>1 DEF IInv, Looked, Syncing
  <2>3. UNCHANGED <<tombs, dead, touched, local>>
    BY <1>1 DEF acts
  <2> QED
    BY <1>4, <2>1, <2>2, <2>3 DEF Looked
<1>10. \A q \in Proc : Passed(q)' /\ Looked(q)'
  BY <1>1, <1>2, <1>8, <1>9, AloneInv DEF acts, Pc
<1> QED
  BY <1>5, <1>6, <1>7, <1>10 DEF IInv

\* After the last action of its list a process has settled them all.
LEMMA CheckBackfillInv == ASSUME IInv, NEW p \in Proc, CheckBackfill(p) PROVE IInv'
<1> DEFINE k == IF marker THEN "up" ELSE "backfill"
<1>1. /\ pc[p] = "prune" /\ todo[p] = <<>> /\ pc' = [pc EXCEPT ![p] = k]
      /\ UNCHANGED <<store, acts, seen, todo, dead, touched, build>>
  BY DEF CheckBackfill, Goto
<1>2. pc \in [Proc -> Pc]
  BY DEF IInv, TypeOK
<1>3. k \in Pc /\ k \in {"up", "backfill"} /\ (k = "up" => marker)
  BY DEF Pc
<1> HIDE DEF k
<1>4. pc' \in [Proc -> Pc] /\ pc'[p] = k
  BY <1>1, <1>2, <1>3
<1>5. TypeOK'
  BY <1>1, <1>4 DEF IInv, TypeOK, store, acts
<1>6. Prepared'
  BY <1>1, <1>2, <1>3 DEF IInv, Prepared, store, acts, Migrated, Started, Pc
<1>7. MappingsFollow'
  BY <1>1, <1>2, <1>3 DEF IInv, MappingsFollow, acts
<1>8. Passed(p)' /\ Looked(p)'
  <2>1. \A j : Settled(j) => Settled(j)'
    BY <1>1, StaysSettled DEF acts
  <2>2. ToSet(<<>>) = {}
    BY DEF ToSet
  <2>3. \A j \in Action : Settled(j)
    BY <1>1, <2>2 DEF IInv, Passed
  <2> QED
    BY <1>3, <1>4, <2>1, <2>3 DEF Passed, Looked, Syncing
<1>9. \A q \in Proc : Passed(q)' /\ Looked(q)'
  BY <1>1, <1>3, <1>8, AloneInv DEF acts
<1> QED
  BY <1>5, <1>6, <1>7, <1>9 DEF IInv

LEMMA BackfillInv == ASSUME IInv, NEW p \in Proc, Backfill(p) PROVE IInv'
<1>1. /\ pc[p] = "backfill" /\ ~marker /\ marker' = TRUE /\ backfills' = backfills + 1
      /\ pc' = [pc EXCEPT ![p] = "up"]
      /\ UNCHANGED <<ledger, tables, acts, seen, todo, dead, touched, build>>
  BY DEF Backfill, Goto
<1>2. pc \in [Proc -> Pc]
  BY DEF IInv, TypeOK
<1>3. pc' \in [Proc -> Pc] /\ pc'[p] = "up"
  BY <1>1, <1>2 DEF Pc
<1>4. TypeOK'
  <2>1. backfills' = 1
    BY <1>1 DEF IInv, TypeOK
  <2> QED
    BY <1>1, <1>3, <2>1 DEF IInv, TypeOK, acts
<1>5. Prepared'
  BY <1>1, <1>2 DEF IInv, Prepared, Migrated, Started, Pc
<1>6. MappingsFollow'
  BY <1>1, <1>2 DEF IInv, MappingsFollow, acts
<1>7. Passed(p)' /\ Looked(p)'
  <2>1. \A j : Settled(j) => Settled(j)'
    BY <1>1, StaysSettled DEF acts
  <2>2. \A j \in Action : Settled(j)
    BY <1>1 DEF IInv, Passed
  <2> QED
    BY <1>3, <2>1, <2>2 DEF Passed, Looked, Syncing
<1>8. \A q \in Proc : Passed(q)' /\ Looked(q)'
  BY <1>1, <1>7, AloneInv DEF acts, Pc
<1> QED
  BY <1>4, <1>5, <1>6, <1>8 DEF IInv

\* A rebuild reads every row.
LEMMA RebuildInv == ASSUME IInv, NEW p \in Proc, Rebuild(p) PROVE IInv'
<1>1. /\ pc[p] = "up" /\ mapped' = rows /\ resynced' = {} /\ pc' = [pc EXCEPT ![p] = "serving"]
      /\ UNCHANGED <<store, rows, tombs, local, seen, todo, dead, touched, build>>
  BY DEF Rebuild, Goto, Overrides
<1>2. pc \in [Proc -> Pc]
  BY DEF IInv, TypeOK
<1>3. pc' \in [Proc -> Pc] /\ pc'[p] = "serving"
  BY <1>1, <1>2 DEF Pc
<1>4. TypeOK'
  BY <1>1, <1>3 DEF IInv, TypeOK, store
<1>5. Prepared'
  BY <1>1, <1>2 DEF IInv, Prepared, store, Migrated, Started, Pc
<1>6. MappingsFollow'
  BY <1>1 DEF MappingsFollow
<1>7. Passed(p)' /\ Looked(p)'
  <2>1. \A j : Settled(j) => Settled(j)'
    BY <1>1, StaysSettled
  <2>2. \A j \in Action : Settled(j)
    BY <1>1 DEF IInv, Passed
  <2> QED
    BY <1>3, <2>1, <2>2 DEF Passed, Looked, Syncing
<1>8. \A q \in Proc : Passed(q)' /\ Looked(q)'
  BY <1>1, <1>7, AloneInv DEF Pc
<1> QED
  BY <1>4, <1>5, <1>6, <1>8 DEF IInv

-----------------------------------------------------------------------------
(* Steps that change rows *)

\* What a synchronisation writes keeps the actions typed, and settles what was settled.
LEMMA SyncKeeps ==
  ASSUME IInv, NEW i \in Action, NEW r, Sync(i, r), UNCHANGED <<store, build>>,
         r = IF i \in Delivered(build) THEN DeliveryRow(build) ELSE None
  PROVE  /\ rows' \in [Action -> {None, LocalRow} \cup {DeliveryRow(b) : b \in Build}]
         /\ local' \in [Action -> {"none", "written", "deleted"}]
         /\ \A j \in Action : /\ local'[j] = "written" <=> rows'[j] = LocalRow
                              /\ local'[j] = "deleted" => rows'[j] = None
                              /\ local'[j] \in {local[j], "none"}
                              /\ Settled(j) => Settled(j)'
         /\ Settled(i)'
         /\ \A j \in Action \ resynced' : rows'[j] = rows[j] /\ j \notin resynced
<1>1. /\ rows' = [rows EXCEPT ![i] = r]
      /\ local' = [local EXCEPT ![i] = IF rows[i] = r THEN @ ELSE "none"]
      /\ resynced' = (IF rows[i] = r THEN resynced ELSE resynced \cup {i})
      /\ UNCHANGED <<tombs, mapped>>
  BY DEF Sync
<1>2. /\ rows \in [Action -> {None, LocalRow} \cup {DeliveryRow(b) : b \in Build}]
      /\ local \in [Action -> {"none", "written", "deleted"}]
      /\ \A j \in Action : /\ local[j] = "written" <=> rows[j] = LocalRow
                           /\ local[j] = "deleted" => rows[j] = None
      /\ build \in Build
  BY DEF IInv, TypeOK
<1>3. r \in {None, LocalRow} \cup {DeliveryRow(b) : b \in Build} /\ r # LocalRow
  BY <1>2, RowKinds
<1>4. rows' \in [Action -> {None, LocalRow} \cup {DeliveryRow(b) : b \in Build}]
  BY <1>1, <1>2, <1>3
<1>5. local' \in [Action -> {"none", "written", "deleted"}]
  BY <1>1, <1>2
<1>6. rows'[i] = r /\ local'[i] = IF rows[i] = r THEN local[i] ELSE "none"
  BY <1>1, <1>2
<1>7. \A j \in Action \ {i} : rows'[j] = rows[j] /\ local'[j] = local[j]
  BY <1>1, <1>2
<1>8. ASSUME NEW j \in Action
      PROVE  /\ local'[j] = "written" <=> rows'[j] = LocalRow
             /\ local'[j] = "deleted" => rows'[j] = None
             /\ local'[j] \in {local[j], "none"}
  <2>1. CASE j = i
    <3>1. CASE rows[i] = r
      BY <1>2, <1>6, <2>1, <3>1
    <3>2. CASE rows[i] # r
      BY <1>3, <1>6, <2>1, <3>2
    <3> QED
      BY <3>1, <3>2
  <2>2. CASE j # i
    BY <1>2, <1>7, <2>2
  <2> QED
    BY <2>1, <2>2
<1>9. Settled(i)'
  BY <1>6 DEF Settled, Delivered
<1>10. ASSUME NEW j \in Action, Settled(j) PROVE Settled(j)'
  <2>1. CASE j = i
    BY <1>9, <2>1
  <2>2. CASE j # i
    BY <1>1, <1>7, <1>10, <2>2, StaysSettled
  <2> QED
    BY <2>1, <2>2
<1>11. \A j \in Action \ resynced' : rows'[j] = rows[j] /\ j \notin resynced
  BY <1>1, <1>2, <1>6, <1>7
<1> QED
  BY <1>4, <1>5, <1>8, <1>9, <1>10, <1>11

\* The others have passed what they had passed.
LEMMA SyncOthers ==
  ASSUME IInv, NEW q \in Proc, UNCHANGED <<tombs, build>>,
         pc'[q] = pc[q], todo'[q] = todo[q], dead'[q] = dead[q], touched'[q] = touched[q],
         \A j \in Action : /\ local'[j] \in {local[j], "none"}
                           /\ Settled(j) => Settled(j)'
  PROVE  Passed(q)' /\ Looked(q)'
<1>1. Passed(q) /\ Looked(q) /\ todo[q] \in Seq(Action) /\ build \in Build
  BY DEF IInv, TypeOK
<1>2. Delivered(build) \in SUBSET Action
  BY <1>1, DeliveredActions
<1>3. Passed(q)'
  <2>1. \A j \in Delivered(build) : Settled(j) => Settled(j)'
    BY <1>2
  <2> QED
    BY <1>1, <2>1 DEF Passed, Delivered
<1>4. Looked(q)'
  <2>1. CASE pc[q] = "write"
    <3>1. Head(todo[q]) \in Action
      BY <1>1, <2>1, HeadTail DEF Passed
    <3> QED
      BY <1>1, <2>1, <3>1 DEF Looked
  <2>2. CASE pc[q] = "prune"
    <3>1. \A j \in ToSet(todo[q]) : local[j] = "none" => local'[j] = "none"
      <4>1. ToSet(todo[q]) \subseteq Action
        BY <1>1, HeadTail DEF ToSet
      <4> QED
        BY <4>1
    <3> QED
      BY <1>1, <2>2, <3>1 DEF Looked
  <2>3. CASE pc[q] \notin {"write", "prune"}
    BY <1>1, <2>3 DEF Looked
  <2> QED
    BY <2>1, <2>2, <2>3
<1> QED
  BY <1>3, <1>4

LEMMA WriteInv == ASSUME IInv, NEW p \in Proc, Write(p) PROVE IInv'
<1>0. PICK i : i = Head(todo[p])
  OBVIOUS
<1>1. /\ pc[p] = "write" /\ Sync(i, DeliveryRow(build)) /\ todo' = [todo EXCEPT ![p] = Tail(@)]
      /\ pc' = [pc EXCEPT ![p] = "sync"] /\ UNCHANGED <<store, seen, dead, touched, build>>
  BY <1>0 DEF Write, Goto
<1>2. pc \in [Proc -> Pc] /\ todo \in [Proc -> Seq(Action)] /\ build \in Build
  BY DEF IInv, TypeOK
<1>3. Passed(p) /\ Looked(p) /\ todo[p] # <<>> /\ UNCHANGED <<tombs, mapped>>
  BY <1>1 DEF IInv, Passed, Sync
<1>4. /\ i \in Action /\ Tail(todo[p]) \in Seq(Action) /\ i \in ToSet(todo[p])
      /\ ToSet(todo[p]) = ToSet(Tail(todo[p])) \cup {i}
  BY <1>0, <1>2, <1>3, HeadTail
<1>5. i \in Delivered(build)
  BY <1>1, <1>3, <1>4 DEF Passed
<1>6. /\ rows' \in [Action -> {None, LocalRow} \cup {DeliveryRow(b) : b \in Build}]
      /\ local' \in [Action -> {"none", "written", "deleted"}]
      /\ \A j \in Action : /\ local'[j] = "written" <=> rows'[j] = LocalRow
                           /\ local'[j] = "deleted" => rows'[j] = None
                           /\ local'[j] \in {local[j], "none"}
                           /\ Settled(j) => Settled(j)'
      /\ Settled(i)'
      /\ \A j \in Action \ resynced' : rows'[j] = rows[j] /\ j \notin resynced
  BY <1>1, <1>4, <1>5, SyncKeeps
<1>7. /\ pc' \in [Proc -> Pc] /\ pc'[p] = "sync" /\ todo' \in [Proc -> Seq(Action)]
      /\ todo'[p] = Tail(todo[p])
  BY <1>1, <1>2, <1>4 DEF Pc
<1>8. TypeOK'
  BY <1>1, <1>3, <1>6, <1>7 DEF IInv, TypeOK, store
<1>9. Prepared'
  BY <1>1, <1>2 DEF IInv, Prepared, store, Migrated, Started, Pc
<1>10. MappingsFollow'
  <2>1. \A q \in Proc : pc'[q] = "serving" => pc[q] = "serving"
    BY <1>1, <1>2
  <2>2. Api \subseteq Proc
    BY ManualActionsAssumption
  <2> QED
    BY <1>3, <1>6, <2>1, <2>2 DEF IInv, MappingsFollow
<1>11. Passed(p)' /\ Looked(p)'
  <2>1. ToSet(todo[p]) \subseteq Delivered(build)
        /\ \A j \in Delivered(build) \ ToSet(todo[p]) : Settled(j)
    BY <1>1, <1>3 DEF Passed
  <2>2. \A j \in Delivered(build) : j \in Action
    BY <1>2, DeliveredActions
  <2>3. ToSet(todo'[p]) \subseteq Delivered(build)
        /\ \A j \in Delivered(build) \ ToSet(todo'[p]) : Settled(j)'
    BY <1>4, <1>6, <1>7, <2>1, <2>2
  <2>4. dead[p] \subseteq tombs /\ tombs \subseteq dead[p] \cup touched[p]
    BY <1>1, <1>3 DEF Looked, Syncing
  <2> QED
    BY <1>1, <1>3, <1>7, <2>3, <2>4 DEF Passed, Looked, Delivered
<1>12. ASSUME NEW q \in Proc, q # p PROVE Passed(q)' /\ Looked(q)'
  BY <1>1, <1>2, <1>3, <1>6, <1>12, SyncOthers
<1> QED
  BY <1>8, <1>9, <1>10, <1>11, <1>12 DEF IInv

LEMMA PruneInv == ASSUME IInv, NEW p \in Proc, Prune(p) PROVE IInv'
<1>0. PICK i : i = Head(todo[p])
  OBVIOUS
<1>1. /\ pc[p] = "prune" /\ todo[p] # <<>> /\ Sync(i, None) /\ todo' = [todo EXCEPT ![p] = Tail(@)]
      /\ UNCHANGED <<store, pc, seen, dead, touched, build>>
  BY <1>0 DEF Prune
<1>2. pc \in [Proc -> Pc] /\ todo \in [Proc -> Seq(Action)] /\ build \in Build
  BY DEF IInv, TypeOK
<1>3. Passed(p) /\ Looked(p) /\ UNCHANGED <<tombs, mapped>>
  BY <1>1 DEF IInv, Sync
<1>4. /\ i \in Action /\ Tail(todo[p]) \in Seq(Action) /\ i \in ToSet(todo[p])
      /\ ToSet(todo[p]) = ToSet(Tail(todo[p])) \cup {i}
  BY <1>0, <1>1, <1>2, HeadTail
<1>5. i \notin Delivered(build)
  BY <1>1, <1>3, <1>4 DEF Passed
<1>6. /\ rows' \in [Action -> {None, LocalRow} \cup {DeliveryRow(b) : b \in Build}]
      /\ local' \in [Action -> {"none", "written", "deleted"}]
      /\ \A j \in Action : /\ local'[j] = "written" <=> rows'[j] = LocalRow
                           /\ local'[j] = "deleted" => rows'[j] = None
                           /\ local'[j] \in {local[j], "none"}
                           /\ Settled(j) => Settled(j)'
      /\ Settled(i)'
      /\ \A j \in Action \ resynced' : rows'[j] = rows[j] /\ j \notin resynced
  BY <1>1, <1>4, <1>5, SyncKeeps
<1>7. todo' \in [Proc -> Seq(Action)] /\ todo'[p] = Tail(todo[p])
  BY <1>1, <1>2, <1>4
<1>8. TypeOK'
  BY <1>1, <1>3, <1>6, <1>7 DEF IInv, TypeOK, store
<1>9. Prepared'
  BY <1>1 DEF IInv, Prepared, store
<1>10. MappingsFollow'
  BY <1>1, <1>3, <1>6 DEF IInv, MappingsFollow
<1>11. Passed(p)' /\ Looked(p)'
  <2>1. ToSet(todo[p]) \cap Delivered(build) = {}
        /\ \A j \in Action \ ToSet(todo[p]) : Settled(j)
    BY <1>1, <1>3 DEF Passed
  <2>2. ToSet(todo'[p]) \cap Delivered(build) = {}
        /\ \A j \in Action \ ToSet(todo'[p]) : Settled(j)'
    BY <1>4, <1>6, <1>7, <2>1
  <2>3. dead[p] \subseteq tombs /\ tombs \subseteq dead[p] \cup touched[p]
        /\ \A j \in ToSet(todo[p]) : j \in touched[p] \/ local[j] = "none"
    BY <1>1, <1>3 DEF Looked, Syncing
  <2>4. \A j \in ToSet(todo'[p]) : j \in touched[p] \/ local'[j] = "none"
    <3>1. ToSet(todo[p]) \subseteq Action
      BY <1>1, <1>2, HeadTail
    <3> QED
      BY <1>4, <1>6, <1>7, <2>3, <3>1
  <2> QED
    BY <1>1, <1>3, <2>2, <2>3, <2>4 DEF Passed, Looked, Delivered
<1>12. ASSUME NEW q \in Proc, q # p PROVE Passed(q)' /\ Looked(q)'
  BY <1>1, <1>2, <1>3, <1>6, <1>12, SyncOthers
<1> QED
  BY <1>8, <1>9, <1>10, <1>11, <1>12 DEF IInv

\* An operator's change counts as touched with every synchronisation that runs.
LEMMA OperateInv ==
  ASSUME IInv, NEW p \in Proc, NEW i \in Action, NEW r, NEW deed, Operate(p, i, r, deed),
         \/ r = LocalRow /\ deed = "written"
         \/ r = None /\ deed = "deleted",
         tombs \subseteq tombs', tombs' \subseteq tombs \cup {i}
  PROVE  IInv'
<1>1. /\ pc[p] = "serving" /\ p \in Api
      /\ rows' = [rows EXCEPT ![i] = r] /\ local' = [local EXCEPT ![i] = deed]
      /\ touched' = [q \in Proc |-> IF pc[q] \in {"sync", "write", "prune"}
                                    THEN touched[q] \cup {i} ELSE touched[q]]
      /\ resynced' = resynced \ {i} /\ pc' = [pc EXCEPT ![p] = "up"]
      /\ UNCHANGED <<store, mapped, seen, todo, dead, build>>
  BY DEF Operate, Goto
<1>2. /\ pc \in [Proc -> Pc] /\ touched \in [Proc -> SUBSET Action]
      /\ rows \in [Action -> {None, LocalRow} \cup {DeliveryRow(b) : b \in Build}]
      /\ local \in [Action -> {"none", "written", "deleted"}]
      /\ \A j \in Action : /\ local[j] = "written" <=> rows[j] = LocalRow
                           /\ local[j] = "deleted" => rows[j] = None
      /\ build \in Build /\ tombs \subseteq Action
  BY DEF IInv, TypeOK
<1>3. /\ pc' \in [Proc -> Pc] /\ touched' \in [Proc -> SUBSET Action] /\ pc'[p] = "up"
      /\ rows' \in [Action -> {None, LocalRow} \cup {DeliveryRow(b) : b \in Build}]
      /\ local' \in [Action -> {"none", "written", "deleted"}] /\ tombs' \subseteq Action
  BY <1>1, <1>2 DEF Pc
<1>4. rows'[i] = r /\ local'[i] = deed /\ deed # "none"
      /\ \A j \in Action \ {i} : rows'[j] = rows[j] /\ local'[j] = local[j]
  BY <1>1, <1>2
<1>5. \A j \in Action : /\ local'[j] = "written" <=> rows'[j] = LocalRow
                        /\ local'[j] = "deleted" => rows'[j] = None
  BY <1>2, <1>4, RowKinds
<1>6. TypeOK'
  BY <1>1, <1>3, <1>5 DEF IInv, TypeOK, store
<1>7. Prepared'
  BY <1>1, <1>2 DEF IInv, Prepared, store, Migrated, Started, Pc
<1>8. MappingsFollow'
  <2>1. \A q \in Api : q = p /\ pc'[q] # "serving"
    BY <1>1, <1>3, ManualActionsAssumption
  <2> QED
    BY <2>1 DEF MappingsFollow
<1>9. \A j \in Action : Settled(j) => Settled(j)'
  <2> SUFFICES ASSUME NEW j \in Action, Settled(j) PROVE Settled(j)'
    OBVIOUS
  <2>1. local'[j] # "none" \/ (rows'[j] = rows[j] /\ local'[j] = local[j])
    BY <1>4
  <2> QED
    BY <1>1, <2>1, StaysSettled
<1>10. ASSUME NEW q \in Proc PROVE Passed(q)' /\ Looked(q)'
  <2>0. Passed(q) /\ Looked(q) /\ todo[q] \in Seq(Action)
    BY DEF IInv, TypeOK
  <2>1. CASE q = p
    <3>1. \A j \in Action : Settled(j)'
      BY <1>1, <1>9, <2>0, <2>1 DEF Passed
    <3> QED
      BY <1>3, <2>1, <3>1 DEF Passed, Looked, Syncing
  <2>2. CASE q # p
    <3>1. /\ pc'[q] = pc[q] /\ todo'[q] = todo[q] /\ dead'[q] = dead[q] /\ build' = build
          /\ pc[q] \in Syncing => touched'[q] = touched[q] \cup {i}
      BY <1>1, <1>2, <2>2 DEF Syncing
    <3>2. Delivered(build) \subseteq Action
      BY <1>2, DeliveredActions
    <3>3. Passed(q)'
      <4>1. \A j \in Delivered(build) : Settled(j) => Settled(j)'
        BY <1>9, <3>2
      <4> QED
        BY <1>9, <2>0, <3>1, <4>1 DEF Passed, Delivered
    <3>4. pc'[q] \in Syncing =>
            dead'[q] \subseteq tombs' /\ tombs' \subseteq dead'[q] \cup touched'[q]
      BY <2>0, <3>1 DEF Looked
    <3>5. CASE pc[q] = "write"
      <4> DEFINE h == Head(todo[q])
      <4>1. h \in Action
        BY <2>0, <3>5, HeadTail DEF Passed
      <4>2. h \in touched[q] \/ (h \notin dead[q] /\ local[h] # "written")
        BY <2>0, <3>5 DEF Looked
      <4>3. h \in touched'[q] \/ (h \notin dead[q] /\ local'[h] # "written")
        BY <1>4, <3>1, <3>5, <4>1, <4>2 DEF Syncing
      <4>4. pc'[q] = "write" /\ Head(todo'[q]) = h /\ dead'[q] = dead[q]
        BY <3>1, <3>5
      <4> HIDE DEF h
      <4> QED
        BY <3>3, <3>4, <4>3, <4>4 DEF Looked
    <3>6. CASE pc[q] = "prune"
      <4>1. ToSet(todo[q]) \subseteq Action
        BY <2>0, HeadTail DEF ToSet
      <4>2. \A j \in ToSet(todo[q]) : j \in touched[q] \/ local[j] = "none"
        BY <2>0, <3>6 DEF Looked
      <4>3. \A j \in ToSet(todo[q]) : j \in touched'[q] \/ local'[j] = "none"
        BY <1>4, <3>1, <3>6, <4>1, <4>2 DEF Syncing
      <4>4. pc'[q] = "prune" /\ todo'[q] = todo[q]
        BY <3>1, <3>6
      <4> QED
        BY <3>3, <3>4, <4>3, <4>4 DEF Looked
    <3>7. CASE pc[q] \notin {"write", "prune"}
      <4>1. pc'[q] # "write" /\ pc'[q] # "prune"
        BY <3>1, <3>7
      <4> QED
        BY <3>3, <3>4, <4>1 DEF Looked
    <3> QED
      BY <3>5, <3>6, <3>7
  <2> QED
    BY <2>1, <2>2
<1> QED
  BY <1>6, <1>7, <1>8, <1>10 DEF IInv

\* A deployment finds no process, so none has established anything.
LEMMA DeployInv == ASSUME IInv, Deploy PROVE IInv'
<1>1. /\ \A p \in Proc : pc[p] = "off"
      /\ build < Len(Delivery) /\ build' = build + 1 /\ UNCHANGED <<store, acts, frame>>
  BY DEF Deploy
<1>2. build' \in Build
  <2>1. build \in Build
    BY DEF IInv, TypeOK
  <2> QED
    BY <1>1, <2>1 DEF Build
<1>3. TypeOK'
  BY <1>1, <1>2 DEF IInv, TypeOK, store, acts, frame
<1>4. \A p \in Proc : pc'[p] = "off"
  BY <1>1 DEF frame
<1>5. Prepared' /\ MappingsFollow'
  BY <1>4, ManualActionsAssumption DEF Prepared, MappingsFollow, Migrated, Started
<1>6. \A p \in Proc : Passed(p)' /\ Looked(p)'
  BY <1>4, Outside
<1> QED
  BY <1>3, <1>5, <1>6 DEF IInv

-----------------------------------------------------------------------------
(* The theorems *)

LEMMA InitInv == ASSUME Init PROVE IInv
<1>1. build \in Build
  BY ManualActionsAssumption DEF Init, Build
<1>2. TypeOK
  <2>1. /\ rows = [i \in Action |-> None] /\ mapped = rows
        /\ local = [i \in Action |-> "none"] /\ tombs = {} /\ ledger = {}
        /\ pc = [p \in Proc |-> "off"] /\ seen = [p \in Proc |-> {}]
        /\ todo = [p \in Proc |-> <<>>] /\ dead = [p \in Proc |-> {}]
        /\ touched = [p \in Proc |-> {}] /\ marker = FALSE /\ backfills = 0
    BY DEF Init
  <2>2. \A i \in Action : /\ local[i] = "written" <=> rows[i] = LocalRow
                          /\ local[i] = "deleted" => rows[i] = None
    BY <2>1, RowKinds
  <2>3. /\ rows \in [Action -> {None, LocalRow} \cup {DeliveryRow(b) : b \in Build}]
        /\ local \in [Action -> {"none", "written", "deleted"}]
    BY <2>1
  <2>4. pc \in [Proc -> Pc] /\ todo \in [Proc -> Seq(Action)]
    BY <2>1 DEF Pc
  <2> QED
    BY <1>1, <2>1, <2>2, <2>3, <2>4 DEF TypeOK
<1>3. Prepared /\ MappingsFollow
  BY ManualActionsAssumption DEF Init, Prepared, MappingsFollow, Migrated, Started
<1>4. \A p \in Proc : Passed(p) /\ Looked(p)
  BY DEF Init, Passed, Looked, Syncing
<1> QED
  BY <1>2, <1>3, <1>4 DEF IInv

\* IInv holds of every state of every run.
THEOREM Invariance == Spec => []IInv
<1>1. Init => IInv
  BY InitInv
<1>2. IInv /\ [Next]_vars => IInv'
  <2> SUFFICES ASSUME IInv, [Next]_vars PROVE IInv'
    OBVIOUS
  <2>1. ASSUME NEW p \in Proc, Step(p) PROVE IInv'
    <3>1. CASE Open(p) \/ RunScript(p) \/ ReadTombstones(p) \/ Peek(p)
      BY <3>1, OpenInv, RunScriptInv, ReadTombstonesInv, PeekInv
    <3>2. CASE Write(p) \/ ListDelivered(p) \/ Prune(p) \/ CheckBackfill(p)
      BY <3>2, WriteInv, ListDeliveredInv, PruneInv, CheckBackfillInv
    <3>3. CASE Backfill(p) \/ Rebuild(p)
      BY <3>3, BackfillInv, RebuildInv
    <3>4. CASE ScriptFails(p) \/ BackfillFails(p)
      BY <3>4, ExitInv DEF ScriptFails, BackfillFails
    <3> QED
      BY <2>1, <3>1, <3>2, <3>3, <3>4 DEF Step
  <2>2. ASSUME NEW p \in Proc, Stop(p) \/ Crash(p) PROVE IInv'
    BY <2>2, ExitInv DEF Stop, Crash
  <2>3. ASSUME NEW p \in Proc, NEW i \in Action, Create(p, i) PROVE IInv'
    BY <2>3, OperateInv DEF Create
  <2>4. ASSUME NEW p \in Proc, NEW i \in Action, Edit(p, i) PROVE IInv'
    BY <2>4, OperateInv DEF Edit
  <2>5. ASSUME NEW p \in Proc, NEW i \in Action, Delete(p, i) PROVE IInv'
    BY <2>5, OperateInv DEF Delete, Buried
  <2>6. CASE Deploy
    BY <2>6, DeployInv
  <2>7. CASE UNCHANGED vars
    <3>1. TypeOK' /\ Prepared' /\ MappingsFollow'
      BY <2>7 DEF IInv, TypeOK, Prepared, MappingsFollow, vars, store, acts, frame
    <3>2. \A p \in Proc : Passed(p)' /\ Looked(p)'
      BY <2>7, Standing DEF IInv, vars, acts, frame
    <3> QED
      BY <3>1, <3>2 DEF IInv
  <2> QED
    BY <2>1, <2>2, <2>3, <2>4, <2>5, <2>6, <2>7 DEF Next
<1> QED
  BY <1>1, <1>2, PTL DEF Spec

\* migrate(): nobody uses the database before the migrations of its build and the
\* backfill, and the backfill is committed once, however many processes open it.
THEOREM UseFollowsPreparation == Spec => []UseIsPrepared
<1>1. IInv => UseIsPrepared
  <2> SUFFICES ASSUME IInv PROVE UseIsPrepared
    OBVIOUS
  <2>1. backfills <= 1
    <3>1. backfills \in {0, 1}
      BY DEF IInv, TypeOK
    <3> QED
      BY <3>1
  <2>2. \A p \in Proc : pc[p] \in Started => 1 .. Version[build] \subseteq ledger /\ marker
    BY DEF IInv, Prepared, Migrated, Started, Pc
  <2> QED
    BY <2>1, <2>2 DEF UseIsPrepared, Started
<1> QED
  BY <1>1, Invariance, PTL

\* _sync_delivery_manual_actions: when a process has started, what no operator has
\* changed is what its build delivers, whatever ran beside it.
THEOREM StartDelivers == Spec => []DeliveryArrives
<1>1. IInv => DeliveryArrives
  BY DEF IInv, Passed, Settled, DeliveryArrives
<1> QED
  BY <1>1, Invariance, PTL

\* rebuild_symbol_matches: while the API serves, the mappings are those of the rows,
\* but for rows that a synchronisation has changed since.
THEOREM ServingFollows == Spec => []MappingsFollow
<1>1. IInv => MappingsFollow
  BY DEF IInv
<1> QED
  BY <1>1, Invariance, PTL

\* A synchronisation takes away no operator's change that was settled when it started,
\* but the deletion of an action edited before.
THEOREM ChangesSurvive == Spec => SettledChangesSurvive
<1>1. IInv /\ [Next]_vars =>
        [\A i \in Action, p \in Proc :
           /\ pc[p] \in {"write", "prune"} /\ todo'[p] # todo[p]
           /\ local[i] # "none" /\ local'[i] = "none"
           => i \in touched[p] \/ (local[i] = "deleted" /\ i \notin tombs)]_vars
  <2> SUFFICES ASSUME IInv, Next, NEW i \in Action, NEW p \in Proc,
                      pc[p] \in {"write", "prune"}, todo'[p] # todo[p],
                      local[i] # "none", local'[i] = "none"
               PROVE  i \in touched[p] \/ (local[i] = "deleted" /\ i \notin tombs)
    OBVIOUS
  <2>1. /\ todo \in [Proc -> Seq(Action)] /\ Looked(p) /\ Passed(p)
        /\ local \in [Action -> {"none", "written", "deleted"}]
    BY DEF IInv, TypeOK
  <2>2. ASSUME NEW q \in Proc, Write(q) \/ Prune(q) PROVE q = p /\ i = Head(todo[p])
    <3>1. todo' = [todo EXCEPT ![q] = Tail(@)]
      BY <2>2 DEF Write, Prune
    <3>2. q = p
      BY <2>1, <3>1
    <3>3. PICK r : Sync(Head(todo[p]), r)
      BY <2>2, <3>2 DEF Write, Prune
    <3>4. i = Head(todo[p])
      BY <2>1, <3>3 DEF Sync
    <3> QED
      BY <3>2, <3>4
  <2>3. ~ UNCHANGED local
    OBVIOUS
  <2>4. \A q \in Proc : Step(q) => Write(q) \/ Prune(q)
    BY <2>3 DEF Step, Open, RunScript, ScriptFails, ReadTombstones, Peek, ListDelivered,
                CheckBackfill, Backfill, BackfillFails, Rebuild, acts
  <2>5. \A q \in Proc : ~ Stop(q) /\ ~ Crash(q)
    BY <2>3 DEF Stop, Crash, acts
  <2>6. ~ Deploy
    BY <2>3 DEF Deploy, acts
  <2>7. \A q \in Proc, j \in Action : ~ Create(q, j) /\ ~ Edit(q, j) /\ ~ Delete(q, j)
    BY DEF Create, Edit, Delete, Operate
  <2>8. (Write(p) \/ Prune(p)) /\ i = Head(todo[p])
    BY <2>2, <2>4, <2>5, <2>6, <2>7 DEF Next
  <2>9. CASE Write(p)
    <3>1. i \in touched[p] \/ (i \notin dead[p] /\ local[i] # "written")
      BY <2>1, <2>8, <2>9 DEF Write, Looked
    <3>2. tombs \subseteq dead[p] \cup touched[p]
      BY <2>1 DEF Looked, Syncing
    <3> QED
      BY <2>1, <3>1, <3>2
  <2>10. CASE Prune(p)
    <3>1. i \in ToSet(todo[p])
      BY <2>1, <2>8, <2>10, HeadTail DEF Prune
    <3> QED
      BY <2>1, <2>10, <3>1 DEF Prune, Looked
  <2> QED
    BY <2>8, <2>9, <2>10
<1> QED
  BY <1>1, Invariance, PTL DEF Spec, SettledChangesSurvive
=============================================================================
