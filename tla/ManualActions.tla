--------------------------- MODULE ManualActions ---------------------------
(***************************************************************************)
(* How a process opens the database: it applies the schema migrations,     *)
(* reconciles the manual asset actions its build delivers with what        *)
(* operators have changed, and backfills once.  The reconciliation is not  *)
(* a transaction; operators edit and delete through the API meanwhile.     *)
(***************************************************************************)
EXTENDS Integers, Sequences, SequencesExt

CONSTANTS Proc,        \* processes that open the database: the API, a collector
          Api,         \* those of them that serve operators
          Action,      \* action ids, those of operators (uuid) included
          Delivery,    \* Delivery[b]: the ids build b delivers, in file order
          Version,     \* Version[b]: the number of migration files of build b
          None,        \* no row
          MaxEdits, MaxCrashes

Build == 1 .. Len(Delivery)
Delivered(b) == ToSet(Delivery[b])

\* A row's text: the build that delivered it, or 0 once an operator wrote it.
LocalRow == [origin |-> "LOCAL", text |-> 0]
DeliveryRow(b) == [origin |-> "DELIVERY", text |-> b]

\* One process serves: `mdv serve` starts no workers and owns its port.
ASSUME ManualActionsAssumption ==
    /\ Api \subseteq Proc /\ \A p, q \in Api : p = q
    /\ IsFiniteSet(Action) /\ Len(Delivery) \in Nat \ {0}
    /\ None # LocalRow /\ \A b \in Build : None # DeliveryRow(b)
    /\ \A b \in Build : Delivery[b] \in Seq(Action) /\ Version[b] \in Nat
    /\ \A b, c \in Build : b <= c => Version[b] <= Version[c]
    /\ MaxEdits \in Nat /\ MaxCrashes \in Nat

VARIABLES ledger,      \* schema_migrations
          tables,      \* migrations whose tables exist
          marker,      \* the backfill's row in data_backfills
          backfills,   \* how often the backfill has been committed
          rows, tombs, \* manual_asset_actions and their tombstones
          mapped,      \* the actions the mappings were last rebuilt with
          build,       \* the installed build
          pc, seen, todo, dead, \* per process: place, applied versions, actions left, tombstones
          \* History, for the properties only:
          local,       \* what an operator last did to an action
          touched,     \* touched[p]: actions changed by operators since p read the tombstones
          resynced,    \* actions a synchronisation changed since the last rebuild
          edits, crashes

store == <<ledger, tables, marker, backfills>>
acts  == <<rows, tombs, mapped, local, resynced>>
frame == <<pc, seen, todo, dead, touched>>
vars  == <<store, acts, frame, build, edits, crashes>>

Init ==
    /\ build = 1 /\ ledger = {} /\ tables = {} /\ marker = FALSE /\ backfills = 0
    /\ rows = [i \in Action |-> None] /\ tombs = {} /\ mapped = rows
    /\ pc = [p \in Proc |-> "off"] /\ seen = [p \in Proc |-> {}]
    /\ todo = [p \in Proc |-> <<>>] /\ dead = [p \in Proc |-> {}]
    /\ local = [i \in Action |-> "none"] /\ touched = [p \in Proc |-> {}]
    /\ resynced = {} /\ edits = 0 /\ crashes = 0

Goto(p, place) == pc' = [pc EXCEPT ![p] = place]

\* The process ends, whatever it was doing; SQLite rolls back what is open.
Exit(p) ==
    /\ Goto(p, "off")
    /\ seen' = [seen EXCEPT ![p] = {}] /\ todo' = [todo EXCEPT ![p] = <<>>]
    /\ dead' = [dead EXCEPT ![p] = {}] /\ touched' = [touched EXCEPT ![p] = {}]

-----------------------------------------------------------------------------
(* migrate() *)

\* migrate() reads the applied versions once; the files are then compared with that.
Applied_anyIsAll(p) == IF ledger = {} THEN {} ELSE 1 .. Version[build]
Applied(p) == ledger

Open(p) ==
    /\ pc[p] = "off"
    /\ seen' = [seen EXCEPT ![p] = Applied(p)] /\ Goto(p, "migrating")
    /\ UNCHANGED <<store, acts, todo, dead, touched, build, edits, crashes>>

Missing(p) == (1 .. Version[build]) \ seen[p]
Script(p) == CHOOSE v \in Missing(p) : \A w \in Missing(p) : v <= w

\* One file is one transaction: its tables and its row of schema_migrations.
CommitScript(v) == tables' = tables \cup {v} /\ ledger' = ledger \cup {v}

RunScript(p) ==
    /\ pc[p] = "migrating" /\ Missing(p) # {} /\ Script(p) \notin tables
    /\ CommitScript(Script(p)) /\ seen' = [seen EXCEPT ![p] = @ \cup {Script(p)}]
    /\ UNCHANGED <<marker, backfills, acts, pc, todo, dead, touched, build, edits, crashes>>

\* Another process has committed the file since this one read the versions:
\* the table exists, the script raises and the process does not start.
ScriptFails(p) ==
    /\ pc[p] = "migrating" /\ Missing(p) # {} /\ Script(p) \in tables
    /\ Exit(p)
    /\ UNCHANGED <<store, acts, build, edits, crashes>>

ReadTombstones(p) ==
    /\ pc[p] = "migrating" /\ Missing(p) = {}
    /\ Goto(p, "sync") /\ dead' = [dead EXCEPT ![p] = tombs]
    /\ todo' = [todo EXCEPT ![p] = Delivery[build]]
    /\ touched' = [touched EXCEPT ![p] = {}]
    /\ UNCHANGED <<store, acts, seen, build, edits, crashes>>

\* The delivery leaves alone what operators deleted and what they made theirs.
LeftAlone_tombstonesOnly(p, i) == i \in dead[p]
LeftAlone_anyRow(p, i) == i \in dead[p] \/ rows[i] # None
LeftAlone(p, i) == i \in dead[p] \/ (rows[i] # None /\ rows[i].origin = "LOCAL")

Peek(p) ==
    /\ pc[p] = "sync" /\ todo[p] # <<>>
    /\ IF LeftAlone(p, Head(todo[p]))
       THEN todo' = [todo EXCEPT ![p] = Tail(@)] /\ UNCHANGED pc
       ELSE Goto(p, "write") /\ UNCHANGED todo
    /\ UNCHANGED <<store, acts, seen, dead, touched, build, edits, crashes>>

\* A synchronisation writes row r of action i, whatever stands there by now.
Sync(i, r) ==
    /\ rows' = [rows EXCEPT ![i] = r]
    /\ local' = [local EXCEPT ![i] = IF rows[i] = r THEN @ ELSE "none"]
    /\ resynced' = IF rows[i] = r THEN resynced ELSE resynced \cup {i}
    /\ UNCHANGED <<tombs, mapped>>

Write(p) ==
    /\ pc[p] = "write"
    /\ Sync(Head(todo[p]), DeliveryRow(build))
    /\ todo' = [todo EXCEPT ![p] = Tail(@)] /\ Goto(p, "sync")
    /\ UNCHANGED <<store, seen, dead, touched, build, edits, crashes>>

\* The delivered rows that this build no longer delivers, listed once.
Withdrawn == {i \in Action \ Delivered(build) : rows[i] # None /\ rows[i].origin = "DELIVERY"}

ListDelivered(p) ==
    /\ pc[p] = "sync" /\ todo[p] = <<>>
    /\ todo' = [todo EXCEPT ![p] = SetToSeq(Withdrawn)] /\ Goto(p, "prune")
    /\ UNCHANGED <<store, acts, seen, dead, touched, build, edits, crashes>>

Prune(p) ==
    /\ pc[p] = "prune" /\ todo[p] # <<>>
    /\ Sync(Head(todo[p]), None) /\ todo' = [todo EXCEPT ![p] = Tail(@)]
    /\ UNCHANGED <<store, pc, seen, dead, touched, build, edits, crashes>>

CheckBackfill_always(p) ==
    /\ pc[p] = "prune" /\ todo[p] = <<>> /\ Goto(p, "backfill")
    /\ UNCHANGED <<store, acts, seen, todo, dead, touched, build, edits, crashes>>
CheckBackfill(p) ==
    /\ pc[p] = "prune" /\ todo[p] = <<>>
    /\ Goto(p, IF marker THEN "up" ELSE "backfill")
    /\ UNCHANGED <<store, acts, seen, todo, dead, touched, build, edits, crashes>>

\* The marker is inserted in the backfill's transaction; a second one raises.
Backfill(p) ==
    /\ pc[p] = "backfill" /\ ~marker
    /\ marker' = TRUE /\ backfills' = backfills + 1 /\ Goto(p, "up")
    /\ UNCHANGED <<ledger, tables, acts, seen, todo, dead, touched, build, edits, crashes>>

BackfillFails(p) ==
    /\ pc[p] = "backfill" /\ marker /\ Exit(p)
    /\ UNCHANGED <<store, acts, build, edits, crashes>>

-----------------------------------------------------------------------------
(* Use *)

\* What a rebuild reads of the actions.
Overrides_delivered == [i \in Action |-> IF rows[i] = LocalRow THEN None ELSE rows[i]]
Overrides == rows

\* The API's lifespan, the end of every operation on an action, and a collection.
Rebuild(p) ==
    /\ pc[p] = "up" /\ mapped' = Overrides /\ resynced' = {} /\ Goto(p, "serving")
    /\ UNCHANGED <<store, rows, tombs, local, seen, todo, dead, touched, build, edits, crashes>>

\* Operations of an operator: one at a time, each a transaction and then a rebuild.
Operate(p, i, r, deed) ==
    /\ pc[p] = "serving" /\ p \in Api /\ edits < MaxEdits
    /\ rows' = [rows EXCEPT ![i] = r] /\ local' = [local EXCEPT ![i] = deed]
    /\ touched' = [q \in Proc |-> IF pc[q] \in {"sync", "write", "prune"}
                                  THEN touched[q] \cup {i} ELSE touched[q]]
    /\ resynced' = resynced \ {i} /\ edits' = edits + 1 /\ Goto(p, "up")
    /\ UNCHANGED <<store, mapped, seen, todo, dead, build, crashes>>

Create(p, i) ==
    /\ rows[i] = None /\ local[i] = "none" /\ i \notin tombs
    /\ \A b \in Build : i \notin Delivered(b)          \* a fresh uuid
    /\ Operate(p, i, LocalRow, "written") /\ UNCHANGED tombs

Edit(p, i) ==
    /\ rows[i] # None
    /\ Operate(p, i, LocalRow, "written") /\ UNCHANGED tombs

\* Only a delivered row leaves a tombstone.
Buried(i) == IF rows[i].origin = "DELIVERY" THEN {i} ELSE {}

Delete(p, i) ==
    /\ rows[i] # None
    /\ Operate(p, i, None, "deleted") /\ tombs' = tombs \cup Buried(i)

-----------------------------------------------------------------------------
(* Environment *)

Stop(p) ==
    /\ pc[p] \in {"up", "serving"} /\ Exit(p)
    /\ p \in Api => pc[p] = "serving"                  \* a handler is finished first
    /\ UNCHANGED <<store, acts, build, edits, crashes>>

Crash(p) ==
    /\ pc[p] # "off" /\ crashes < MaxCrashes /\ crashes' = crashes + 1
    /\ Exit(p) /\ UNCHANGED <<store, acts, build, edits>>

\* A deployment stops the API and quiesces the collection.
Deploy ==
    /\ \A p \in Proc : pc[p] = "off"
    /\ build < Len(Delivery) /\ build' = build + 1
    /\ UNCHANGED <<store, acts, frame, edits, crashes>>

Step(p) ==
    \/ Open(p) \/ RunScript(p) \/ ScriptFails(p) \/ ReadTombstones(p) \/ Peek(p)
    \/ Write(p) \/ ListDelivered(p) \/ Prune(p) \/ CheckBackfill(p)
    \/ Backfill(p) \/ BackfillFails(p) \/ Rebuild(p)

Next ==
    \/ \E p \in Proc : Step(p) \/ Stop(p) \/ Crash(p)
    \/ \E p \in Proc, i \in Action : Create(p, i) \/ Edit(p, i) \/ Delete(p, i)
    \/ Deploy

Fairness == \A p \in Proc : WF_vars(Step(p))
Spec == Init /\ [][Next]_vars
FairSpec == Spec /\ Fairness

-----------------------------------------------------------------------------
(* Properties *)

\* Nobody uses the database before every migration of its build and the
\* backfill are there, and the backfill is committed once, whoever races.
UseIsPrepared ==
    /\ backfills <= 1
    /\ \A p \in Proc : pc[p] \in {"up", "serving"} => 1 .. Version[build] \subseteq ledger /\ marker

\* What no operator has changed is what the build delivers, as soon as a
\* process of that build has started.
DeliveryArrives ==
    (\E p \in Proc : pc[p] \in {"up", "serving"}) =>
        \A i \in Action : local[i] = "none" /\ i \notin tombs =>
            rows[i] = IF i \in Delivered(build) THEN DeliveryRow(build) ELSE None

\* Once an operation on the actions has returned, the mappings reflect every
\* row, but for those a synchronisation has changed behind the API's back.
MappingsFollow ==
    (\E p \in Api : pc[p] = "serving") => \A i \in Action \ resynced : mapped[i] = rows[i]

\* A synchronisation takes an operator's change away only if the change was
\* made while it ran, or deleted an action the operator had edited before
\* (which leaves no tombstone).
SettledChangesSurvive ==
    [][\A i \in Action, p \in Proc :
         /\ pc[p] \in {"write", "prune"} /\ todo'[p] # todo[p]
         /\ local[i] # "none" /\ local'[i] = "none"
         => i \in touched[p] \/ (local[i] = "deleted" /\ i \notin tombs)]_vars

\* A process that is not running comes up, however many others open the
\* database at the same time.
EveryStartSucceeds == \A p \in Proc : pc[p] = "off" ~> pc[p] = "up"

\* What _sync_delivery_manual_actions documents: a synchronisation overwrites
\* no local change, made before it or meanwhile, deletions included.
LocalChangesSurvive ==
    [][\A i \in Action : (\E p \in Proc : pc[p] \in {"write", "prune"} /\ todo'[p] # todo[p]) =>
         local'[i] = local[i]]_vars
=============================================================================
