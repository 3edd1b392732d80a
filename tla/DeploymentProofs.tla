---------------------------- MODULE DeploymentProofs ----------------------------
(***************************************************************************)
(* What a deployment never does, whatever fails and whenever it is killed. *)
(* IInv is inductive.  Its parts say, for each place of the script, which  *)
(* of its flags are set, which processes and timer are off, which releases *)
(* are complete, what the script remembers of the timer, whose schema the  *)
(* database has, and what the archive holds.                               *)
(***************************************************************************)
EXTENDS Deployment, TLAPS

Pc == {"idle", "build", "building", "capture", "stop_timer", "stop_collector", "stop_api",
       "backup", "second_key", "archive", "migrate", "restore", "switch", "install",
       "restart", "check", "resume", "resume_timer", "prune", "clean"}

\* Whatever runs was started through the link, so it is of the current release:
\* the link is switched only while nothing runs.
TypeOK ==
    /\ current \in Release /\ target \in Release /\ previous \in Release
    /\ dirs \in [Release -> {"absent", "partial", "complete"}]
    /\ schema \in Nat /\ archive \in [of : Nat, schema : Nat]
    /\ api \in {None, current} /\ collector \in {None, current}
    /\ timer \in Timers /\ captured \in Timers /\ found \in Timers
    /\ pc \in Pc
    /\ flags \in SUBSET {"built", "quiesced", "cutover", "mutated", "failing"}
    /\ lost \in BOOLEAN /\ stranded \in BOOLEAN

\* Before the state of the timer is captured; with the cutover begun and archived.
Early == {"build", "building", "capture"}
Touched == {"migrate", "switch", "install", "restart", "check", "resume", "resume_timer"}

\* The flags that a place of the script implies.
Staged ==
    /\ pc \in Early => flags \subseteq {"built"}
    /\ pc \in {"stop_timer", "stop_collector"} /\ ~Failing => flags \subseteq {"built", "quiesced"}
    /\ pc \in {"stop_api", "backup", "second_key", "archive"} /\ ~Failing => "mutated" \notin flags
    /\ pc \in {"backup", "second_key", "archive", "migrate"} => ~Failing
    /\ pc \in Touched /\ ~Failing => {"cutover", "mutated"} \subseteq flags
    /\ pc \in {"stop_api", "backup", "second_key", "archive"} /\ ~Failing => "cutover" \in flags
    /\ pc = "restore" => Failing

\* What is stopped stays stopped: each stop makes the next one final.
Quiet ==
    /\ pc \in {"stop_collector", "stop_api"} => ~timer.active
    /\ pc = "stop_api" => collector = None
    /\ QuietMigration

\* The releases the script may switch to are complete, and differ.
Installed ==
    /\ dirs[current] = "complete"
    /\ pc # "idle" =>
          dirs[previous] = "complete" /\ previous # target /\ current \in {previous, target}
    /\ pc \notin {"idle", "build", "building", "clean"} => dirs[target] = "complete"
    /\ pc = "building" => dirs[target] = "partial"

\* The script remembers the timer as the operator had it, until it has restored it.
Scheduled ==
    /\ pc \in Early => timer = found
    /\ pc \in Pc \ (Early \cup {"idle", "prune", "clean"}) =>
          "quiesced" \in flags /\ captured = found
    /\ pc = "resume_timer" => timer.enabled = captured.enabled
    /\ pc \in {"prune", "clean", "idle"} => lost \/ timer = found

\* The head of main never moves back, so the target migrates the furthest.
Ordered == current <= target /\ (pc # "idle" => previous <= target)

\* The places around the migration and the switch.
BeforeMigration ==
    Early \cup {"stop_timer", "stop_collector", "stop_api",
                "backup", "second_key", "archive", "migrate"}
AfterSwitch == {"install", "restart", "check", "resume", "resume_timer", "prune", "clean", "idle"}

\* The archive is of this deployment.
Archived ==
    "mutated" \in flags /\ pc # "idle" =>
        archive.of = previous /\ (~stranded => archive.schema = previous)

\* Whose schema the database has.  In a rollback the database may be migrated
\* already, but then nothing can open it until it is restored.
OfCurrent ==
    ~stranded =>
        /\ pc \in AfterSwitch => schema = current
        /\ pc \in BeforeMigration /\ ~Failing => schema = current /\ current = previous
        /\ pc = "switch" => schema = IF Failing THEN previous ELSE target
        /\ pc \in {"stop_timer", "stop_collector", "stop_api", "restore"} /\ Failing =>
              /\ schema = current \/ (api = None /\ collector = None /\ ~timer.active)
              /\ "mutated" \notin flags => schema = previous

\* The inductive invariant.
IInv ==
    /\ TypeOK /\ Staged /\ Quiet /\ Installed
    /\ Scheduled /\ Ordered /\ Archived /\ OfCurrent

-----------------------------------------------------------------------------
\* The greater of two releases, of which the library's Max makes a choice.
LEMMA NewestOf ==
  ASSUME NEW a \in Nat, NEW b \in Nat
  PROVE  Max({a, b}) = IF a >= b THEN a ELSE b
<1> DEFINE top == IF a >= b THEN a ELSE b
<1>1. top \in {a, b} /\ \A y \in {a, b} : top >= y
  OBVIOUS
<1>2. \A x \in {a, b} : (\A y \in {a, b} : x >= y) => x = top
  OBVIOUS
<1> QED
  BY <1>1, <1>2 DEF Max

\* What a migration makes of a typed schema.
LEMMA MigratedSchema ==
  ASSUME TypeOK, NEW release \in Release
  PROVE  /\ Migrated(release) = IF schema >= release THEN schema ELSE release
         /\ Migrated(release) \in Nat
BY NewestOf, DeploymentAssumption DEF TypeOK, Migrated, Release

\* No step leaves the types, or starts anything but the current release.
LEMMA TypeStep ==
  ASSUME TypeOK, Staged, Quiet, [Next]_vars
  PROVE  TypeOK'
<1> USE DeploymentAssumption DEF None, Release, disk, units, script, history, Step, Failing,
       TypeOK, Timers, Pc, Quiet, QuietMigration, Recovered, Resumed
<1>1. CASE Fire
  BY <1>1, MigratedSchema DEF Fire
<1>2. CASE CollectorEnds
  BY <1>2 DEF CollectorEnds
<1>3. CASE ApiRestarts
  BY <1>3, MigratedSchema DEF ApiRestarts
<1>4. ASSUME NEW state \in Timers, Operator(state)
       PROVE  TypeOK'
  BY <1>4 DEF Operator
<1>5. ASSUME NEW release \in Release, Begin(release)
       PROVE  TypeOK'
  BY <1>5 DEF Begin
<1>6. CASE Reuse
  BY <1>6 DEF Reuse
<1>7. CASE StartBuild
  BY <1>7 DEF StartBuild
<1>8. CASE FinishBuild
  BY <1>8 DEF FinishBuild
<1>9. CASE Capture
  BY <1>9 DEF Capture
<1>10. CASE StopTimer
  BY <1>10 DEF StopTimer
<1>11. CASE StopCollector
  BY <1>11 DEF StopCollector
<1>12. CASE StopApi
  BY <1>12 DEF StopApi
<1>13. CASE NewKey
  BY <1>13 DEF NewKey
<1>14. CASE SecondKey
  BY <1>14 DEF SecondKey
<1>15. CASE LoadKeys
  BY <1>15 DEF LoadKeys
<1>16. CASE CreateArchive
  BY <1>16 DEF CreateArchive
<1>17. CASE Migrate
  BY <1>17, MigratedSchema DEF Migrate
<1>18. CASE Restore
  BY <1>18 DEF Restore
<1>19. CASE Switch
  BY <1>19 DEF Switch
<1>20. CASE Install
  BY <1>20 DEF Install
<1>21. CASE Restart
  BY <1>21, MigratedSchema DEF Restart
<1>22. CASE Check
  BY <1>22 DEF Check
<1>23. CASE Resume
  BY <1>23 DEF Resume
<1>24. CASE ResumeTimer
  BY <1>24 DEF ResumeTimer
<1>25. CASE Prune
  BY <1>25 DEF Prune
<1>26. CASE Fail
  BY <1>26 DEF Fail
<1>27. CASE Clean
  BY <1>27 DEF Clean
<1>28. CASE Kill
  BY <1>28 DEF Kill
<1>29. CASE UNCHANGED vars
  BY <1>29 DEF vars
<1> QED
    BY <1>1, <1>2, <1>3, <1>4, <1>5, <1>6, <1>7, <1>8, <1>9, <1>10, <1>11, <1>12, <1>13,
     <1>14, <1>15, <1>16, <1>17, <1>18, <1>19, <1>20, <1>21, <1>22, <1>23, <1>24, <1>25,
     <1>26, <1>27, <1>28, <1>29 DEF Next, Deploy

\* Every step sets the flags of the place it goes to.
LEMMA StagedStep ==
  ASSUME TypeOK, Staged, [Next]_vars
  PROVE  Staged'
<1> USE DeploymentAssumption DEF None, Release, disk, units, script, history, Step, Failing,
       TypeOK, Pc, Staged, Early, Touched
<1>1. CASE Fire
  BY <1>1 DEF Fire
<1>2. CASE CollectorEnds
  BY <1>2 DEF CollectorEnds
<1>3. CASE ApiRestarts
  BY <1>3 DEF ApiRestarts
<1>4. ASSUME NEW state \in Timers, Operator(state)
       PROVE  Staged'
  BY <1>4 DEF Operator
<1>5. ASSUME NEW release \in Release, Begin(release)
       PROVE  Staged'
  BY <1>5 DEF Begin
<1>6. CASE Reuse
  BY <1>6 DEF Reuse
<1>7. CASE StartBuild
  BY <1>7 DEF StartBuild
<1>8. CASE FinishBuild
  BY <1>8 DEF FinishBuild
<1>9. CASE Capture
  BY <1>9 DEF Capture
<1>10. CASE StopTimer
  BY <1>10 DEF StopTimer
<1>11. CASE StopCollector
  BY <1>11 DEF StopCollector
<1>12. CASE StopApi
  BY <1>12 DEF StopApi
<1>13. CASE NewKey
  BY <1>13 DEF NewKey
<1>14. CASE SecondKey
  BY <1>14 DEF SecondKey
<1>15. CASE LoadKeys
  BY <1>15 DEF LoadKeys
<1>16. CASE CreateArchive
  BY <1>16 DEF CreateArchive
<1>17. CASE Migrate
  BY <1>17 DEF Migrate
<1>18. CASE Restore
  BY <1>18 DEF Restore
<1>19. CASE Switch
  BY <1>19 DEF Switch
<1>20. CASE Install
  BY <1>20 DEF Install
<1>21. CASE Restart
  BY <1>21 DEF Restart
<1>22. CASE Check
  BY <1>22 DEF Check
<1>23. CASE Resume
  BY <1>23 DEF Resume
<1>24. CASE ResumeTimer
  BY <1>24 DEF ResumeTimer
<1>25. CASE Prune
  BY <1>25 DEF Prune
<1>26. CASE Fail
  BY <1>26 DEF Fail
<1>27. CASE Clean
  BY <1>27 DEF Clean
<1>28. CASE Kill
  BY <1>28 DEF Kill
<1>29. CASE UNCHANGED vars
  BY <1>29 DEF vars
<1> QED
    BY <1>1, <1>2, <1>3, <1>4, <1>5, <1>6, <1>7, <1>8, <1>9, <1>10, <1>11, <1>12, <1>13,
     <1>14, <1>15, <1>16, <1>17, <1>18, <1>19, <1>20, <1>21, <1>22, <1>23, <1>24, <1>25,
     <1>26, <1>27, <1>28, <1>29 DEF Next, Deploy

\* Nothing that was stopped starts before the switch is done.
LEMMA QuietStep ==
  ASSUME TypeOK, Quiet, [Next]_vars
  PROVE  Quiet'
<1> USE DeploymentAssumption DEF None, Release, disk, units, script, history, Step, Failing,
       TypeOK, Timers, Pc, Quiet, QuietMigration
<1>1. CASE Fire
  BY <1>1 DEF Fire
<1>2. CASE CollectorEnds
  BY <1>2 DEF CollectorEnds
<1>3. CASE ApiRestarts
  BY <1>3 DEF ApiRestarts
<1>4. ASSUME NEW state \in Timers, Operator(state)
       PROVE  Quiet'
  BY <1>4 DEF Operator
<1>5. ASSUME NEW release \in Release, Begin(release)
       PROVE  Quiet'
  BY <1>5 DEF Begin
<1>6. CASE Reuse
  BY <1>6 DEF Reuse
<1>7. CASE StartBuild
  BY <1>7 DEF StartBuild
<1>8. CASE FinishBuild
  BY <1>8 DEF FinishBuild
<1>9. CASE Capture
  BY <1>9 DEF Capture
<1>10. CASE StopTimer
  BY <1>10 DEF StopTimer
<1>11. CASE StopCollector
  BY <1>11 DEF StopCollector
<1>12. CASE StopApi
  BY <1>12 DEF StopApi
<1>13. CASE NewKey
  BY <1>13 DEF NewKey
<1>14. CASE SecondKey
  BY <1>14 DEF SecondKey
<1>15. CASE LoadKeys
  BY <1>15 DEF LoadKeys
<1>16. CASE CreateArchive
  BY <1>16 DEF CreateArchive
<1>17. CASE Migrate
  BY <1>17 DEF Migrate
<1>18. CASE Restore
  BY <1>18 DEF Restore
<1>19. CASE Switch
  BY <1>19 DEF Switch
<1>20. CASE Install
  BY <1>20 DEF Install
<1>21. CASE Restart
  BY <1>21 DEF Restart
<1>22. CASE Check
  BY <1>22 DEF Check
<1>23. CASE Resume
  BY <1>23 DEF Resume
<1>24. CASE ResumeTimer
  BY <1>24 DEF ResumeTimer
<1>25. CASE Prune
  BY <1>25 DEF Prune
<1>26. CASE Fail
  BY <1>26 DEF Fail
<1>27. CASE Clean
  BY <1>27 DEF Clean
<1>28. CASE Kill
  BY <1>28 DEF Kill
<1>29. CASE UNCHANGED vars
  BY <1>29 DEF vars
<1> QED
    BY <1>1, <1>2, <1>3, <1>4, <1>5, <1>6, <1>7, <1>8, <1>9, <1>10, <1>11, <1>12, <1>13,
     <1>14, <1>15, <1>16, <1>17, <1>18, <1>19, <1>20, <1>21, <1>22, <1>23, <1>24, <1>25,
     <1>26, <1>27, <1>28, <1>29 DEF Next, Deploy

\* No build, failure or pruning removes a release the script may switch to.
LEMMA InstalledStep ==
  ASSUME TypeOK, Staged, Installed, [Next]_vars
  PROVE  Installed'
<1> USE DeploymentAssumption DEF None, Release, disk, units, script, history, Step, Failing,
       TypeOK, Pc, Staged, Early, Touched, Installed
<1>1. CASE Fire
  BY <1>1 DEF Fire
<1>2. CASE CollectorEnds
  BY <1>2 DEF CollectorEnds
<1>3. CASE ApiRestarts
  BY <1>3 DEF ApiRestarts
<1>4. ASSUME NEW state \in Timers, Operator(state)
       PROVE  Installed'
  BY <1>4 DEF Operator
<1>5. ASSUME NEW release \in Release, Begin(release)
       PROVE  Installed'
  BY <1>5 DEF Begin
<1>6. CASE Reuse
  BY <1>6 DEF Reuse
<1>7. CASE StartBuild
  BY <1>7 DEF StartBuild
<1>8. CASE FinishBuild
  BY <1>8 DEF FinishBuild
<1>9. CASE Capture
  BY <1>9 DEF Capture
<1>10. CASE StopTimer
  BY <1>10 DEF StopTimer
<1>11. CASE StopCollector
  BY <1>11 DEF StopCollector
<1>12. CASE StopApi
  BY <1>12 DEF StopApi
<1>13. CASE NewKey
  BY <1>13 DEF NewKey
<1>14. CASE SecondKey
  BY <1>14 DEF SecondKey
<1>15. CASE LoadKeys
  BY <1>15 DEF LoadKeys
<1>16. CASE CreateArchive
  BY <1>16 DEF CreateArchive
<1>17. CASE Migrate
  BY <1>17 DEF Migrate
<1>18. CASE Restore
  BY <1>18 DEF Restore
<1>19. CASE Switch
  BY <1>19 DEF Switch
<1>20. CASE Install
  BY <1>20 DEF Install
<1>21. CASE Restart
  BY <1>21 DEF Restart
<1>22. CASE Check
  BY <1>22 DEF Check
<1>23. CASE Resume
  BY <1>23 DEF Resume
<1>24. CASE ResumeTimer
  BY <1>24 DEF ResumeTimer
<1>25. CASE Prune
  BY <1>25 DEF Prune
<1>26. CASE Fail
  BY <1>26 DEF Fail
<1>27. CASE Clean
  BY <1>27 DEF Clean
<1>28. CASE Kill
  BY <1>28 DEF Kill
<1>29. CASE UNCHANGED vars
  BY <1>29 DEF vars
<1> QED
    BY <1>1, <1>2, <1>3, <1>4, <1>5, <1>6, <1>7, <1>8, <1>9, <1>10, <1>11, <1>12, <1>13,
     <1>14, <1>15, <1>16, <1>17, <1>18, <1>19, <1>20, <1>21, <1>22, <1>23, <1>24, <1>25,
     <1>26, <1>27, <1>28, <1>29 DEF Next, Deploy

\* The timer is remembered until it is restored, or given up as lost.
LEMMA ScheduledStep ==
  ASSUME TypeOK, Staged, Scheduled, [Next]_vars
  PROVE  Scheduled'
<1> USE DeploymentAssumption DEF None, Release, disk, units, script, history, Step, Failing,
       TypeOK, Timers, Pc, Staged, Early, Touched, Scheduled, Resumed
<1>1. CASE Fire
  BY <1>1 DEF Fire
<1>2. CASE CollectorEnds
  BY <1>2 DEF CollectorEnds
<1>3. CASE ApiRestarts
  BY <1>3 DEF ApiRestarts
<1>4. ASSUME NEW state \in Timers, Operator(state)
       PROVE  Scheduled'
  BY <1>4 DEF Operator
<1>5. ASSUME NEW release \in Release, Begin(release)
       PROVE  Scheduled'
  BY <1>5 DEF Begin
<1>6. CASE Reuse
  BY <1>6 DEF Reuse
<1>7. CASE StartBuild
  BY <1>7 DEF StartBuild
<1>8. CASE FinishBuild
  BY <1>8 DEF FinishBuild
<1>9. CASE Capture
  BY <1>9 DEF Capture
<1>10. CASE StopTimer
  BY <1>10 DEF StopTimer
<1>11. CASE StopCollector
  BY <1>11 DEF StopCollector
<1>12. CASE StopApi
  BY <1>12 DEF StopApi
<1>13. CASE NewKey
  BY <1>13 DEF NewKey
<1>14. CASE SecondKey
  BY <1>14 DEF SecondKey
<1>15. CASE LoadKeys
  BY <1>15 DEF LoadKeys
<1>16. CASE CreateArchive
  BY <1>16 DEF CreateArchive
<1>17. CASE Migrate
  BY <1>17 DEF Migrate
<1>18. CASE Restore
  BY <1>18 DEF Restore
<1>19. CASE Switch
  BY <1>19 DEF Switch
<1>20. CASE Install
  BY <1>20 DEF Install
<1>21. CASE Restart
  BY <1>21 DEF Restart
<1>22. CASE Check
  BY <1>22 DEF Check
<1>23. CASE Resume
  BY <1>23 DEF Resume
<1>24. CASE ResumeTimer
  BY <1>24 DEF ResumeTimer
<1>25. CASE Prune
  BY <1>25 DEF Prune
<1>26. CASE Fail
  BY <1>26 DEF Fail
<1>27. CASE Clean
  BY <1>27 DEF Clean
<1>28. CASE Kill
  BY <1>28 DEF Kill
<1>29. CASE UNCHANGED vars
  BY <1>29 DEF vars
<1> QED
    BY <1>1, <1>2, <1>3, <1>4, <1>5, <1>6, <1>7, <1>8, <1>9, <1>10, <1>11, <1>12, <1>13,
     <1>14, <1>15, <1>16, <1>17, <1>18, <1>19, <1>20, <1>21, <1>22, <1>23, <1>24, <1>25,
     <1>26, <1>27, <1>28, <1>29 DEF Next, Deploy

\* The current and the previous release are never newer than the target.
LEMMA OrderedStep ==
  ASSUME TypeOK, Ordered, Installed, [Next]_vars
  PROVE  Ordered'
<1> USE DeploymentAssumption DEF None, Release, disk, units, script, history, Step, Failing,
       TypeOK, Pc, Ordered, Installed
<1>1. CASE Fire
  BY <1>1 DEF Fire
<1>2. CASE CollectorEnds
  BY <1>2 DEF CollectorEnds
<1>3. CASE ApiRestarts
  BY <1>3 DEF ApiRestarts
<1>4. ASSUME NEW state \in Timers, Operator(state)
       PROVE  Ordered'
  BY <1>4 DEF Operator
<1>5. ASSUME NEW release \in Release, Begin(release)
       PROVE  Ordered'
  BY <1>5 DEF Begin
<1>6. CASE Reuse
  BY <1>6 DEF Reuse
<1>7. CASE StartBuild
  BY <1>7 DEF StartBuild
<1>8. CASE FinishBuild
  BY <1>8 DEF FinishBuild
<1>9. CASE Capture
  BY <1>9 DEF Capture
<1>10. CASE StopTimer
  BY <1>10 DEF StopTimer
<1>11. CASE StopCollector
  BY <1>11 DEF StopCollector
<1>12. CASE StopApi
  BY <1>12 DEF StopApi
<1>13. CASE NewKey
  BY <1>13 DEF NewKey
<1>14. CASE SecondKey
  BY <1>14 DEF SecondKey
<1>15. CASE LoadKeys
  BY <1>15 DEF LoadKeys
<1>16. CASE CreateArchive
  BY <1>16 DEF CreateArchive
<1>17. CASE Migrate
  BY <1>17 DEF Migrate
<1>18. CASE Restore
  BY <1>18 DEF Restore
<1>19. CASE Switch
  BY <1>19 DEF Switch
<1>20. CASE Install
  BY <1>20 DEF Install
<1>21. CASE Restart
  BY <1>21 DEF Restart
<1>22. CASE Check
  BY <1>22 DEF Check
<1>23. CASE Resume
  BY <1>23 DEF Resume
<1>24. CASE ResumeTimer
  BY <1>24 DEF ResumeTimer
<1>25. CASE Prune
  BY <1>25 DEF Prune
<1>26. CASE Fail
  BY <1>26 DEF Fail
<1>27. CASE Clean
  BY <1>27 DEF Clean
<1>28. CASE Kill
  BY <1>28 DEF Kill
<1>29. CASE UNCHANGED vars
  BY <1>29 DEF vars
<1> QED
    BY <1>1, <1>2, <1>3, <1>4, <1>5, <1>6, <1>7, <1>8, <1>9, <1>10, <1>11, <1>12, <1>13,
     <1>14, <1>15, <1>16, <1>17, <1>18, <1>19, <1>20, <1>21, <1>22, <1>23, <1>24, <1>25,
     <1>26, <1>27, <1>28, <1>29 DEF Next, Deploy

\* The archive of a mutated database is the previous release's, and holds its schema.
LEMMA ArchivedStep ==
  ASSUME TypeOK, Staged, Archived, OfCurrent, [Next]_vars
  PROVE  Archived'
<1> USE DeploymentAssumption DEF None, Release, disk, units, script, history, Step, Failing,
       TypeOK, Pc, Staged, Early, Touched, Archived, OfCurrent, BeforeMigration, AfterSwitch
<1>1. CASE Fire
  BY <1>1, MigratedSchema DEF Fire
<1>2. CASE CollectorEnds
  BY <1>2 DEF CollectorEnds
<1>3. CASE ApiRestarts
  BY <1>3, MigratedSchema DEF ApiRestarts
<1>4. ASSUME NEW state \in Timers, Operator(state)
       PROVE  Archived'
  BY <1>4 DEF Operator
<1>5. ASSUME NEW release \in Release, Begin(release)
       PROVE  Archived'
  BY <1>5 DEF Begin
<1>6. CASE Reuse
  BY <1>6 DEF Reuse
<1>7. CASE StartBuild
  BY <1>7 DEF StartBuild
<1>8. CASE FinishBuild
  BY <1>8 DEF FinishBuild
<1>9. CASE Capture
  BY <1>9 DEF Capture
<1>10. CASE StopTimer
  BY <1>10 DEF StopTimer
<1>11. CASE StopCollector
  BY <1>11 DEF StopCollector
<1>12. CASE StopApi
  BY <1>12 DEF StopApi
<1>13. CASE NewKey
  BY <1>13 DEF NewKey
<1>14. CASE SecondKey
  BY <1>14 DEF SecondKey
<1>15. CASE LoadKeys
  BY <1>15 DEF LoadKeys
<1>16. CASE CreateArchive
  BY <1>16 DEF CreateArchive
<1>17. CASE Migrate
  BY <1>17, MigratedSchema DEF Migrate
<1>18. CASE Restore
  BY <1>18 DEF Restore
<1>19. CASE Switch
  BY <1>19 DEF Switch
<1>20. CASE Install
  BY <1>20 DEF Install
<1>21. CASE Restart
  BY <1>21, MigratedSchema DEF Restart
<1>22. CASE Check
  BY <1>22 DEF Check
<1>23. CASE Resume
  BY <1>23 DEF Resume
<1>24. CASE ResumeTimer
  BY <1>24 DEF ResumeTimer
<1>25. CASE Prune
  BY <1>25 DEF Prune
<1>26. CASE Fail
  BY <1>26 DEF Fail
<1>27. CASE Clean
  BY <1>27 DEF Clean
<1>28. CASE Kill
  BY <1>28 DEF Kill
<1>29. CASE UNCHANGED vars
  BY <1>29 DEF vars
<1> QED
    BY <1>1, <1>2, <1>3, <1>4, <1>5, <1>6, <1>7, <1>8, <1>9, <1>10, <1>11, <1>12, <1>13,
     <1>14, <1>15, <1>16, <1>17, <1>18, <1>19, <1>20, <1>21, <1>22, <1>23, <1>24, <1>25,
     <1>26, <1>27, <1>28, <1>29 DEF Next, Deploy

\* Every step keeps the database the schema of its place in the script.
LEMMA OfCurrentStep ==
  ASSUME TypeOK, Staged, Quiet, Installed, Ordered, Archived, OfCurrent, [Next]_vars
  PROVE  OfCurrent'
<1> USE DeploymentAssumption DEF None, Release, disk, units, script, history, Step, Failing,
       TypeOK, Timers, Pc, Staged, Early, Touched, Quiet, QuietMigration, Installed, Ordered,
       Archived, OfCurrent, BeforeMigration, AfterSwitch, Recovered
<1>1. CASE Fire
  BY <1>1, MigratedSchema DEF Fire
<1>2. CASE CollectorEnds
  BY <1>2 DEF CollectorEnds
<1>3. CASE ApiRestarts
  BY <1>3, MigratedSchema DEF ApiRestarts
<1>4. ASSUME NEW state \in Timers, Operator(state)
       PROVE  OfCurrent'
  BY <1>4 DEF Operator
<1>5. ASSUME NEW release \in Release, Begin(release)
       PROVE  OfCurrent'
  BY <1>5 DEF Begin
<1>6. CASE Reuse
  BY <1>6 DEF Reuse
<1>7. CASE StartBuild
  BY <1>7 DEF StartBuild
<1>8. CASE FinishBuild
  BY <1>8 DEF FinishBuild
<1>9. CASE Capture
  BY <1>9 DEF Capture
<1>10. CASE StopTimer
  BY <1>10 DEF StopTimer
<1>11. CASE StopCollector
  BY <1>11 DEF StopCollector
<1>12. CASE StopApi
  BY <1>12 DEF StopApi
<1>13. CASE NewKey
  BY <1>13 DEF NewKey
<1>14. CASE SecondKey
  BY <1>14 DEF SecondKey
<1>15. CASE LoadKeys
  BY <1>15 DEF LoadKeys
<1>16. CASE CreateArchive
  BY <1>16 DEF CreateArchive
<1>17. CASE Migrate
  BY <1>17, MigratedSchema DEF Migrate
<1>18. CASE Restore
  BY <1>18 DEF Restore
<1>19. CASE Switch
  BY <1>19 DEF Switch
<1>20. CASE Install
  BY <1>20 DEF Install
<1>21. CASE Restart
  BY <1>21, MigratedSchema DEF Restart
<1>22. CASE Check
  BY <1>22 DEF Check
<1>23. CASE Resume
  BY <1>23 DEF Resume
<1>24. CASE ResumeTimer
  BY <1>24 DEF ResumeTimer
<1>25. CASE Prune
  BY <1>25 DEF Prune
<1>26. CASE Fail
  BY <1>26 DEF Fail
<1>27. CASE Clean
  BY <1>27 DEF Clean
<1>28. CASE Kill
  BY <1>28 DEF Kill
<1>29. CASE UNCHANGED vars
  BY <1>29 DEF vars
<1> QED
    BY <1>1, <1>2, <1>3, <1>4, <1>5, <1>6, <1>7, <1>8, <1>9, <1>10, <1>11, <1>12, <1>13,
     <1>14, <1>15, <1>16, <1>17, <1>18, <1>19, <1>20, <1>21, <1>22, <1>23, <1>24, <1>25,
     <1>26, <1>27, <1>28, <1>29 DEF Next, Deploy

-----------------------------------------------------------------------------
\* The state in which a release is installed satisfies every part.
LEMMA InitialState == Init => IInv
<1> SUFFICES ASSUME Init PROVE IInv
  OBVIOUS
<1> USE DeploymentAssumption DEF Init, None, Release, Timers
<1>1. TypeOK
  <2>1. First \in 1 .. Newest /\ First \in Nat
    OBVIOUS
  <2>2. dirs \in [1 .. Newest -> {"absent", "partial", "complete"}]
    OBVIOUS
  <2>3. archive \in [of : Nat, schema : Nat]
    OBVIOUS
  <2>4. pc \in Pc
    BY DEF Pc
  <2> QED
    BY <2>1, <2>2, <2>3, <2>4 DEF TypeOK
<1>2. Staged /\ Quiet /\ Installed /\ Scheduled /\ Ordered /\ Archived
  BY DEF Staged, Early, Touched, Failing, Quiet, QuietMigration, Installed, Pc, Scheduled,
         Ordered, Archived
<1>3. OfCurrent
  BY DEF OfCurrent, AfterSwitch, BeforeMigration, Early, Failing
<1> QED
  BY <1>1, <1>2, <1>3 DEF IInv

\* No step of the script, of systemd or of the operator breaks the invariant.
LEMMA InvariantStep == IInv /\ [Next]_vars => IInv'
BY TypeStep, StagedStep, QuietStep, InstalledStep, ScheduledStep, OrderedStep, ArchivedStep,
   OfCurrentStep DEF IInv

\* The invariant holds of any number of releases and of every sequence of deployments,
\* failures, kills, restarts and ticks of the timer (deploy.sh).
THEOREM Invariance == Spec => []IInv
<1>1. Init => IInv
  BY InitialState
<1>2. IInv /\ [Next]_vars => IInv'
  BY InvariantStep
<1> QED
  BY <1>1, <1>2, PTL DEF Spec

\* While the database is archived, migrated or restored nothing has it open and nothing
\* can start to (quiesce_collection, rollback_release).
THEOREM MigrationIsQuiet == Spec => []QuietMigration
<1>1. IInv => QuietMigration
  BY DEF IInv, Quiet
<1> QED
  BY <1>1, Invariance, PTL

\* What runs is complete and finds its own schema, after any failures and rollbacks
\* (cleanup_failed_release, rollback_release), unless a deployment could not finish.
THEOREM SchemaIsServed == Spec => []ServesItsSchema
<1>1. IInv => ServesItsSchema
  <2> SUFFICES ASSUME IInv, NEW release \in {api, collector} \ {None}
               PROVE  dirs[release] = "complete" /\ (stranded \/ schema = release)
    BY DEF ServesItsSchema
  <2>1. release = current /\ (api # None \/ collector # None)
    BY DEF IInv, TypeOK
  <2>2. dirs[current] = "complete"
    BY DEF IInv, Installed
  <2>3. stranded \/ schema = current
    <3> SUFFICES ASSUME ~stranded PROVE schema = current
      BY DEF IInv, TypeOK
    <3>1. CASE pc \in AfterSwitch
      BY <3>1 DEF IInv, OfCurrent
    <3>2. CASE pc \in BeforeMigration /\ ~Failing
      BY <3>2 DEF IInv, OfCurrent
    <3>3. CASE pc \in {"stop_timer", "stop_collector", "stop_api"} /\ Failing
      BY <2>1, <3>3 DEF IInv, OfCurrent
    <3>4. pc \notin {"restore", "switch"}
      BY <2>1 DEF IInv, Quiet, QuietMigration
    <3>5. pc \in {"backup", "second_key", "archive", "migrate"} \cup Early => ~Failing
      BY DEF IInv, Staged, Early, Failing
    <3> QED
      BY <3>1, <3>2, <3>3, <3>4, <3>5 DEF IInv, TypeOK, Pc, AfterSwitch, BeforeMigration, Early
  <2> QED
    BY <2>1, <2>2, <2>3
<1> QED
  BY <1>1, Invariance, PTL

\* A deployment that finishes, or rolls back, leaves the timer as the operator had it
\* (resume_collection_schedule).
THEOREM ScheduleIsRestored == Spec => []ScheduleRestored
<1>1. IInv => ScheduleRestored
  BY DEF IInv, Scheduled, ScheduleRestored
<1> QED
  BY <1>1, Invariance, PTL
=============================================================================
