------------------------------ MODULE Deployment ------------------------------
(***************************************************************************)
(* The deployment script beside what it deploys: the releases on disk, the *)
(* link to the current one, the database, its archive, and the units that  *)
(* systemd runs.  A lock admits one deployment at a time.  Any step of it  *)
(* may fail, which rolls back what was done, and it may be killed, which   *)
(* does not.                                                               *)
(*                                                                         *)
(* Every release brings a schema of its own, so that a database is known   *)
(* by the release that migrated it last.  The first deployment over a      *)
(* legacy checkout, and its database path, are not modelled.               *)
(***************************************************************************)
EXTENDS FiniteSetsExt, Integers

CONSTANTS Newest,       \* releases are tagged 1 .. Newest
          First         \* the release that is installed at the beginning

ASSUME DeploymentAssumption == Newest \in Nat /\ First \in 1 .. Newest

Release == 1 .. Newest
None == 0

VARIABLES current,      \* the release the link names
          dirs,         \* of each release: its directory
          schema,       \* of the database
          archive,      \* the one backup: the release it is for, the schema it holds
          keys,         \* how much of the signing key pair is saved
          api, collector,   \* the release each process runs, or None
          timer,        \* of the collection: enabled and active
          pc, flags,    \* of the script: its next step, and its flags that are set
          target, previous, captured,
          \* History, for the properties only:
          found,        \* the timer before this deployment
          lost,         \* a deployment ended without restoring the timer
          stranded      \* a deployment ended with another schema than the current release's

disk == <<current, dirs, archive, keys>>
units == <<api, collector, timer>>
script == <<flags, target, previous, captured>>
history == <<found, lost, stranded>>
vars == <<disk, schema, units, pc, script, history>>

Timers == [enabled : BOOLEAN, active : BOOLEAN]

Init ==
    /\ current = First /\ schema = First /\ api = First /\ collector = None
    /\ dirs = [r \in Release |-> IF r <= First THEN "complete" ELSE "absent"]
    /\ archive = [of |-> None, schema |-> None] /\ keys = "none"
    /\ timer \in Timers /\ found = timer /\ captured = timer
    /\ pc = "idle" /\ flags = {} /\ target = First /\ previous = First
    /\ lost = FALSE /\ stranded = FALSE

Migrated(release) == Max({schema, release})

-----------------------------------------------------------------------------
(* What systemd and the operator do. *)

\* The timer starts the collector, which migrates the database when it opens it.
Fire ==
    /\ timer.active /\ collector = None
    /\ collector' = current /\ schema' = Migrated(current)
    /\ UNCHANGED <<disk, api, timer, pc, script, history>>

CollectorEnds ==
    /\ collector # None /\ collector' = None
    /\ UNCHANGED <<disk, schema, api, timer, pc, script, history>>

\* A process that failed is started again, through the link.
ApiRestarts ==
    /\ api # None /\ api' = current /\ schema' = Migrated(current)
    /\ UNCHANGED <<disk, collector, timer, pc, script, history>>

\* The operator pauses or resumes the collection between deployments.
Operator(state) ==
    /\ pc = "idle" /\ timer' = state /\ found' = state
    /\ UNCHANGED <<disk, schema, api, collector, pc, script, lost, stranded>>

-----------------------------------------------------------------------------
(* A deployment, step by step.  A rollback goes through the same steps from the first *)
(* stop on, back to the previous release; "failing" tells them apart.                 *)

Failing == "failing" \in flags
Step(from, to) == pc = from /\ pc' = to

\* The head of main never moves back.  Deploying the current release only checks it.
Begin(release) ==
    /\ pc = "idle" /\ release >= target
    /\ target' = release /\ previous' = current /\ flags' = {}
    /\ pc' = IF release = current THEN "idle" ELSE "build"
    /\ found' = timer /\ lost' = FALSE
    /\ UNCHANGED <<disk, schema, units, captured, stranded>>

\* A release that is there is reused; an incomplete one only fails.
Reuse ==
    /\ dirs[target] = "complete" /\ Step("build", "capture")
    /\ UNCHANGED <<disk, schema, units, script, history>>

StartBuild ==
    /\ dirs[target] = "absent" /\ Step("build", "building")
    /\ dirs' = [dirs EXCEPT ![target] = "partial"] /\ flags' = flags \union {"built"}
    /\ UNCHANGED <<current, archive, keys, schema, units, target, previous, captured, history>>

FinishBuild ==
    /\ Step("building", "capture") /\ dirs' = [dirs EXCEPT ![target] = "complete"]
    /\ UNCHANGED <<current, archive, keys, schema, units, script, history>>

\* The state of the timer is known before anything is stopped.
Capture ==
    /\ Step("capture", "stop_timer")
    /\ captured' = timer /\ flags' = flags \union {"quiesced"}
    /\ UNCHANGED <<disk, schema, units, target, previous, history>>

StopTimer_serviceOnly ==
    /\ Step("stop_timer", "stop_collector")
    /\ UNCHANGED <<disk, schema, units, script, history>>
StopTimer ==
    /\ Step("stop_timer", "stop_collector") /\ timer' = [timer EXCEPT !.active = FALSE]
    /\ UNCHANGED <<disk, schema, api, collector, script, history>>

StopCollector ==
    /\ Step("stop_collector", "stop_api")
    /\ collector' = None /\ flags' = flags \union {"cutover"}
    /\ UNCHANGED <<disk, schema, api, timer, target, previous, captured, history>>

StopApi ==
    /\ Step("stop_api", IF Failing THEN "restore" ELSE "backup") /\ api' = None
    /\ UNCHANGED <<disk, schema, collector, timer, script, history>>

\* The first backup makes a key pair, in two files.  One without the other is refused.
NewKey ==
    /\ Step("backup", "second_key") /\ keys = "none" /\ keys' = "one"
    /\ UNCHANGED <<current, dirs, archive, schema, units, script, history>>

SecondKey ==
    /\ Step("second_key", "archive") /\ keys' = "both"
    /\ UNCHANGED <<current, dirs, archive, schema, units, script, history>>

LoadKeys ==
    /\ Step("backup", "archive") /\ keys = "both"
    /\ UNCHANGED <<disk, schema, units, script, history>>

\* The archive replaces the one of the deployment before.
CreateArchive ==
    /\ Step("archive", "migrate")
    /\ archive' = [of |-> previous, schema |-> schema] /\ flags' = flags \union {"mutated"}
    /\ UNCHANGED <<current, dirs, keys, schema, units, target, previous, captured, history>>

Migrate ==
    /\ Step("migrate", "switch") /\ schema' = Migrated(target)
    /\ UNCHANGED <<disk, units, script, history>>

\* Restored from the archive, if the database was touched.
Recovered_never == schema
Recovered == IF "mutated" \in flags THEN archive.schema ELSE schema

\* An archive that is for another release is refused.
Restore ==
    /\ Step("restore", "switch") /\ ("mutated" \in flags => archive.of = previous)
    /\ schema' = Recovered
    /\ UNCHANGED <<disk, units, script, history>>

Switch ==
    /\ Step("switch", "install") /\ current' = IF Failing THEN previous ELSE target
    /\ UNCHANGED <<dirs, archive, keys, schema, units, script, history>>

\* Installing the units enables the timer, and stops it.
Install ==
    /\ Step("install", "restart") /\ timer' = [enabled |-> TRUE, active |-> FALSE]
    /\ UNCHANGED <<disk, schema, api, collector, script, history>>

Restart ==
    /\ Step("restart", "check") /\ api' = current /\ schema' = Migrated(current)
    /\ UNCHANGED <<disk, collector, timer, script, history>>

\* Healthy, of the revision that was installed, and nothing collects.
Check ==
    /\ Step("check", "resume") /\ api = current /\ (Failing \/ collector = None)
    /\ UNCHANGED <<disk, schema, units, script, history>>

Resume ==
    /\ Step("resume", "resume_timer") /\ timer' = [timer EXCEPT !.enabled = captured.enabled]
    /\ UNCHANGED <<disk, schema, api, collector, script, history>>

Resumed_started == TRUE
Resumed == captured.active

\* The deployment, or its rollback, is done: the database is the current release's.
ResumeTimer ==
    /\ Step("resume_timer", IF Failing THEN "clean" ELSE "prune")
    /\ timer' = [timer EXCEPT !.active = Resumed]
    /\ flags' = flags \ {"quiesced", "cutover", "mutated"}
    /\ stranded' = (stranded /\ schema # current)
    /\ UNCHANGED <<disk, schema, api, collector, target, previous, captured, found, lost>>

\* Besides the current release and the one to roll back to, the newest other is kept.
Prune ==
    /\ Step("prune", "idle")
    /\ LET others == {r \in Release : dirs[r] # "absent"} \ {target, previous}
       IN  \E removed \in {{}, {r \in others : r # Max(others)}} :
               dirs' = [r \in Release |-> IF r \in removed THEN "absent" ELSE dirs[r]]
    /\ UNCHANGED <<current, archive, keys, schema, units, script, history>>

-----------------------------------------------------------------------------
(* A deployment that fails. *)

\* The exit trap: a half-built release is removed, and what was stopped is started.
Fail ==
    /\ pc \notin {"idle", "clean", "prune"}
    /\ dirs' = [dirs EXCEPT ![target] = IF pc = "building" THEN "absent" ELSE @]
    /\ flags' = flags \union {"failing"}
    /\ pc' = IF Failing THEN "clean"
             ELSE IF "cutover" \in flags THEN "stop_timer"
             ELSE IF "quiesced" \in flags THEN "resume" ELSE "clean"
    /\ lost' = (lost \/ (Failing /\ "quiesced" \in flags))
    /\ stranded' = (stranded \/ (Failing /\ schema # current))
    /\ UNCHANGED <<current, archive, keys, schema, units, target, previous, captured, found>>

\* A release this deployment built is removed, unless it is the current one.
Clean ==
    /\ Step("clean", "idle")
    /\ dirs' = [dirs EXCEPT ![target] =
                    IF "built" \in flags /\ current # target THEN "absent" ELSE @]
    /\ UNCHANGED <<current, archive, keys, schema, units, script, history>>

\* No trap runs; the lock is released.
Kill ==
    /\ pc # "idle" /\ pc' = "idle"
    /\ lost' = (lost \/ "quiesced" \in flags)
    /\ stranded' = (stranded \/ schema # current)
    /\ UNCHANGED <<disk, schema, units, script, found>>

Deploy ==
    \/ \E release \in Release : Begin(release)
    \/ Reuse \/ StartBuild \/ FinishBuild
    \/ Capture \/ StopTimer \/ StopCollector \/ StopApi
    \/ NewKey \/ SecondKey \/ LoadKeys \/ CreateArchive
    \/ Migrate \/ Restore \/ Switch \/ Install \/ Restart \/ Check
    \/ Resume \/ ResumeTimer \/ Prune
    \/ Fail \/ Clean \/ Kill

Next ==
    \/ Fire \/ CollectorEnds \/ ApiRestarts
    \/ \E state \in Timers : Operator(state)
    \/ Deploy

Spec == Init /\ [][Next]_vars

-----------------------------------------------------------------------------
(* Properties *)

\* Nothing reads or writes the database while it is archived, migrated or restored, and
\* nothing can start to, whatever the timer and the processes did before.
QuietMigration ==
    pc \in {"backup", "second_key", "archive", "migrate", "restore", "switch"}
        => api = None /\ collector = None /\ ~timer.active

\* What runs is installed completely and finds the schema it knows, after any failures and
\* rollbacks, unless a deployment could not finish (a kill, a rollback that failed) while
\* the database was of another release.
ServesItsSchema ==
    \A release \in {api, collector} \ {None} :
        dirs[release] = "complete" /\ (stranded \/ schema = release)

\* A deployment leaves the timer as the operator had it, paused or not, whether it succeeds
\* or fails, unless it could not finish.
ScheduleRestored == pc = "idle" => lost \/ timer = found
=============================================================================
