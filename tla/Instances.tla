----------------------------- MODULE Instances -----------------------------
(***************************************************************************)
(* The processes that use one data folder: the application (main.py), the  *)
(* installer's --seed-config, and scheduled runs (scheduled_run.py); the   *)
(* lock between them (services/singleinstance.py), and how each opens and  *)
(* upgrades the database (db/connection.py, db/migrations.py).  ALTER and  *)
(* CREATE are transactions of their own.  A process may end at any step;   *)
(* the operating system then frees its lock.                               *)
(* Not here: the logs and their pruning, the window, the unique indexes    *)
(* (Registration), and what a run does for an event (EventStatus).         *)
(***************************************************************************)
EXTENDS Settings, SignIn

CONSTANTS Proc, KindOf, Nobody,
          EventId,   \* the registered events
          Seeds,     \* the install configuration files there may be
          Scenarios  \* bounds: the database found, and what may be done to it

Kind == {"ui", "seed", "run"}
SCHEMA_VERSION == 2
Columns == <<"cutoff_enabled", "cutoff_time">>   \* what version 2 has added to events
AllColumns == {Columns[i] : i \in DOMAIN Columns}
SeedOrder == <<"cloud", "email", "schedule", "retry", "retention", "folders">>

(* What _get reads in the rows found.                                      *)
FoundSettings(rows) ==
  [k \in Key |-> IF k \in DOMAIN rows /\ rows[k] # Absent THEN rows[k] ELSE Blank]

(* The settings found were saved by these pages, and Windows was told.     *)
FoundAsSaved(found, registered) ==
  /\ {found.rpi, found.assets} \subseteq Place \cup {Blank}
  /\ Apart(RpiFolder(found.rpi), AssetFolder(found.assets))
  /\ OnIsComplete(found, "enabled", {"days", "time", "username"})
  /\ OnIsComplete(found, "notify", {"recipient", "sender", "connection"})
  /\ registered = IF found.enabled = 1 THEN TaskOf(found) ELSE NoTask

ASSUME InstancesAssumption ==
  /\ KindOf \in [Proc -> Kind] /\ Nobody \notin Proc
  /\ \A s \in Seeds : \A g \in DOMAIN s : g \in Group /\ IsForm(g, s[g])
  /\ \A s \in Scenarios :
       /\ s.version \in Nat /\ s.crashes \in Nat /\ s.starts \subseteq Proc
       /\ DOMAIN s.rows \subseteq Key /\ FoundAsSaved(FoundSettings(s.rows), s.task)
       /\ s.password \in Password \cup {NoPassword}

VARIABLES
  lock,      \* the process that holds the lock of ledsync.lock
  proc,      \* what each process is at, and what it has read
  version,   \* PRAGMA user_version; 0: a new file
  columns,   \* the added columns that the table of events has; "none": no table yet
  startable, \* bound: the processes that may be started
  crashes    \* bound: how often one may end in the middle

instanceVars == <<lock, proc, version, columns, startable, crashes>>
vars == <<instanceVars, settingVars, signInVars>>

Off == [step |-> "off", version |-> 0, columns |-> {}, file |-> Absent, todo |-> {}]
At(p, step) == proc[p].step = step
To(p, step) == proc' = [proc EXCEPT ![p].step = step]
Exit(p) == proc' = [proc EXCEPT ![p] = Off] /\ lock' = IF lock = p THEN Nobody ELSE lock

Opening == {"opening", "creating", "stamping", "migrating", "adding", "verifying"}
Working == {"seeding", "serving", "running"}

Steps == Opening \cup Working \cup {"off", "opened"}
State == [step : Steps, version : Nat,
          columns : SUBSET (AllColumns \cup {"none"}), file : Seeds \cup {Absent},
          todo : SUBSET (EventId \cup Group)]

TypeOK ==
  /\ SettingsTypeOK /\ SignInTypeOK
  /\ lock \in Proc \cup {Nobody}
  /\ version \in Nat /\ columns \subseteq AllColumns \cup {"none"}
  /\ proc \in [Proc -> State]

Init ==
  /\ SettingsInit /\ SignInInit
  /\ lock = Nobody /\ proc = [p \in Proc |-> Off]
  /\ \E s \in Scenarios :
       /\ version = s.version /\ crashes = s.crashes /\ startable = s.starts
       /\ columns = CASE version = 0 -> {"none"} [] version = 1 -> {} [] OTHER -> AllColumns
       /\ setting = [k \in Key |-> IF k \in DOMAIN s.rows THEN s.rows[k] ELSE Absent]
       /\ task = s.task /\ password = s.password /\ posts = s.posts /\ tries = s.tries
-----------------------------------------------------------------------------
(* Deviations the run must be able to see                                  *)
IsFreeAnyway(p) == TRUE                 \* the lock is not asked for
MissingAll(p) == AllColumns             \* a migration that cannot be run again
NextToOne(p) ==                         \* taken for a version that needs no migration
  IF proc[p].version < SCHEMA_VERSION THEN "stamping" ELSE "verifying"
SeedsAnyway == TRUE                     \* an upgrade is taken for an installation
-----------------------------------------------------------------------------
(* A process starts and tries the lock, once.  A scheduled run that does   *)
(* not get it goes on to record that it was skipped.                       *)
IsFree(p) == lock = Nobody

Start(p) ==
  /\ At(p, "off") /\ p \in startable
  /\ startable' = IF KindOf[p] = "run" THEN startable ELSE startable \ {p}
  /\ \/ IsFree(p) /\ lock' = p /\ To(p, "opening")
     \/ ~IsFree(p) /\ KindOf[p] = "run" /\ To(p, "opening") /\ UNCHANGED lock
     \/ ~IsFree(p) /\ KindOf[p] # "run" /\ UNCHANGED <<lock, proc>>
  /\ UNCHANGED <<version, columns, crashes>>

(* init_db: the version is read; a newer one is refused.                   *)
ReadVersion(p) ==
  /\ At(p, "opening")
  /\ IF version > SCHEMA_VERSION THEN Exit(p)
     ELSE proc' = [proc EXCEPT ![p].step = "creating", ![p].version = version] /\ UNCHANGED lock
  /\ UNCHANGED <<version, columns, startable, crashes>>

NextToTables(p) ==
  CASE proc[p].version = 0 -> "stamping"
    [] proc[p].version = SCHEMA_VERSION -> "verifying"
    [] OTHER -> "migrating"

(* The tables are created as they are now where there are none.            *)
CreateTables(p) ==
  /\ At(p, "creating")
  /\ columns' = IF columns = {"none"} THEN AllColumns ELSE columns
  /\ To(p, NextToTables(p))
  /\ UNCHANGED <<lock, version, startable, crashes>>

(* The migration to version 2 reads which columns there are ...            *)
ReadColumns(p) ==
  /\ At(p, "migrating")
  /\ proc' = [proc EXCEPT ![p].step = "adding", ![p].columns = columns]
  /\ UNCHANGED <<lock, version, columns, startable, crashes>>

(* ... and adds what was missing, one by one; a column that has come into  *)
(* being since is an error.                                                *)
Missing(p) == AllColumns \ proc[p].columns

AddColumn(p) ==
  /\ At(p, "adding")
  /\ \/ Missing(p) = {} /\ To(p, "stamping") /\ UNCHANGED <<lock, columns>>
     \/ \E i \in DOMAIN Columns :
          /\ Columns[i] \in Missing(p) /\ \A j \in 1 .. i - 1 : Columns[j] \notin Missing(p)
          /\ IF Columns[i] \in columns THEN Exit(p) /\ UNCHANGED columns
             ELSE /\ columns' = columns \cup {Columns[i]}
                  /\ proc' = [proc EXCEPT ![p].columns = @ \cup {Columns[i]}] /\ UNCHANGED lock
  /\ UNCHANGED <<version, startable, crashes>>

Stamp(p) ==
  /\ At(p, "stamping")
  /\ version' = SCHEMA_VERSION /\ To(p, "verifying")
  /\ UNCHANGED <<lock, columns, startable, crashes>>

Verify(p) ==
  /\ At(p, "verifying")
  /\ IF columns = AllColumns THEN To(p, "opened") /\ UNCHANGED lock ELSE Exit(p)
  /\ UNCHANGED <<version, columns, startable, crashes>>
-----------------------------------------------------------------------------
(* The application: _seed_and_log_startup, then the server.                *)
Serve(p) ==
  /\ At(p, "opened") /\ KindOf[p] = "ui"
  /\ SeedAdmin /\ To(p, "serving")
  /\ UNCHANGED <<lock, version, columns, startable, crashes>>

(* A file may fill the schedule in, but not switch it on.                  *)
load_config_file(s) == "schedule" \in DOMAIN s => s["schedule"].enabled = 0

(* Not if there is any setting, the administrator's included.              *)
should_seed == ~AnySetting /\ password = NoPassword

(* The file is applied if it can be read, and it is rejected otherwise.    *)
BeginSeed(p) ==
  /\ At(p, "opened") /\ KindOf[p] = "seed"
  /\ \/ /\ should_seed /\ UNCHANGED lock
        /\ \E s \in {s \in Seeds : load_config_file(s)} :
             proc' = [proc EXCEPT ![p].step = "seeding", ![p].file = s, ![p].todo = DOMAIN s]
     \/ Exit(p)
  /\ UNCHANGED <<version, columns, startable, crashes>>

(* Each group is saved in a transaction of its own, in this order; one     *)
(* that is rejected ends the seeding.                                      *)
SeedGroup(p, g) ==
  /\ At(p, "seeding") /\ g \in proc[p].todo
  /\ \E i \in DOMAIN SeedOrder :
       SeedOrder[i] = g /\ \A j \in 1 .. i - 1 : SeedOrder[j] \notin proc[p].todo
  /\ IF Valid(g, proc[p].file[g])
     THEN /\ setting' = Written(g, proc[p].file[g], 1)
          /\ IF proc[p].todo = {g} THEN Exit(p)
             ELSE proc' = [proc EXCEPT ![p].todo = @ \ {g}] /\ UNCHANGED lock
     ELSE Exit(p) /\ UNCHANGED setting
  /\ UNCHANGED <<version, columns, startable, crashes>>

(* A scheduled run: the start's housekeeping, then one event after another *)
(* whatever becomes of each; or the row that says it was skipped.          *)
BeginRun(p) ==
  /\ At(p, "opened") /\ KindOf[p] = "run" /\ lock = p
  /\ SeedAdmin
  /\ IF Stored("account") # Blank /\ Stored("key") # Blank /\ EventId # {}
     THEN proc' = [proc EXCEPT ![p].step = "running", ![p].todo = EventId] /\ UNCHANGED lock
     ELSE Exit(p)
  /\ UNCHANGED <<version, columns, startable, crashes>>

RunEvent(p, e) ==
  /\ At(p, "running") /\ e \in proc[p].todo
  /\ IF proc[p].todo = {e} THEN Exit(p)
     ELSE proc' = [proc EXCEPT ![p].todo = @ \ {e}] /\ UNCHANGED lock
  /\ UNCHANGED <<version, columns, startable, crashes>>

RecordSkipped(p) ==
  /\ At(p, "opened") /\ KindOf[p] = "run" /\ lock # p
  /\ Exit(p) /\ UNCHANGED <<version, columns, startable, crashes>>
-----------------------------------------------------------------------------
(* The window is closed, or the process ends wherever it is.               *)
Close(p) ==
  /\ At(p, "serving") /\ Exit(p)
  /\ DropRequests /\ ForgetSessions
  /\ UNCHANGED <<version, columns, startable, crashes>>

Crash(p) ==
  /\ ~At(p, "off") /\ ~At(p, "serving") /\ crashes > 0 /\ crashes' = crashes - 1
  /\ Exit(p) /\ UNCHANGED <<version, columns, startable>>

OpenStep(p) ==
  /\ \/ Start(p) \/ ReadVersion(p) \/ CreateTables(p) \/ ReadColumns(p) \/ AddColumn(p)
     \/ Stamp(p) \/ Verify(p) \/ RecordSkipped(p) \/ BeginSeed(p) \/ Crash(p)
     \/ \E e \in EventId : RunEvent(p, e)
  /\ UNCHANGED <<settingVars, signInVars>>

SeedStep(p) ==
  /\ \E g \in Group : SeedGroup(p, g)
  /\ UNCHANGED <<signInVars, task, req, posts, mixed, failed>>

(* The first steps after opening, each of which seeds the administrator.   *)
AdminStep(p) ==
  /\ Serve(p) \/ BeginRun(p)
  /\ UNCHANGED <<settingVars, attempts, locked, epoch, session, attempt, tries, served>>

CloseStep(p) ==
  /\ Close(p)
  /\ UNCHANGED <<setting, task, posts, mixed, password, tries>>

(* Pages are there while the application runs.  (That the settings' pages  *)
(* ask for the sign-in is not tied in: the scenarios have the one or the   *)
(* other.)                                                                 *)
IsServing == \E p \in Proc : At(p, "serving")

PageStep ==
  /\ IsServing /\ UNCHANGED instanceVars
  /\ \/ SettingsNext /\ NoteMixing /\ UNCHANGED signInVars
     \/ SignInNext /\ UNCHANGED settingVars

Next ==
  \/ \E p \in Proc : OpenStep(p) \/ SeedStep(p) \/ AdminStep(p) \/ CloseStep(p)
  \/ PageStep

(* A process that has started goes on, and scheduled runs start again and  *)
(* again: Windows starts what is registered.                               *)
Fairness ==
  \A p \in Proc : KindOf[p] = "run" => WF_vars((OpenStep(p) \/ AdminStep(p)) /\ crashes' = crashes)

Spec == Init /\ [][Next]_vars /\ Fairness
-----------------------------------------------------------------------------
(* At most one process seeds, serves or runs, through crashes and skipped  *)
(* starts (singleinstance.py:11).                                          *)
OneWorks ==
  \A p, q \in Proc : proc[p].step \in Working /\ proc[q].step \in Working => p = q

(* A database that says it is of this version has all of its columns,      *)
(* however openings by several processes overlap and are cut off           *)
(* (migrations.py:11), and a newer one is left as it is (connection.py:40).*)
StampedIsComplete ==
  version = SCHEMA_VERSION => columns = AllColumns

(* Seeding replaces nothing: what it writes had no row, at an upgrade, a   *)
(* second installation, or after a seeding that was cut off                *)
(* (install_config.py:9).                                                  *)
SeedingIsFirst ==
  [][\A p \in Proc : SeedStep(p) =>
       \A k \in Key : setting'[k] # setting[k] => setting[k] = Absent]_vars

(* An upgrade that was cut off between its columns is finished by a later  *)
(* start, whichever process makes it (migrations.py:30).                   *)
UpgradeCompletes == version = 1 ~> version = SCHEMA_VERSION

(* What the docstring of seed says: a file that is rejected has touched    *)
(* nothing.                                                                *)
RejectedTouchesNothing ==
  [][\A p \in Proc, g \in Group :
       (SeedGroup(p, g) /\ ~Valid(g, proc[p].file[g])) => ~AnySetting]_vars
=============================================================================
