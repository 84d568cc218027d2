# Verification of the LED asset download and sync application

The program (`src/ledsync`) brings the files of registered events from Azure
Blob Storage to a venue computer and on to the LED devices. A web application
writes the files and a change log in Azure; this program reads both and never
writes there. It is one Flask process with background threads, one SQLite
database, local folders, and Windows shares; a second, headless process runs on
a schedule and never at the same time as the first.

This directory holds TLA+ modules translated from that code, the TLC runs that
check them, and TLAPS proofs. `PROJECT.json` maps every definition to the lines
it stands for and lists the hazards each property is for.

## 1. Inventory

| component | state it keeps | operations | talks to | what makes it correct |
|---|---|---|---|---|
| Job registry (`services/downloads.py`, `progress.py`) | latest run of each event, its state, summary, `seen`, cancel flag | start, worker thread ends, take summaries, cancel | pages (lock, shared `Progress`), engines (work) | one run per event; finished implies a summary; outcomes final; every run ends |
| Event run (`downloads._run_job`) | nothing of its own | check, RPI engine, asset engine, push, refresh status, check again | all engines | a stopped or cancelled download pushes nothing; the status is refreshed |
| Pages (`web/views*.py`, `static/js`) | what each tab shows; stored check reports | load, poll, reload, start, cancel | registry, check | every outcome is displayed; an old report is not |
| Change check (`services/changes.py`) | none (reads the history, the log, the cut-off) | local_state, compare, _decide, add_azure_files | Azure, history | decisions follow the latest entry; the cut-off only holds back |
| Download engine (`transfer.py`, `assets.py`, `rpi.py`) | `download_history`, the run's listing | download, remove, repair, retry, stop, cancel | Azure, disk, exceptions | honest records; everything gets here in the end |
| Local files (`localfiles.py`) | files, temporaries | write_stream, delete, push_file with its watcher, run_limited | disk, device shares | never half a file; an abandoned copy does no harm |
| Synchronisation (`sync.py`) | `sync_history` | plan, test devices, push, remove | mappings, devices | what is left alone is in place; removals take only what is ours |
| Mappings, connectivity (`mappings.py`, `connectivity.py`) | `led_mappings` and test results | save, test, reconcile | sync, registration, pages | one folder for each LED; a test result belongs to the folder shown |
| Azure reading (`storage.py`, `cloud.py`, `changelog.py`) | one listing per run | find_blob, list_files, iter_blob, parse the log | Azure | a file is of one version; names match in any letter case |
| Registration (`registration.py`, `structure.py`) | `events`, pending confirmations | register, re-register with a confirmed GUID | mappings, pages | a GUID belongs to one event; a confirmation is for what was confirmed |
| Status and exceptions (`eventstatus.py`, `exceptions.py`) | `events.status`, `exception_log` | refresh; record, acknowledge, resolve | all | attention exactly while something needs it |
| Sign-in (`auth.py`, `web/security.py`) | throttle, password, session epoch | attempt, change password, sign out | pages | attempts are counted; a change ends other sessions |
| Processes, schedule (`main.py`, `scheduled_run.py`, `singleinstance.py`, `scheduler.py`) | OS lock, Windows task | start, skip, register the task | database | one process works on a data folder |
| Database (`db/`) | schema version | create, migrate, verify | all | an interrupted upgrade can go on |
| Settings, installation (`settings.py`, `install_config.py`) | `application_settings` | save a group, seed | all | all or nothing |
| Logs, e-mail, shell (`oplog.py`, `localchangelog.py`, `events.py`, `email_notify.py`, `web/app.py`, ...) | append-only rows | record, format | people | decide nothing |

What is hard here: requests, worker threads and page scripts interleave with no
common lock; the disk (or a device) and the database change in two steps with a
possible crash between; the change log is out of order; listings, plans and
tests are used long after they were read; threads that were given up go on; and
runs are cut short by limits, cancels and retries and must still get everything
done over several runs. `PROJECT.json` lists each at its line.

## 2. Plan

Built:

1. `RunLifecycle` (abstract), `JobRegistry`, `Dashboard` (EXTENDS the registry),
   `JobRegistryProofs`;
2. `Changes` (pure decisions), `Transfer` (EXTENDS it), `TransferProofs`;
3. `Sync`, `SyncProofs`;
4. `EventStatus` (EXTENDS `Sync`), `EventStatusProofs`: the status of an event over
   its downloads, pushes, mappings and tests;
5. `Mappings`, `Registration` (EXTENDS it), `RegistrationProofs`; `Reports`
   (EXTENDS both: what the check of an event and its page make of registrations
   and downloads), `ReportsProofs` (EXTENDS `RegistrationProofs`);
6. `Settings`, `SignIn`, `Instances` (EXTENDS both: the processes, the database
   and its migration, seeding), `InstancesProofs`, `SettingsProofs` (EXTENDS it).

Every safety property of a passing run is now a theorem (section 6). To come:

7. `EventRun`: the phases of `_run_job` over the registry with its early returns,
   and the counters of `Progress`: what a page shows of a run adds up.
8. `Paths`: classification and collision keys of `changes.py` as operators,
   checked against a reference definition over small alphabets.

## 3. The modules

### JobRegistry, Dashboard, RunLifecycle

A `Job` is an object of `downloads.Job`, numbered as it is created. A block
under the registry's lock is one action (`Start`, `Take`); what happens outside
is an action of its own, so `ThreadStarts`, `WorkReturns`/`WorkRaises` and `End`
(the thread's last statement) interleave with everything, and a Cancel is two
steps (`CancelFetch`, `CancelSet`) that may straddle the end of the run.
`work` is abstracted to how it ends. `Dashboard` adds tabs: the route reads what
is running (`Load`), later takes the summaries (`Display`), and the script polls
and decides about reloading (`Poll`, `MustReload`), as `dashboard.js` and
`changes.js` do. `RunLifecycle` says what the pages are promised: per event idle,
running, finished, shown. `Lifecycle` is the INSTANCE with
`phase <- [e \in Event |-> PhaseOf(e)]`, and `ImplementsLifecycle` is checked and,
for its safety part, proved.

### Changes, Transfer

`Changes` holds the decisions as operators: `LatestRecord` (local_state),
`Latest` (compare), `Boundary` (cutoff_boundary), `Decide`, `DecideUnlogged`,
`Comparison` (the rows of compare and add_azure_files), `NeedsRepair`. A file stands for the key its paths are grouped by.
`Transfer` is one event: the cloud (external: uploads, removals, and log lines
written later and out of order), a check in two reads (`ReadLog`, `ListAzure`),
the list of work with repairs, and the loop of `transfer.run` one item at a time:
locate in the run's cached listing, stream, record. Between the file's rename
(`Stream`, `DeleteFile`) and its row (`Commit`) there is a state, in which the
process may end or the database may fail. `record` is what `local_state` would
compute, `open` the files with an unresolved exception. A version is the time of
its upload, so "newer" can be compared on disk, in Azure and in the history.

### Sync

Files, LEDs, folders and events are constants; a destination is a folder and a
name, as the path that keys `sync_history`. `plan` is one step (database only),
`TestDestinations` another, then every item is a transfer and a record. Runs of
several events go on at once, and mappings are saved at any time (`MidRun`) or
only between runs. `PushStalls` and `LateRename` are the watcher of `push_file`
and the thread it gave up; they are only in `StallSpec`, since the code gives no
guarantee there. `ours` and `sent` are computed from `sync_history` as in `plan`.

### EventStatus

`compute` is the operator, with `Waiting` (the plan), `Unresolved`, `AllSent` and
`AllReady`; `refresh` is two steps, `Read` and `Store`, of a run or of the event's
page, since between the last read and the write anything may happen. Whatever a
thread changes makes it owe a refresh (`Owes`), as `_run_job`, `save_or_test` and
`_run_tests` end with one. `Fetch` is the download half file by file, `Push` any
step of `Sync` for the event, `Save` and `Test` are the page. What the code does
not promise is named in `excused`: two refreshes that overlap, a mapping of
another event that uses the same folder, a refresh that never came.

### Mappings, Registration

Each action is one read or one transaction: the server is threaded, so the
request of a tab can be stopped between its statements. `Details`, `ReadRows`,
`EnsureRows` are a GET of the page of an event, `Post`, `Validate`, `Save`,
`PickTargets`, `RecordTest` a POST. `Reconcile` is the same operator for the page
and for registrations, which are `NewEvent`, `LookUp`, `Search`, `Insert`, and, when
the GUID differs, `Mismatch`, `ShowPending`, `Confirm`, `Search`, `Update`. A pending
request is known by its token; the tabs share one cookie, which is why `screen`
(what a tab shows) and `cookie` (what the session holds) are different variables.
The unique indexes are the guard `IndexAllows`.

### Reports

`Begin`, `LoadStructure`, `Fetch`, `ReadHistory` (twice) are the reads of
`check_event` in their order, by a request or at the end of a run; `Report` stores
what came of them in the dictionary that all threads share. `Open`,
`JudgeRegistration`, `JudgeHistory`, `Drop` are the page with the two reads of
`is_current`. Meanwhile `Record` adds history rows (the program deletes none, so the
count is the marker) and every action of `Registration` may be taken. A report is
known by the structure and the length of the history it was made from.

### Settings, SignIn, Instances

`Settings` saves a group key by key: a key that is current is passed over
(`PassOver`) before the transaction; the first one that is not begins it, and the
rest of the save is one step (`Write`). The schedule first goes to Windows
(`Register`, `Unregister`), which may do it, refuse, or do it and not answer.
`SignIn` counts attempts and compares passwords in separate steps, as the throttle
has its own lock and the password is in the database. `Instances` has the
processes: `Start` takes the lock or not, opening the database is `ReadVersion`,
`CreateTables`, `ReadColumns`, `AddColumn` (each an autocommitted statement), `Stamp`,
`Verify`; then a process seeds, serves pages (the actions of the other two
modules), or runs. (`migrations.py:10-12` says that a migration has its own
transaction and is never half applied. Its ALTER statements commit by themselves
in Python's sqlite3; `StampedIsComplete` and `UpgradeCompletes` show that the
states in between do no harm.)

## 4. Runs

| run | question | bounds, and why they suffice | result |
|---|---|---|---|
| `jobs` | do starts, threads, cancels and two pages respect the registry's promises? | 2 events, 2 runs, 1 canceller, a dashboard and a Change Log tab: two runs are enough for a race of starts, for a run that replaces another, and for two that overlap | holds |
| `transfer` | do downloads and removals converge with honest records? | two logged files and one put in Azure by hand, 3 changes, a fault of any kind, at most 2 files a run, a day of 3 instants with the cut-off at 1, so that work lies before, at and after it in one check and is let through by a later one: enough for upload, replacement and removal of one file, log lines late and out of order, and for a file that a run leaves to the next | holds (690,000 states) |
| `sync` | do devices converge, and does what is left alone lie in place? | 2 events, files of the same name, folders of which one may be shared, 2 saves, 1 fault, saves at any time | holds (411,000) |
| `status` | is the stored status what the tables say? | 2 events with a LED each, one file, a folder that both may have, 2 downloads or removals, 2 saves or tests, 1 fault: enough for a push that fails and is repeated, and for two refreshes that overlap | holds (235,000) |
| `registration` | do GUIDs, folders and rows survive requests in any order, and is a report shown only while it is true? | six scenarios: LEDs that leave and return over three exports; two tabs that register at once; two pages of one event; a page while its event is re-registered; a restart; two checks, a page and a download while an event is re-registered. 2 events, 2 LEDs, 1 folder, 1 pending request: the bound of pending requests is reached at once, and one folder is what LEDs compete for | holds (699,000) |
| `application` | do processes, database, settings, schedule and sign-in keep their promises? | eight scenarios: installation and upgrade with 2 crashes, a newer database, one tab with three forms, one that finds a schedule and e-mail switched on, two tabs, a restart, sign-in from two tabs with `max_failures` 2; each group of settings has a form that is valid, one that is not, and one with blanks | holds (124,000) |
| `orphan` | is a removed file really not stored when the check says so? | as `transfer` | violated, finding |
| `race` | does a removal leave others alone when a mapping is saved during a run? | as `sync`, no fault | violated, finding |
| `swap` | is a file pushed again when its destination has another LED's? | one event, 2 LEDs, 2 folders | violated, finding |
| `late` | does an abandoned copy stay harmless? | saves only between runs, with stalls | violated, finding |
| `schedule` | do the settings never claim a schedule that Windows does not have? | the one-tab scenario of `application` | violated, finding |
| `seeding` | has a rejected install configuration touched nothing? | the installation scenario of `application` | violated, finding |

The bounds are constants (`MaxRuns`, `MaxClock`, `MaxFaults`, `Retries`,
`MaxFiles`, `MaxVersion`, `MaxSaves`) in the guards of the actions they bound, or
the fields of a scenario (requests left for each tab, exports, starts, crashes)
that the initial states take. Deadlock is not checked: a system with nothing left
to do, or that has used up its bounds, stops. No symmetry is used, since most runs
have temporal properties and the constants are not alike.

### Fairness

* `Worker(j)` (JobRegistry): a started thread is scheduled and every call in
  `work` has a deadline (Azure timeouts, `run_limited`, the watcher of
  `push_file`). Starting, cancelling and taking summaries are not fair.
* `Script(t)` (Dashboard): an open page polls with a timer. Nobody has to press
  a button.
* `Step` (Transfer): runs are started again and again (by the scheduled task),
  and a run makes progress. `Tick` and `WriteLog`: time passes, and the web
  application writes the entries it owes. Faults, cancels and changes in Azure
  are not fair, and are bounded, so the convergence properties speak of the time
  after the last of them.
* `Step(e)` (Sync): every event's synchronisation runs while there is something
  to do.
* `Push(e)` and `Refreshes(e)` (EventStatus): the same, and a thread that owes a
  refresh gets to it; that the database answers in the end is the conjunct
  `faults' = faults`.
* Scheduled runs (Instances): Windows starts what is registered again and again,
  and a process that has started goes on. Nobody has to start the application.

## 5. Properties

* `OneRunPerEvent`, `FinishedHasSummary`, `FinishedIsFinal`: the three promises
  of `downloads.py:8-11` and what a late Cancel may not do.
* `ImplementsLifecycle`, `SummaryReachesAPage`: a run ends, its lines are shown
  once, and some open page shows them.
* `RecordNotAhead`: a file on disk is never older than the record that makes
  checks leave it alone. `CutoffHolds`: a run acts on no change that its check has
  read to be later than the cut-off, and stores nothing older than what it has read.
  It is about what was read and not about the bytes: with a file uploaded and logged
  at 1, the log read at 2 (boundary 1) and the file uploaded again at 2, `Locate` and
  `Stream` put version 2 on the disk. That change is later than the cut-off, and
  nobody has reviewed it; `changes.py:29-31` ("nothing changed close to showtime
  reaches the LED devices unreviewed") is not kept there.
  `Converges`: after the last fault and change every logged file is as in Azure,
  removals are recorded, no exception of an existing file is left open.
* `LeftAloneIsOnDevice`, `DevicesConverge`: the same two thoughts for devices,
  for LEDs whose folder no other LED may ever have (a shared folder is
  overwritten by design). `RemovesOwnByPlan`, `TestedIsCurrent`.
* `StatusIsCurrent`: nothing that goes on leaves the stored status behind, but for
  what `excused` names: a result that could not be stored and, of two refreshes at
  once, the older result stored last. `SyncedIsDelivered`: the status that people act on is
  true of the devices. `StatusSettles`: it does not stay behind for good.
* `GuidIsUnique`, `ShownIsApplied`: what a concurrent request may do between the
  search and the write, or between the page and its confirmation, does no harm.
  `OneFolderEach`, `RowsFollowFile`, `FoldersSurvive`: any sequence of saves,
  re-registrations and returning LEDs leaves one folder for each LED, the rows of
  the registered file, and every folder that was entered. They speak of events
  about which no two requests have crossed, since two pages of one event may give
  a folder twice (`mappings.py:289`). `TestIsOfFolder` needs no such exception.
* `ShownHistoryIsTrue`, `ShownStructureIsTrue`: a check reads GUID, structure and
  twice the history while these change, and its report is stored and shown by
  other threads; what is shown still fits what is there. The second speaks of
  events that are not in `crossed`: two re-registrations at once could take an event
  to another GUID and back within one check.
* `OneWorks`, `StampedIsComplete`, `UpgradeCompletes`, `SeedingIsFirst`: processes
  that open, upgrade and seed one data folder and end anywhere. `OneWorks` is about
  work: that the lock comes "before touching the database" (`singleinstance.py:10`)
  is not kept by a scheduled run that finds it taken, which opens the database, and
  if need be upgrades it, to record that it was skipped (`scheduled_run.py:123`).
* `FoldersApart`, `SwitchedOnIsComplete`, `SecretsAreKept`, `TaskAgrees`: what one
  save has checked is still so after the next one, of another page or with a
  secret left blank, and Windows does what the settings say; the first, second and
  last unless two saves of the same page have overlapped (`settings.py:339`).
  `TaskAgrees` holds through refusals, with what they leave behind: when the database
  refuses a save, Windows may have no task, but never that of a form which was not
  saved; when Windows refuses to remove a task, `unregister` does not look at the
  return code (`scheduler.py:155-158`), the save goes through and a schedule that is
  switched off goes on. So the comment at `views_settings.py:219-220`, "both are now
  guarded the same way", is kept only for schtasks that cannot be run or answers too
  late. `Answered` lists what the property excuses: overlapping saves and, until
  Windows next does what a save asks of it, a schtasks given up at its deadline after Windows has
  acted (`scheduler.py:61`), an undo that fails (`views_settings.py:245`), and a
  request that is cut off. Its history variable `failed` keeps these apart.
* `EnabledHasTask` excuses the same three. Its shortest violation is the bug of
  `views_settings.py:242`: Windows removes the task, the database refuses the save,
  and nothing registers the task again.
* `AttemptsAreBounded`, `ChangesAreProved`: sign-in from several tabs.
* `NothingStored`, `ForeignIsReplaced`, `EnabledHasTask`,
  `RejectedTouchesNothing` (and `RemovesOnlyItsOwn`, `LeftAloneIsOnDevice` under
  weaker assumptions) are what comments and docstrings say and the code does not
  keep; see `findings`.

## 6. Proofs

`JobRegistryProofs` is about any set of events, any number of runs
(`MaxRunsAssumption`: it is a natural number) and any set of cancelling requests. Its
lemmas are about `AnySpec`, in which the summaries of any events may be taken at once:
the registry by itself (`RegistryIsAny`) and the registry under any number of tabs that
show any events (`PagesAreAny`, `WatchesAssumption`) both implement it, so what is
proved of it holds of `Spec` and, as `PagesKeepThePromise`, of the `DashSpec` that the
run `jobs` checks. `TabTypes` adds the types of the tabs.

* `TypeCorrect`: `TypeOK`, one step for each action.
* `OneRunPerEvent` is not inductive: a start only looks at the run the registry
  has for the event. `RunningIsCurrent` adds that a run whose thread has not ended
  says "running", and that whatever says "running" is the registry's run of its
  event; so two active runs of one event are the same entry. The proof also needs
  that jobs which are not created yet are idle and that a summarised run has its
  lines. From the same invariant follow `SummaryInPlace` and `Finality`.
* `Implements`: `Init` maps to the initial state of `RunLifecycle`; `Start` maps
  to `Begin`, `End` to `Finish`, `Take` to `Show` of the events whose runs were
  taken, everything else to a stutter.

`TransferProofs` is about any set of files with any order of work (`Rank`, which
gives no two files the same place), any limits, clock and number of faults, and a
day of any positive length with the cut-off at any time of it (`TransferAssumption`,
`DayAssumption`).

* `TypeCorrect`: `TypeOK`, one step for each action.
* `RecordNotAhead` is not inductive: `Stream` puts on the disk what the run's
  listing has, `Commit` writes the time the check has read. The invariant `IInv`
  says that both are tied to the past of the blob. `EntriesArePast`: Azure has at
  least the version an entry tells of, or nothing, since an entry is written
  after its upload. That carries over to the items of a list (`ItemsArePast`) and
  to the records (`RecordsArePast`). `Fresh`: the listing of a run was read after
  its list was made, so it is as new as both. `InHand` ties the phase to the item
  that is worked on, which is one (`OneItemEach`, `NextIsOne`), since a file has
  one latest entry (`LatestIsUnique`) and so one row.
* `CutoffIsKept`: `ItemsAreDue` is the part of `IInv` that says no item is later
  than the cut-off of its check, but repairs. `ItemsAreRead`: the time of an item is
  that of the one entry the check has read of its file. `Fresh` and `InHand` give
  that what is stored is no older.

`SyncProofs` is about any events, LEDs, files and folders (`SyncAssumption`: `Rank`
gives no two files the same place) and any number of downloads, saves and faults.

* `TypeCorrect`, with `ItemsOK`: an item is of its event, its folder is one the
  operator may have entered for its LED, and the last row of its file still is the
  one the plan saw, because downloads and pushes of an event take turns.
* `TestsAreCurrent`: inductive as it stands, with the types.
* `RemovalsAreOwn`: `Own` says that what is going to be removed is at the folder of
  its LED and that no other LED has it, as long as no mapping has been saved
  during a run; a removal that took another LED's file would contradict it.
* `LeftAlone` is not inductive: that a row says Success and is not older than the
  download has to be tied to the device. `Delivered` does that for every file and
  folder that only its LED may have, also for folders it is not mapped to at the
  moment; `Copied` for the step between the rename and the row; `Clocked` says that
  no row is of the future. The theorem assumes `Forward`, that the clock moves on
  from a push to the next download.

`EventStatusProofs` EXTENDS both `EventStatus` and `SyncProofs`.

* `StatusTypeCorrect`: `StatusOK` is the type invariants of both modules.
* `StatusCurrent` is not inductive: a status is stored by one step and was read by
  an earlier one. `RunOwes` says that a run which is not over owes a refresh.
  `ReadIsCurrent`: what a thread has read, with no other thread at work on the
  event or owing it a refresh, is what `compute` gives now. `StoredIsCurrent` is
  the property itself. `Settled` is the three together for one event; the proof
  needs that a step about one event leaves `compute` of the others as it is
  (`ComputesTheSame`, `RunsApart`, `SavesApart`), and for a step about the event
  that its thread owes a refresh afterwards.
* `SyncedDelivered`: every step of `StatusSpec` is one of `Sync` or touches nothing
  of it (`Moves`), so `Delivery`, the invariant of `LeftAlone`, holds here too; a
  status of "synced" that is current has no plan, and what needs no push is on the
  device. It assumes `Forward`, as `LeftAlone` does.

`RegistrationProofs` is about any events, LEDs, tabs, pages, files and scenarios; its
lemmas are about `LooseSpec`, which leaves the requests that are left to others, so
that `ReportsProofs` can use them.

* `UniqueGuids`, `TestsAreCurrent`: inductive when it is known which functions `guid`
  and `tested` are.
* `AppliedAsShown`: `Fresh` says that a token is given out once, and `Screens` that
  what a page shows with a token is what is held under it, if it still is; so a form
  whose token is that of the cookie is about the page it was sent from.
* `FoldersAreApart`, `RowsAsRegistered`, `FoldersOutlive` are not inductive: a page
  reads the structure and the rows, and writes later. `Right` has `Known`, what holds
  of every request, row and file whatever has crossed (a form that is past its look-up
  is of its own event, an event that was never registered has no rows); `PageCurrent`:
  what a request has read of an event about which nothing crossed is still so when it
  writes; `EventRight`: the two invariants for one event; and `Alone`: of two requests
  about one event, the event is in `crossed`. A write is a `WritesOf` one event: it
  leaves the rows of the others as they are, and its own right if the request was
  current. `Reconcile` and `Save` are two lemmas each: what they do to any rows
  (`ReconcilesOne`, `SavesOne`) and to rows that were right (`ReconcilesRight`,
  `SavesRight`, where `Rank` decides which of two returning LEDs keeps a folder).
* `TypesAreRight`: `Right` with `HeldTyped` and `RestTyped`. That there are never
  more pending requests than there is room for needs that a finite set of tokens has a
  lowest one (`LowestIsThere`), so that `Oldest` drops at least one.

`ReportsProofs` EXTENDS it. Every step of `ReportNext` is one of `Next` or touches
nothing of `Registration` (`EachOnlyReads`), hence `RegistrationsAmongReports`.

* `HistoryShown`: `Past` says of a report that its marker is no more than the history
  it used, and that no more than there is. It holds of every report, wherever it is,
  since rows are only added; so a marker that is right when the page looks leaves no
  room for a row in between.
* `ReportTypes`: with the types of the registrations.
* `StructureShown` is about a GUID that comes back: the check reads GUID, then
  structure, and the page compares GUIDs only. `OfStructure` says of every report,
  wherever it is, that it has GUID and structure of the registration there is, or that
  its GUID is `Gone`: no file of it can be found in the folder, now or later
  (`Ahead`), no form and no request that the cookie names holds one (`Live`), and the
  event is registered under another. What is gone stays so (`GoneStays`), and a
  registration that is replaced is gone (`SameOrGone`). That needs `FilesRight`: a GUID
  that was taken from the cloud does not come again, and what is there under it has
  the same structure (`FilesTaken`); what may still be written is the registration
  there is, or one after which that is not ahead any more (`FilesNewer`, by `Alone`).
  It rests on `ExportAssumption`: an export has a GUID of its own. The program counts
  on it (`changes.py:490-493` "The web application has exported this event again (its GUID changed)",
  `docs/QA_Desktop_Phase6_ChangeLog.md:104` "event re-exported (GUID changed ...)"),
  but the web application has to keep it: with an older export put back into the
  cloud while a page is open, TLC finds `ShownStructureIsTrue` violated.

`InstancesProofs` is about any processes, tabs, forms, seed files and scenarios.
`Held`: an application or installer that has started has the lock, and so has a
scheduled run that works. `Grown`: columns are only added, what a process has read
of them is still there, and who stamps has seen them all. `Counted`: no more were
let through than were counted, or than `max_failures` while it is locked.
`Proven`: who is about to replace the password has typed what was stored when it
was read. `Fresh`: while a process seeds, what it has still to write has no row.

`SettingsProofs` EXTENDS it, for `FoldersApart`, `SwitchedOnIsComplete` and
`TaskAgrees`. None is inductive: a save compares its form key by key and writes what
is left of it later. `SaveRight` says of a request that its form is valid, and, as
long as no other one saves the same group (`OnlySave`), that what it has passed over
is what it would write, or a secret that it keeps; so its write leaves a whole valid
form (`WholeForm`, `ValidIsRight`). For the task of Windows, `TaskRight` is what
`TaskAgrees` says of it and `Heeded` what it excuses; `OnlySave` has `TaskRight` before
Windows is told, ties the task to the form while the schedule is saved (`TaskAsked`:
or Windows has kept the old one), and says of an undo that a save has failed. The
assumption
`FoundAsSaved` says that the settings found at first are as these pages save them and
that Windows was told of them; a database edited by hand need not be.

What the proofs changed in the model: `RowSays` was a CASE whose guards overlap,
which leaves open which branch is meant; it now says that the identity of the file is
looked at first, as `registration.py` does.

Only model-checked: liveness, which is out of the prover's reach
(`SummaryReachesAPage`, `Converges`, `DevicesConverge`, `StatusSettles`,
`UpgradeCompletes`, the fairness of `ImplementsLifecycle`), and that the properties of
the violation runs fail.

## 7. Not modelled

Parsing and validation (JSON, CSV, the spelling of folder names, IP addresses and
settings), formatting, logging, e-mail, rendering, the inside of the Windows Task
Scheduler, and what section 2 lists as to come. In the modelled parts: counters of
progress and of summaries, operation log rows, `last_download`/`last_sync`, bytes
and checksums (a wrong one is a failure that may be retried), waiting times, a
failure that cannot even be recorded, `MAX_ITEMS_PER_RUN` of a synchronisation,
RPI files and the reads of one computation in `EventStatus`, launch and CSRF
tokens, a second browser (the tabs share one cookie), the cut-off a report was
made with (a saved cut-off does not outdate it), and that the settings pages ask
for the sign-in. A clock that stands still
or is set back between a push and the next download is excluded by
`ClockSteps = {1}`: with 0 or -1 in the set `LeftAloneIsOnDevice` fails, as
`sync.py:107` compares whole seconds (the theorem assumes `Forward` for it).
