------------------------------ MODULE Settings ------------------------------
(***************************************************************************)
(* The settings: services/settings.py, the pages of web/views_settings.py, *)
(* and the Windows task of services/scheduler.py.  A setting is a row of   *)
(* application_settings.  Every page saves a group of them; what is typed  *)
(* stands for itself, or is Blank.  Not here: the spelling of values, the  *)
(* development fallbacks, what pages show, and the logs.                   *)
(***************************************************************************)
EXTENDS Integers, Sequences, FiniteSets

CONSTANTS Tab,     \* browser tabs that save settings, one request at a time
          Blank, Absent, NoTask,
          Place, DefaultRpi, DefaultAssets,
          Within,  \* pairs of folders, the first in (or the same as) the second
          Typed    \* bound: what may be typed on each page, a set of forms

Group == {"cloud", "folders", "retry", "retention", "schedule", "email"}

(* The order in which each save_ function goes through its settings.       *)
CloudKeys == <<"account", "container", "key">>
FolderKeys == <<"rpi", "assets">>
RetryKeys == <<"count", "delay">>
RetentionKeys == <<"keep">>
ScheduleKeys == <<"enabled", "days", "time", "username">>
EmailKeys == <<"notify", "recipient", "sender", "connection">>

Keys(g) == CASE g = "cloud" -> CloudKeys [] g = "folders" -> FolderKeys [] g = "retry" -> RetryKeys
             [] g = "retention" -> RetentionKeys [] g = "schedule" -> ScheduleKeys
             [] g = "email" -> EmailKeys
KeysOf(g) == {Keys(g)[i] : i \in DOMAIN Keys(g)}
Key == UNION {KeysOf(g) : g \in Group}

(* What may be typed on a page: something for every setting of its group.  *)
IsForm(g, form) ==
  /\ DOMAIN form = KeysOf(g) /\ \A k \in KeysOf(g) : form[k] # Absent
  /\ g = "folders" => {form.rpi, form.assets} \subseteq Place \cup {Blank}

ASSUME SettingsAssumption ==
  /\ {DefaultRpi, DefaultAssets} \subseteq Place /\ Within \subseteq Place \X Place
  /\ \A f \in Place : <<f, f>> \in Within
  /\ {<<DefaultRpi, DefaultAssets>>, <<DefaultAssets, DefaultRpi>>} \cap Within = {}
  /\ \A g \in Group : \A form \in Typed[g] : IsForm(g, form)
  /\ Blank # 1

VARIABLES
  setting, \* application_settings; Absent: no row
  task,    \* the entry of the Windows Task Scheduler: its days, time and account
  req,     \* the request of each tab
  posts,   \* bound: the requests each tab may still send
  mixed,   \* history: groups two of whose saves have gone on at once
  failed   \* history: what went wrong since Windows last did what a save of the schedule asked

settingVars == <<setting, task, req, posts, mixed, failed>>

IdleReq == [step |-> "idle", group |-> "none", form |-> Blank, at |-> 0]
Request == [step : {"idle", "tasking", "saving", "undoing"}, group : Group \cup {"none"},
            form : (UNION {Typed[g] : g \in Group}) \cup {Blank}, at : Nat]
Failure == {"given up", "kept", "unsaved", "not undone", "cut off"}
Busy == {t \in Tab : req[t].step # "idle"}

SettingsTypeOK ==
  /\ DOMAIN setting = Key
  /\ task = NoTask \/ DOMAIN task = {"days", "time", "username"}
  /\ mixed \subseteq Group /\ failed \subseteq Failure
  /\ req \in [Tab -> Request]
  /\ \A t \in Busy :
       req[t].group \in Group /\ req[t].form \in Typed[req[t].group] /\ req[t].at > 0

SettingsInit ==
  /\ req = [t \in Tab |-> IdleReq]
  /\ mixed = {} /\ failed = {}
-----------------------------------------------------------------------------
(* Deviations the run must be able to see                                  *)
ApartByName(f, a) == f # a              \* folders inside each other forgotten
OnIsPartly(form, on, needed) == form[on] = 1 => \E k \in needed : form[k] # Blank
KeepsNothing(k, form) == FALSE          \* a blank key is stored like any other
-----------------------------------------------------------------------------
(* _get: a missing row reads as nothing.                                   *)
Stored(k) == IF setting[k] = Absent THEN Blank ELSE setting[k]

(* has_any_setting, of the rows of this module.                            *)
AnySetting == \E k \in Key : setting[k] # Absent

(* load_rpi_folder, load_asset_folder: where files really go.              *)
RpiFolder(f) == IF f = Blank THEN DefaultRpi ELSE f
AssetFolder(f) == IF f = Blank THEN DefaultAssets ELSE f

(* _check_apart: neither is in the other.                                  *)
Apart(rpi, assets) == <<rpi, assets>> \notin Within /\ <<assets, rpi>> \notin Within

(* What can be switched on only together with what it needs.               *)
OnIsComplete(form, on, needed) == form[on] = 1 => \A k \in needed : form[k] # Blank

InRange(v, lo, hi) == v = Blank \/ v \in lo .. hi

(* A secret that is left blank keeps the one that is stored.               *)
Keeps(k, form) == k \in {"key", "connection"} /\ form[k] = Blank

(* The validate_ functions and the conditions of each save_ function.      *)
CloudIsValid(form) == form.account # Blank
OutsideData(f) == f = Blank \/ \A d \in {DefaultRpi, DefaultAssets} : Apart(f, d)

FoldersAreValid(form) ==
  /\ OutsideData(form.rpi) /\ OutsideData(form.assets)
  /\ Apart(RpiFolder(form.rpi), AssetFolder(form.assets))
RetryIsValid(form) == InRange(form.count, 0, 5) /\ InRange(form.delay, 0, 60)
RetentionIsValid(form) == InRange(form.keep, 1, 3650)
ScheduleIsValid(form) == OnIsComplete(form, "enabled", {"days", "time", "username"})
EmailIsValid(form) ==
  /\ OnIsComplete(form, "notify", {"recipient", "sender"})
  /\ form.notify = 1 /\ Keeps("connection", form) => Stored("connection") # Blank

Valid(g, form) ==
  CASE g = "cloud" -> CloudIsValid(form) [] g = "folders" -> FoldersAreValid(form)
    [] g = "retry" -> RetryIsValid(form) [] g = "retention" -> RetentionIsValid(form)
    [] g = "schedule" -> ScheduleIsValid(form) [] g = "email" -> EmailIsValid(form)

(* The settings after a save has written from its i-th key on.             *)
Written(g, form, i) ==
  [k \in Key |-> IF \E j \in i .. Len(Keys(g)) : Keys(g)[j] = k /\ ~Keeps(k, form) /\ Stored(k) # form[k]
                 THEN form[k] ELSE setting[k]]
-----------------------------------------------------------------------------
Ends(t) == req' = [req EXCEPT ![t] = IdleReq]
Goes(t, step) == req' = [req EXCEPT ![t].step = step]

(* A deviation: a registration is not undone.                              *)
WriteFailsOnly(t) ==
  /\ req[t].step = "saving" /\ Ends(t)
  /\ failed' = IF req[t].group = "schedule" THEN failed \cup {"unsaved"} ELSE failed
  /\ UNCHANGED <<setting, task, posts>>

(* The POST of a page: what is refused changes nothing.                    *)
Post(t, g, first) ==
  /\ req[t].step = "idle" /\ posts[t] > 0 /\ posts' = [posts EXCEPT ![t] = @ - 1]
  /\ \E form \in Typed[g] :
       IF Valid(g, form)
       THEN req' = [req EXCEPT ![t] = [step |-> first, group |-> g, form |-> form, at |-> 1]]
       ELSE UNCHANGED req
  /\ UNCHANGED <<setting, task, failed>>

cloud_post(t) == Post(t, "cloud", "saving")
folders_post(t) == Post(t, "folders", "saving")
download_post(t) == Post(t, "retry", "saving")
application_post(t) == Post(t, "retention", "saving")
email_post(t) == Post(t, "email", "saving")
scheduling_post(t) == Post(t, "schedule", "tasking")

(* _task_xml: what Windows is told.                                        *)
TaskOf(form) == [k \in {"days", "time", "username"} |-> form[k]]

(* scheduling_post before it saves: schtasks replaces the task, or refuses *)
(* (an account or a password that is wrong, schtasks does not run); or it  *)
(* is given up and may have replaced it all the same.                      *)
Register(t) ==
  /\ req[t].step = "tasking" /\ req[t].form.enabled = 1
  /\ \/ /\ task' = TaskOf(req[t].form)
        /\ \/ Goes(t, "saving") /\ failed' = {}
           \/ Ends(t) /\ failed' = failed \cup {"given up"}
     \/ Ends(t) /\ UNCHANGED <<task, failed>>
  /\ UNCHANGED <<setting, posts>>

(* ... or removes it, or is given up; that it refuses, and keeps the task, *)
(* is not noticed: unregister does not look at the return code.            *)
Unregister(t) ==
  /\ req[t].step = "tasking" /\ req[t].form.enabled # 1
  /\ \/ /\ task' = NoTask
        /\ \/ Goes(t, "saving") /\ failed' = {}
           \/ Ends(t) /\ failed' = failed \cup {"given up"}
     \/ Goes(t, "saving") /\ failed' = failed \cup {"kept"} /\ UNCHANGED task
     \/ Ends(t) /\ UNCHANGED <<task, failed>>
  /\ UNCHANGED <<setting, posts>>

(* A setting that is read as typed is passed over, outside a transaction.  *)
Current(t) ==
  LET k == Keys(req[t].group)[req[t].at]
  IN Keeps(k, req[t].form) \/ Stored(k) = req[t].form[k]

PassOver(t) ==
  /\ req[t].step = "saving" /\ req[t].at <= Len(Keys(req[t].group)) /\ Current(t)
  /\ req' = [req EXCEPT ![t].at = @ + 1]
  /\ UNCHANGED <<setting, task, posts, failed>>

(* The first write opens the transaction: from there on nobody else writes *)
(* until the commit.                                                       *)
Write(t) ==
  /\ req[t].step = "saving"
  /\ \/ req[t].at > Len(Keys(req[t].group)) /\ UNCHANGED setting
     \/ /\ req[t].at <= Len(Keys(req[t].group)) /\ ~Current(t)
        /\ setting' = Written(req[t].group, req[t].form, req[t].at)
  /\ Ends(t) /\ UNCHANGED <<task, posts, failed>>

(* The database refuses the write: it is rolled back.                      *)
WriteFails(t) ==
  /\ req[t].step = "saving"
  /\ failed' = IF req[t].group = "schedule" THEN failed \cup {"unsaved"} ELSE failed
  /\ IF req[t].group = "schedule" /\ req[t].form.enabled = 1 THEN Goes(t, "undoing") ELSE Ends(t)
  /\ UNCHANGED <<setting, task, posts>>

(* A task that was registered for a save that failed is removed again, if  *)
(* that is possible.                                                       *)
Undo(t) ==
  /\ req[t].step = "undoing"
  /\ \/ task' = NoTask /\ UNCHANGED failed
     \/ UNCHANGED task /\ failed' = failed \cup {"not undone"}
  /\ Ends(t) /\ UNCHANGED <<setting, posts>>

SettingsNext ==
  \E t \in Tab :
    \/ cloud_post(t) \/ folders_post(t) \/ download_post(t)
    \/ application_post(t) \/ email_post(t) \/ scheduling_post(t)
    \/ Register(t) \/ Unregister(t) \/ PassOver(t) \/ Write(t) \/ WriteFails(t) \/ Undo(t)

NoteMixing ==
  mixed' = mixed \cup {g \in Group : \E t, u \in Busy' : t # u /\ req'[t].group = g /\ req'[u].group = g}

(* The process ends: requests are cut off wherever they are.               *)
DropRequests ==
  /\ req' = [t \in Tab |-> IdleReq]
  /\ failed' = IF \E t \in Busy : req[t].group = "schedule" THEN failed \cup {"cut off"} ELSE failed
-----------------------------------------------------------------------------
(* The two download folders are apart, neither in the other, as every save *)
(* makes sure before it writes; unless two saves of them have overlapped   *)
(* (settings.py:335).                                                      *)
FoldersApart ==
  "folders" \notin mixed =>
    LET both == {RpiFolder(Stored("rpi")), AssetFolder(Stored("assets"))}
    IN Cardinality(both) = 2 /\ \A f, a \in both : <<f, a>> \in Within => f = a

(* What is switched on has all it needs (settings.py:556, 704): through    *)
(* seeding, saves that keep a secret, and crashes; unless two saves of the *)
(* same page have overlapped (settings.py:339).                            *)
SwitchedOnIsComplete ==
  /\ "schedule" \notin mixed /\ Stored("enabled") = 1 =>
       \A k \in {"days", "time", "username"} : Stored(k) # Blank
  /\ "email" \notin mixed /\ Stored("notify") = 1 =>
       \A k \in {"recipient", "sender", "connection"} : Stored(k) # Blank

(* A stored secret is replaced by another one and never lost               *)
(* (settings.py:228, 700), whatever the other fields of its form say.      *)
SecretsAreKept ==
  [][\A k \in {"key", "connection"} : Stored(k) # Blank => Stored(k)' # Blank]_settingVars

(* What Windows should run.                                                *)
Wanted == IF Stored("enabled") = 1 THEN TaskOf([k \in Key |-> Stored(k)]) ELSE NoTask

(* No save of the schedule is under way, none has overlapped another, and  *)
(* since the task was last set or removed no save was cut off, no call of  *)
(* schtasks was given up after Windows had done its work, and no undo      *)
(* failed.  Refusals do not count, of Windows or of the database.          *)
Answered ==
  /\ "schedule" \notin mixed /\ \A t \in Busy : req[t].group # "schedule"
  /\ failed \cap {"given up", "not undone", "cut off"} = {}

(* Windows runs the application exactly as the settings say, also after a  *)
(* save that Windows refused and said so; after one that the database      *)
(* refused it may run nothing instead (views_settings.py:236), but never   *)
(* by a form that was not saved.  What the settings have switched off may  *)
(* still run when Windows has refused to remove it: the save goes through, *)
(* although views_settings.py:219 says that this is guarded.               *)
TaskAgrees ==
  Answered =>
    \/ task = Wanted
    \/ "unsaved" \in failed /\ task = NoTask
    \/ "kept" \in failed /\ Stored("enabled") # 1

(* What the comment of scheduling_post asks for when a save fails: the     *)
(* saved settings never claim "enabled" when Windows disagrees; as long as *)
(* Windows can be reached (views_settings.py:240).                         *)
EnabledHasTask == Answered /\ Stored("enabled") = 1 => task # NoTask
=============================================================================
