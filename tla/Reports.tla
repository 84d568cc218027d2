------------------------------ MODULE Reports ------------------------------
(***************************************************************************)
(* The report of the last check of an event: changes.check_event, called by *)
(* the page's check (web/views_changes.py) and at the end of a run          *)
(* (services/downloads.py), each in a thread of its own; the one dictionary *)
(* both store it in; and the page, which shows it as long as is_current     *)
(* says so.  Meanwhile a run writes history rows and tabs re-register the   *)
(* event (Registration): nothing is locked, and every read of the database  *)
(* is a step.  What a check finds out in Azure, and the cut-off, are not    *)
(* here: a report is known by the structure and the history it used.        *)
(***************************************************************************)
EXTENDS Registration, Sequences

CONSTANTS Run,     \* threads that download
          Checker, \* threads that check: requests, and runs that end
          Viewer   \* requests for the page

ASSUME ReportAssumption == Run \cup Checker \cup Viewer \subseteq Actor

(* The web application gives an export a GUID of its own: of the files to  *)
(* come and the one that is there, no two that can be used in a folder     *)
(* share one.  The check and the page count on it (changes.py:490).        *)
ASSUME ExportAssumption ==
  \A s \in Scenarios : \A c \in s.exports :
    /\ \A d \in s.exports : c.sound /\ d.sound /\ c.place = d.place /\ c.guid = d.guid => c = d
    /\ LET there == s.cloud[c.place]
       IN c.sound /\ there.sound /\ there.place = c.place => there.guid # c.guid

VARIABLES
  rows,    \* the rows of each event in download_history, which are never deleted
  check,   \* per thread: check_event, and what it has read
  reports, \* ledsync.change_reports: per event at most one; in memory only
  view     \* per request: the report it has taken

reportVars == <<rows, check, reports, view>>
allVars == <<vars, reportVars>>

IdleCheck == [step |-> "idle", event |-> "none", guid |-> NoGuid, leds |-> {},
              marker |-> 0, history |-> 0]
IdleView == [step |-> "idle", event |-> "none", report |-> IdleCheck]
NoReports == [e \in Event |-> {}]

ReportTypeOK ==
  /\ TypeOK
  /\ rows \in [Event -> Nat]
  /\ \A c \in Checker : /\ check[c].step \in {"idle", "registered", "structured", "fetched",
                                              "read", "compared"}
                        /\ check[c].step # "idle" => check[c].event \in Event
  /\ \A e \in Event : Cardinality(reports[e]) <= 1 /\ \A r \in reports[e] : r.guid \in Guid
  /\ \A v \in Viewer : view[v].step \in {"idle", "taken", "same event", "shown", "outdated"}

ReportInit ==
  /\ Init
  /\ rows = [e \in Event |-> 0] /\ reports = NoReports
  /\ check = [c \in Checker |-> IdleCheck] /\ view = [v \in Viewer |-> IdleView]
-----------------------------------------------------------------------------
(* Deviations the run must be able to see                                  *)
HistoryFirst == <<"history", "marker">>  \* the marker is taken after the rows
AnyRegistration(r, e) == TRUE            \* is_current looks at the history only
-----------------------------------------------------------------------------
others == <<eventVars, rowVars, page, cloudVars, atOnce, pendingVars, screen, form, crossed>>

(* A run records a file; each row has an id of its own.                    *)
Record(r, e) ==
  /\ e \in Registered /\ NewRequest(r)
  /\ rows' = [rows EXCEPT ![e] = @ + 1]
  /\ UNCHANGED <<others, check, reports, view>>

CheckGoes(c, was, is) == check[c].step = was /\ check' = [check EXCEPT ![c] = is]
OnlyChecks == UNCHANGED <<others, left, rows, reports, view>>

(* check_event: the GUID of the event ...                                  *)
Begin(c, e) ==
  /\ e \in Registered /\ NewRequest(c)
  /\ CheckGoes(c, "idle", [IdleCheck EXCEPT !.step = "registered", !.event = e, !.guid = guid[e]])
  /\ UNCHANGED <<others, rows, reports, view>>

(* ... then its structure, by a read of its own ...                        *)
LoadStructure(c) ==
  /\ CheckGoes(c, "registered", [check[c] EXCEPT !.step = "structured", !.leds = leds[check[c].event]])
  /\ OnlyChecks

(* ... then the file in the cloud, which must still have that GUID ...     *)
Fetch(c) ==
  LET e == check[c].event
  IN /\ CheckGoes(c, "structured",
                  IF Parses(cloud[e]) /\ IsAtItsPlace(e, cloud[e]) /\ cloud[e].guid = check[c].guid
                  THEN [check[c] EXCEPT !.step = "fetched"] ELSE IdleCheck)
     /\ OnlyChecks

(* ... and the history twice: how long it is, and its rows to compare with. *)
HistoryReads == <<"marker", "history">>

ReadHistory(c) ==
  /\ \/ CheckGoes(c, "fetched", [check[c] EXCEPT !.step = "read",
                                                 ![HistoryReads[1]] = rows[check[c].event]])
     \/ CheckGoes(c, "read", [check[c] EXCEPT !.step = "compared",
                                              ![HistoryReads[2]] = rows[check[c].event]])
  /\ OnlyChecks

(* The report takes the place of another, whichever was begun first.       *)
Report(c) ==
  /\ CheckGoes(c, "compared", IdleCheck)
  /\ reports' = [reports EXCEPT ![check[c].event] = {check[c]}]
  /\ UNCHANGED <<others, left, rows, view>>

(* Azure or the database fails: no report.                                 *)
CheckFails(c) ==
  /\ check[c].step # "idle" /\ CheckGoes(c, check[c].step, IdleCheck) /\ OnlyChecks
-----------------------------------------------------------------------------
ViewGoes(v, was, is) ==
  /\ view[v].step = was
  /\ view' = [view EXCEPT ![v] = IF is = "idle" THEN IdleView ELSE [@ EXCEPT !.step = is]]
OnlyViews == UNCHANGED <<others, left, rows, check, reports>>

(* GET /events/<id>/changes: the report, if there is one ...               *)
Open(v, e) ==
  /\ view[v].step \in {"idle", "shown"} /\ e \in Registered /\ NewRequest(v)
  /\ \/ reports[e] = {} /\ view' = [view EXCEPT ![v] = IdleView]
     \/ \E r \in reports[e] :
          view' = [view EXCEPT ![v] = [step |-> "taken", event |-> e, report |-> r]]
  /\ UNCHANGED <<others, rows, check, reports>>

SameRegistration(r, e) == guid[e] = r.guid
SameHistory(r, e) == rows[e] = r.marker

(* ... is_current in two reads, either of which may fail ...               *)
JudgeRegistration(v) ==
  /\ \/ /\ ViewGoes(v, "taken", "same event")
        /\ SameRegistration(view[v].report, view[v].event)
     \/ ViewGoes(v, "taken", "outdated")
  /\ OnlyViews

JudgeHistory(v) ==
  /\ \/ /\ ViewGoes(v, "same event", "shown")
        /\ SameHistory(view[v].report, view[v].event)
     \/ ViewGoes(v, "same event", "outdated")
  /\ OnlyViews

(* ... and one that is not is dropped, or what has taken its place.        *)
Drop(v) ==
  /\ ViewGoes(v, "outdated", "idle")
  /\ reports' = [reports EXCEPT ![view[v].event] = {}]
  /\ UNCHANGED <<others, left, rows, check>>
-----------------------------------------------------------------------------
(* After a restart nothing is left of it but the history.                  *)
Forget ==
  /\ reports' = NoReports /\ check' = [c \in Checker |-> IdleCheck]
  /\ view' = [v \in Viewer |-> IdleView] /\ UNCHANGED rows

ReportNext ==
  \/ Next /\ IF starts' # starts THEN Forget ELSE UNCHANGED reportVars
  \/ \E e \in Event :
       \/ \E r \in Run : Record(r, e)
       \/ \E c \in Checker : Begin(c, e)
       \/ \E v \in Viewer : Open(v, e)
  \/ \E c \in Checker : LoadStructure(c) \/ Fetch(c) \/ ReadHistory(c) \/ Report(c) \/ CheckFails(c)
  \/ \E v \in Viewer : JudgeRegistration(v) \/ JudgeHistory(v) \/ Drop(v)

ReportSpec == ReportInit /\ [][ReportNext]_allVars
-----------------------------------------------------------------------------
(* What the page shows was compared with exactly the history there is when  *)
(* it looks (changes.py:465), although a check reads it twice, and files    *)
(* are downloaded between the reads, the report and the page.              *)
ShownHistoryIsTrue ==
  [][\A v \in Viewer : view[v].step = "same event" /\ view'[v].step = "shown" =>
       view[v].report.history = rows[view[v].event]]_allVars

(* ... and made with the structure of the registration it has just seen    *)
(* (changes.py:464), although a check reads the GUID first and the structure *)
(* after it, and the event may be registered anew in between: for events   *)
(* about which no two requests have crossed.                               *)
ShownStructureIsTrue ==
  [][\A v \in Viewer : view[v].step = "taken" /\ view'[v].step = "same event" =>
       view[v].event \in crossed \/ view[v].report.leds = leds[view[v].event]]_allVars
=============================================================================
