------------------------------ MODULE Dashboard ------------------------------
(***************************************************************************)
(* The pages that watch the runs of JobRegistry: the dashboard             *)
(* (web/views.py, static/js/dashboard.js), which shows every event, and    *)
(* the Change Log page of one event (web/views_changes.py,                 *)
(* static/js/changes.js).  Both routes first read which runs are running,  *)
(* then take the summaries, then render; the script in the page polls and  *)
(* loads the page again.  The worker threads move on between any two of    *)
(* these steps.                                                            *)
(***************************************************************************)
EXTENDS JobRegistry

CONSTANTS Tab,     \* open browser tabs
          Watches  \* the events each of them shows

ASSUME WatchesAssumption == Watches \in [Tab -> SUBSET Event]

IsDashboard(t) == Watches[t] = Event

VARIABLES
  tab,     \* what the tab, or the request serving it, is doing
  found,   \* events it has found running
  panels   \* events the page on display shows as running

tabVars == <<tab, found, panels>>
allVars == <<vars, tabVars>>

TabTypeOK ==
  /\ tab \in [Tab -> {"load", "loading", "displayed"}]
  /\ found \in [Tab -> SUBSET Event]
  /\ panels \in [Tab -> SUBSET Event]

DashInit ==
  /\ Init
  /\ tab = [t \in Tab |-> "load"]
  /\ found = [t \in Tab |-> {}]
  /\ panels = [t \in Tab |-> {}]
-----------------------------------------------------------------------------
(* dashboard.js without its first reload rule                              *)
MustReloadNewPanel(t, runs) == ~ runs \subseteq panels[t]
-----------------------------------------------------------------------------
(* The page polls while it is open; the Change Log page only while it      *)
(* shows a run in progress.                                                *)
Polls(t) == IsDashboard(t) \/ panels[t] # {}

(* The events found running: the copy of the list under the lock and the   *)
(* look at each state are one step, since looks at several moments only mix*)
(* answers each of which this gives.                                       *)
Running(t) == {e \in Watches[t] : jobs[e] # NoJob /\ state[jobs[e]] = "running"}

(* The route's first read.                                                 *)
Load(t) ==
  /\ tab[t] = "load"
  /\ tab' = [tab EXCEPT ![t] = "loading"]
  /\ found' = [found EXCEPT ![t] = Running(t)]
  /\ UNCHANGED <<vars, panels>>

(* take_all_summaries() or take_summary(), and the page is on display.     *)
Display(t) ==
  /\ tab[t] = "loading"
  /\ Take(Watches[t])
  /\ panels' = [panels EXCEPT ![t] = found[t]]
  /\ found' = [found EXCEPT ![t] = {}]
  /\ tab' = [tab EXCEPT ![t] = "displayed"]

(* The script loads the page again when "something runs" differs from what *)
(* the page shows, or when a run has no panel.                             *)
MustReload(t, runs) ==
  \/ (runs # {}) # (panels[t] # {})
  \/ ~ runs \subseteq panels[t]

(* A poll is answered (otherwise: counters and percentages, and it polls   *)
(* again).                                                                 *)
Poll(t) ==
  /\ tab[t] = "displayed" /\ Polls(t)
  /\ MustReload(t, Running(t))
  /\ tab' = [tab EXCEPT ![t] = "load"]
  /\ UNCHANGED <<vars, found, panels>>

(* A start button: the route starts the run, or is refused, and redirects  *)
(* to the page it was pressed on.                                          *)
PressStart(t, e) ==
  /\ tab[t] = "displayed" /\ e \in Watches[t]
  /\ \/ \E j \in Job : Start(e, j)
     \/ jobs[e] # NoJob /\ state[jobs[e]] = "running" /\ UNCHANGED vars
  /\ tab' = [tab EXCEPT ![t] = "load"]
  /\ UNCHANGED <<found, panels>>
-----------------------------------------------------------------------------
Script(t) == Load(t) \/ Display(t) \/ Poll(t)

DashNext ==
  \/ \E j \in Job : Worker(j) /\ UNCHANGED tabVars
  \/ \E r \in Request : Canceller(r) /\ UNCHANGED tabVars
  \/ \E t \in Tab : Script(t) \/ \E e \in Event : PressStart(t, e)

(* Worker threads and the scripts of open pages are scheduled; nobody has  *)
(* to press anything.                                                      *)
DashSpec ==
  /\ DashInit /\ [][DashNext]_allVars
  /\ \A j \in Job : WF_allVars(Worker(j) /\ UNCHANGED tabVars)
  /\ \A t \in Tab : WF_allVars(Script(t))
-----------------------------------------------------------------------------
(* The operator learns how every run ended: while the pages stay open, the *)
(* summary of a finished run is shown on one of them, unless a newer run   *)
(* of the event has replaced it first.                                     *)
SummaryReachesAPage ==
  \A j \in Job :
    Finished(j) ~> seen[j] \/ \A e \in Event : jobs[e] # j
=============================================================================
