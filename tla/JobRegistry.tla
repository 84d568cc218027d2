----------------------------- MODULE JobRegistry -----------------------------
(***************************************************************************)
(* The background runs of one application process: services/downloads.py   *)
(* (Job, JobRegistry) with the Progress object a run shares with the pages *)
(* (services/progress.py) and the Cancel routes (web/views_sync.py,        *)
(* web/views_changes.py).                                                  *)
(*                                                                         *)
(* Threads: the web server's request threads start runs, take summaries    *)
(* and cancel; each run has one worker thread.  A block under the          *)
(* registry's lock is one action; what happens outside it is an action of  *)
(* its own.  `work` is abstracted to its end: it returns lines and has set *)
(* final_state, or it raises.                                              *)
(***************************************************************************)
EXTENDS Naturals

CONSTANTS Event,     \* events, by their case-folded id
          MaxRuns,   \* bound: how many runs are started
          Request    \* request threads that handle a Cancel

ASSUME MaxRunsAssumption == MaxRuns \in Nat

Job == 1 .. MaxRuns  \* Job objects, numbered as they are created
NoJob == 0

VARIABLES
  jobs,      \* JobRegistry._jobs: the latest run of each event
  event,     \* job.event_id
  worker,    \* where the job's thread is
  state,     \* progress.state
  final,     \* progress.final_state
  summary,   \* job.summary
  seen,      \* job.seen
  cancel,    \* progress._cancel
  held       \* the Job a Cancel request looked up and found running

jobVars == <<jobs, event, worker, state, final, summary, seen>>
cancelVars == <<cancel, held>>
vars == <<jobVars, cancelVars>>

Outcome == {"done", "cancelled", "error"}

TypeOK ==
  /\ jobs \in [Event -> Job \cup {NoJob}]
  /\ event \in [Job -> Event]
  /\ worker \in [Job -> {"unused", "registered", "working", "summarised", "ended"}]
  /\ state \in [Job -> Outcome \cup {"idle", "running"}]
  /\ final \in [Job -> Outcome]
  /\ summary \in [Job -> {"empty", "lines"}]
  /\ seen \in [Job -> BOOLEAN]
  /\ cancel \in [Job -> BOOLEAN]
  /\ held \in [Request -> Job \cup {NoJob}]

Init ==
  /\ jobs = [e \in Event |-> NoJob]
  /\ \E e \in Event : event = [j \in Job |-> e]
  /\ worker = [j \in Job |-> "unused"]
  /\ state = [j \in Job |-> "idle"]
  /\ final = [j \in Job |-> "done"]
  /\ summary = [j \in Job |-> "empty"]
  /\ seen = [j \in Job |-> FALSE]
  /\ cancel = [j \in Job |-> FALSE]
  /\ held = [r \in Request |-> NoJob]

Finished(j) == state[j] \in Outcome
NextJob(j) == worker[j] = "unused" /\ \A i \in 1 .. j - 1 : worker[i] # "unused"
-----------------------------------------------------------------------------
(* Deviations the runs must be able to see: the definition of the same     *)
(* name with a plausible mistake in it.                                    *)
StartUnchecked(e, j) ==               \* the running test made before the lock
  /\ NextJob(j)
  /\ jobs' = [jobs EXCEPT ![e] = j]
  /\ event' = [event EXCEPT ![j] = e]
  /\ worker' = [worker EXCEPT ![j] = "registered"]
  /\ state' = [state EXCEPT ![j] = "running"]
  /\ UNCHANGED <<final, summary, seen, cancelVars>>

EndFirst(j) ==                        \* the state says finished before the lines exist
  /\ worker[j] \in {"working", "summarised"}
  /\ worker' = [worker EXCEPT ![j] = "ended"]
  /\ state' = [state EXCEPT ![j] = final[j]]
  /\ UNCHANGED <<jobs, event, final, summary, seen, cancelVars>>

EndSwapped(j) ==                      \* progress.end's arguments the wrong way round
  /\ worker[j] = "summarised"
  /\ worker' = [worker EXCEPT ![j] = "ended"]
  /\ state' = [state EXCEPT ![j] = summary[j]]
  /\ UNCHANGED <<jobs, event, final, summary, seen, cancelVars>>

TakeableRunning(j) == ~seen[j]        \* a page marks a run it only watches

CancelSetState(r) ==                  \* Cancel writes the state itself
  /\ held[r] # NoJob
  /\ state' = [state EXCEPT ![held[r]] = "cancelled"]
  /\ cancel' = [cancel EXCEPT ![held[r]] = TRUE]
  /\ held' = [held EXCEPT ![r] = NoJob]
  /\ UNCHANGED <<jobs, event, worker, final, summary, seen>>
-----------------------------------------------------------------------------
(* start(): under the lock, refuse while the event's run is running;       *)
(* otherwise a new Job replaces the old one.  A refusal changes nothing.   *)
Start(e, j) ==
  /\ NextJob(j)
  /\ jobs[e] # NoJob => state[jobs[e]] # "running"
  /\ jobs' = [jobs EXCEPT ![e] = j]
  /\ event' = [event EXCEPT ![j] = e]
  /\ worker' = [worker EXCEPT ![j] = "registered"]
  /\ state' = [state EXCEPT ![j] = "running"]
  /\ UNCHANGED <<final, summary, seen, cancelVars>>

(* job.thread.start(), after the lock has been released.                   *)
ThreadStarts(j) ==
  /\ worker[j] = "registered"
  /\ worker' = [worker EXCEPT ![j] = "working"]
  /\ UNCHANGED <<jobs, event, state, final, summary, seen, cancelVars>>

(* target(): work(progress) returns.  It reports "cancelled" only if it    *)
(* met the cancel flag, but may have finished before looking at it.        *)
WorkReturns(j, outcome) ==
  /\ worker[j] = "working"
  /\ outcome = "cancelled" => cancel[j]
  /\ worker' = [worker EXCEPT ![j] = "summarised"]
  /\ final' = [final EXCEPT ![j] = outcome]
  /\ summary' = [summary EXCEPT ![j] = "lines"]
  /\ UNCHANGED <<jobs, event, state, seen, cancelVars>>

(* target(): work(progress) raises.                                        *)
WorkRaises(j) ==
  /\ worker[j] = "working"
  /\ worker' = [worker EXCEPT ![j] = "summarised"]
  /\ final' = [final EXCEPT ![j] = "error"]
  /\ summary' = [summary EXCEPT ![j] = "lines"]
  /\ UNCHANGED <<jobs, event, state, seen, cancelVars>>

(* progress.end(progress.final_state, ...), the thread's last statement.   *)
End(j) ==
  /\ worker[j] = "summarised"
  /\ worker' = [worker EXCEPT ![j] = "ended"]
  /\ state' = [state EXCEPT ![j] = final[j]]
  /\ UNCHANGED <<jobs, event, final, summary, seen, cancelVars>>
-----------------------------------------------------------------------------
Takeable(j) == ~seen[j] /\ Finished(j)

(* take_summary (one event) and take_all_summaries (every event), under    *)
(* the lock: each finished run not yet shown is marked and its lines       *)
(* returned.                                                               *)
Take(E) ==
  LET taken == {j \in Job : Takeable(j) /\ \E e \in E : jobs[e] = j}
  IN  /\ seen' = [j \in Job |-> seen[j] \/ j \in taken]
      /\ UNCHANGED <<jobs, event, worker, state, final, summary, cancelVars>>
-----------------------------------------------------------------------------
(* A Cancel request: get(event_id) under the lock, a look at the state of  *)
(* the Job it was given (a run found finished ends the request); then, with*)
(* nothing held, its flag is set.                                          *)
CancelFetch(r, e) ==
  /\ held[r] = NoJob
  /\ jobs[e] # NoJob
  /\ state[jobs[e]] = "running"
  /\ held' = [held EXCEPT ![r] = jobs[e]]
  /\ UNCHANGED <<jobVars, cancel>>

CancelSet(r) ==
  /\ held[r] # NoJob
  /\ cancel' = [cancel EXCEPT ![held[r]] = TRUE]
  /\ held' = [held EXCEPT ![r] = NoJob]
  /\ UNCHANGED jobVars
-----------------------------------------------------------------------------
Work(j) == WorkRaises(j) \/ \E outcome \in Outcome : WorkReturns(j, outcome)

Worker(j) == ThreadStarts(j) \/ Work(j) \/ End(j)

Canceller(r) == CancelSet(r) \/ \E e \in Event : CancelFetch(r, e)

Next ==
  \/ \E e \in Event, j \in Job : Start(e, j)
  \/ \E j \in Job : Worker(j)
  \/ Take(Event) \/ \E e \in Event : Take({e})
  \/ \E r \in Request : Canceller(r)

Spec == Init /\ [][Next]_vars

(* A started thread is scheduled, and work() returns or raises: every call *)
(* it makes has a deadline.  The user is not fair.                         *)
FairSpec == Spec /\ \A j \in Job : WF_vars(Worker(j))
-----------------------------------------------------------------------------
Active(j) == worker[j] \in {"registered", "working", "summarised"}

(* "Only one job runs per event at a time" (downloads.py:8), however the   *)
(* event id is spelled and however starts race: two runs that have not     *)
(* ended belong to different events.                                       *)
OneRunPerEvent ==
  \A i, j \in Job : Active(i) /\ Active(j) /\ event[i] = event[j] => i = j

(* "A page that sees finished always finds its summary" (downloads.py:10): *)
(* no state of the two threads shows a finished run without its lines.     *)
FinishedHasSummary ==
  \A j \in Job : Finished(j) => summary[j] # "empty"

(* What a page has seen stands: once a run has ended, a Cancel that was    *)
(* under way, a later run of the event or a second page change neither its *)
(* outcome nor its lines.                                                  *)
FinishedIsFinal ==
  [][\A j \in Job : Finished(j) => state'[j] = state[j] /\ summary'[j] = summary[j]]_vars

(* The strengthening OneRunPerEvent needs: a run whose thread has not      *)
(* ended still says "running", and whatever says "running" is the run the  *)
(* registry has for its event.                                             *)
RunningIsCurrent ==
  \A j \in Job :
    /\ Active(j) => state[j] = "running"
    /\ state[j] = "running" => jobs[event[j]] = j

(* What the registry owes the pages, without threads: RunLifecycle.        *)
PhaseOf(e) ==
  LET j == jobs[e]
  IN  IF j = NoJob THEN "idle"
      ELSE IF state[j] = "running" THEN "running"
      ELSE IF seen[j] THEN "shown" ELSE "finished"

Lifecycle == INSTANCE RunLifecycle
               WITH phase <- [e \in Event |-> PhaseOf(e)]

(* Every step of the registry's threads is a step of RunLifecycle or none, *)
(* and a run that began always ends.                                       *)
ImplementsLifecycle == Lifecycle!FairSpec
=============================================================================
