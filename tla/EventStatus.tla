----------------------------- MODULE EventStatus -----------------------------
(***************************************************************************)
(* The status of an event on the dashboard: services/eventstatus.py, and   *)
(* its callers _run_job of services/downloads.py and the device page of    *)
(* web/views_devices.py, over the downloads, mappings and pushes of Sync.  *)
(* The status is computed from several tables and then stored, by a run of *)
(* the event and by its page at the same time.                             *)
(* Not here: LEDs that come and go (Registration), RPI files, and the      *)
(* reads of one computation, which are taken to be one step.               *)
(***************************************************************************)
EXTENDS Sync

Actor == {"run", "page"}
Status == {"Registered", "Ready", "Synced", "Attention needed"}

VARIABLES
  status,  \* events.status
  failing, \* files whose latest row in download_history is a Failure
  refresh, \* per event and actor: its call of refresh
  excused  \* history: events whose status may be out of date, as said below

statusVars == <<status, failing, refresh, excused>>
allVars == <<vars, statusVars>>

NoRefresh == [step |-> "none", value |-> "Registered", overlapped |-> FALSE]

StatusTypeOK ==
  /\ TypeOK
  /\ status \in [Event -> Status] /\ failing \subseteq File /\ excused \subseteq Event
  /\ refresh \in [Event -> [Actor -> [step : {"none", "due", "storing"}, value : Status,
                                      overlapped : BOOLEAN]]]

StatusInit ==
  /\ Init
  /\ status = [e \in Event |-> "Registered"] /\ failing = {} /\ excused = {}
  /\ refresh = [e \in Event |-> [a \in Actor |-> NoRefresh]]

FilesOf(e) == {f \in File : EventOf[LedOf(f)] = e}
-----------------------------------------------------------------------------
(* Deviations the run must be able to see                                  *)
OwesWhenDone(e, a) ==                   \* a run that is cancelled returns early
  refresh' = [refresh EXCEPT ![e][a].step =
                IF a = "run" /\ (run[e].todo # {} \/ run'[e].phase # "idle") THEN @ ELSE "due"]
OwesOfPage(e, a) ==                     \* only the page refreshes
  refresh' = [refresh EXCEPT ![e]["page"].step = IF a = "page" THEN "due" ELSE @]
WaitingFirst(e) ==                      \* a file that was pushed before is not looked at
  {f \in FilesOf(e) : Mapped(f) /\ hist[f].status = "Success" /\ LastRow(f).status # "Success"}
-----------------------------------------------------------------------------
(* compute                                                                 *)

Waiting(e) ==
  {f \in FilesOf(e) :
     Mapped(f) /\ \/ hist[f].status = "Success" /\ NeedsPush(f)
                  \/ hist[f].status = "Deleted" /\ NeedsRemove(f)}

TestFailed(l) == tested[l] # Untested /\ ~tested[l].ok

(* _unresolved_download_failures, and a failed push that is still to do.   *)
Unresolved(e) ==
  \E f \in FilesOf(e) : f \in failing \/ (f \in Waiting(e) /\ LastRow(f).status = "Failure")

AllSent(e) ==
  /\ \E f \in FilesOf(e) : hist[f].status # "None"
  /\ Waiting(e) = {} /\ \A f \in FilesOf(e) : hist[f].status = "Success" => Mapped(f)

AllReady(e) == LedsOf(e) # {} /\ \A l \in LedsOf(e) : folder[l] # NoFolder /\ tested[l].ok

compute(e) ==
  IF Unresolved(e) \/ \E l \in LedsOf(e) : TestFailed(l) THEN "Attention needed"
  ELSE IF AllSent(e) THEN "Synced" ELSE IF AllReady(e) THEN "Ready" ELSE "Registered"
-----------------------------------------------------------------------------
(* What has changed the event is followed by a refresh of the same thread. *)
Owes(e, a) == refresh' = [refresh EXCEPT ![e][a].step = "due"]

IsFree(e, a) == refresh[e][a].step = "none"
MayWork(e) == refresh[e]["run"].step # "storing"

Read(e, a) ==
  /\ refresh[e][a].step = "due" /\ (a = "run" => run[e].phase = "idle")
  /\ refresh' = [refresh EXCEPT ![e][a] = [step |-> "storing", value |-> compute(e), overlapped |-> FALSE]]
  /\ UNCHANGED <<vars, status, failing, excused>>

(* Others that have read, but not yet stored, are overlapped by this.      *)
Overlaps(r) == [r EXCEPT !.overlapped = r.step = "storing"]

Store(e, a) ==
  /\ refresh[e][a].step = "storing"
  /\ \/ /\ status' = [status EXCEPT ![e] = refresh[e][a].value]
        /\ excused' = IF refresh[e][a].overlapped THEN excused \cup {e} ELSE excused \ {e}
        /\ UNCHANGED faults
     \/ Fault /\ excused' = excused \cup {e} /\ UNCHANGED status
  /\ refresh' = [refresh EXCEPT ![e] = [b \in Actor |-> IF b = a THEN NoRefresh ELSE Overlaps(@[b])]]
  /\ UNCHANGED <<fileVars, mapVars, rowVars, device, late, run, failing>>
-----------------------------------------------------------------------------
(* The download half of a run, file by file.                               *)
Fetch(f) ==
  LET e == EventOf[LedOf(f)]
  IN  /\ MayWork(e)
      /\ \/ (Download(f) \/ Delete(f)) /\ failing' = failing \ {f}
         \/ /\ run[e].phase = "idle" /\ Fault /\ failing' = failing \cup {f}
            /\ UNCHANGED <<fileVars, mapVars, rowVars, device, late, run>>
      /\ Owes(e, "run") /\ UNCHANGED <<status, excused>>

(* The push half: whatever it does, and if it is cancelled.                *)
Push(e) ==
  /\ MayWork(e) /\ (Step(e) \/ \E i \in run[e].todo : TransferFails(e, i))
  /\ Owes(e, "run") /\ UNCHANGED <<status, failing, excused>>

Cancel(e) ==
  /\ Fault /\ run[e].phase # "idle" /\ run' = [run EXCEPT ![e] = Idle]
  /\ Owes(e, "run")
  /\ UNCHANGED <<fileVars, mapVars, rowVars, device, late, status, failing, excused>>

(* The page saves the mapping.  Whether other events may remove from the   *)
(* folders they share with it changes too, and nobody refreshes those.     *)
Touches(e, d) ==
  \E k \in LedsOf(d), l \in LedsOf(e) :
    /\ folder'[l] # folder[l] /\ folder[k] # NoFolder
    /\ folder[k] \in {folder[l], folder'[l]}

Save(e, m) ==
  /\ IsFree(e, "page") /\ SaveMappings(e, m)
  /\ LET others == {d \in Event \ {e} : Touches(e, d)}
     IN /\ excused' = excused \cup others
        /\ refresh' = [d \in Event |->
             [a \in Actor |-> IF d = e /\ a = "page" THEN [refresh[e][a] EXCEPT !.step = "due"]
                              ELSE IF d \in others THEN Overlaps(refresh[d][a]) ELSE refresh[d][a]]]
  /\ UNCHANGED <<status, failing>>

(* The page tests LEDs and stores the outcomes one by one; one that cannot *)
(* be stored ends the request before its refresh.  MaxSaves bounds the     *)
(* tests, too.                                                             *)
Test(e) ==
  /\ IsFree(e, "page") /\ saves < MaxSaves /\ saves' = saves + 1
  /\ \E ls \in SUBSET {l \in LedsOf(e) : folder[l] # NoFolder} \ {{}}, ok \in BOOLEAN :
       /\ tested' = [l \in Led |-> IF l \in ls THEN [folder |-> folder[l], ok |-> ok] ELSE tested[l]]
       /\ tested' # tested
       /\ \/ ok /\ UNCHANGED faults /\ Owes(e, "page") /\ UNCHANGED excused
          \/ ~ok /\ Fault /\ Owes(e, "page") /\ UNCHANGED excused
          \/ /\ ok /\ Fault /\ excused' = excused \cup {e}
             /\ refresh' = [refresh EXCEPT ![e] = [b \in Actor |-> Overlaps(@[b])]]
  /\ UNCHANGED <<fileVars, folder, crossed, rowVars, device, late, run, status, failing>>

(* The process ends.                                                       *)
Crash ==
  /\ Fault /\ run' = [e \in Event |-> Idle]
  /\ refresh' = [e \in Event |-> [a \in Actor |-> NoRefresh]]
  /\ excused' = excused \cup {e \in Event : run[e].phase # "idle" \/ \E a \in Actor : ~IsFree(e, a)}
  /\ UNCHANGED <<fileVars, mapVars, rowVars, device, late, status, failing>>

Refreshes(e) == \E a \in Actor : Read(e, a) \/ Store(e, a)

StatusNext ==
  \/ \E e \in Event :
       \/ Push(e) \/ Cancel(e) \/ Test(e) \/ Refreshes(e)
       \/ \E m \in [LedsOf(e) -> Folder \cup {NoFolder}] : Save(e, m)
  \/ \E f \in File : Fetch(f)
  \/ Crash

(* A run that has something to do begins, and every thread goes on.        *)
StatusSpec ==
  StatusInit /\ [][StatusNext]_allVars
  /\ \A e \in Event : WF_allVars(Push(e)) /\ WF_allVars(Refreshes(e) /\ faults' = faults)
-----------------------------------------------------------------------------
Quiet(e) == run[e].phase = "idle" /\ \A a \in Actor : IsFree(e, a)

(* Nothing that goes on for an event leaves its stored status behind what  *)
(* the tables say, whatever failed or was cancelled, and however its run   *)
(* and its page interleave, but for: two refreshes of which one has read   *)
(* before the other has stored; a mapping of another event; a refresh that *)
(* never came (a crash, a database error).  The next refresh makes up for  *)
(* those, too (eventstatus.py:53).                                         *)
StatusIsCurrent ==
  \A e \in Event : Quiet(e) /\ e \notin excused => status[e] = compute(e)

(* "Synced" is true: what the event has downloaded is on the devices in    *)
(* the version it has, where no other LED may write to the folder          *)
(* (eventstatus.py:46).                                                    *)
SyncedIsDelivered ==
  \A e \in Event : Quiet(e) /\ e \notin excused /\ status[e] = "Synced" =>
    \A f \in FilesOf(e) : hist[f].status = "Success" /\ Exclusive(f) => OnDevice(f)

(* A status never stays behind for good: once files, mappings and faults   *)
(* have come to rest, an event whose LEDs are mapped where nobody else     *)
(* writes, with no failed download or test, shows that it is synced after  *)
(* a failed push as well (eventstatus.py:40).                              *)
StatusSettles ==
  \A e \in Event :
    <>[]( (/\ \A f \in FilesOf(e) : Exclusive(f) /\ f \notin failing
           /\ \A l \in LedsOf(e) : ~TestFailed(l)
           /\ (\E f \in FilesOf(e) : hist[f].status # "None") /\ e \notin excused)
          => status[e] = "Synced")
=============================================================================
