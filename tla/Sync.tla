--------------------------------- MODULE Sync ---------------------------------
(***************************************************************************)
(* Sending the downloaded files to the LED devices: services/sync.py, with *)
(* push_file of services/localfiles.py and save_mappings of                *)
(* services/mappings.py.                                                   *)
(*                                                                         *)
(* A file is a LED and a name (different LEDs usually have files of the    *)
(* same names); its destination, the key of sync_history, is a folder and  *)
(* the name.  Versions of files and timestamps are numbers; a timestamp is *)
(* a second of this computer's clock.  The runs of several events go on at *)
(* the same time; in one event downloads and pushes follow each other      *)
(* (JobRegistry).  Not here: the operation log, the summary's counters,    *)
(* MAX_ITEMS_PER_RUN, when last_sync was, and tries that fail and are      *)
(* repeated (a failure is one after all tries).                            *)
(***************************************************************************)
EXTENDS Integers

CONSTANTS Event, Led, EventOf,
          Folder, Choices,  \* device folders; those the operator may enter for a LED
          Name, File,       \* file names; the files, <<led, name>>
          Rank,             \* the order of a plan
          ClockSteps,       \* how the clock has moved when a file is downloaded
          MidRun,           \* may mappings be saved while a run is in progress?
          MaxVersion,       \* bound: downloads and removals
          MaxSaves,         \* bound: changes of the mapping
          MaxFaults         \* bound: failures, cancels and crashes

ASSUME SyncAssumption ==
  /\ EventOf \in [Led -> Event]
  /\ Choices \in [Led -> SUBSET Folder]
  /\ File \subseteq Led \X Name
  /\ Rank \in [File -> Nat] /\ \A f, g \in File : Rank[f] = Rank[g] => f = g
  /\ "none" \notin Led /\ "no folder" \notin Folder
  /\ ClockSteps \subseteq Int
  /\ MidRun \in BOOLEAN
  /\ {MaxVersion, MaxSaves, MaxFaults} \subseteq Nat

NoFolder == "no folder"
Nothing == [led |-> "none", version |-> 0]
NoRow == [status |-> "None", at |-> 0]

LedsOf(e) == {l \in Led : EventOf[l] = e}

LedOf(f) == f[1]
Destination == Folder \X Name
Content(f, v) == [led |-> LedOf(f), version |-> v]

VARIABLES
  now, edits, saves, faults,  \* this computer's clock; what the bounds count
  hist,    \* per file: its last Success or Deleted row in download_history
  copy,    \* the version in the local folder
  folder,  \* led_mappings.shared_folder
  tested,  \* led_mappings.connection_status, with the folder that was tested
  crossed, \* history: a mapping has been saved during a run
  sent,    \* per event and destination: the last row of sync_history
  ours,    \* per event: where it put a file and has not since removed it
  open,    \* <<file, folder>> with an unresolved Synchronise exception
  device,  \* what is at each destination
  late,    \* copies abandoned after their last check: <<destination, content>>
  run      \* the run of each event

fileVars == <<now, edits, hist, copy>>
mapVars == <<saves, folder, tested, crossed>>
rowVars == <<sent, ours, open>>
vars == <<fileVars, mapVars, rowVars, faults, device, late, run>>

Untested == [folder |-> NoFolder, ok |-> FALSE]
Idle == [phase |-> "idle", todo |-> {}, usable |-> {}, dead |-> {}]
Item == [file : File, folder : Folder, action : {"Push", "Remove"}]
Run == [phase : {"idle", "planned", "working", "recording"}, todo : SUBSET Item,
        usable : SUBSET Led, dead : SUBSET Led]

TypeOK ==
  /\ now \in Int /\ edits \in 0 .. MaxVersion /\ saves \in 0 .. MaxSaves
  /\ faults \in 0 .. MaxFaults
  /\ hist \in [File -> [status : {"None", "Success", "Deleted"}, at : Int]]
  /\ copy \in [File -> 0 .. MaxVersion]
  /\ folder \in [Led -> Folder \cup {NoFolder}]
  /\ tested \in [Led -> [folder : Folder \cup {NoFolder}, ok : BOOLEAN]]
  /\ crossed \in BOOLEAN
  /\ sent \in [Event -> [Destination -> [status : {"None", "Success", "Failure", "Deleted"}, at : Int]]]
  /\ ours \in [Event -> SUBSET Destination]
  /\ open \subseteq File \X Folder
  /\ device \in [Destination -> {Nothing} \cup [led : Led, version : 1 .. MaxVersion]]
  /\ run \in [Event -> Run]

Init ==
  /\ now = 1 /\ edits = 0 /\ saves = 0 /\ faults = 0
  /\ hist = [f \in File |-> NoRow] /\ copy = [f \in File |-> 0]
  /\ folder = [l \in Led |-> NoFolder] /\ tested = [l \in Led |-> Untested]
  /\ crossed = FALSE
  /\ sent = [e \in Event |-> [d \in Destination |-> NoRow]]
  /\ ours = [e \in Event |-> {}] /\ open = {}
  /\ device = [d \in Destination |-> Nothing] /\ late = {}
  /\ run = [e \in Event |-> Idle]

(* The item of the run that is next, or is being worked on.                *)
IsNext(e, i) ==
  i \in run[e].todo /\ \A k \in run[e].todo : Rank[i.file] <= Rank[k.file]

Target(i) == <<i.folder, i.file[2]>>
Fault == faults < MaxFaults /\ faults' = faults + 1
-----------------------------------------------------------------------------
(* A download run of the event has stored or removed a file; the clock has *)
(* moved since the event's last push.                                      *)
Stored(f, status) ==
  /\ run[EventOf[LedOf(f)]].phase = "idle" /\ edits < MaxVersion
  /\ edits' = edits + 1
  /\ \E d \in ClockSteps :
       /\ now' = now + d
       /\ hist' = [hist EXCEPT ![f] = [status |-> status, at |-> now + d]]
  /\ copy' = [copy EXCEPT ![f] = IF status = "Success" THEN edits + 1 ELSE 0]
  /\ UNCHANGED <<mapVars, rowVars, faults, device, late, run>>

Download(f) == Stored(f, "Success")
Delete(f) == hist[f].status = "Success" /\ Stored(f, "Deleted")

(* save_mappings: the whole page of an event, no folder twice; a changed   *)
(* destination has not been tested yet.                                    *)
OneFolderEach(m) ==
  \A k, l \in DOMAIN m : m[k] = m[l] /\ m[k] # NoFolder => k = l

SaveMappings(e, m) ==
  /\ saves < MaxSaves /\ saves' = saves + 1
  /\ crossed' = (crossed \/ \E d \in Event : run[d].phase # "idle")
  /\ MidRun \/ ~crossed'
  /\ \A l \in LedsOf(e) : m[l] \in Choices[l] \cup {NoFolder}
  /\ OneFolderEach(m)
  /\ folder' = [l \in Led |-> IF l \in LedsOf(e) THEN m[l] ELSE folder[l]]
  /\ tested' = [l \in Led |-> IF folder'[l] = folder[l] THEN tested[l] ELSE Untested]
  /\ UNCHANGED <<fileVars, rowVars, faults, device, late, run>>
-----------------------------------------------------------------------------
Tries(e, i) ==
  /\ run[e].phase = "working" /\ IsNext(e, i)
  /\ LedOf(i.file) \in run[e].usable \ run[e].dead

DestinationOf(f) == <<folder[LedOf(f)], f[2]>>
LastRow(f) == sent[EventOf[LedOf(f)]][DestinationOf(f)]
-----------------------------------------------------------------------------
(* Deviations the runs must be able to see                                 *)
NeedsPushOnce(f) ==                   \* pushed once is pushed for good
  LastRow(f).status # "Success"

FolderIsSharedInEvent(l) ==           \* the other events forgotten
  \E k \in LedsOf(EventOf[l]) \ {l} : folder[k] = folder[l]

StoreTestAnyway(l, f) == TRUE         \* the folder in the WHERE clause forgotten

FailureRowFailed(e, i) ==             \* the operation log's word for it
  sent' = [sent EXCEPT ![e][Target(i)] = [status |-> "Failed", at |-> now]]

RecordedFirst(e, i) ==                \* the row before the file is in place
  /\ Tries(e, i)
  /\ run' = [run EXCEPT ![e].phase = "recording"]
  /\ sent' = [sent EXCEPT ![e][Target(i)] = [status |-> "Success", at |-> now]]
  /\ UNCHANGED <<fileVars, mapVars, ours, open, faults, device, late>>
-----------------------------------------------------------------------------
(* plan                                                                    *)

(* _folder_is_shared: another mapping, of any event, has the same folder.  *)
FolderIsShared(l) == \E k \in Led \ {l} : folder[k] = folder[l]

(* Never pushed to this path, not successfully, or downloaded again since. *)
NeedsPush(f) == LastRow(f).status # "Success" \/ LastRow(f).at < hist[f].at

NeedsRemove(f) ==
  DestinationOf(f) \in ours[EventOf[LedOf(f)]] /\ ~FolderIsShared(LedOf(f))

Mapped(f) == folder[LedOf(f)] # NoFolder

Plan(e) ==
  LET files   == {f \in File : EventOf[LedOf(f)] = e /\ Mapped(f)}
      pushes  == {f \in files : hist[f].status = "Success" /\ NeedsPush(f)}
      removes == {f \in files : hist[f].status = "Deleted" /\ NeedsRemove(f)}
      todo    == {[file |-> f, folder |-> folder[LedOf(f)], action |-> "Push"] : f \in pushes}
                 \cup
                 {[file |-> f, folder |-> folder[LedOf(f)], action |-> "Remove"] : f \in removes}
  IN  /\ run[e].phase = "idle" /\ todo # {}
      /\ run' = [run EXCEPT ![e] = [Idle EXCEPT !.phase = "planned", !.todo = todo]]
      /\ UNCHANGED <<fileVars, mapVars, rowVars, faults, device, late>>
-----------------------------------------------------------------------------
(* process                                                                 *)

Involved(e) == {LedOf(i.file) : i \in run[e].todo}

(* record_test stores an outcome only while the row has the folder tested. *)
StillMapped(l, f) == folder[l] = f

(* Every destination of the plan is tested; the outcomes are stored.       *)
TestDestinations(e) ==
  /\ run[e].phase = "planned"
  /\ \E usable \in SUBSET Involved(e) :
       /\ \/ usable = Involved(e) /\ UNCHANGED faults
          \/ usable # Involved(e) /\ Fault
       /\ run' = [run EXCEPT ![e].phase = "working", ![e].usable = usable]
       /\ \E at \in [Involved(e) -> Folder] :
            /\ \A i \in run[e].todo : at[LedOf(i.file)] = i.folder
            /\ tested' = [l \in Led |->
                            IF l \in Involved(e) /\ StillMapped(l, at[l])
                            THEN [folder |-> at[l], ok |-> l \in usable] ELSE tested[l]]
  /\ UNCHANGED <<fileVars, saves, folder, crossed, rowVars, device, late>>

EndRun(e) ==
  /\ run[e].phase = "working" /\ run[e].todo = {}
  /\ run' = [run EXCEPT ![e] = Idle]
  /\ UNCHANGED <<fileVars, mapVars, rowVars, faults, device, late>>

Done(e, i) == [run EXCEPT ![e].phase = "working", ![e].todo = @ \ {i}]

FailureRow(e, i) == sent' = [sent EXCEPT ![e][Target(i)] = [status |-> "Failure", at |-> now]]

(* The destination could not be used, or failed earlier in this run: the   *)
(* file is not tried.                                                      *)
SkipItem(e, i) ==
  /\ run[e].phase = "working" /\ IsNext(e, i)
  /\ LedOf(i.file) \notin run[e].usable \ run[e].dead
  /\ FailureRow(e, i)
  /\ run' = Done(e, i)
  /\ UNCHANGED <<fileVars, mapVars, ours, open, faults, device, late>>

(* push_file: copied, read back, renamed into place; or the file deleted.  *)
Transfer(e, i) ==
  /\ Tries(e, i)
  /\ device' = [device EXCEPT ![Target(i)] =
                  IF i.action = "Push" THEN Content(i.file, copy[i.file]) ELSE Nothing]
  /\ run' = [run EXCEPT ![e].phase = "recording"]
  /\ UNCHANGED <<fileVars, mapVars, rowVars, faults, late>>

(* The row of the outcome and the exceptions it resolves are committed; or *)
(* the database cannot be written.                                         *)
Record(e, i) ==
  LET pushed == i.action = "Push"
  IN  /\ run[e].phase = "recording" /\ IsNext(e, i)
      /\ \/ /\ sent' = [sent EXCEPT ![e][Target(i)] =
                          [status |-> IF pushed THEN "Success" ELSE "Deleted", at |-> now]]
            /\ ours' = [ours EXCEPT ![e] = IF pushed THEN @ \cup {Target(i)}
                                           ELSE @ \ {Target(i)}]
            /\ open' = open \ {<<i.file, i.folder>>}
            /\ UNCHANGED faults
         \/ Fault /\ UNCHANGED rowVars
      /\ run' = Done(e, i)
      /\ UNCHANGED <<fileVars, mapVars, device, late>>

(* The transfer fails after all its tries: the source or the copy is not   *)
(* right, or the device refuses; a device that does not respond is not     *)
(* tried again in this run.                                                *)
Fails(e, i) == FailureRow(e, i) /\ open' = open \cup {<<i.file, i.folder>>}
DeviceDies(e, i) == run' = [Done(e, i) EXCEPT ![e].dead = @ \cup {LedOf(i.file)}]

TransferFails(e, i) ==
  /\ Tries(e, i) /\ Fault
  /\ Fails(e, i)
  /\ run' = Done(e, i) \/ DeviceDies(e, i)
  /\ UNCHANGED <<fileVars, mapVars, ours, device, late>>

(* The watcher of push_file gives a silent copy up.  If the thread is past *)
(* its last look at `abandoned` it goes on when the device wakes up.       *)
PushStalls(e, i) ==
  /\ Tries(e, i) /\ Fault /\ i.action = "Push"
  /\ Fails(e, i)
  /\ DeviceDies(e, i)
  /\ late' = late \cup {<<Target(i), Content(i.file, copy[i.file])>>}
  /\ UNCHANGED <<fileVars, mapVars, ours, device>>

LateRename ==
  /\ \E c \in late : /\ device' = [device EXCEPT ![c[1]] = c[2]]
                     /\ late' = late \ {c}
  /\ UNCHANGED <<fileVars, mapVars, rowVars, faults, run>>

(* The run ends before the next file, in one, or with the process.         *)
CancelOrCrash(e) ==
  /\ Fault /\ run[e].phase # "idle"
  /\ run' = [run EXCEPT ![e] = Idle]
  /\ UNCHANGED <<fileVars, mapVars, rowVars, device, late>>
-----------------------------------------------------------------------------
Step(e) ==
  \/ Plan(e) \/ TestDestinations(e) \/ EndRun(e)
  \/ \E i \in run[e].todo : SkipItem(e, i) \/ Transfer(e, i) \/ Record(e, i)

Trouble(e) == CancelOrCrash(e) \/ \E i \in run[e].todo : TransferFails(e, i)

Stalling == LateRename \/ \E e \in Event : \E i \in run[e].todo : PushStalls(e, i)

User == \/ \E f \in File : Download(f) \/ Delete(f)
        \/ \E e \in Event : \E m \in [LedsOf(e) -> Folder \cup {NoFolder}] : SaveMappings(e, m)

Next == User \/ \E e \in Event : Step(e) \/ Trouble(e)

NextStalling == Next \/ Stalling

(* Synchronisation runs whenever there is something to do (every download  *)
(* run ends with one), and every call of a run has a deadline.             *)
Fairness == \A e \in Event : WF_vars(Step(e))

FairSpec == Init /\ [][Next]_vars /\ Fairness

StallSpec == Init /\ [][NextStalling]_vars /\ Fairness
-----------------------------------------------------------------------------
Exclusive(f) ==
  Mapped(f) /\ \A l \in Led \ {LedOf(f)} : folder[LedOf(f)] \notin Choices[l]

OnDevice(f) == device[DestinationOf(f)] = Content(f, copy[f])

(* What the history calls downloaded gets to its device: when downloads,   *)
(* changes of the mapping and faults are over, each file of a LED whose    *)
(* folder no other LED ever had is there in its newest version, and a      *)
(* removed file that was recorded as put there is not; the failures of     *)
(* what has since been sent are closed.                                    *)
DevicesConverge ==
  \A f \in File :
    <>[]( Exclusive(f) =>
            /\ hist[f].status = "Success" =>
                 OnDevice(f) /\ <<f, folder[LedOf(f)]>> \notin open
            /\ hist[f].status = "Deleted" => DestinationOf(f) \notin ours[EventOf[LedOf(f)]] )

(* "Another LED or event uses this folder: never remove from it"           *)
(* (sync.py:114): a removal never takes away the file of a LED that is     *)
(* mapped to the folder.                                                   *)
TakesAway(f) ==
  /\ Mapped(f) /\ hist[f].status = "Success"
  /\ device[DestinationOf(f)].led = LedOf(f) /\ device'[DestinationOf(f)] = Nothing

RemovesOnlyItsOwn == [][\A f \in File : ~TakesAway(f)]_vars

(* The same as far as the code goes: unless a mapping has been saved while *)
(* a run was in progress (sync.py:113 looks once, when the plan is made).  *)
RemovesOwnByPlan == [][crossed \/ \A f \in File : ~TakesAway(f)]_vars

(* What a plan leaves alone is in place: a downloaded file that no longer  *)
(* needs a push is on its device in the version downloaded last, whatever  *)
(* failed, was cancelled or crashed on the way, when no other LED ever     *)
(* writes to its folder.  So a copy that was given up never lands on a     *)
(* newer one: "the abandoned thread removes its temporary file if it ever  *)
(* wakes up" (localfiles.py:488).                                          *)
LeftAloneIsOnDevice ==
  \A f \in File :
    hist[f].status = "Success" /\ Exclusive(f) /\ ~NeedsPush(f) => OnDevice(f)

(* "Only if the row still holds the folder that was tested" (mappings.py:  *)
(* 349): a connection status shown for a LED is that of its folder, though *)
(* a test takes time and the mapping may be saved meanwhile.               *)
TestedIsCurrent ==
  \A l \in Led : tested[l] # Untested => tested[l].folder = folder[l]

(* "A file is (re)pushed when it was downloaded and has never been pushed  *)
(* to its current destination" (sync.py:11): a plan leaves out no          *)
(* downloaded file whose destination holds another LED's file.             *)
ForeignIsReplaced ==
  \A e \in Event : \A f \in File :
    /\ EventOf[LedOf(f)] = e /\ run[e].phase = "planned"
    /\ Mapped(f) /\ hist[f].status = "Success"
    /\ device[DestinationOf(f)] # Nothing /\ device[DestinationOf(f)].led # LedOf(f)
    => \E i \in run[e].todo : i.file = f
=============================================================================
