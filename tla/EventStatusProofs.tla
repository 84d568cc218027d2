--------------------------- MODULE EventStatusProofs ---------------------------
(***************************************************************************)
(* For any number of events, LEDs, files and folders, and any number of    *)
(* downloads, pushes, saves, tests, failures, cancels and crashes: the     *)
(* stored status is what the tables say, and Synced is true.               *)
(***************************************************************************)
EXTENDS EventStatus, SyncProofs

(* What an event's own steps do not change of another one, and what none   *)
(* of the steps that are new in EventStatus change of the copies.          *)
Refresh == [step : {"none", "due", "storing"}, value : Status, overlapped : BOOLEAN]
AllIdle == [e \in Event |-> Idle]

Calm ==
  /\ UNCHANGED <<fileVars, rowVars, folder, crossed, device, late>>
  /\ run' = run \/ run' = AllIdle
  /\ tested' \in [Led -> [folder : Folder \cup {NoFolder}, ok : BOOLEAN]]
  /\ saves' \in 0 .. MaxSaves /\ faults' \in 0 .. MaxFaults

LEMMA FaultIsCounted == ASSUME TypeOK, Fault PROVE faults' \in 0 .. MaxFaults
<1>1. faults \in 0 .. MaxFaults /\ MaxFaults \in Nat
  BY SyncAssumption DEF TypeOK
<1> QED BY <1>1 DEF Fault

LEMMA TestIsCalm ==
  ASSUME TypeOK, NEW e \in Event, Test(e) PROVE Calm
<1>1. saves \in 0 .. MaxSaves /\ faults \in 0 .. MaxFaults /\ MaxSaves \in Nat
      /\ folder \in [Led -> Folder \cup {NoFolder}]
      /\ tested \in [Led -> [folder : Folder \cup {NoFolder}, ok : BOOLEAN]]
  BY SyncAssumption DEF TypeOK
<1>2. saves' \in 0 .. MaxSaves
  BY <1>1 DEF Test
<1>3. faults' \in 0 .. MaxFaults
  BY <1>1, FaultIsCounted DEF Test
<1>4. PICK ls \in SUBSET {l \in LedsOf(e) : folder[l] # NoFolder}, ok \in BOOLEAN :
        tested' = [l \in Led |-> IF l \in ls THEN [folder |-> folder[l], ok |-> ok] ELSE tested[l]]
  BY DEF Test
<1>5. tested' \in [Led -> [folder : Folder \cup {NoFolder}, ok : BOOLEAN]]
  BY <1>1, <1>4
<1> QED BY <1>2, <1>3, <1>5 DEF Test, Calm

(* Every step is one of Sync, or leaves files, rows and devices alone.     *)
LEMMA Moves == ASSUME TypeOK, StatusNext PROVE Next \/ Calm
<1>1. /\ saves \in 0 .. MaxSaves /\ faults \in 0 .. MaxFaults
      /\ tested \in [Led -> [folder : Folder \cup {NoFolder}, ok : BOOLEAN]]
  BY DEF TypeOK
<1>2. ASSUME UNCHANGED <<fileVars, mapVars, rowVars, device, late>>, run' = run \/ run' = AllIdle,
             UNCHANGED faults \/ Fault
      PROVE  Calm
  BY <1>1, <1>2, FaultIsCounted DEF Calm, mapVars
<1>3. ASSUME NEW e \in Event, Push(e) PROVE Next
  BY <1>3 DEF Push, Next, Trouble
<1>4. ASSUME NEW e \in Event, Cancel(e) PROVE Next
  BY <1>4 DEF Cancel, Next, Trouble, CancelOrCrash
<1>5. ASSUME NEW e \in Event, NEW a, Read(e, a) \/ Store(e, a) PROVE Calm
  BY <1>2, <1>5 DEF Read, Store, vars
<1>6. ASSUME NEW e \in Event, NEW m \in [LedsOf(e) -> Folder \cup {NoFolder}], Save(e, m) PROVE Next
  BY <1>6 DEF Save, Next, User
<1>7. ASSUME NEW f \in File, Fetch(f) PROVE Next \/ Calm
  BY <1>2, <1>7 DEF Fetch, Next, User
<1>8. CASE Crash
  BY <1>2, <1>8 DEF Crash, AllIdle
<1> QED BY <1>3, <1>4, <1>5, <1>6, <1>7, <1>8, TestIsCalm DEF StatusNext, Refreshes

LEMMA CalmIsBasic == ASSUME Basic, Calm PROVE Basic'
<1>1. run \in [Event -> Run] /\ run' \in [Event -> Run]
  BY IdleRun DEF Basic, TypeOK, Calm, AllIdle
<1>2. TypeOK'
  BY <1>1 DEF Basic, TypeOK, Calm, fileVars, rowVars
<1>3. ASSUME NEW e \in Event PROVE PlanOK(e)'
  <2>1. CASE run' = run
    BY <1>3, <2>1 DEF Basic, ItemsOK, PlanOK, ItemOK, Calm, fileVars
  <2>2. CASE run'[e] = Idle
    BY <2>2, IdleRun DEF PlanOK
  <2> QED BY <1>3, <2>1, <2>2 DEF Calm, AllIdle
<1>4. FilesOK' /\ MapOK'
  BY DEF Basic, FilesOK, MapOK, Calm, fileVars
<1> QED BY <1>2, <1>3, <1>4 DEF Basic, ItemsOK

LEMMA CalmDelivers == ASSUME Delivery, Calm PROVE Delivery'
<1>1. Basic'
  BY CalmIsBasic DEF Delivery
<1>2. Clocked' /\ Delivered'
  BY DEF Delivery, Clocked, Delivered, DeliveredAt, Lies, RowOf, Calm, fileVars, rowVars
<1>3. Copied'
  <2>1. CASE run' = run
    BY <2>1 DEF Delivery, Copied, CopiedAt, Lies, IsNext, Calm, fileVars
  <2>2. CASE run' = AllIdle
    BY <2>2, IdleRun DEF Copied, AllIdle
  <2> QED BY <2>1, <2>2 DEF Calm
<1> QED BY <1>1, <1>2, <1>3 DEF Delivery

LEMMA BasicStays == ASSUME Basic, [StatusNext]_allVars PROVE Basic'
<1>1. CASE StatusNext
  BY <1>1, Moves, BasicStep, CalmIsBasic DEF Basic
<1>2. CASE UNCHANGED allVars
  BY <1>2, BasicStep DEF allVars
<1> QED BY <1>1, <1>2
-----------------------------------------------------------------------------
(* How refreshes are owed, and what that leaves alone                      *)
LEMMA Owing ==
  ASSUME refresh \in [Event -> [Actor -> Refresh]], NEW e \in Event, NEW a \in Actor, Owes(e, a)
  PROVE  /\ refresh' \in [Event -> [Actor -> Refresh]]
         /\ refresh'[e][a].step = "due"
         /\ \A b \in Actor \ {a} : refresh'[e][b] = refresh[e][b]
         /\ \A d \in Event \ {e} : refresh'[d] = refresh[d]
<1> DEFINE r == [refresh[e][a] EXCEPT !.step = "due"]
           x == [refresh[e] EXCEPT ![a] = r]
<1>1. r \in Refresh /\ r.step = "due"
  BY DEF Refresh
<1>2. x \in [Actor -> Refresh] /\ x[a] = r /\ \A b \in Actor \ {a} : x[b] = refresh[e][b]
  BY <1>1
<1>3. refresh' = [refresh EXCEPT ![e] = x]
  BY DEF Owes
<1> HIDE DEF r, x
<1> QED BY <1>1, <1>2, <1>3

LEMMA Overlapping ==
  ASSUME NEW r \in Refresh
  PROVE  /\ Overlaps(r) \in Refresh /\ Overlaps(r).step = r.step
         /\ r.step = "storing" => Overlaps(r).overlapped
         /\ [r EXCEPT !.step = "due"] \in Refresh /\ [r EXCEPT !.step = "due"].step = "due"
BY DEF Overlaps, Refresh

LEMMA NoneDue == NoRefresh \in Refresh /\ NoRefresh.step = "none"
BY DEF NoRefresh, Refresh, Status

LEMMA Computed == ASSUME NEW e PROVE compute(e) \in Status
BY DEF compute, Status
-----------------------------------------------------------------------------
(* What the computation looks at                                           *)
Looks(e) ==
  /\ \A f \in FilesOf(e) : hist'[f] = hist[f] /\ (f \in failing' <=> f \in failing)
  /\ \A l \in LedsOf(e) : folder'[l] = folder[l] /\ tested'[l] = tested[l]
  /\ sent'[e] = sent[e] /\ ours'[e] = ours[e]
  /\ \A l \in LedsOf(e) : folder[l] # NoFolder => (FolderIsShared(l)' <=> FolderIsShared(l))

LEMMA ComputesTheSame == ASSUME NEW e \in Event, Looks(e) PROVE compute(e)' = compute(e)
<1>1. ASSUME NEW f \in FilesOf(e)
      PROVE  /\ EventOf[LedOf(f)] = e /\ LedOf(f) \in LedsOf(e)
             /\ hist'[f] = hist[f] /\ folder'[LedOf(f)] = folder[LedOf(f)]
  BY <1>1, Files DEF FilesOf, LedsOf, Looks
<1>2. ASSUME NEW f \in FilesOf(e)
      PROVE  /\ Mapped(f)' <=> Mapped(f)
             /\ LastRow(f)' = LastRow(f) /\ (NeedsPush(f)' <=> NeedsPush(f))
             /\ Mapped(f) => (NeedsRemove(f)' <=> NeedsRemove(f))
  <2>1. DestinationOf(f)' = DestinationOf(f)
    BY <1>1 DEF DestinationOf
  <2>2. LastRow(f)' = LastRow(f)
    BY <1>1, <2>1 DEF LastRow, Looks
  <2>3. Mapped(f) => (FolderIsShared(LedOf(f))' <=> FolderIsShared(LedOf(f)))
    BY <1>1 DEF Mapped, Looks
  <2>4. Mapped(f) => (NeedsRemove(f)' <=> NeedsRemove(f))
    BY <1>1, <2>1, <2>3 DEF NeedsRemove, Looks
  <2> QED BY <1>1, <2>2, <2>4 DEF Mapped, NeedsPush
<1>3. Waiting(e)' = Waiting(e)
  <2>1. FilesOf(e) = FilesOf(e)'
    BY DEF FilesOf
  <2>2. ASSUME NEW f \in FilesOf(e) PROVE f \in Waiting(e)' <=> f \in Waiting(e)
    BY <1>1, <1>2, <2>1 DEF Waiting
  <2>3. Waiting(e) \subseteq FilesOf(e) /\ Waiting(e)' \subseteq FilesOf(e)
    BY <2>1 DEF Waiting
  <2> QED BY <2>2, <2>3
<1>4. Unresolved(e)' <=> Unresolved(e)
  <2>1. \A f \in FilesOf(e) : LastRow(f)' = LastRow(f) /\ (f \in failing' <=> f \in failing)
    BY <1>2 DEF Looks
  <2>2. FilesOf(e) = FilesOf(e)'
    BY DEF FilesOf
  <2> QED BY <1>3, <2>1, <2>2 DEF Unresolved
<1>5. AllSent(e)' <=> AllSent(e)
  <2>1. \A f \in FilesOf(e) : hist'[f] = hist[f] /\ (Mapped(f)' <=> Mapped(f))
    BY <1>1, <1>2
  <2>2. FilesOf(e) = FilesOf(e)'
    BY DEF FilesOf
  <2> QED BY <1>3, <2>1, <2>2 DEF AllSent
<1>6. AllReady(e)' <=> AllReady(e)
  BY DEF AllReady, LedsOf, Looks
<1>7. (\E l \in LedsOf(e) : TestFailed(l))' <=> \E l \in LedsOf(e) : TestFailed(l)
  BY DEF TestFailed, LedsOf, Looks
<1> QED BY <1>4, <1>5, <1>6, <1>7 DEF compute

(* A run does nothing to other events.                                     *)
Apart(e) ==
  /\ UNCHANGED <<hist, folder>>
  /\ \A d \in Event \ {e} : run'[d] = run[d] /\ sent'[d] = sent[d] /\ ours'[d] = ours[d]
  /\ \A l \in Led \ LedsOf(e) : tested'[l] = tested[l]

LEMMA RunsApart ==
  ASSUME Basic, NEW e \in Event, Step(e) \/ (\E i \in run[e].todo : TransferFails(e, i)) PROVE Apart(e)
<1>1. run \in [Event -> Run] /\ sent \in [Event -> [Destination -> Row]]
      /\ ours \in [Event -> SUBSET Destination]
      /\ tested \in [Led -> [folder : Folder \cup {NoFolder}, ok : BOOLEAN]]
  BY DEF Basic, TypeOK, Row
<1>2. CASE Plan(e)
  <2>1. \E r : run' = [run EXCEPT ![e] = r]
    BY <1>2 DEF Plan
  <2> QED BY <1>1, <1>2, <2>1 DEF Plan, Apart, fileVars, mapVars, rowVars
<1>3. CASE EndRun(e)
  BY <1>1, <1>3 DEF EndRun, Apart, fileVars, mapVars, rowVars
<1>4. CASE TestDestinations(e)
  <2>1. Involved(e) \subseteq LedsOf(e)
    <3>1. \A i \in run[e].todo : i \in Item /\ EventOf[LedOf(i.file)] = e
      BY <1>1, Runs DEF Basic, ItemsOK, PlanOK, ItemOK
    <3> QED BY <3>1, Items, Files DEF Involved, LedsOf
  <2>2. \A l \in Led \ LedsOf(e) : tested'[l] = tested[l]
    BY <1>4, <2>1 DEF TestDestinations
  <2>3. PICK usable : run' = [run EXCEPT ![e].phase = "working", ![e].usable = usable]
    BY <1>4 DEF TestDestinations
  <2>4. \A d \in Event \ {e} : run'[d] = run[d]
    BY <1>1, <2>3
  <2> QED BY <1>4, <2>2, <2>4 DEF TestDestinations, Apart, fileVars, rowVars
<1>5. ASSUME NEW i \in run[e].todo, SkipItem(e, i) \/ Record(e, i) \/ TransferFails(e, i) PROVE Apart(e)
  <2>1. i \in Item
    BY <1>1, Runs
  <2>2. run' = Done(e, i) \/ DeviceDies(e, i)
    BY <1>5 DEF SkipItem, Record, TransferFails
  <2>3. \A d \in Event \ {e} : run'[d] = run[d]
    BY <1>1, <2>1, <2>2, Dones, Deaths
  <2>4. (\E r : sent' = [sent EXCEPT ![e] = r]) \/ sent' = sent
    BY <1>5 DEF SkipItem, Record, TransferFails, FailureRow, Fails, rowVars
  <2>5. (\E r : ours' = [ours EXCEPT ![e] = r]) \/ ours' = ours
    BY <1>5 DEF SkipItem, Record, TransferFails, rowVars
  <2>6. \A d \in Event \ {e} : sent'[d] = sent[d] /\ ours'[d] = ours[d]
    BY <1>1, <2>4, <2>5
  <2> QED BY <1>5, <2>3, <2>6 DEF SkipItem, Record, TransferFails, Apart, fileVars, mapVars
<1>6. ASSUME NEW i \in run[e].todo, Transfer(e, i) PROVE Apart(e)
  BY <1>1, <1>6 DEF Transfer, Apart, fileVars, mapVars, rowVars
<1> QED BY <1>2, <1>3, <1>4, <1>5, <1>6 DEF Step

LEMMA OthersLook ==
  ASSUME NEW e \in Event, NEW d \in Event \ {e}, Apart(e), UNCHANGED failing PROVE Looks(d)
<1>1. \A l \in LedsOf(d) : l \in Led \ LedsOf(e)
  BY DEF LedsOf
<1>2. \A l \in Led : FolderIsShared(l)' <=> FolderIsShared(l)
  BY DEF Apart, FolderIsShared
<1> QED BY <1>1, <1>2 DEF Looks, Apart, LedsOf

(* Nor does saving the mappings of an event, where it touches no folder of *)
(* the other one.                                                          *)
LEMMA SavesApart ==
  ASSUME TypeOK, NEW e \in Event, NEW m \in [LedsOf(e) -> Folder \cup {NoFolder}], SaveMappings(e, m),
         NEW d \in Event \ {e}, ~Touches(e, d), UNCHANGED failing
  PROVE  Looks(d)
<1>1. \A l \in Led \ LedsOf(e) : folder'[l] = folder[l] /\ tested'[l] = tested[l]
  BY DEF SaveMappings
<1>2. \A l \in LedsOf(d) : l \in Led \ LedsOf(e)
  BY DEF LedsOf
<1>3. ASSUME NEW k \in LedsOf(d), folder[k] # NoFolder PROVE FolderIsShared(k)' <=> FolderIsShared(k)
  <2>1. \A l \in Led : folder'[l] = folder[l] \/ (l \in LedsOf(e) /\ folder[k] \notin {folder[l], folder'[l]})
    BY <1>1, <1>3 DEF Touches
  <2>2. folder'[k] = folder[k]
    BY <1>1, <1>2, <1>3
  <2> QED BY <2>1, <2>2 DEF FolderIsShared
<1> QED BY <1>1, <1>2, <1>3 DEF Looks, SaveMappings, fileVars, rowVars
-----------------------------------------------------------------------------
(* A run that is not over owes a refresh; what one thread has read, while  *)
(* no other owes or does anything, is what it will store; and so what has  *)
(* been stored is right.                                                   *)
OthersFree(e, a) == \A b \in Actor \ {a} : IsFree(e, b)

RunOwes(e) == run[e].phase # "idle" => refresh[e]["run"].step = "due"
ReadIsCurrent(e) ==
  \A a \in Actor : refresh[e][a].step = "storing" /\ ~refresh[e][a].overlapped /\ OthersFree(e, a)
                   => refresh[e][a].value = compute(e)
StoredIsCurrent(e) == (\A a \in Actor : IsFree(e, a)) /\ e \notin excused => status[e] = compute(e)
Settled(e) == RunOwes(e) /\ ReadIsCurrent(e) /\ StoredIsCurrent(e)

StatusOK ==
  /\ Basic
  /\ status \in [Event -> Status] /\ failing \subseteq File /\ excused \subseteq Event
  /\ refresh \in [Event -> [Actor -> Refresh]]

LEMMA SettledElsewhere ==
  ASSUME NEW e \in Event, Settled(e), compute(e)' = compute(e), refresh'[e] = refresh[e],
         status'[e] = status[e], e \in excused => e \in excused', run'[e] = run[e]
  PROVE  Settled(e)'
<1>1. RunOwes(e)'
  BY DEF Settled, RunOwes
<1>2. ReadIsCurrent(e)'
  BY DEF Settled, ReadIsCurrent, OthersFree, IsFree
<1>3. StoredIsCurrent(e)'
  BY DEF Settled, StoredIsCurrent, IsFree
<1> QED BY <1>1, <1>2, <1>3 DEF Settled

(* A refresh that is owed makes up for everything.                         *)
LEMMA SettledByDue ==
  ASSUME NEW e \in Event, NEW a \in Actor, refresh'[e][a].step = "due", RunOwes(e)'
  PROVE  Settled(e)'
<1>1. ~IsFree(e, a)'
  BY DEF IsFree
<1>2. ReadIsCurrent(e)'
  <2> SUFFICES ASSUME NEW b \in Actor, refresh'[e][b].step = "storing", OthersFree(e, b)' PROVE FALSE
    BY DEF ReadIsCurrent
  <2> QED BY <1>1 DEF OthersFree
<1>3. StoredIsCurrent(e)'
  BY <1>1 DEF StoredIsCurrent
<1> QED BY <1>2, <1>3 DEF Settled

(* Where everything that was read is overlapped, and the event excused,    *)
(* nothing is promised.                                                    *)
LEMMA SettledByExcuse ==
  ASSUME NEW e \in Event, refresh \in [Event -> [Actor -> Refresh]], Settled(e), run'[e] = run[e],
         e \in excused', \A a \in Actor : refresh'[e][a] = Overlaps(refresh[e][a])
  PROVE  Settled(e)'
<1>1. \A a \in Actor : refresh'[e][a].step = refresh[e][a].step
                       /\ (refresh'[e][a].step = "storing" => refresh'[e][a].overlapped)
  <2> TAKE a \in Actor
  <2>1. refresh[e][a] \in Refresh
    OBVIOUS
  <2> DEFINE r == refresh[e][a]
             s == Overlaps(r)
  <2>2. s.step = r.step /\ (r.step = "storing" => s.overlapped)
    BY <2>1, Overlapping
  <2>3. refresh'[e][a] = s
    OBVIOUS
  <2> HIDE DEF r, s
  <2>4. refresh'[e][a].step = r.step /\ (refresh'[e][a].step = "storing" => refresh'[e][a].overlapped)
    BY <2>2, <2>3, Zenon
  <2> QED BY <2>4 DEF r
<1>2. RunOwes(e)'
  BY <1>1 DEF Settled, RunOwes, Actor
<1>3. ReadIsCurrent(e)'
  BY <1>1 DEF ReadIsCurrent
<1> QED BY <1>2, <1>3 DEF Settled, StoredIsCurrent

LEMMA FetchSettles ==
  ASSUME StatusOK, NEW e \in Event, Settled(e), NEW f \in File, Fetch(f) PROVE Settled(e)'
<1> DEFINE d == EventOf[LedOf(f)]
<1>1. d \in Event /\ "run" \in Actor
  BY Files DEF Actor
<1>2. Owes(d, "run") /\ UNCHANGED <<status, excused, run, folder, tested, sent, ours>>
  BY DEF Fetch, Download, Delete, Stored, mapVars, rowVars
<1>3. \A x \in Event \ {d} : refresh'[x] = refresh[x]
  BY <1>1, <1>2, Owing DEF StatusOK
<1>4. refresh'[d]["run"].step = "due"
  BY <1>1, <1>2, Owing DEF StatusOK
<1>5. CASE e = d
  BY <1>1, <1>4, <1>5, SettledByDue DEF RunOwes
<1>6. CASE e # d
  <2>1. f \notin FilesOf(e)
    BY <1>6 DEF FilesOf
  <2>2. \A g \in File \ {f} : hist'[g] = hist[g] /\ (g \in failing' <=> g \in failing)
    BY DEF Fetch, Download, Delete, Stored, fileVars, StatusOK, Basic, TypeOK
  <2>3. \A g \in FilesOf(e) : hist'[g] = hist[g] /\ (g \in failing' <=> g \in failing)
    BY <2>1, <2>2 DEF FilesOf
  <2>4. Looks(e)
    BY <1>2, <2>3 DEF Looks, FolderIsShared
  <2> QED BY <1>2, <1>3, <1>6, <2>4, ComputesTheSame, SettledElsewhere
<1> QED BY <1>5, <1>6

LEMMA PushSettles ==
  ASSUME StatusOK, NEW e \in Event, Settled(e), NEW d \in Event, Push(d) \/ Cancel(d) PROVE Settled(e)'
<1>1. Owes(d, "run") /\ UNCHANGED <<status, failing, excused>> /\ "run" \in Actor
  BY DEF Push, Cancel, Actor
<1>2. (\A x \in Event \ {d} : refresh'[x] = refresh[x]) /\ refresh'[d]["run"].step = "due"
  BY <1>1, Owing DEF StatusOK
<1>3. Apart(d)
  <2>1. CASE Push(d)
    BY <2>1, RunsApart DEF Push, StatusOK
  <2>2. CASE Cancel(d)
    <3>1. run \in [Event -> Run]
      BY DEF StatusOK, Basic, TypeOK
    <3> QED BY <2>2, <3>1 DEF Cancel, Apart, fileVars, mapVars, rowVars
  <2> QED BY <2>1, <2>2
<1>4. CASE e = d
  BY <1>1, <1>2, <1>4, SettledByDue DEF RunOwes
<1>5. CASE e # d
  <2>1. compute(e)' = compute(e)
    BY <1>1, <1>3, <1>5, OthersLook, ComputesTheSame
  <2> QED BY <1>1, <1>2, <1>3, <1>5, <2>1, SettledElsewhere DEF Apart
<1> QED BY <1>4, <1>5

LEMMA SaveSettles ==
  ASSUME StatusOK, NEW e \in Event, Settled(e), NEW d \in Event,
         NEW m \in [LedsOf(d) -> Folder \cup {NoFolder}], Save(d, m)
  PROVE  Settled(e)'
<1> DEFINE others == {x \in Event \ {d} : Touches(d, x)}
<1>1. /\ UNCHANGED <<status, failing, run>> /\ SaveMappings(d, m)
      /\ excused' = excused \cup others
      /\ refresh' = [x \in Event |->
           [a \in Actor |-> IF x = d /\ a = "page" THEN [refresh[d][a] EXCEPT !.step = "due"]
                            ELSE IF x \in others THEN Overlaps(refresh[x][a]) ELSE refresh[x][a]]]
  BY DEF Save, SaveMappings
<1>2. refresh \in [Event -> [Actor -> Refresh]] /\ "page" \in Actor /\ "run" \in Actor /\ "run" # "page"
  BY DEF StatusOK, Actor
<1> HIDE DEF others
<1>3. CASE e = d
  <2>1. d \notin others
    BY DEF others
  <2>2. refresh'[d]["page"] = [refresh[d]["page"] EXCEPT !.step = "due"]
        /\ refresh'[d]["run"] = refresh[d]["run"]
    BY <1>1, <1>2, <2>1
  <2>3. refresh[d]["page"] \in Refresh
    BY <1>2
  <2>4. refresh'[d]["page"].step = "due"
    BY <2>2, <2>3, Overlapping
  <2>5. RunOwes(e)'
    BY <1>1, <1>3, <2>2 DEF Settled, RunOwes
  <2> QED BY <1>2, <1>3, <2>4, <2>5, SettledByDue
<1>4. CASE e \in others
  <2>1. e # d
    BY <1>4 DEF others
  <2>2. \A a \in Actor : refresh'[e][a] = Overlaps(refresh[e][a])
    BY <1>1, <1>4, <2>1
  <2> QED BY <1>1, <1>2, <1>4, <2>2, SettledByExcuse
<1>5. CASE e # d /\ e \notin others
  <2>1. refresh'[e] = [a \in Actor |-> refresh[e][a]]
    BY <1>1, <1>5
  <2>2. refresh'[e] = refresh[e]
    BY <1>2, <2>1
  <2>3. Looks(e)
    BY <1>1, <1>5, SavesApart DEF others, StatusOK, Basic
  <2> QED BY <1>1, <1>5, <2>2, <2>3, ComputesTheSame, SettledElsewhere
<1> QED BY <1>3, <1>4, <1>5

LEMMA TestSettles ==
  ASSUME StatusOK, NEW e \in Event, Settled(e), NEW d \in Event, Test(d) PROVE Settled(e)'
<1>1. UNCHANGED <<hist, folder, sent, ours, run, status, failing>> /\ "page" \in Actor /\ "run" \in Actor
  BY DEF Test, fileVars, rowVars, Actor
<1>2. refresh \in [Event -> [Actor -> Refresh]]
  BY DEF StatusOK
<1>3. \/ Owes(d, "page") /\ UNCHANGED excused
      \/ /\ excused' = excused \cup {d}
         /\ refresh' = [refresh EXCEPT ![d] = [b \in Actor |-> Overlaps(@[b])]]
  BY DEF Test
<1>4. CASE e # d
  <2>1. \A l \in LedsOf(e) : tested'[l] = tested[l]
    BY <1>4 DEF Test, LedsOf
  <2>2. Looks(e)
    BY <1>1, <2>1 DEF Looks, FolderIsShared
  <2>3. refresh'[e] = refresh[e]
    BY <1>1, <1>2, <1>3, <1>4, Owing
  <2> QED BY <1>1, <1>3, <1>4, <2>2, <2>3, ComputesTheSame, SettledElsewhere
<1>5. CASE e = d /\ Owes(d, "page")
  <2>1. refresh'[d]["page"].step = "due" /\ refresh'[d]["run"] = refresh[d]["run"]
    BY <1>1, <1>2, <1>5, Owing DEF Actor
  <2>2. RunOwes(e)'
    BY <1>1, <1>5, <2>1 DEF Settled, RunOwes
  <2> QED BY <1>1, <1>5, <2>1, <2>2, SettledByDue
<1>6. CASE e = d /\ excused' = excused \cup {d}
           /\ refresh' = [refresh EXCEPT ![d] = [b \in Actor |-> Overlaps(@[b])]]
  <2>1. \A b \in Actor : refresh'[e][b] = Overlaps(refresh[e][b])
    BY <1>2, <1>6
  <2> QED BY <1>1, <1>2, <1>6, <2>1, SettledByExcuse
<1> QED BY <1>3, <1>4, <1>5, <1>6

LEMMA ReadSettles ==
  ASSUME StatusOK, NEW e \in Event, Settled(e), NEW d \in Event, NEW a \in Actor, Read(d, a) PROVE Settled(e)'
<1>1. /\ UNCHANGED <<vars, status, failing, excused>> /\ refresh[d][a].step = "due"
      /\ a = "run" => run[d].phase = "idle"
      /\ refresh' = [refresh EXCEPT ![d][a] =
                       [step |-> "storing", value |-> compute(d), overlapped |-> FALSE]]
      /\ refresh \in [Event -> [Actor -> Refresh]]
  BY DEF Read, StatusOK
<1>2. /\ refresh'[d][a] = [step |-> "storing", value |-> compute(d), overlapped |-> FALSE]
      /\ \A b \in Actor \ {a} : refresh'[d][b] = refresh[d][b]
      /\ \A x \in Event \ {d} : refresh'[x] = refresh[x]
  BY <1>1
<1>3. Looks(e)
  BY <1>1 DEF Looks, FolderIsShared, vars, fileVars, mapVars, rowVars
<1>4. compute(e)' = compute(e) /\ run' = run
  BY <1>1, <1>3, ComputesTheSame DEF vars
<1>5. CASE e # d
  BY <1>1, <1>2, <1>4, <1>5, SettledElsewhere
<1>6. CASE e = d
  <2>1. RunOwes(e)'
    BY <1>1, <1>2, <1>4, <1>6 DEF Settled, RunOwes, Actor
  <2>2. ~IsFree(e, a)'
    BY <1>2, <1>6 DEF IsFree
  <2>3. ReadIsCurrent(e)'
    <3> SUFFICES ASSUME NEW b \in Actor, OthersFree(e, b)' PROVE refresh'[e][b].value = compute(e)'
      BY DEF ReadIsCurrent
    <3>1. b = a
      BY <2>2 DEF OthersFree
    <3> QED BY <1>2, <1>4, <1>6, <3>1
  <2> QED BY <2>1, <2>2, <2>3 DEF Settled, StoredIsCurrent
<1> QED BY <1>5, <1>6

LEMMA StoreSettles ==
  ASSUME StatusOK, NEW e \in Event, Settled(e), NEW d \in Event, NEW a \in Actor, Store(d, a) PROVE Settled(e)'
<1>1. /\ UNCHANGED <<hist, folder, tested, sent, ours, run, failing>> /\ refresh[d][a].step = "storing"
      /\ \/ /\ status' = [status EXCEPT ![d] = refresh[d][a].value]
            /\ excused' = IF refresh[d][a].overlapped THEN excused \cup {d} ELSE excused \ {d}
         \/ excused' = excused \cup {d} /\ UNCHANGED status
      /\ refresh' = [refresh EXCEPT ![d] = [b \in Actor |-> IF b = a THEN NoRefresh ELSE Overlaps(@[b])]]
      /\ refresh \in [Event -> [Actor -> Refresh]] /\ status \in [Event -> Status]
  BY DEF Store, StatusOK, fileVars, mapVars, rowVars
<1>2. /\ refresh'[d][a] = NoRefresh
      /\ \A b \in Actor \ {a} : refresh'[d][b] = Overlaps(refresh[d][b])
      /\ \A x \in Event \ {d} : refresh'[x] = refresh[x]
  BY <1>1
<1>3. compute(e)' = compute(e)
  <2>1. Looks(e)
    BY <1>1 DEF Looks, FolderIsShared
  <2> QED BY <2>1, ComputesTheSame
<1>4. CASE e # d
  <2>1. status'[e] = status[e] /\ (e \in excused => e \in excused')
    BY <1>1, <1>4
  <2> QED BY <1>1, <1>2, <1>3, <1>4, <2>1, SettledElsewhere
<1>5. CASE e = d
  <2>1. \A b \in Actor \ {a} :
          /\ refresh'[e][b].step = refresh[e][b].step
          /\ refresh'[e][b].step = "storing" => refresh'[e][b].overlapped
    <3> TAKE b \in Actor \ {a}
    <3> DEFINE r == refresh[e][b]
               s == Overlaps(r)
    <3>1. r \in Refresh
      BY <1>1
    <3>2. s.step = r.step /\ (r.step = "storing" => s.overlapped)
      BY <3>1, Overlapping
    <3>3. refresh'[e][b] = s
      BY <1>2, <1>5
    <3> HIDE DEF r, s
    <3>4. refresh'[e][b].step = r.step /\ (refresh'[e][b].step = "storing" => refresh'[e][b].overlapped)
      BY <3>2, <3>3, Zenon
    <3> QED BY <3>4 DEF r
  <2>2. IsFree(e, a)'
    BY <1>2, <1>5, NoneDue DEF IsFree
  <2>3. RunOwes(e)'
    BY <1>1, <1>5, <2>1 DEF Settled, RunOwes, Actor
  <2>4. ReadIsCurrent(e)'
    BY <2>1, <2>2 DEF ReadIsCurrent, IsFree
  <2>5. StoredIsCurrent(e)'
    <3> SUFFICES ASSUME \A b \in Actor : IsFree(e, b)', e \notin excused' PROVE status'[e] = compute(e)
      BY <1>3 DEF StoredIsCurrent
    <3>1. OthersFree(e, a)
      BY <2>1 DEF OthersFree, IsFree
    <3>2. ~refresh[e][a].overlapped /\ status'[e] = refresh[e][a].value
      BY <1>1, <1>5
    <3> QED BY <1>1, <1>5, <3>1, <3>2 DEF Settled, ReadIsCurrent
  <2> QED BY <2>3, <2>4, <2>5 DEF Settled
<1> QED BY <1>4, <1>5

LEMMA CrashSettles == ASSUME StatusOK, NEW e \in Event, Settled(e), Crash PROVE Settled(e)'
<1>1. /\ UNCHANGED <<hist, folder, tested, sent, ours, status, failing>>
      /\ refresh'[e] = [a \in Actor |-> NoRefresh] /\ run'[e] = Idle
      /\ e \notin excused' => e \notin excused /\ \A a \in Actor : IsFree(e, a)
  BY DEF Crash, fileVars, mapVars, rowVars
<1>2. compute(e)' = compute(e)
  <2>1. Looks(e)
    BY <1>1 DEF Looks, FolderIsShared
  <2> QED BY <2>1, ComputesTheSame
<1>3. \A a \in Actor : refresh'[e][a].step = "none"
  BY <1>1, NoneDue
<1> QED BY <1>1, <1>2, <1>3, IdleRun DEF Settled, RunOwes, ReadIsCurrent, StoredIsCurrent
-----------------------------------------------------------------------------
Types ==
  /\ status \in [Event -> Status] /\ failing \subseteq File /\ excused \subseteq Event
  /\ refresh \in [Event -> [Actor -> Refresh]]

LEMMA TypesStay == ASSUME StatusOK, StatusNext PROVE Types'
<1>1. Types
  BY DEF StatusOK, Types
<1>2. ASSUME NEW e \in Event, NEW a \in Actor, Owes(e, a), UNCHANGED status,
             failing' \subseteq File, excused' \subseteq Event
      PROVE  Types'
  BY <1>1, <1>2, Owing DEF Types
<1>3. ASSUME NEW f \in File, Fetch(f) PROVE Types'
  <2>1. EventOf[LedOf(f)] \in Event /\ "run" \in Actor
    BY Files DEF Actor
  <2>2. failing' \subseteq File /\ excused' \subseteq Event
    BY <1>1, <1>3 DEF Fetch, Types
  <2> QED BY <1>2, <1>3, <2>1, <2>2 DEF Fetch
<1>4. ASSUME NEW e \in Event, Push(e) \/ Cancel(e) PROVE Types'
  <2>1. failing' \subseteq File /\ excused' \subseteq Event /\ "run" \in Actor
    BY <1>1, <1>4 DEF Push, Cancel, Types, Actor
  <2> QED BY <1>2, <1>4, <2>1 DEF Push, Cancel
<1>5. ASSUME NEW e \in Event, NEW m, Save(e, m) PROVE Types'
  <2> DEFINE others == {d \in Event \ {e} : Touches(e, d)}
             New(d, a) == IF d = e /\ a = "page" THEN [refresh[e][a] EXCEPT !.step = "due"]
                          ELSE IF d \in others THEN Overlaps(refresh[d][a]) ELSE refresh[d][a]
  <2>1. ASSUME NEW d \in Event, NEW a \in Actor PROVE New(d, a) \in Refresh
    <3>1. refresh[d][a] \in Refresh /\ refresh[e][a] \in Refresh
      BY <1>1, <1>5, <2>1 DEF Types
    <3> QED BY <3>1, Overlapping
  <2>2. refresh' = [d \in Event |-> [a \in Actor |-> New(d, a)]]
    BY <1>5 DEF Save
  <2> HIDE DEF New
  <2>3. refresh' \in [Event -> [Actor -> Refresh]]
    BY <2>1, <2>2
  <2> QED BY <1>1, <1>5, <2>3 DEF Save, Types
<1>6. ASSUME NEW e \in Event,
             refresh' = [refresh EXCEPT ![e] = [b \in Actor |-> Overlaps(@[b])]]
      PROVE  refresh' \in [Event -> [Actor -> Refresh]]
  <2>1. ASSUME NEW b \in Actor PROVE Overlaps(refresh[e][b]) \in Refresh
    <3>1. refresh[e][b] \in Refresh
      BY <1>1, <2>1 DEF Types
    <3> QED BY <3>1, Overlapping
  <2>2. [b \in Actor |-> Overlaps(refresh[e][b])] \in [Actor -> Refresh]
    BY <2>1
  <2> QED BY <1>1, <1>6, <2>2 DEF Types
<1>7. ASSUME NEW e \in Event, Test(e) PROVE Types'
  <2>1. /\ UNCHANGED <<status, failing>> /\ excused' \subseteq Event /\ "page" \in Actor
        /\ \/ Owes(e, "page")
           \/ refresh' = [refresh EXCEPT ![e] = [b \in Actor |-> Overlaps(@[b])]]
    BY <1>1, <1>7 DEF Test, Types, Actor
  <2> QED BY <1>1, <1>2, <1>6, <2>1 DEF Types
<1>8. ASSUME NEW e \in Event, NEW a \in Actor, Read(e, a) PROVE Types'
  <2>1. [step |-> "storing", value |-> compute(e), overlapped |-> FALSE] \in Refresh
    BY Computed DEF Refresh
  <2>2. refresh' = [refresh EXCEPT ![e][a] = [step |-> "storing", value |-> compute(e), overlapped |-> FALSE]]
    BY <1>8 DEF Read
  <2> HIDE DEF Refresh
  <2>3. refresh' \in [Event -> [Actor -> Refresh]]
    BY <1>1, <2>1, <2>2 DEF Types
  <2> QED BY <1>1, <1>8, <2>3 DEF Read, Types
<1>9. ASSUME NEW e \in Event, NEW a \in Actor, Store(e, a) PROVE Types'
  <2>1. refresh[e][a] \in Refresh
    BY <1>1 DEF Types
  <2>2. refresh[e][a].value \in Status
    BY <2>1 DEF Refresh
  <2>3. status' \in [Event -> Status] /\ excused' \subseteq Event /\ failing' = failing
    BY <1>1, <1>9, <2>2 DEF Store, Types
  <2> DEFINE New(b) == IF b = a THEN NoRefresh ELSE Overlaps(refresh[e][b])
  <2>4. ASSUME NEW b \in Actor PROVE New(b) \in Refresh
    <3>1. refresh[e][b] \in Refresh
      BY <1>1, <2>4 DEF Types
    <3> QED BY <3>1, Overlapping, NoneDue
  <2>5. refresh' = [refresh EXCEPT ![e] = [b \in Actor |-> New(b)]]
    BY <1>1, <1>9 DEF Store, Types
  <2> HIDE DEF New
  <2>6. refresh' \in [Event -> [Actor -> Refresh]]
    BY <1>1, <2>4, <2>5 DEF Types
  <2> QED BY <1>1, <2>3, <2>6 DEF Types
<1>10. CASE Crash
  <2>1. refresh' = [e \in Event |-> [a \in Actor |-> NoRefresh]]
    BY <1>10 DEF Crash
  <2>2. refresh' \in [Event -> [Actor -> Refresh]]
    BY <2>1, NoneDue
  <2> QED BY <1>1, <1>10, <2>2 DEF Crash, Types
<1> QED BY <1>3, <1>4, <1>5, <1>7, <1>8, <1>9, <1>10 DEF StatusNext, Refreshes

LEMMA StatusOKStays == ASSUME StatusOK, [StatusNext]_allVars PROVE StatusOK'
<1>1. Basic'
  BY BasicStays DEF StatusOK
<1>2. Types'
  <2>1. CASE StatusNext
    BY <2>1, TypesStay
  <2>2. CASE UNCHANGED allVars
    BY <2>2 DEF StatusOK, Types, allVars, statusVars
  <2> QED BY <2>1, <2>2
<1> QED BY <1>1, <1>2 DEF StatusOK, Types

LEMMA StatusOKInit == StatusInit => StatusOK
<1> SUFFICES ASSUME StatusInit PROVE StatusOK
  OBVIOUS
<1>1. refresh \in [Event -> [Actor -> Refresh]]
  BY NoneDue DEF StatusInit
<1>2. status \in [Event -> Status]
  BY DEF StatusInit, Status
<1> QED BY <1>1, <1>2, BasicInit DEF StatusInit, StatusOK

(* Every variable of the event status keeps its type.                      *)
THEOREM StatusTypeCorrect == StatusSpec => []StatusTypeOK
<1>1. StatusOK => StatusTypeOK
  BY DEF StatusOK, StatusTypeOK, Basic, Refresh
<1>2. StatusOK /\ [StatusNext]_allVars => StatusOK'
  BY StatusOKStays
<1> QED BY <1>1, <1>2, StatusOKInit, PTL DEF StatusSpec
-----------------------------------------------------------------------------
IInv == StatusOK /\ \A e \in Event : Settled(e)

LEMMA Settles == ASSUME IInv, [StatusNext]_allVars PROVE IInv'
<1>1. StatusOK'
  BY StatusOKStays DEF IInv
<1> SUFFICES ASSUME NEW e \in Event PROVE Settled(e)'
  BY <1>1 DEF IInv
<1>2. StatusOK /\ Settled(e)
  BY DEF IInv
<1>3. CASE UNCHANGED allVars
  <2>1. Looks(e) /\ UNCHANGED <<status, excused, refresh, run>>
    BY <1>3 DEF Looks, FolderIsShared, allVars, statusVars, vars, fileVars, mapVars, rowVars
  <2> QED BY <1>2, <2>1, ComputesTheSame, SettledElsewhere
<1>4. CASE StatusNext
  BY <1>2, <1>4, FetchSettles, PushSettles, SaveSettles, TestSettles, ReadSettles, StoreSettles, CrashSettles
     DEF StatusNext, Refreshes
<1> QED BY <1>3, <1>4

LEMMA SettledAtFirst == StatusInit => IInv
<1> SUFFICES ASSUME StatusInit, NEW e \in Event PROVE Settled(e)
  BY StatusOKInit DEF IInv
<1>1. /\ run[e] = Idle /\ status[e] = "Registered" /\ failing = {}
      /\ \A a \in Actor : refresh[e][a] = NoRefresh
      /\ \A l \in LedsOf(e) : folder[l] = NoFolder /\ tested[l] = Untested
      /\ \A f \in FilesOf(e) : hist[f].status = "None" /\ LedOf(f) \in LedsOf(e)
  BY Files DEF StatusInit, Init, LedsOf, FilesOf, NoRow
<1>2. compute(e) = "Registered"
  <2>1. Waiting(e) = {}
    BY <1>1 DEF Waiting
  <2>2. ~Unresolved(e)
    BY <1>1, <2>1 DEF Unresolved
  <2>3. ~AllSent(e)
    BY <1>1 DEF AllSent
  <2>4. ~AllReady(e)
    BY <1>1 DEF AllReady
  <2>5. \A l \in LedsOf(e) : ~TestFailed(l)
    BY <1>1 DEF TestFailed
  <2> QED BY <2>2, <2>3, <2>4, <2>5 DEF compute
<1> QED BY <1>1, <1>2, IdleRun, NoneDue DEF Settled, RunOwes, ReadIsCurrent, StoredIsCurrent

LEMMA SettledShows == IInv => StatusIsCurrent
BY DEF IInv, Settled, StoredIsCurrent, StatusIsCurrent, Quiet

(* The stored status is what compute says of the tables, for any number of *)
(* events, of steps between the read and the write of a refresh, and of    *)
(* failures, wherever nothing goes on for the event and it is not excused. *)
THEOREM StatusCurrent == StatusSpec => []StatusIsCurrent
<1>1. IInv /\ [StatusNext]_allVars => IInv'
  BY Settles
<1> QED BY <1>1, SettledAtFirst, SettledShows, PTL DEF StatusSpec

LEMMA DeliveryStays == ASSUME Delivery, Forward, [StatusNext]_allVars PROVE Delivery'
<1>1. CASE StatusNext
  BY <1>1, Moves, DeliveryStep, CalmDelivers DEF Delivery, Basic
<1>2. CASE UNCHANGED allVars
  BY <1>2, DeliveryStep DEF allVars
<1> QED BY <1>1, <1>2

(* Where the clock goes forward, an event that is shown as synced has all  *)
(* that it has downloaded on its devices, in the version downloaded last.  *)
THEOREM SyncedDelivered == ASSUME Forward PROVE StatusSpec => []SyncedIsDelivered
<1>1. Delivery /\ [StatusNext]_allVars => Delivery'
  BY DeliveryStays
<1>2. StatusInit => Delivery
  BY DeliveryInit DEF StatusInit
<1>3. Delivery /\ StatusIsCurrent => SyncedIsDelivered
  <2> SUFFICES ASSUME Delivery, StatusIsCurrent, NEW e \in Event, Quiet(e), e \notin excused, status[e] = "Synced",
                      NEW f \in FilesOf(e), hist[f].status = "Success", Exclusive(f)
               PROVE  OnDevice(f)
    BY DEF SyncedIsDelivered
  <2>1. compute(e) = "Synced"
    BY DEF StatusIsCurrent
  <2>2. Waiting(e) = {}
    BY <2>1 DEF compute, AllSent
  <2>3. ~NeedsPush(f)
    BY <2>2 DEF Waiting, Exclusive
  <2> QED BY <2>3, DeliveryShows DEF LeftAloneIsOnDevice, FilesOf
<1> QED BY <1>1, <1>2, <1>3, StatusCurrent, PTL DEF StatusSpec
=============================================================================
