----------------------------- MODULE SyncProofs -----------------------------
(***************************************************************************)
(* For any number of events, LEDs, files and folders, any number of        *)
(* downloads, saves of mappings, failures, cancels and crashes: what a     *)
(* plan leaves alone is on its device, removals take only what is theirs,  *)
(* and what is shown of a connection is about its folder.                  *)
(***************************************************************************)
EXTENDS Sync, TLAPS

(* What a plan holds is of its event and still as the history said.        *)
ItemOK(e, i) ==
  /\ EventOf[LedOf(i.file)] = e /\ i.folder \in Choices[LedOf(i.file)]
  /\ hist[i.file].status = IF i.action = "Push" THEN "Success" ELSE "Deleted"

PlanOK(e) ==
  /\ run[e].phase = "idle" => run[e].todo = {}
  /\ \A i \in run[e].todo : ItemOK(e, i)
  /\ \A i, j \in run[e].todo : i.file = j.file => i = j

ItemsOK == \A e \in Event : PlanOK(e)
FilesOK == \A f \in File : hist[f].status = "Success" => copy[f] \in 1 .. MaxVersion
MapOK == \A l \in Led : folder[l] \in Choices[l] \cup {NoFolder}

LEMMA Files ==
  ASSUME NEW f \in File
  PROVE  /\ LedOf(f) \in Led /\ f[2] \in Name /\ EventOf[LedOf(f)] \in Event
         /\ f = <<LedOf(f), f[2]>> /\ Choices[LedOf(f)] \subseteq Folder
<1>1. f \in Led \X Name
  BY SyncAssumption
<1>2. LedOf(f) \in Led /\ f[2] \in Name /\ f = <<LedOf(f), f[2]>>
  BY <1>1 DEF LedOf
<1>3. EventOf \in [Led -> Event] /\ Choices \in [Led -> SUBSET Folder]
  BY SyncAssumption
<1> QED BY <1>2, <1>3

LEMMA Nobodys == Nothing.led \notin Led
<1>1. "none" \notin Led
  BY SyncAssumption
<1> QED BY <1>1 DEF Nothing

LEMMA Runs ==
  ASSUME NEW r \in Run
  PROVE  /\ r.todo \subseteq Item
         /\ \A p \in {"idle", "planned", "working", "recording"} : [r EXCEPT !.phase = p] \in Run
         /\ \A p \in {"idle", "planned", "working", "recording"}, t \in SUBSET Item :
              [r EXCEPT !.phase = p, !.todo = t] \in Run
         /\ \A p \in {"idle", "planned", "working", "recording"}, u \in SUBSET Led :
              [r EXCEPT !.phase = p, !.usable = u] \in Run
         /\ \A d \in SUBSET Led : [r EXCEPT !.dead = d] \in Run
BY DEF Run

LEMMA IdleRun == Idle \in Run /\ Idle.phase = "idle" /\ Idle.todo = {}
BY DEF Idle, Run

LEMMA Items ==
  ASSUME NEW i \in Item
  PROVE  i.file \in File /\ i.folder \in Folder /\ i.action \in {"Push", "Remove"} /\ Target(i) \in Destination
<1>1. i.file \in File /\ i.folder \in Folder /\ i.action \in {"Push", "Remove"}
  BY DEF Item
<1> QED BY <1>1, Files DEF Target, Destination

LEMMA Dones ==
  ASSUME NEW e \in Event, NEW i, run \in [Event -> Run]
  PROVE  /\ Done(e, i) \in [Event -> Run]
         /\ \A d \in Event \ {e} : Done(e, i)[d] = run[d]
         /\ Done(e, i)[e].todo = run[e].todo \ {i} /\ Done(e, i)[e].phase = "working"
<1> DEFINE r == [run[e] EXCEPT !.phase = "working", !.todo = @ \ {i}]
<1>1. run[e] \in Run /\ run[e].todo \ {i} \in SUBSET Item
  BY Runs
<1>2. r \in Run
  BY <1>1, Runs
<1>3. r.todo = run[e].todo \ {i} /\ r.phase = "working"
  BY <1>1 DEF Run
<1>4. Done(e, i) = [run EXCEPT ![e] = r]
  BY DEF Done
<1> HIDE DEF r
<1> QED BY <1>2, <1>3, <1>4

LEMMA Deaths ==
  ASSUME NEW e \in Event, NEW i \in Item, run \in [Event -> Run], DeviceDies(e, i)
  PROVE  /\ run' \in [Event -> Run]
         /\ \A d \in Event \ {e} : run'[d] = run[d]
         /\ run'[e].todo = run[e].todo \ {i} /\ run'[e].phase = "working"
<1>1. LedOf(i.file) \in Led
  BY Items, Files
<1>2. Done(e, i) \in [Event -> Run]
  BY Dones
<1> DEFINE r == [Done(e, i)[e] EXCEPT !.dead = @ \cup {LedOf(i.file)}]
<1>3. Done(e, i)[e] \in Run /\ Done(e, i)[e].dead \cup {LedOf(i.file)} \in SUBSET Led
  BY <1>1, <1>2 DEF Run
<1>4. r \in Run
  BY <1>3, Runs
<1>5. r.todo = Done(e, i)[e].todo /\ r.phase = Done(e, i)[e].phase
  BY <1>3 DEF Run
<1>6. run' = [Done(e, i) EXCEPT ![e] = r]
  BY DEF DeviceDies
<1> HIDE DEF r
<1> QED BY <1>2, <1>4, <1>5, <1>6, Dones

Row == [status : {"None", "Success", "Failure", "Deleted"}, at : Int]

LEMMA Sending ==
  ASSUME sent \in [Event -> [Destination -> Row]], NEW e \in Event, NEW d \in Destination, NEW r \in Row,
         sent' = [sent EXCEPT ![e][d] = r]
  PROVE  /\ sent' \in [Event -> [Destination -> Row]] /\ sent'[e][d] = r
         /\ \A x \in Event, y \in Destination : x # e \/ y # d => sent'[x][y] = sent[x][y]
OBVIOUS

LEMMA RunTyped ==
  ASSUME TypeOK, Next PROVE run' \in [Event -> Run]
<1>1. run \in [Event -> Run]
  BY DEF TypeOK
<1>2. ASSUME NEW f, Download(f) \/ Delete(f) PROVE run' = run
  BY <1>2 DEF Download, Delete, Stored
<1>3. ASSUME NEW e, NEW m, SaveMappings(e, m) PROVE run' = run
  BY <1>3 DEF SaveMappings
<1>4. ASSUME NEW e \in Event, NEW r \in Run, run' = [run EXCEPT ![e] = r] PROVE run' \in [Event -> Run]
  BY <1>1, <1>4
<1>5. ASSUME NEW e \in Event, Plan(e) PROVE run' \in [Event -> Run]
  <2> DEFINE files   == {f \in File : EventOf[LedOf(f)] = e /\ Mapped(f)}
             pushes  == {f \in files : hist[f].status = "Success" /\ NeedsPush(f)}
             removes == {f \in files : hist[f].status = "Deleted" /\ NeedsRemove(f)}
             todo    == {[file |-> f, folder |-> folder[LedOf(f)], action |-> "Push"] : f \in pushes}
                 \cup
                 {[file |-> f, folder |-> folder[LedOf(f)], action |-> "Remove"] : f \in removes}
  <2>1. \A f \in files : folder[LedOf(f)] \in Folder
    BY Files DEF TypeOK, Mapped
  <2>2. todo \subseteq Item
    BY <2>1 DEF Item
  <2>3. run' = [run EXCEPT ![e] = [Idle EXCEPT !.phase = "planned", !.todo = todo]]
    BY <1>5 DEF Plan
  <2> HIDE DEF todo
  <2>4. [Idle EXCEPT !.phase = "planned", !.todo = todo] \in Run
    BY <2>2, IdleRun, Runs
  <2> QED BY <2>3, <2>4, <1>4
<1>6. ASSUME NEW e \in Event, TestDestinations(e) PROVE run' \in [Event -> Run]
  <2>1. PICK usable \in SUBSET Involved(e) :
          run' = [run EXCEPT ![e].phase = "working", ![e].usable = usable]
    BY <1>6 DEF TestDestinations
  <2>2. Involved(e) \subseteq Led
    BY <1>1, Runs, Items, Files DEF Involved
  <2>3. [run[e] EXCEPT !.phase = "working", !.usable = usable] \in Run
    BY <1>1, <2>2, Runs
  <2> QED BY <1>1, <2>1, <2>3
<1>7. ASSUME NEW e \in Event, EndRun(e) \/ CancelOrCrash(e) PROVE run' \in [Event -> Run]
  BY <1>4, <1>7, IdleRun DEF EndRun, CancelOrCrash
<1>8. ASSUME NEW e \in Event, NEW i \in run[e].todo, SkipItem(e, i) \/ Record(e, i) \/ TransferFails(e, i)
      PROVE  run' \in [Event -> Run]
  <2>1. i \in Item
    BY <1>1, Runs
  <2>2. run' = Done(e, i) \/ DeviceDies(e, i)
    BY <1>8 DEF SkipItem, Record, TransferFails
  <2> QED BY <1>1, <2>1, <2>2, Dones, Deaths
<1>9. ASSUME NEW e \in Event, NEW i \in run[e].todo, Transfer(e, i) PROVE run' \in [Event -> Run]
  <2>1. [run[e] EXCEPT !.phase = "recording"] \in Run
    BY <1>1, Runs
  <2> QED BY <1>1, <1>9, <2>1 DEF Transfer
<1> QED
  BY <1>1, <1>2, <1>3, <1>5, <1>6, <1>7, <1>8, <1>9 DEF Next, User, Step, Trouble

LEMMA RestTyped ==
  ASSUME TypeOK, ItemsOK, FilesOK, Next
  PROVE  /\ now' \in Int /\ edits' \in 0 .. MaxVersion /\ saves' \in 0 .. MaxSaves /\ faults' \in 0 .. MaxFaults
         /\ hist' \in [File -> [status : {"None", "Success", "Deleted"}, at : Int]]
         /\ copy' \in [File -> 0 .. MaxVersion]
         /\ folder' \in [Led -> Folder \cup {NoFolder}]
         /\ tested' \in [Led -> [folder : Folder \cup {NoFolder}, ok : BOOLEAN]]
         /\ crossed' \in BOOLEAN
         /\ sent' \in [Event -> [Destination -> Row]]
         /\ ours' \in [Event -> SUBSET Destination]
         /\ open' \subseteq File \X Folder
         /\ device' \in [Destination -> {Nothing} \cup [led : Led, version : 1 .. MaxVersion]]
<1> DEFINE Counts == now \in Int /\ edits \in 0 .. MaxVersion /\ saves \in 0 .. MaxSaves /\ faults \in 0 .. MaxFaults
           HistT == hist \in [File -> [status : {"None", "Success", "Deleted"}, at : Int]]
           CopyT == copy \in [File -> 0 .. MaxVersion]
           FolderT == folder \in [Led -> Folder \cup {NoFolder}]
           TestedT == tested \in [Led -> [folder : Folder \cup {NoFolder}, ok : BOOLEAN]]
           CrossedT == crossed \in BOOLEAN
           SentT == sent \in [Event -> [Destination -> Row]]
           OursT == ours \in [Event -> SUBSET Destination]
           OpenT == open \subseteq File \X Folder
           DeviceT == device \in [Destination -> {Nothing} \cup [led : Led, version : 1 .. MaxVersion]]
           FileT == HistT /\ CopyT
           MapT == FolderT /\ TestedT /\ CrossedT
           RowT == SentT /\ OursT /\ OpenT
           All == Counts /\ FileT /\ MapT /\ RowT /\ DeviceT
<1>1. All /\ run \in [Event -> Run]
  BY DEF TypeOK, Row
<1>2. SUFFICES All'
  OBVIOUS
<1>3. MaxVersion \in Nat /\ MaxSaves \in Nat /\ MaxFaults \in Nat /\ ClockSteps \subseteq Int
  BY SyncAssumption
<1>4. Fault => faults' \in 0 .. MaxFaults
  BY <1>1, <1>3 DEF Fault
<1>5. ASSUME NEW e \in Event, NEW i \in run[e].todo PROVE i \in Item /\ i.file \in File /\ Target(i) \in Destination
                                                         /\ <<i.file, i.folder>> \in File \X Folder
  BY <1>1, Runs, Items
<1>6. [status |-> "Success", at |-> now] \in Row /\ [status |-> "Failure", at |-> now] \in Row
      /\ [status |-> "Deleted", at |-> now] \in Row
  BY <1>1 DEF Row
<1>7. ASSUME NEW f \in File, NEW status \in {"Success", "Deleted"}, Stored(f, status) PROVE All'
  <2>1. PICK d \in ClockSteps : now' = now + d /\ hist' = [hist EXCEPT ![f] = [status |-> status, at |-> now + d]]
    BY <1>7 DEF Stored
  <2>2. d \in Int /\ now \in Int
    BY <1>1, <1>3
  <2>3. now' \in Int /\ HistT'
    BY <1>1, <2>1, <2>2
  <2>4. edits' \in 0 .. MaxVersion /\ edits + 1 \in 0 .. MaxVersion
    BY <1>1, <1>3, <1>7 DEF Stored
  <2>5. CopyT'
    BY <1>1, <1>3, <1>7, <2>4 DEF Stored
  <2> QED BY <1>1, <1>7, <2>3, <2>4, <2>5 DEF Stored, mapVars, rowVars
<1>8. ASSUME NEW f \in File, Download(f) \/ Delete(f) PROVE All'
  BY <1>7, <1>8 DEF Download, Delete
<1>9. ASSUME NEW e \in Event, NEW m \in [LedsOf(e) -> Folder \cup {NoFolder}], SaveMappings(e, m) PROVE All'
  <2>1. saves' \in 0 .. MaxSaves
    BY <1>1, <1>3, <1>9 DEF SaveMappings
  <2>2. FolderT'
    BY <1>1, <1>9 DEF SaveMappings
  <2>3. TestedT'
    <3>1. Untested \in [folder : Folder \cup {NoFolder}, ok : BOOLEAN]
      BY DEF Untested
    <3>2. tested' = [l \in Led |-> IF folder'[l] = folder[l] THEN tested[l] ELSE Untested]
      BY <1>9 DEF SaveMappings
    <3> QED BY <1>1, <3>1, <3>2
  <2>4. CrossedT'
    BY <1>9, Zenon DEF SaveMappings
  <2> QED BY <1>1, <1>9, <2>1, <2>2, <2>3, <2>4 DEF SaveMappings, fileVars, rowVars
<1>10. ASSUME NEW e \in Event, Plan(e) \/ EndRun(e) PROVE All'
  BY <1>1, <1>10 DEF Plan, EndRun, fileVars, mapVars, rowVars
<1>11. ASSUME NEW e \in Event, CancelOrCrash(e) PROVE All'
  BY <1>1, <1>4, <1>11 DEF CancelOrCrash, fileVars, mapVars, rowVars
<1>12. ASSUME NEW e \in Event, TestDestinations(e) PROVE All'
  <2>1. PICK usable \in SUBSET Involved(e), at \in [Involved(e) -> Folder] :
          tested' = [l \in Led |-> IF l \in Involved(e) /\ StillMapped(l, at[l])
                                   THEN [folder |-> at[l], ok |-> l \in usable] ELSE tested[l]]
    BY <1>12 DEF TestDestinations
  <2>2. ASSUME NEW l \in Involved(e) PROVE [folder |-> at[l], ok |-> l \in usable] \in [folder : Folder \cup {NoFolder}, ok : BOOLEAN]
    <3>1. at[l] \in Folder
      BY <2>1
    <3>2. (l \in usable) \in {TRUE, FALSE}
      <4>1. (l \in usable) = TRUE \/ (l \in usable) = FALSE
        OBVIOUS
      <4> QED BY <4>1, Zenon
    <3> DEFINE b == l \in usable
    <3> HIDE DEF b
    <3>3. b \in BOOLEAN
      BY <3>2, Zenon DEF b
    <3>4. [folder |-> at[l], ok |-> b] \in [folder : Folder \cup {NoFolder}, ok : BOOLEAN]
      BY <3>1, <3>3
    <3> QED BY <3>4 DEF b
  <2>3. TestedT'
    <3> DEFINE g(l) == [folder |-> at[l], ok |-> l \in usable]
    <3>1. \A l \in Involved(e) : g(l) \in [folder : Folder \cup {NoFolder}, ok : BOOLEAN]
      BY <2>2
    <3>2. tested' = [l \in Led |-> IF l \in Involved(e) /\ StillMapped(l, at[l]) THEN g(l) ELSE tested[l]]
      BY <2>1
    <3> HIDE DEF g
    <3> QED BY <1>1, <3>1, <3>2
  <2>4. faults' \in 0 .. MaxFaults
    BY <1>1, <1>4, <1>12 DEF TestDestinations
  <2> QED BY <1>1, <1>12, <2>3, <2>4 DEF TestDestinations, fileVars, rowVars
<1>13. ASSUME NEW e \in Event, NEW i \in run[e].todo, FailureRow(e, i) PROVE SentT'
  <2>1. sent' = [sent EXCEPT ![e][Target(i)] = [status |-> "Failure", at |-> now]]
    BY <1>13 DEF FailureRow
  <2> QED BY <1>1, <1>5, <1>6, <2>1, Sending
<1>14. ASSUME NEW e \in Event, NEW i \in run[e].todo, SkipItem(e, i) PROVE All'
  <2>1. SentT'
    BY <1>13, <1>14 DEF SkipItem
  <2> QED BY <1>1, <1>14, <2>1 DEF SkipItem, fileVars, mapVars
<1>15. ASSUME NEW e \in Event, NEW i \in run[e].todo, Transfer(e, i) PROVE All'
  <2>1. i.action = "Push" => Content(i.file, copy[i.file]) \in [led : Led, version : 1 .. MaxVersion]
    <3>1. i.action = "Push" => copy[i.file] \in 1 .. MaxVersion
      BY <1>5 DEF ItemsOK, PlanOK, ItemOK, FilesOK
    <3> QED BY <1>5, <3>1, Files DEF Content
  <2>2. DeviceT'
    BY <1>1, <1>5, <1>15, <2>1 DEF Transfer
  <2> QED BY <1>1, <1>15, <2>2 DEF Transfer, fileVars, mapVars, rowVars
<1>16. ASSUME NEW e \in Event, NEW i \in run[e].todo, Record(e, i) PROVE All'
  <2>1. CASE UNCHANGED rowVars
    BY <1>1, <1>4, <1>16, <2>1 DEF Record, fileVars, mapVars, rowVars
  <2>2. CASE ~UNCHANGED rowVars
    <3> DEFINE row == [status |-> IF i.action = "Push" THEN "Success" ELSE "Deleted", at |-> now]
    <3>1. row \in Row
      BY <1>6
    <3>2. sent' = [sent EXCEPT ![e][Target(i)] = row]
      BY <1>16, <2>2 DEF Record
    <3> HIDE DEF row
    <3>3. SentT'
      BY <1>1, <1>5, <3>1, <3>2, Sending
    <3>4. OursT' /\ OpenT'
      <4>1. /\ ours' = [ours EXCEPT ![e] = IF i.action = "Push" THEN @ \cup {Target(i)} ELSE @ \ {Target(i)}]
            /\ open' = open \ {<<i.file, i.folder>>}
        BY <1>16, <2>2 DEF Record
      <4>2. OursT'
        BY <1>1, <1>5, <4>1
      <4>3. OpenT'
        BY <1>1, <4>1
      <4> QED BY <4>2, <4>3
    <3>5. UNCHANGED faults
      BY <1>16, <2>2 DEF Record
    <3> QED BY <1>1, <1>16, <3>3, <3>4, <3>5 DEF Record, fileVars, mapVars
  <2> QED BY <2>1, <2>2
<1>17. ASSUME NEW e \in Event, NEW i \in run[e].todo, TransferFails(e, i) PROVE All'
  <2>1. SentT' /\ OpenT'
    BY <1>1, <1>5, <1>13, <1>17 DEF TransferFails, Fails
  <2> QED BY <1>1, <1>4, <1>17, <2>1 DEF TransferFails, fileVars, mapVars
<1> HIDE DEF All
<1>18. All'
  BY <1>8, <1>9, <1>10, <1>11, <1>12, <1>14, <1>15, <1>16, <1>17 DEF Next, User, Step, Trouble
<1> QED BY <1>18

(* How a step moves the runs: those that plan, those that go on with what  *)
(* they have or a part of it, and those that end.                          *)
LEMMA RunMoves ==
  ASSUME TypeOK, Next
  PROVE  \/ UNCHANGED run
         \/ \E e \in Event :
              /\ UNCHANGED <<hist, copy, folder, crossed>>
              /\ \A d \in Event \ {e} : run'[d] = run[d]
              /\ \/ Plan(e)
                 \/ run'[e] = Idle
                 \/ run[e].phase # "idle" /\ run'[e].phase # "idle" /\ run'[e].todo \subseteq run[e].todo
<1> DEFINE Moves(e) == /\ UNCHANGED <<hist, copy, folder, crossed>>
                       /\ \A d \in Event \ {e} : run'[d] = run[d]
                       /\ \/ Plan(e)
                          \/ run'[e] = Idle
                          \/ run[e].phase # "idle" /\ run'[e].phase # "idle" /\ run'[e].todo \subseteq run[e].todo
<1>1. run \in [Event -> Run]
  BY DEF TypeOK
<1>2. CASE User
  BY <1>2 DEF User, Download, Delete, Stored, SaveMappings
<1>3. ASSUME NEW e \in Event, Plan(e) PROVE Moves(e)
  <2>1. \E r : run' = [run EXCEPT ![e] = r]
    BY <1>3 DEF Plan
  <2> QED BY <1>1, <1>3, <2>1 DEF Plan, fileVars, mapVars
<1>4. ASSUME NEW e \in Event, EndRun(e) \/ CancelOrCrash(e) PROVE Moves(e)
  BY <1>1, <1>4 DEF EndRun, CancelOrCrash, fileVars, mapVars
<1>5. ASSUME NEW e \in Event, TestDestinations(e) PROVE Moves(e)
  <2>1. PICK usable \in SUBSET Involved(e) :
          run' = [run EXCEPT ![e].phase = "working", ![e].usable = usable]
    BY <1>5 DEF TestDestinations
  <2>2. run'[e].phase = "working" /\ run'[e].todo = run[e].todo /\ \A d \in Event \ {e} : run'[d] = run[d]
    BY <1>1, <2>1 DEF Run
  <2> QED BY <1>5, <2>2 DEF TestDestinations, fileVars
<1>6. ASSUME NEW e \in Event, NEW i \in run[e].todo, Transfer(e, i) PROVE Moves(e)
  <2>1. run'[e].phase = "recording" /\ run'[e].todo = run[e].todo /\ \A d \in Event \ {e} : run'[d] = run[d]
    BY <1>1, <1>6 DEF Transfer, Run
  <2> QED BY <1>6, <2>1 DEF Transfer, Tries, fileVars, mapVars
<1>7. ASSUME NEW e \in Event, NEW i \in run[e].todo, SkipItem(e, i) \/ Record(e, i) \/ TransferFails(e, i)
      PROVE  Moves(e)
  <2>1. i \in Item
    BY <1>1, Runs
  <2>2. run' = Done(e, i) \/ DeviceDies(e, i)
    BY <1>7 DEF SkipItem, Record, TransferFails
  <2>3. run'[e].todo = run[e].todo \ {i} /\ run'[e].phase = "working" /\ \A d \in Event \ {e} : run'[d] = run[d]
    BY <1>1, <2>1, <2>2, Dones, Deaths
  <2> QED BY <1>7, <2>3 DEF SkipItem, Record, TransferFails, Tries, fileVars, mapVars
<1> QED
  BY <1>2, <1>3, <1>4, <1>5, <1>6, <1>7 DEF Next, Step, Trouble

LEMMA Planned ==
  ASSUME TypeOK, MapOK, NEW e \in Event, Plan(e)
  PROVE  /\ run'[e].phase = "planned"
         /\ \A i \in run'[e].todo : ItemOK(e, i) /\ i.folder = folder[LedOf(i.file)] /\ i.file \in File
         /\ \A i \in run'[e].todo : i.action = "Remove" => ~FolderIsShared(LedOf(i.file))
         /\ \A i, j \in run'[e].todo : i.file = j.file => i = j
<1> DEFINE files   == {f \in File : EventOf[LedOf(f)] = e /\ Mapped(f)}
           pushes  == {f \in files : hist[f].status = "Success" /\ NeedsPush(f)}
           removes == {f \in files : hist[f].status = "Deleted" /\ NeedsRemove(f)}
           todo    == {[file |-> f, folder |-> folder[LedOf(f)], action |-> "Push"] : f \in pushes}
               \cup
               {[file |-> f, folder |-> folder[LedOf(f)], action |-> "Remove"] : f \in removes}
<1>1. run \in [Event -> Run]
  BY DEF TypeOK
<1>2. run'[e] = [Idle EXCEPT !.phase = "planned", !.todo = todo]
  BY <1>1 DEF Plan
<1>3. run'[e].phase = "planned" /\ run'[e].todo = todo
  BY <1>2 DEF Idle
<1>4. \A f \in files : folder[LedOf(f)] \in Choices[LedOf(f)]
  BY Files DEF MapOK, Mapped
<1>5. \A f \in removes : ~FolderIsShared(LedOf(f))
  BY DEF NeedsRemove
<1>6. ASSUME NEW i \in todo
      PROVE  \/ \E f \in pushes : i = [file |-> f, folder |-> folder[LedOf(f)], action |-> "Push"]
             \/ \E f \in removes : i = [file |-> f, folder |-> folder[LedOf(f)], action |-> "Remove"]
  OBVIOUS
<1>7. ASSUME NEW i \in todo
      PROVE  /\ i.file \in files /\ i.folder = folder[LedOf(i.file)] /\ i.action \in {"Push", "Remove"}
             /\ hist[i.file].status = IF i.action = "Push" THEN "Success" ELSE "Deleted"
             /\ i.action = "Remove" => i.file \in removes
             /\ i = [file |-> i.file, folder |-> i.folder, action |-> i.action]
  BY <1>6
<1> HIDE DEF todo, removes, pushes
<1>8. \A i \in todo : ItemOK(e, i)
  BY <1>4, <1>7 DEF ItemOK
<1>9. ASSUME NEW i \in todo, NEW j \in todo, i.file = j.file PROVE i = j
  <2>1. i.folder = j.folder /\ i.action = j.action
    BY <1>7, <1>9
  <2> QED BY <1>7, <1>9, <2>1
<1> QED
  BY <1>3, <1>5, <1>7, <1>8, <1>9

(* A download run and the user leave alone what a plan is about.           *)
LEMMA UserApart ==
  ASSUME TypeOK, ItemsOK, User, NEW e \in Event, NEW i \in run[e].todo
  PROVE  hist'[i.file] = hist[i.file] /\ copy'[i.file] = copy[i.file]
<1>1. run \in [Event -> Run] /\ hist \in [File -> [status : {"None", "Success", "Deleted"}, at : Int]]
      /\ copy \in [File -> 0 .. MaxVersion]
  BY DEF TypeOK
<1>2. i \in Item /\ i.file \in File /\ EventOf[LedOf(i.file)] = e /\ run[e].phase # "idle"
  BY <1>1, Runs, Items DEF ItemsOK, PlanOK, ItemOK
<1>3. ASSUME NEW f \in File, NEW status, Stored(f, status) PROVE hist'[i.file] = hist[i.file] /\ copy'[i.file] = copy[i.file]
  <2>1. f # i.file
    BY <1>2, <1>3 DEF Stored
  <2> QED BY <1>1, <1>2, <1>3, <2>1 DEF Stored
<1>4. ASSUME NEW d, NEW m, SaveMappings(d, m) PROVE hist'[i.file] = hist[i.file] /\ copy'[i.file] = copy[i.file]
  BY <1>4 DEF SaveMappings, fileVars
<1> QED BY <1>3, <1>4 DEF User, Download, Delete

LEMMA StaysOK ==
  ASSUME TypeOK, ItemsOK, FilesOK, MapOK, Next PROVE ItemsOK' /\ FilesOK' /\ MapOK'
<1>1. run \in [Event -> Run]
  BY DEF TypeOK
<1>2. ItemsOK'
  <2>1. CASE User
    <3>1. run' = run
      BY <2>1 DEF User, Download, Delete, Stored, SaveMappings
    <3>2. ASSUME NEW e \in Event PROVE PlanOK(e)'
      <4>1. \A i \in run[e].todo : ItemOK(e, i)'
        BY <2>1, UserApart DEF ItemsOK, PlanOK, ItemOK
      <4> QED BY <3>1, <4>1 DEF ItemsOK, PlanOK
    <3> QED BY <3>2 DEF ItemsOK
  <2>2. ASSUME NEW e \in Event, UNCHANGED hist, \A d \in Event \ {e} : run'[d] = run[d],
               \/ Plan(e)
               \/ run'[e] = Idle
               \/ run[e].phase # "idle" /\ run'[e].phase # "idle" /\ run'[e].todo \subseteq run[e].todo
        PROVE  ItemsOK'
    <3>1. \A i : ItemOK(e, i)' <=> ItemOK(e, i)
      BY <2>2 DEF ItemOK
    <3>2. PlanOK(e)'
      <4>1. CASE Plan(e)
        BY <3>1, <4>1, Planned DEF PlanOK
      <4>2. CASE run'[e] = Idle
        BY <4>2, IdleRun DEF PlanOK
      <4>3. CASE run[e].phase # "idle" /\ run'[e].phase # "idle" /\ run'[e].todo \subseteq run[e].todo
        BY <3>1, <4>3 DEF PlanOK, ItemsOK
      <4> QED BY <2>2, <4>1, <4>2, <4>3
    <3>3. ASSUME NEW d \in Event \ {e} PROVE PlanOK(d)'
      BY <2>2 DEF ItemsOK, PlanOK, ItemOK
    <3> QED BY <3>2, <3>3 DEF ItemsOK
  <2>3. CASE ~User
    <3>1. UNCHANGED hist
      BY <2>3 DEF Next, Step, Trouble, Plan, TestDestinations, EndRun, SkipItem, Transfer, Record,
                  CancelOrCrash, TransferFails, fileVars
    <3>2. CASE UNCHANGED run
      BY <3>1, <3>2 DEF ItemsOK, PlanOK, ItemOK
    <3> QED BY <2>2, <3>1, <3>2, RunMoves
  <2> QED BY <2>1, <2>3
<1>3. FilesOK'
  <2>1. CASE UNCHANGED <<hist, copy>>
    BY <2>1 DEF FilesOK
  <2>2. ASSUME NEW f \in File, NEW status \in {"Success", "Deleted"}, Stored(f, status) PROVE FilesOK'
    <3>1. MaxVersion \in Nat /\ edits \in 0 .. MaxVersion /\ copy \in [File -> 0 .. MaxVersion]
          /\ hist \in [File -> [status : {"None", "Success", "Deleted"}, at : Int]]
      BY SyncAssumption DEF TypeOK
    <3>2. hist'[f].status = status /\ \A g \in File \ {f} : hist'[g] = hist[g] /\ copy'[g] = copy[g]
      BY <2>2, <3>1 DEF Stored
    <3>3. copy'[f] = IF status = "Success" THEN edits + 1 ELSE 0
      BY <2>2, <3>1 DEF Stored
    <3>4. edits + 1 \in 1 .. MaxVersion
      BY <2>2, <3>1 DEF Stored
    <3> QED BY <3>2, <3>3, <3>4 DEF FilesOK
  <2>3. User => FilesOK'
    BY <2>1, <2>2 DEF User, Download, Delete, SaveMappings, fileVars
  <2>4. ~User => UNCHANGED <<hist, copy>>
    BY DEF Next, Step, Trouble, Plan, TestDestinations, EndRun, SkipItem, Transfer, Record,
           CancelOrCrash, TransferFails, fileVars
  <2> QED BY <2>1, <2>3, <2>4
<1>4. MapOK'
  <2>1. CASE UNCHANGED folder
    BY <2>1 DEF MapOK
  <2>2. ASSUME NEW e \in Event, NEW m, SaveMappings(e, m) PROVE MapOK'
    BY <2>2 DEF SaveMappings, MapOK
  <2>3. (\E e \in Event : \E m : SaveMappings(e, m)) \/ UNCHANGED folder
    BY DEF Next, User, Download, Delete, Stored, Step, Trouble, Plan, TestDestinations, EndRun, SkipItem, Transfer,
           Record, CancelOrCrash, TransferFails, mapVars
  <2> QED BY <2>1, <2>2, <2>3
<1> QED BY <1>2, <1>3, <1>4

Basic == TypeOK /\ ItemsOK /\ FilesOK /\ MapOK

LEMMA BasicStep == Basic /\ [Next]_vars => Basic'
<1> SUFFICES ASSUME Basic, [Next]_vars PROVE Basic'
  OBVIOUS
<1>1. CASE Next
  <2>1. TypeOK'
    BY <1>1, RunTyped, RestTyped DEF Basic, TypeOK, Row
  <2> QED BY <1>1, <2>1, StaysOK DEF Basic
<1>2. CASE UNCHANGED vars
  <2>1. TypeOK'
    BY <1>2 DEF Basic, TypeOK, vars, fileVars, mapVars, rowVars
  <2>2. ItemsOK' /\ FilesOK' /\ MapOK'
    BY <1>2 DEF Basic, ItemsOK, PlanOK, ItemOK, FilesOK, MapOK, vars, fileVars, mapVars, rowVars
  <2> QED BY <2>1, <2>2 DEF Basic
<1> QED BY <1>1, <1>2

LEMMA BasicInit == Init => Basic
<1> SUFFICES ASSUME Init PROVE Basic
  OBVIOUS
<1>1. MaxVersion \in Nat /\ MaxSaves \in Nat /\ MaxFaults \in Nat
  BY SyncAssumption
<1>2. TypeOK
  <2>1. NoRow \in [status : {"None", "Success", "Deleted"}, at : Int] /\ NoRow \in Row
    BY DEF NoRow, Row
  <2>2. Untested \in [folder : Folder \cup {NoFolder}, ok : BOOLEAN]
    BY DEF Untested
  <2>3. now \in Int /\ edits \in 0 .. MaxVersion /\ saves \in 0 .. MaxSaves /\ faults \in 0 .. MaxFaults
        /\ copy \in [File -> 0 .. MaxVersion]
    BY <1>1 DEF Init
  <2>4. hist \in [File -> [status : {"None", "Success", "Deleted"}, at : Int]]
        /\ sent \in [Event -> [Destination -> Row]]
    BY <2>1 DEF Init
  <2>5. tested \in [Led -> [folder : Folder \cup {NoFolder}, ok : BOOLEAN]] /\ folder \in [Led -> Folder \cup {NoFolder}]
    BY <2>2 DEF Init
  <2>6. run \in [Event -> Run]
    BY IdleRun DEF Init
  <2>7. device \in [Destination -> {Nothing} \cup [led : Led, version : 1 .. MaxVersion]]
    <3> DEFINE any == [led : Led, version : 1 .. MaxVersion]
    <3> HIDE DEF any
    <3>1. device \in [Destination -> {Nothing} \cup any]
      BY DEF Init
    <3> QED BY <3>1 DEF any
  <2>8. crossed \in BOOLEAN /\ ours \in [Event -> SUBSET Destination] /\ open \subseteq File \X Folder
    BY DEF Init
  <2> QED BY <2>3, <2>4, <2>5, <2>6, <2>7, <2>8 DEF TypeOK, Row
<1>3. ItemsOK
  BY IdleRun DEF Init, ItemsOK, PlanOK
<1>4. FilesOK
  BY DEF Init, FilesOK, NoRow
<1>5. MapOK
  BY DEF Init, MapOK
<1> QED BY <1>2, <1>3, <1>4, <1>5 DEF Basic

(* Every variable keeps its type, and every plan is about files as they    *)
(* were when it was made.                                                  *)
THEOREM TypeCorrect == FairSpec => []TypeOK
<1>1. Basic => TypeOK
  BY DEF Basic
<1> QED BY <1>1, BasicInit, BasicStep, PTL DEF FairSpec

(* What is shown of a connection is about the folder of its LED.           *)
THEOREM TestsAreCurrent == FairSpec => []TestedIsCurrent
<1>1. Init => TestedIsCurrent
  BY DEF Init, TestedIsCurrent
<1>2. TypeOK /\ TestedIsCurrent /\ [Next]_vars => TestedIsCurrent'
  <2> SUFFICES ASSUME TypeOK, TestedIsCurrent, [Next]_vars PROVE TestedIsCurrent'
    OBVIOUS
  <2>1. CASE UNCHANGED <<folder, tested>>
    BY <2>1 DEF TestedIsCurrent
  <2>2. ASSUME NEW e, NEW m, SaveMappings(e, m) PROVE TestedIsCurrent'
    BY <2>2 DEF SaveMappings, TestedIsCurrent
  <2>3. ASSUME NEW e, TestDestinations(e) PROVE TestedIsCurrent'
    <3>1. PICK usable \in SUBSET Involved(e), at \in [Involved(e) -> Folder] :
            tested' = [l \in Led |-> IF l \in Involved(e) /\ StillMapped(l, at[l])
                                     THEN [folder |-> at[l], ok |-> l \in usable] ELSE tested[l]]
      BY <2>3 DEF TestDestinations
    <3>2. folder' = folder
      BY <2>3 DEF TestDestinations
    <3>3. ASSUME NEW l \in Led, tested'[l] # Untested PROVE tested'[l].folder = folder'[l]
      <4>1. CASE l \in Involved(e) /\ StillMapped(l, at[l])
        BY <3>1, <3>2, <4>1 DEF StillMapped
      <4>2. CASE ~(l \in Involved(e) /\ StillMapped(l, at[l]))
        BY <3>1, <3>2, <3>3, <4>2 DEF TestedIsCurrent
      <4> QED BY <4>1, <4>2
    <3> QED BY <3>3 DEF TestedIsCurrent
  <2>4. UNCHANGED <<folder, tested>> \/ (\E e, m : SaveMappings(e, m)) \/ (\E e : TestDestinations(e))
    BY DEF Next, User, Download, Delete, Stored, Step, Trouble, Plan, EndRun, SkipItem, Transfer,
           Record, CancelOrCrash, TransferFails, mapVars, vars
  <2> QED BY <2>1, <2>2, <2>3, <2>4
<1> QED BY <1>1, <1>2, TypeCorrect, PTL DEF FairSpec

(* As long as no mapping has been saved during a run, what a run is going  *)
(* to remove is at the folder of its LED, and of no other LED.             *)
Own ==
  ~crossed => \A e \in Event : \A i \in run[e].todo : i.action = "Remove" =>
                folder[LedOf(i.file)] = i.folder /\ ~FolderIsShared(LedOf(i.file))

LEMMA StaysOwn == ASSUME Basic, Own, [Next]_vars PROVE Own'
<1>1. ASSUME UNCHANGED <<run, folder, crossed>> PROVE Own'
  BY <1>1 DEF Own, FolderIsShared
<1>2. ASSUME NEW e, NEW m, SaveMappings(e, m) PROVE Own'
  <2>1. ~crossed' => \A d \in Event : run[d].phase = "idle"
    BY <1>2 DEF SaveMappings
  <2>2. \A d \in Event : run[d].phase = "idle" => run[d].todo = {}
    BY DEF Basic, ItemsOK, PlanOK
  <2>3. run' = run
    BY <1>2 DEF SaveMappings
  <2> QED BY <2>1, <2>2, <2>3 DEF Own
<1>3. ASSUME NEW e \in Event, UNCHANGED <<folder, crossed>>, \A d \in Event \ {e} : run'[d] = run[d],
             Plan(e) \/ run'[e] = Idle \/ run'[e].todo \subseteq run[e].todo
      PROVE  Own'
  <2>1. ASSUME ~crossed, NEW i \in run'[e].todo, i.action = "Remove"
        PROVE  folder[LedOf(i.file)] = i.folder /\ ~FolderIsShared(LedOf(i.file))
    <3>1. CASE Plan(e)
      BY <2>1, <3>1, Planned DEF Basic
    <3>2. CASE run'[e] = Idle
      BY <2>1, <3>2, IdleRun
    <3>3. CASE run'[e].todo \subseteq run[e].todo
      BY <2>1, <3>3 DEF Own
    <3> QED BY <1>3, <3>1, <3>2, <3>3
  <2>2. ASSUME ~crossed, NEW d \in Event \ {e}, NEW i \in run'[d].todo, i.action = "Remove"
        PROVE  folder[LedOf(i.file)] = i.folder /\ ~FolderIsShared(LedOf(i.file))
    BY <1>3, <2>2 DEF Own
  <2>3. ASSUME ~crossed, NEW d \in Event, NEW i \in run'[d].todo, i.action = "Remove"
        PROVE  folder[LedOf(i.file)] = i.folder /\ ~FolderIsShared(LedOf(i.file))
    BY <2>1, <2>2, <2>3
  <2> QED BY <1>3, <2>3 DEF Own, FolderIsShared
<1>4. CASE UNCHANGED vars
  BY <1>1, <1>4 DEF vars, mapVars
<1>5. CASE User
  <2>1. ASSUME NEW f, Download(f) \/ Delete(f) PROVE Own'
    BY <1>1, <2>1 DEF Download, Delete, Stored, mapVars
  <2> QED BY <1>2, <1>5, <2>1 DEF User
<1>6. CASE Next /\ ~User
  <2>1. UNCHANGED <<folder, crossed>>
    BY <1>6 DEF Next, Step, Trouble, Plan, TestDestinations, EndRun, SkipItem, Transfer, Record,
                CancelOrCrash, TransferFails, mapVars
  <2> QED BY <1>1, <1>3, <1>6, <2>1, RunMoves DEF Basic
<1> QED BY <1>4, <1>5, <1>6

(* Unless a mapping has been saved during a run, a removal never takes     *)
(* away the file of a LED that is mapped to the folder.                    *)
THEOREM RemovalsAreOwn == FairSpec => RemovesOwnByPlan
<1> DEFINE A == crossed \/ \A f \in File : ~TakesAway(f)
<1>1. Init => Own
  BY IdleRun DEF Init, Own
<1>2. Basic /\ Own /\ [Next]_vars => Own'
  BY StaysOwn
<1>3. Basic /\ Own /\ [Next]_vars => [A]_vars
  <2> SUFFICES ASSUME Basic, Own, Next, ~crossed, NEW f \in File, TakesAway(f) PROVE FALSE
    OBVIOUS
  <2>1. /\ run \in [Event -> Run] /\ folder \in [Led -> Folder \cup {NoFolder}]
        /\ device \in [Destination -> {Nothing} \cup [led : Led, version : 1 .. MaxVersion]]
    BY DEF Basic, TypeOK
  <2>2. /\ Mapped(f) /\ hist[f].status = "Success" /\ device[DestinationOf(f)].led = LedOf(f)
        /\ device'[DestinationOf(f)] = Nothing
    BY DEF TakesAway
  <2>3. device[DestinationOf(f)] # Nothing
    <3>1. LedOf(f) # Nothing.led
      BY Files, Nobodys
    <3> QED BY <2>2, <3>1
  <2>4. device' # device
    BY <2>2, <2>3
  <2>e. PICK e \in Event : \E i \in run[e].todo : Transfer(e, i)
    <3>1. ~User
      BY <2>4 DEF User, Download, Delete, Stored, SaveMappings
    <3>2. ASSUME NEW e \in Event PROVE ~Trouble(e) /\ ~Plan(e) /\ ~TestDestinations(e) /\ ~EndRun(e)
      BY <2>4 DEF Trouble, Plan, TestDestinations, EndRun, CancelOrCrash, TransferFails
    <3>3. ASSUME NEW e, NEW i PROVE ~SkipItem(e, i) /\ ~Record(e, i)
      BY <2>4 DEF SkipItem, Record
    <3> QED BY <3>1, <3>2, <3>3 DEF Next, Step
  <2>5. PICK i \in run[e].todo : Transfer(e, i)
    BY <2>e
  <2>6. i \in Item /\ i.file \in File /\ Target(i) \in Destination
    BY <2>1, Runs, Items
  <2>7. DestinationOf(f) \in Destination
    BY <2>1, <2>2, Files DEF DestinationOf, Destination, Mapped
  <2>8. DestinationOf(f) = Target(i) /\ (i.action = "Push" => Content(i.file, copy[i.file]) = Nothing)
    BY <2>1, <2>2, <2>3, <2>5, <2>6, <2>7 DEF Transfer
  <2>9. Content(i.file, copy[i.file]) # Nothing
    <3>1. LedOf(i.file) # Nothing.led
      BY <2>6, Files, Nobodys
    <3>2. Content(i.file, copy[i.file]).led = LedOf(i.file)
      BY DEF Content
    <3> QED BY <3>1, <3>2
  <2>10. i.action = "Remove"
    BY <2>6, <2>8, <2>9, Items
  <2>11. folder[LedOf(f)] = i.folder /\ f[2] = i.file[2]
    BY <2>8 DEF DestinationOf, Target
  <2>12. folder[LedOf(i.file)] = i.folder /\ ~FolderIsShared(LedOf(i.file))
    BY <2>5, <2>10 DEF Own
  <2>13. LedOf(f) = LedOf(i.file)
    BY <2>6, <2>11, <2>12, Files DEF FolderIsShared
  <2>14. f = i.file
    BY <2>6, <2>11, <2>13, Files
  <2>15. hist[i.file].status = "Deleted"
    BY <2>5, <2>10 DEF Basic, ItemsOK, PlanOK, ItemOK
  <2> QED BY <2>2, <2>14, <2>15
<1>4. FairSpec => [](Basic /\ Own)
  BY <1>1, <1>2, BasicInit, BasicStep, PTL DEF FairSpec
<1> QED BY <1>3, <1>4, PTL DEF FairSpec, RemovesOwnByPlan

(* Where the clock goes forward from one download to the next: a row that  *)
(* says a file was put into a folder that only its LED may have, after it  *)
(* was downloaded, is right about the device; and so is a run that is      *)
(* about to write such a row.                                              *)
Forward == \A s \in ClockSteps : s > 0
Alone(f, d) == d \in Choices[LedOf(f)] /\ \A l \in Led \ {LedOf(f)} : d \notin Choices[l]
Lies(f, d) == device[<<d, f[2]>>] = Content(f, copy[f])
RowOf(f, d) == sent[EventOf[LedOf(f)]][<<d, f[2]>>]

Clocked == \A e \in Event, d \in Destination : sent[e][d].at <= now

DeliveredAt(f, d) ==
  /\ Alone(f, d) /\ hist[f].status = "Success"
  /\ RowOf(f, d).status = "Success" /\ hist[f].at <= RowOf(f, d).at
  => Lies(f, d)
Delivered == \A f \in File, d \in Folder : DeliveredAt(f, d)

CopiedAt(e, i) ==
  run[e].phase = "recording" /\ IsNext(e, i) /\ i.action = "Push" /\ Alone(i.file, i.folder)
  => Lies(i.file, i.folder)
Copied == \A e \in Event : \A i \in run[e].todo : CopiedAt(e, i)

LEMMA Meeting ==
  ASSUME NEW f \in File, NEW g \in File, NEW d, d \in Choices[LedOf(f)], Alone(g, d), f[2] = g[2]
  PROVE  f = g
<1>1. LedOf(f) = LedOf(g)
  BY Files DEF Alone
<1> QED BY <1>1, Files

LEMMA Acting ==
  ASSUME TypeOK, Next
  PROVE  \/ User
         \/ \E e \in Event :
              \/ Plan(e) \/ TestDestinations(e) \/ EndRun(e) \/ CancelOrCrash(e)
              \/ \E i \in run[e].todo : SkipItem(e, i) \/ Record(e, i) \/ TransferFails(e, i) \/ Transfer(e, i)
BY DEF Next, Step, Trouble

LEMMA StaysClocked ==
  ASSUME Basic, Clocked, Next, Forward PROVE Clocked'
<1>1. sent \in [Event -> [Destination -> Row]] /\ now \in Int /\ run \in [Event -> Run]
  BY DEF Basic, TypeOK, Row
<1>2. CASE UNCHANGED <<sent, now>>
  BY <1>2 DEF Clocked
<1>3. ASSUME NEW f, NEW status, Stored(f, status) PROVE Clocked'
  <2>1. PICK s \in ClockSteps : now' = now + s
    BY <1>3 DEF Stored
  <2>2. s \in Int /\ s > 0
    BY SyncAssumption DEF Forward
  <2>3. sent' = sent
    BY <1>3 DEF Stored, rowVars
  <2>4. \A e \in Event, d \in Destination : sent[e][d].at \in Int /\ sent[e][d].at <= now
    BY <1>1 DEF Clocked, Row
  <2> QED BY <1>1, <2>1, <2>2, <2>3, <2>4 DEF Clocked
<1>4. ASSUME NEW e \in Event, NEW i \in run[e].todo, NEW r \in Row, r.at = now,
             sent' = [sent EXCEPT ![e][Target(i)] = r], UNCHANGED now
      PROVE  Clocked'
  <2>1. Target(i) \in Destination
    BY <1>1, Runs, Items
  <2>2. /\ sent'[e][Target(i)] = r
        /\ \A x \in Event, y \in Destination : x # e \/ y # Target(i) => sent'[x][y] = sent[x][y]
    BY <1>1, <1>4, <2>1, Sending
  <2>3. now <= now
    BY <1>1
  <2> QED BY <1>4, <2>2, <2>3 DEF Clocked
<1>5. [status |-> "Success", at |-> now] \in Row /\ [status |-> "Failure", at |-> now] \in Row
      /\ [status |-> "Deleted", at |-> now] \in Row
  BY <1>1 DEF Row
<1>6. ASSUME NEW e \in Event, NEW i \in run[e].todo, SkipItem(e, i) \/ TransferFails(e, i) PROVE Clocked'
  <2>1. sent' = [sent EXCEPT ![e][Target(i)] = [status |-> "Failure", at |-> now]] /\ UNCHANGED now
    BY <1>6 DEF SkipItem, TransferFails, Fails, FailureRow, fileVars
  <2> QED BY <1>4, <1>5, <2>1
<1>7. ASSUME NEW e \in Event, NEW i \in run[e].todo, Record(e, i) PROVE Clocked'
  <2>1. UNCHANGED now
    BY <1>7 DEF Record, fileVars
  <2>2. CASE UNCHANGED sent
    BY <1>2, <2>1, <2>2
  <2>3. CASE ~UNCHANGED sent
    <3> DEFINE r == [status |-> IF i.action = "Push" THEN "Success" ELSE "Deleted", at |-> now]
    <3>1. r \in Row /\ r.at = now
      BY <1>5
    <3>2. sent' = [sent EXCEPT ![e][Target(i)] = r]
      BY <1>7, <2>3 DEF Record, rowVars
    <3> HIDE DEF r
    <3> QED BY <1>4, <2>1, <3>1, <3>2
  <2> QED BY <2>2, <2>3
<1>8. ASSUME NEW e \in Event,
             \/ Plan(e) \/ TestDestinations(e) \/ EndRun(e) \/ CancelOrCrash(e)
             \/ \E i \in run[e].todo : Transfer(e, i)
      PROVE  Clocked'
  BY <1>2, <1>8 DEF Plan, TestDestinations, EndRun, CancelOrCrash, Transfer, fileVars, rowVars
<1>9. CASE User
  <2>1. ASSUME NEW e, NEW m, SaveMappings(e, m) PROVE Clocked'
    BY <1>2, <2>1 DEF SaveMappings, fileVars, rowVars
  <2> QED BY <1>3, <1>9, <2>1 DEF User, Download, Delete
<1> QED BY <1>6, <1>7, <1>8, <1>9, Acting DEF Basic

LEMMA StaysDelivered ==
  ASSUME Basic, Clocked, Delivered, Copied, Next, Forward PROVE Delivered'
<1>1. /\ sent \in [Event -> [Destination -> Row]] /\ now \in Int /\ run \in [Event -> Run]
      /\ device \in [Destination -> {Nothing} \cup [led : Led, version : 1 .. MaxVersion]]
      /\ hist \in [File -> [status : {"None", "Success", "Deleted"}, at : Int]]
      /\ copy \in [File -> 0 .. MaxVersion]
  BY DEF Basic, TypeOK, Row
<1> SUFFICES ASSUME NEW f \in File, NEW d \in Folder, Alone(f, d), hist'[f].status = "Success",
                    RowOf(f, d)'.status = "Success", hist'[f].at <= RowOf(f, d)'.at
             PROVE  Lies(f, d)'
  BY DEF Delivered, DeliveredAt, Alone
<1> DEFINE ev == EventOf[LedOf(f)]
           to == <<d, f[2]>>
<1>2. ev \in Event /\ to \in Destination
  BY Files DEF Destination
<1>3. RowOf(f, d) = sent[ev][to] /\ RowOf(f, d)' = sent'[ev][to]
  BY DEF RowOf
<1>4. (Lies(f, d) <=> device[to] = Content(f, copy[f])) /\ (Lies(f, d)' <=> device'[to] = Content(f, copy'[f]))
  BY DEF Lies, Content
<1>5. hist[f].status = "Success" /\ RowOf(f, d).status = "Success" /\ hist[f].at <= RowOf(f, d).at => Lies(f, d)
  BY DEF Delivered, DeliveredAt
<1> HIDE DEF ev, to
<1>6. ASSUME hist'[f] = hist[f], copy'[f] = copy[f], device'[to] = device[to], sent'[ev][to] = sent[ev][to]
      PROVE  Lies(f, d)'
  BY <1>3, <1>4, <1>5, <1>6
<1>7. CASE User
  <2>1. ASSUME NEW g \in File, NEW status, Stored(g, status) PROVE Lies(f, d)'
    <3>1. sent' = sent /\ device' = device
      BY <2>1 DEF Stored, rowVars
    <3>2. CASE g = f
      <4>1. PICK s \in ClockSteps : hist' = [hist EXCEPT ![g] = [status |-> status, at |-> now + s]]
        BY <2>1 DEF Stored
      <4>2. s \in Int /\ s > 0
        BY SyncAssumption DEF Forward
      <4>3. hist'[f].at = now + s
        BY <1>1, <3>2, <4>1
      <4>4. sent[ev][to].at \in Int /\ sent[ev][to].at <= now
        BY <1>1, <1>2 DEF Clocked, Row
      <4> QED BY <1>1, <1>3, <3>1, <4>2, <4>3, <4>4
    <3>3. CASE g # f
      <4>1. hist'[f] = hist[f] /\ copy'[f] = copy[f]
        BY <1>1, <2>1, <3>3 DEF Stored
      <4> QED BY <1>6, <3>1, <4>1
    <3> QED BY <3>2, <3>3
  <2>2. ASSUME NEW e, NEW m, SaveMappings(e, m) PROVE Lies(f, d)'
    BY <1>6, <2>2 DEF SaveMappings, fileVars, rowVars
  <2> QED BY <1>7, <2>1, <2>2 DEF User, Download, Delete
<1>8. ASSUME NEW e \in Event, Plan(e) \/ TestDestinations(e) \/ EndRun(e) \/ CancelOrCrash(e) PROVE Lies(f, d)'
  BY <1>6, <1>8 DEF Plan, TestDestinations, EndRun, CancelOrCrash, fileVars, rowVars
<1>9. ASSUME NEW e \in Event, NEW i \in run[e].todo, NEW r \in Row,
             sent' = [sent EXCEPT ![e][Target(i)] = r], UNCHANGED <<hist, copy, device>>,
             r.status = "Success" => (ev = e /\ to = Target(i) => Lies(f, d))
      PROVE  Lies(f, d)'
  <2>1. Target(i) \in Destination
    BY <1>1, Runs, Items
  <2>2. /\ sent'[e][Target(i)] = r
        /\ \A x \in Event, y \in Destination : x # e \/ y # Target(i) => sent'[x][y] = sent[x][y]
    BY <1>1, <1>9, <2>1, Sending
  <2>3. CASE ev = e /\ to = Target(i)
    BY <1>3, <1>4, <1>9, <2>2, <2>3
  <2>4. CASE ~(ev = e /\ to = Target(i))
    BY <1>2, <1>6, <1>9, <2>2, <2>4
  <2> QED BY <2>3, <2>4
<1>10. /\ [status |-> "Success", at |-> now] \in Row /\ [status |-> "Failure", at |-> now] \in Row
       /\ [status |-> "Deleted", at |-> now] \in Row
  BY <1>1 DEF Row
<1>11. ASSUME NEW e \in Event, NEW i \in run[e].todo, SkipItem(e, i) \/ TransferFails(e, i) PROVE Lies(f, d)'
  <2> DEFINE r == [status |-> "Failure", at |-> now]
  <2>1. r \in Row /\ r.status # "Success"
    BY <1>10
  <2>2. sent' = [sent EXCEPT ![e][Target(i)] = r] /\ UNCHANGED <<hist, copy, device>>
    BY <1>11 DEF SkipItem, TransferFails, Fails, FailureRow, fileVars
  <2> HIDE DEF r
  <2> QED BY <1>9, <2>1, <2>2
<1>12. ASSUME NEW e \in Event, NEW i \in run[e].todo
       PROVE  /\ i \in Item /\ i.file \in File /\ Target(i) \in Destination
              /\ EventOf[LedOf(i.file)] = e /\ i.action \in {"Push", "Remove"}
              /\ hist[i.file].status = IF i.action = "Push" THEN "Success" ELSE "Deleted"
              /\ to = Target(i) => f = i.file /\ d = i.folder
  <2>1. /\ i \in Item /\ i.file \in File /\ Target(i) \in Destination /\ i.action \in {"Push", "Remove"}
    BY <1>1, Runs, Items
  <2>2. ItemOK(e, i)
    BY DEF Basic, ItemsOK, PlanOK
  <2>3. to = Target(i) => d = i.folder /\ i.file[2] = f[2]
    BY DEF to, Target
  <2>4. to = Target(i) => i.file = f
    BY <2>1, <2>2, <2>3, Meeting DEF ItemOK
  <2> QED BY <2>1, <2>2, <2>3, <2>4 DEF ItemOK
<1>13. ASSUME NEW e \in Event, NEW i \in run[e].todo, Record(e, i) PROVE Lies(f, d)'
  <2>1. UNCHANGED <<hist, copy, device>> /\ run[e].phase = "recording" /\ IsNext(e, i)
    BY <1>13 DEF Record, fileVars
  <2>2. CASE UNCHANGED sent
    BY <1>6, <2>1, <2>2
  <2>3. CASE ~UNCHANGED sent
    <3> DEFINE r == [status |-> IF i.action = "Push" THEN "Success" ELSE "Deleted", at |-> now]
    <3>1. r \in Row /\ (r.status = "Success" => i.action = "Push")
      BY <1>10
    <3>2. sent' = [sent EXCEPT ![e][Target(i)] = r]
      BY <1>13, <2>3 DEF Record, rowVars
    <3> HIDE DEF r
    <3>3. ASSUME r.status = "Success", to = Target(i) PROVE Lies(f, d)
      <4>1. f = i.file /\ d = i.folder
        BY <1>12, <3>3
      <4> QED BY <2>1, <3>1, <3>3, <4>1 DEF Copied, CopiedAt
    <3> QED BY <1>9, <2>1, <3>1, <3>2, <3>3
  <2> QED BY <2>2, <2>3
<1>14. ASSUME NEW e \in Event, NEW i \in run[e].todo, Transfer(e, i) PROVE Lies(f, d)'
  <2>1. UNCHANGED <<hist, copy, sent>>
    BY <1>14 DEF Transfer, fileVars, rowVars
  <2>2. /\ device' = [device EXCEPT ![Target(i)] =
                        IF i.action = "Push" THEN Content(i.file, copy[i.file]) ELSE Nothing]
    BY <1>14 DEF Transfer
  <2>3. CASE to # Target(i)
    BY <1>1, <1>2, <1>6, <1>12, <2>1, <2>2, <2>3
  <2>4. CASE to = Target(i)
    <3>1. f = i.file /\ i.action = "Push"
      BY <1>12, <2>1, <2>4
    <3>2. device'[to] = Content(f, copy[f])
      BY <1>1, <1>12, <2>2, <2>4, <3>1
    <3> QED BY <1>4, <2>1, <3>2
  <2> QED BY <2>3, <2>4
<1> QED BY <1>7, <1>8, <1>11, <1>13, <1>14, Acting DEF Basic

LEMMA StaysCopied ==
  ASSUME Basic, Copied, Next PROVE Copied'
<1>1. /\ run \in [Event -> Run] /\ run' \in [Event -> Run]
      /\ device \in [Destination -> {Nothing} \cup [led : Led, version : 1 .. MaxVersion]]
  BY RunTyped DEF Basic, TypeOK
<1> SUFFICES ASSUME NEW e \in Event, NEW i \in run'[e].todo, run'[e].phase = "recording",
                    IsNext(e, i)', i.action = "Push", Alone(i.file, i.folder)
             PROVE  Lies(i.file, i.folder)'
  BY DEF Copied, CopiedAt, Alone
<1>2. i \in Item /\ i.file \in File /\ Target(i) \in Destination /\ i.folder \in Folder
  BY <1>1, Runs, Items
<1>3. /\ Lies(i.file, i.folder) <=> device[Target(i)] = Content(i.file, copy[i.file])
      /\ Lies(i.file, i.folder)' <=> device'[Target(i)] = Content(i.file, copy'[i.file])
  BY DEF Lies, Content, Target
<1>4. ASSUME run'[e] = run[e], copy'[i.file] = copy[i.file], device'[Target(i)] = device[Target(i)]
      PROVE  Lies(i.file, i.folder)'
  <2>1. i \in run[e].todo /\ run[e].phase = "recording" /\ IsNext(e, i)
    BY <1>4 DEF IsNext
  <2>2. Lies(i.file, i.folder)
    BY <2>1 DEF Copied, CopiedAt
  <2> QED BY <1>3, <1>4, <2>2
<1>5. CASE User
  <2>1. run' = run /\ device' = device
    BY <1>5 DEF User, Download, Delete, Stored, SaveMappings
  <2>2. copy'[i.file] = copy[i.file]
    BY <1>5, <2>1, UserApart DEF Basic
  <2> QED BY <1>4, <2>1, <2>2
<1>6. ASSUME NEW o \in Event, UNCHANGED <<copy, device>>, \A x \in Event \ {o} : run'[x] = run[x],
             run'[o].phase # "recording"
      PROVE  Lies(i.file, i.folder)'
  BY <1>4, <1>6
<1>7. ASSUME NEW o \in Event, Plan(o) \/ TestDestinations(o) \/ EndRun(o) \/ CancelOrCrash(o)
      PROVE  Lies(i.file, i.folder)'
  <2>1. UNCHANGED <<copy, device>>
    BY <1>7 DEF Plan, TestDestinations, EndRun, CancelOrCrash, fileVars
  <2>2. CASE Plan(o)
    <3>1. \E r : run' = [run EXCEPT ![o] = r]
      BY <2>2 DEF Plan
    <3>2. run'[o].phase = "planned"
      BY <2>2, Planned DEF Basic
    <3> QED BY <1>1, <1>6, <2>1, <3>1, <3>2
  <2>3. CASE TestDestinations(o)
    <3>1. PICK usable \in SUBSET Involved(o) :
            run' = [run EXCEPT ![o].phase = "working", ![o].usable = usable]
      BY <2>3 DEF TestDestinations
    <3>2. run'[o].phase = "working" /\ \A x \in Event \ {o} : run'[x] = run[x]
      BY <1>1, <3>1 DEF Run
    <3> QED BY <1>6, <2>1, <3>2
  <2>4. CASE EndRun(o) \/ CancelOrCrash(o)
    <3>1. run' = [run EXCEPT ![o] = Idle]
      BY <2>4 DEF EndRun, CancelOrCrash
    <3> QED BY <1>1, <1>6, <2>1, <3>1, IdleRun
  <2> QED BY <1>7, <2>2, <2>3, <2>4
<1>8. ASSUME NEW o \in Event, NEW j \in run[o].todo, SkipItem(o, j) \/ Record(o, j) \/ TransferFails(o, j)
      PROVE  Lies(i.file, i.folder)'
  <2>1. UNCHANGED <<copy, device>>
    BY <1>8 DEF SkipItem, Record, TransferFails, fileVars
  <2>2. run' = Done(o, j) \/ DeviceDies(o, j)
    BY <1>8 DEF SkipItem, Record, TransferFails
  <2>3. j \in Item
    BY <1>1, Runs
  <2>4. run'[o].phase = "working" /\ \A x \in Event \ {o} : run'[x] = run[x]
    BY <1>1, <2>2, <2>3, Dones, Deaths
  <2> QED BY <1>6, <2>1, <2>4
<1>9. ASSUME NEW o \in Event, NEW j \in run[o].todo, Transfer(o, j) PROVE Lies(i.file, i.folder)'
  <2>1. /\ UNCHANGED copy /\ run' = [run EXCEPT ![o].phase = "recording"] /\ IsNext(o, j)
        /\ device' = [device EXCEPT ![Target(j)] =
                        IF j.action = "Push" THEN Content(j.file, copy[j.file]) ELSE Nothing]
    BY <1>9 DEF Transfer, Tries, fileVars
  <2>2. j \in Item /\ j.file \in File /\ Target(j) \in Destination
    BY <1>1, Runs, Items
  <2>3. ItemOK(o, j)
    BY DEF Basic, ItemsOK, PlanOK
  <2>4. run'[o].todo = run[o].todo /\ \A x \in Event \ {o} : run'[x] = run[x]
    BY <1>1, <2>1 DEF Run
  <2>5. CASE o = e
    <3>1. Rank[i.file] <= Rank[j.file] /\ Rank[j.file] <= Rank[i.file]
      BY <2>1, <2>4, <2>5 DEF IsNext
    <3>2. Rank[i.file] = Rank[j.file]
      <4>1. Rank[i.file] \in Nat /\ Rank[j.file] \in Nat
        BY <1>2, <2>2, SyncAssumption
      <4> QED BY <3>1, <4>1
    <3>3. i.file = j.file
      BY <1>2, <2>2, <3>2, SyncAssumption
    <3>4. i = j
      BY <2>4, <2>5, <3>3 DEF Basic, ItemsOK, PlanOK
    <3>5. device'[Target(i)] = Content(i.file, copy[i.file])
      BY <1>1, <1>2, <2>1, <3>4
    <3> QED BY <1>3, <2>1, <3>5
  <2>6. CASE o # e
    <3>1. i \in run[e].todo /\ run'[e] = run[e]
      BY <2>4, <2>6
    <3>2. EventOf[LedOf(i.file)] = e /\ EventOf[LedOf(j.file)] = o
      BY <2>3, <3>1 DEF Basic, ItemsOK, PlanOK, ItemOK
    <3>3. Target(i) # Target(j)
      <4>1. SUFFICES ASSUME Target(i) = Target(j) PROVE FALSE
        OBVIOUS
      <4>2. i.folder = j.folder /\ i.file[2] = j.file[2]
        BY <4>1 DEF Target
      <4>3. j.file = i.file
        BY <1>2, <2>2, <2>3, <4>2, Meeting DEF ItemOK
      <4> QED BY <2>6, <3>2, <4>3
    <3>4. device'[Target(i)] = device[Target(i)]
      BY <1>1, <1>2, <2>1, <3>3
    <3> QED BY <1>4, <2>1, <3>1, <3>4
  <2> QED BY <2>5, <2>6
<1> QED BY <1>5, <1>7, <1>8, <1>9, Acting DEF Basic

Delivery == Basic /\ Clocked /\ Delivered /\ Copied

LEMMA DeliveryInit == Init => Delivery
<1> SUFFICES ASSUME Init PROVE Clocked /\ Delivered /\ Copied
  BY BasicInit DEF Delivery
<1>1. Clocked
  BY DEF Init, Clocked, NoRow
<1>2. Delivered
  BY DEF Init, Delivered, DeliveredAt, NoRow
<1>3. Copied
  BY IdleRun DEF Init, Copied
<1> QED BY <1>1, <1>2, <1>3

LEMMA DeliveryStep == ASSUME Delivery, Forward, [Next]_vars PROVE Delivery'
<1>1. CASE Next
  BY <1>1, BasicStep, StaysClocked, StaysDelivered, StaysCopied DEF Delivery
<1>2. CASE UNCHANGED vars
  <2>1. Basic'
    BY <1>2, BasicStep DEF Delivery
  <2>2. Clocked' /\ Delivered' /\ Copied'
    BY <1>2 DEF Delivery, Clocked, Delivered, DeliveredAt, Copied, CopiedAt, Lies, RowOf, IsNext,
                vars, fileVars, mapVars, rowVars
  <2> QED BY <2>1, <2>2 DEF Delivery
<1> QED BY <1>1, <1>2

LEMMA DeliveryShows == Delivery => LeftAloneIsOnDevice
<1> SUFFICES ASSUME Delivery, NEW f \in File, hist[f].status = "Success", Exclusive(f), ~NeedsPush(f)
             PROVE  OnDevice(f)
  BY DEF LeftAloneIsOnDevice
<1> DEFINE d == folder[LedOf(f)]
<1>1. d \in Choices[LedOf(f)] /\ d \in Folder
  BY Files DEF Exclusive, Mapped, Delivery, Basic, MapOK
<1>2. Alone(f, d)
  BY <1>1 DEF Exclusive, Alone
<1>3. LastRow(f) = RowOf(f, d)
  BY DEF LastRow, RowOf, DestinationOf
<1>4. RowOf(f, d) \in Row /\ hist[f].at \in Int
  <2>1. sent \in [Event -> [Destination -> Row]]
        /\ hist \in [File -> [status : {"None", "Success", "Deleted"}, at : Int]]
    BY DEF Delivery, Basic, TypeOK, Row
  <2> QED BY <1>1, <2>1, Files DEF RowOf, Destination
<1>5. RowOf(f, d).status = "Success" /\ hist[f].at <= RowOf(f, d).at
  BY <1>3, <1>4 DEF NeedsPush, Row
<1>6. Lies(f, d)
  BY <1>1, <1>2, <1>5 DEF Delivery, Delivered, DeliveredAt
<1> QED BY <1>6 DEF Lies, OnDevice, DestinationOf

(* Where the clock goes forward, what a plan leaves alone is on its        *)
(* device.  (Where it does not, a new version may look older than the push *)
(* of the one before.)                                                     *)
THEOREM LeftAlone ==
  ASSUME Forward PROVE FairSpec => []LeftAloneIsOnDevice
<1>1. Delivery /\ [Next]_vars => Delivery'
  BY DeliveryStep
<1> QED BY <1>1, DeliveryInit, DeliveryShows, PTL DEF FairSpec
=============================================================================
