--------------------------- MODULE TransferProofs ----------------------------
(***************************************************************************)
(* For any set of files, any order of work, any limits and any number of   *)
(* faults: the record never runs ahead of the disk, and a run touches      *)
(* nothing of which its check has read that it is later than its cut-off.  *)
(***************************************************************************)
EXTENDS Transfer, TLAPS

AtLeast(version, time) == version = Absent \/ version >= time

(* An entry is written after the event it tells of, so Azure has at least  *)
(* that version, or none.                                                  *)
Past(e) == e.time <= clock /\ (e.status # "Deleted" => AtLeast(blob[e.file], e.time))

EntriesArePast ==
  /\ \A e \in unlogged \cup run.seen : Past(e)
  /\ \A k \in DOMAIN log : Past(log[k])

BlobsArePast == \A f \in File : blob[f] <= clock

RecordsArePast ==
  \A f \in File : record[f].status = "Success" =>
    /\ record[f].time <= clock
    /\ AtLeast(blob[f], record[f].time)
    /\ AtLeast(disk[f], record[f].time)

OneEntryEach == \A e, d \in run.seen : e.file = d.file => e = d

(* What is to be done is there to be done, before the cut-off, once a file *)
ItemsArePast ==
  \A i \in run.todo :
    i.action = "Download" => i.time <= clock /\ AtLeast(blob[i.file], i.time)

ItemsAreDue == \A i \in run.todo : i.repair \/ ~After(i.time, run.on, run.boundary)

(* An item is of the latest that the check has read of its file.           *)
ItemsAreRead == \A i \in run.todo, e \in run.seen : e.file = i.file => e.time = i.time

OneItemEach == \A i, k \in run.todo : i.file = k.file => i = k

(* A listing is at least as new as all that was decided before it.         *)
Fresh(listing) ==
  listing # NoListing =>
    /\ \A f \in File : record[f].status = "Success" => AtLeast(listing[f], record[f].time)
    /\ \A i \in run.todo : i.action = "Download" => AtLeast(listing[i.file], i.time)

Resting == run.phase \in {"idle", "checked"} => run.todo = {} /\ run.listing = NoListing

(* What is known of the item being worked on, in each phase                *)
InHand ==
  \A i \in run.todo : IsNext(i) =>
    /\ run.phase \in {"locating", "streaming"} => i.action = "Download"
    /\ run.phase = "streaming" =>
         run.listing # NoListing /\ run.found = run.listing[i.file] /\ run.found # Absent
    /\ run.phase = "recording" /\ i.action = "Download" => AtLeast(disk[i.file], i.time)

IInv ==
  /\ TypeOK
  /\ EntriesArePast /\ BlobsArePast /\ RecordsArePast /\ OneEntryEach
  /\ ItemsArePast /\ ItemsAreDue /\ ItemsAreRead /\ OneItemEach
  /\ Fresh(run.listing) /\ Resting /\ InHand
-----------------------------------------------------------------------------
LEMMA Numbers == MaxClock \in Nat /\ MaxFaults \in Nat /\ Retries \in Nat /\ Time \subseteq Nat \ {0}
<1>1. MaxClock \in Nat /\ MaxFaults \in Nat /\ Retries \in Nat
  BY TransferAssumption
<1> QED
  BY <1>1 DEF Time

(* A record has a time.                                                    *)
LEMMA RecordTime == ASSUME NEW r \in Record(Time) PROVE r.time \in Nat
<1>1. CASE r = NoRecord
  BY <1>1 DEF NoRecord, NoTime
<1>2. CASE r \in [status : {"Success", "Deleted"}, time : Time]
  <2>1. r.time \in Time
    BY <1>2
  <2> QED
    BY <2>1, Numbers
<1> QED
  BY <1>1, <1>2 DEF Record

(* The operators of Changes                                                *)

(* A row replaces the current record or it does not.                       *)
LEMMA LatestRecordIsEither ==
  ASSUME NEW current, NEW row PROVE LatestRecord(current, row) \in {current, row}
BY DEF LatestRecord

(* A file has one latest entry.                                            *)
LEMMA LatestIsUnique ==
  ASSUME NEW l \in Seq(Entry(Time)), NEW e \in Latest(l), NEW d \in Latest(l), e.file = d.file
  PROVE  e = d
<1>1. PICK i \in DOMAIN l : IsLatest(l, i) /\ e = l[i]
  BY DEF Latest
<1>2. PICK k \in DOMAIN l : IsLatest(l, k) /\ d = l[k]
  BY DEF Latest
<1>3. i \in Nat /\ k \in Nat /\ l[i].time \in Nat /\ l[k].time \in Nat
  <2>1. l[i] \in Entry(Time) /\ l[k] \in Entry(Time)
    OBVIOUS
  <2>2. i \in Nat /\ k \in Nat
    OBVIOUS
  <2>3. l[i].time \in Time /\ l[k].time \in Time
    BY <2>1 DEF Entry
  <2> QED
    BY <2>2, <2>3, Numbers
<1>4. l[i].file = l[k].file
  BY <1>1, <1>2
<1> QED
  BY <1>1, <1>2, <1>3, <1>4 DEF IsLatest

(* The latest entries are entries of the log.                              *)
LEMMA LatestIsLogged ==
  ASSUME NEW l \in Seq(Entry(Time)), NEW e \in Latest(l)
  PROVE  e \in Entry(Time) /\ \E k \in DOMAIN l : e = l[k]
BY DEF Latest

(* Work is never given out for what is later than the cut-off, and only    *)
(* what is in Azure is downloaded.                                         *)
LEMMA DecideIsDue ==
  ASSUME NEW e, NEW have, NEW on, NEW boundary, Decide(e, have, on, boundary) \in {"Download", "Delete"}
  PROVE  /\ ~After(e.time, on, boundary)
         /\ Decide(e, have, on, boundary) = "Download" => e.status # "Deleted"
BY DEF Decide

LEMMA DecideUnloggedIsDue ==
  ASSUME NEW t, NEW have, NEW on, NEW boundary,
         DecideUnlogged(t, have, on, boundary) \in {"Download", "Delete"}
  PROVE  ~After(t, on, boundary) /\ DecideUnlogged(t, have, on, boundary) = "Download"
BY DEF DecideUnlogged
-----------------------------------------------------------------------------
(* The list of work                                                        *)

Rows(listed) == Comparison(run.seen, listed, record, run.on, run.boundary)

(* What Azure's list may be: what is there, or nothing at all              *)
Listed(listed) ==
  listed \in Listing /\ \A f \in File : listed[f] # Absent => listed[f] = blob[f]

(* A row of the comparison is of an entry, or of a blob in the list.       *)
LEMMA RowsComeFrom ==
  ASSUME NEW listed, NEW row \in Rows(listed)
  PROVE  \/ \E e \in run.seen :
              row.file = e.file /\ row = AssessLogged(e, record, run.on, run.boundary)
         \/ \E f \in File :
              /\ row.file = f /\ listed[f] # Absent /\ \A e \in run.seen : e.file # f
              /\ row = AssessUnlogged(f, listed[f], record, run.on, run.boundary)
<1>1. \A e : AssessLogged(e, record, run.on, run.boundary).file = e.file
  BY DEF AssessLogged
<1>2. \A f : AssessUnlogged(f, listed[f], record, run.on, run.boundary).file = f
  BY DEF AssessUnlogged
<1> QED
  BY <1>1, <1>2 DEF Rows, Comparison

(* Each row is of a file and a time that has been.                         *)
LEMMA RowsAreTyped ==
  ASSUME TypeOK, NEW listed, Listed(listed), NEW row \in Rows(listed)
  PROVE  row.file \in File /\ row.time \in Time
<1>1. ASSUME NEW e \in run.seen, row = AssessLogged(e, record, run.on, run.boundary)
      PROVE  row.file \in File /\ row.time \in Time
  <2>1. e \in Entry(Time)
    BY DEF TypeOK, Run
  <2>2. e.file \in File /\ e.time \in Time
    BY <2>1 DEF Entry
  <2> QED
    BY <1>1, <2>2 DEF AssessLogged
<1>2. ASSUME NEW f \in File, listed[f] # Absent,
             row = AssessUnlogged(f, listed[f], record, run.on, run.boundary)
      PROVE  row.file \in File /\ row.time \in Time
  <2>1. listed[f] \in 0 .. MaxClock
    BY DEF Listed, Listing, Version
  <2>2. listed[f] \in Time
    BY <1>2, <2>1, Numbers DEF Time, Absent
  <2> QED
    BY <1>2, <2>2 DEF AssessUnlogged
<1> QED
  BY <1>1, <1>2, RowsComeFrom

(* There is one row for each file.                                         *)
LEMMA RowsAreUnique ==
  ASSUME OneEntryEach, NEW listed, NEW r \in Rows(listed), NEW s \in Rows(listed), r.file = s.file
  PROVE  r = s
BY RowsComeFrom DEF OneEntryEach

(* The row of a file that the log mentions has the time of its entry.      *)
LEMMA RowIsOfEntry ==
  ASSUME OneEntryEach, NEW listed, NEW row \in Rows(listed), NEW e \in run.seen, e.file = row.file
  PROVE  e.time = row.time
<1>1. PICK d \in run.seen : row.file = d.file /\ row = AssessLogged(d, record, run.on, run.boundary)
  BY RowsComeFrom
<1>2. d = e
  BY <1>1 DEF OneEntryEach
<1> QED
  BY <1>1, <1>2 DEF AssessLogged

(* What is given out as work is due, and what is to be stored is in Azure. *)
LEMMA RowsAreSound ==
  ASSUME TypeOK, EntriesArePast, BlobsArePast,
         NEW listed, Listed(listed), NEW row \in Rows(listed)
  PROVE  /\ row.action \in {"Download", "Delete"} => ~After(row.time, run.on, run.boundary)
         /\ row.action = "Download" \/ row.present
              => row.time <= clock /\ AtLeast(blob[row.file], row.time)
<1> DEFINE Sound(r) ==
      /\ r.action \in {"Download", "Delete"} => ~After(r.time, run.on, run.boundary)
      /\ r.action = "Download" \/ r.present => r.time <= clock /\ AtLeast(blob[r.file], r.time)
<1>1. ASSUME NEW e \in run.seen, row = AssessLogged(e, record, run.on, run.boundary)
      PROVE  Sound(row)
  <2>1. /\ row.file = e.file /\ row.time = e.time
        /\ row.action = Decide(e, record[e.file], run.on, run.boundary)
        /\ row.present <=> e.status # "Deleted"
    BY <1>1 DEF AssessLogged
  <2>2. Past(e)
    BY DEF EntriesArePast
  <2> QED
    BY <2>1, <2>2, DecideIsDue DEF Past
<1>2. ASSUME NEW f \in File, listed[f] # Absent,
             row = AssessUnlogged(f, listed[f], record, run.on, run.boundary)
      PROVE  Sound(row)
  <2>1. /\ row.file = f /\ row.time = listed[f]
        /\ row.action = DecideUnlogged(listed[f], record[f], run.on, run.boundary)
    BY <1>2 DEF AssessUnlogged
  <2>2. blob[f] \in Nat /\ blob[f] <= clock
    BY DEF TypeOK, Listing, Version, BlobsArePast
  <2>3. row.time = blob[f]
    BY <1>2, <2>1 DEF Listed
  <2>4. row.time <= clock /\ AtLeast(blob[row.file], row.time)
    BY <2>1, <2>2, <2>3 DEF AtLeast
  <2> QED
    BY <2>1, <2>4, DecideUnloggedIsDue
<1> QED
  BY <1>1, <1>2, RowsComeFrom

(* An item of the list is of a row: of one with work, or of a repair.      *)
LEMMA ItemsComeFrom ==
  ASSUME TypeOK, NEW listed, Plan(listed), NEW i \in run'.todo
  PROVE  \E row \in Rows(listed) :
           \/ /\ row.action \in {"Download", "Delete"}
              /\ i = [file |-> row.file, action |-> row.action, time |-> row.time, repair |-> FALSE]
           \/ /\ row.action = "Done" /\ row.present
              /\ i = [file |-> row.file, action |-> "Download", time |-> row.time, repair |-> TRUE]
<1> HIDE DEF Rows
<1>1. run \in Run
  BY DEF TypeOK
<1>2. run'.todo = {[file |-> row.file, action |-> row.action, time |-> row.time, repair |-> FALSE]
                     : row \in {r \in Rows(listed) : r.action \in {"Download", "Delete"}}}
                  \cup {[file |-> row.file, action |-> "Download", time |-> row.time, repair |-> TRUE]
                     : row \in {r \in Rows(listed) : NeedsRepair(r, record, disk)}}
  BY <1>1 DEF Plan, Run, Rows
<1>3. \A r \in Rows(listed) : NeedsRepair(r, record, disk) => r.action = "Done" /\ r.present
  BY DEF NeedsRepair
<1> QED
  BY <1>2, <1>3

LEMMA PlanIsTyped ==
  ASSUME TypeOK, NEW listed, Listed(listed), Plan(listed)
  PROVE  run' \in Run
<1>1. ASSUME NEW i \in run'.todo PROVE i \in Item
  <2>1. PICK row \in Rows(listed) :
           \/ /\ row.action \in {"Download", "Delete"}
              /\ i = [file |-> row.file, action |-> row.action, time |-> row.time, repair |-> FALSE]
           \/ /\ row.action = "Done" /\ row.present
              /\ i = [file |-> row.file, action |-> "Download", time |-> row.time, repair |-> TRUE]
    BY ItemsComeFrom
  <2>2. row.file \in File /\ row.time \in Time
    BY RowsAreTyped
  <2>3. \A a \in {"Download", "Delete"}, b \in BOOLEAN :
          [file |-> row.file, action |-> a, time |-> row.time, repair |-> b] \in Item
    BY <2>2 DEF Item
  <2> QED
    BY <2>1, <2>3
<1>2. run \in Run
  BY DEF TypeOK
<1>3. run' = [run EXCEPT !.phase = "working", !.todo = run'.todo]
  BY <1>2 DEF Plan, Run
<1>4. run'.todo \in SUBSET Item
  BY <1>1
<1> QED
  BY <1>2, <1>3, <1>4 DEF Run
-----------------------------------------------------------------------------
(* Types                                                                   *)

LEMMA IdleIsRun == Idle \in Run
<1>1. 0 \in 0 .. Retries /\ Absent \in Version /\ NoTime \in Nat /\ 0 \in Nat
  BY Numbers DEF Absent, NoTime, Version
<1>2. {} \in SUBSET Entry(Time) /\ {} \in SUBSET Item /\ FALSE \in BOOLEAN
      /\ NoListing \in {NoListing} \cup Listing
  OBVIOUS
<1> QED
  BY <1>1, <1>2 DEF Idle, Run

LEMMA DoneIsRun ==
  ASSUME TypeOK, NEW i, NEW listing \in {NoListing} \cup Listing
  PROVE  Done(i, listing) \in Run
<1>1. run \in Run
  BY DEF TypeOK
<1>2. 0 \in 0 .. Retries /\ Absent \in Version
  BY Numbers DEF Absent, Version
<1>3. run.todo \ {i} \in SUBSET Item /\ run.tried + 1 \in Nat
  BY <1>1 DEF Run
<1> QED
  BY <1>1, <1>2, <1>3 DEF Done, Run

LEMMA TryAgainIsRun ==
  ASSUME TypeOK, run.tries < Retries, TryAgain PROVE run' \in Run
<1>1. run \in Run
  BY DEF TypeOK
<1>2. run.tries \in 0 .. Retries
  BY <1>1 DEF Run
<1>3. run.tries + 1 \in 0 .. Retries /\ Absent \in Version
  BY <1>2, Numbers DEF Absent, Version
<1>4. NoListing \in {NoListing} \cup Listing
  OBVIOUS
<1> QED
  BY <1>1, <1>3, <1>4 DEF TryAgain, Run

(* The history keeps a record of one of the two kinds for each file.       *)
LEMMA RowIsRecord ==
  ASSUME TypeOK, NEW i \in run.todo, NEW status \in {"Success", "Deleted"},
         record' = [record EXCEPT ![i.file] = LatestRecord(@, [status |-> status, time |-> i.time])]
  PROVE  record' \in [File -> Record(Time)]
<1>1. i \in Item
  BY DEF TypeOK, Run
<1>2. i.file \in File /\ i.time \in Time
  BY <1>1 DEF Item
<1>3. [status |-> status, time |-> i.time] \in Record(Time)
  BY <1>2 DEF Record
<1>4. record \in [File -> Record(Time)]
  BY DEF TypeOK
<1>5. LatestRecord(record[i.file], [status |-> status, time |-> i.time]) \in Record(Time)
  BY <1>2, <1>3, <1>4, LatestRecordIsEither
<1> QED
  BY <1>4, <1>5

(* A fault is counted.                                                     *)
LEMMA FaultIsCounted == ASSUME TypeOK, Fault PROVE faults' \in 0 .. MaxFaults
<1>1. faults \in 0 .. MaxFaults
  BY DEF TypeOK
<1> QED
  BY <1>1, Numbers DEF Fault

LEMMA MissingIsTyped ==
  ASSUME TypeOK, NEW i \in run.todo, NEW listing \in {NoListing} \cup Listing, Missing(i, listing)
  PROVE  /\ record' \in [File -> Record(Time)] /\ run' \in Run
         /\ open' \subseteq File /\ faults' \in 0 .. MaxFaults
<1>1. i.file \in File
  BY DEF TypeOK, Run, Item
<1>2. open' \subseteq File
  BY <1>1 DEF Missing, Fail, TypeOK
<1>3. run' \in Run
  BY DoneIsRun DEF Missing, Fail
<1>4. faults' \in 0 .. MaxFaults
  BY FaultIsCounted DEF Missing, TypeOK
<1>5. record' \in [File -> Record(Time)]
  <2>1. CASE record' = [record EXCEPT ![i.file] =
                          LatestRecord(@, [status |-> "Deleted", time |-> i.time])]
    BY <2>1, RowIsRecord
  <2>2. CASE UNCHANGED record
    BY <2>2 DEF TypeOK
  <2> QED
    BY <2>1, <2>2 DEF Missing
<1> QED
  BY <1>2, <1>3, <1>4, <1>5

LocalTypes ==
  /\ disk \in Listing /\ record \in [File -> Record(Time)]
  /\ open \subseteq File /\ faults \in 0 .. MaxFaults /\ run \in Run

(* The web application's steps                                             *)
LEMMA CloudIsTyped == ASSUME TypeOK, Cloud PROVE TypeOK'
<1>1. clock \in 1 .. MaxClock + 1 /\ blob \in Listing /\ log \in Seq(Entry(Time))
      /\ unlogged \subseteq Entry(Time)
  BY DEF TypeOK
<1>2. LocalTypes
  BY DEF TypeOK, LocalTypes
<1>3. LocalTypes /\ UNCHANGED <<localVars, faults, run>> => LocalTypes'
  BY DEF LocalTypes, localVars
<1>4. ASSUME clock <= MaxClock PROVE clock \in Time /\ clock \in Version
                                     /\ clock + 1 \in 1 .. MaxClock + 1
  BY <1>1, <1>4, Numbers DEF Time, Version
<1>5. ASSUME NEW f \in File, NEW status \in Status, clock <= MaxClock, Announce(f, status)
      PROVE  unlogged' \subseteq Entry(Time)
  <2>1. [file |-> f, status |-> status, time |-> clock] \in Entry(Time)
    BY <1>4, <1>5 DEF Entry
  <2> QED
    BY <1>1, <1>5, <2>1 DEF Announce
<1>6. CASE Tick
  BY <1>1, <1>2, <1>3, <1>4, <1>6 DEF Tick, TypeOK, LocalTypes, localVars
<1>7. CASE \E f \in File : Upload(f)
  <2>1. PICK f \in File : Upload(f)
    BY <1>7
  <2>2. (IF blob[f] = Absent THEN "New" ELSE "Updated") \in Status
    BY DEF Status
  <2>3. unlogged' \subseteq Entry(Time) /\ clock' \in 1 .. MaxClock + 1
    BY <1>4, <1>5, <2>1, <2>2 DEF Upload
  <2>4. blob' \in Listing
    BY <1>1, <1>4, <2>1 DEF Upload, Listing
  <2> QED
    BY <1>1, <1>2, <1>3, <2>1, <2>3, <2>4 DEF Upload, TypeOK, LocalTypes
<1>8. CASE \E f \in File : Remove(f)
  <2>1. PICK f \in File : Remove(f)
    BY <1>8
  <2>2. "Deleted" \in Status /\ Absent \in Version
    BY Numbers DEF Status, Version, Absent
  <2>3. unlogged' \subseteq Entry(Time) /\ clock' \in 1 .. MaxClock + 1
    BY <1>4, <1>5, <2>1, <2>2 DEF Remove
  <2>4. blob' \in Listing
    BY <1>1, <2>1, <2>2 DEF Remove, Listing
  <2> QED
    BY <1>1, <1>2, <1>3, <2>1, <2>3, <2>4 DEF Remove, TypeOK, LocalTypes
<1>9. CASE \E e \in unlogged : WriteLog(e)
  <2>1. PICK e \in unlogged : WriteLog(e)
    BY <1>9
  <2>2. log' \in Seq(Entry(Time)) /\ unlogged' \subseteq Entry(Time)
    BY <1>1, <2>1 DEF WriteLog
  <2> QED
    BY <1>1, <1>2, <1>3, <2>1, <2>2 DEF WriteLog, TypeOK, LocalTypes
<1> QED
  BY <1>6, <1>7, <1>8, <1>9 DEF Cloud

(* The steps of a run, and the faults: Azure is left alone by all of them. *)
LEMMA OnlyLocal == ASSUME Step \/ Trouble PROVE UNCHANGED cloudVars
BY DEF Step, Trouble, ListAzure, EndRun, StreamCancelled, ReadLog, BeginDownload, DeleteFile,
       Locate, Stream, StreamChanged, Commit, Cancel, Crash, Lose, ConnectionFails, StreamFails

LEMMA StepIsTyped == ASSUME TypeOK, Step PROVE LocalTypes'
<1>1. /\ disk \in Listing /\ record \in [File -> Record(Time)] /\ open \subseteq File
      /\ faults \in 0 .. MaxFaults /\ run \in Run /\ blob \in Listing
  BY DEF TypeOK
<1>2. \A i \in run.todo : i \in Item /\ i.file \in File
  BY <1>1 DEF Run, Item
<1>3. Absent \in Version
  BY Numbers DEF Version, Absent
<1>4. CASE \E on \in BOOLEAN : ReadLog(on)
  <2>1. PICK on \in BOOLEAN : ReadLog(on)
    BY <1>4
  <2>2. \A e \in Latest(log) : e \in Entry(Time)
    BY LatestIsLogged DEF TypeOK
  <2>3. Boundary(on, clock) \in Int
    <3>1. clock \in Int /\ NoTime \in Int /\ Day \in Int /\ DayTime \in Int
      BY Numbers, DayAssumption DEF TypeOK, NoTime
    <3>2. clock % Day \in Int
      BY <3>1, DayAssumption
    <3> QED
      BY <3>1, <3>2 DEF Boundary
  <2>4. run' \in Run
    BY <2>1, <2>2, <2>3, IdleIsRun DEF ReadLog, Run
  <2> QED
    BY <1>1, <2>1, <2>4 DEF ReadLog, LocalTypes, localVars
<1>5. CASE ListAzure
  <2>1. Listed(blob) /\ Listed([f \in File |-> Absent])
    BY <1>1, <1>3 DEF Listed, Listing
  <2>2. run' \in Run
    BY <1>5, <2>1, PlanIsTyped DEF ListAzure
  <2>3. faults' \in 0 .. MaxFaults
    BY <1>1, <1>5, FaultIsCounted DEF ListAzure
  <2> QED
    BY <1>1, <1>5, <2>2, <2>3 DEF ListAzure, LocalTypes, localVars
<1>6. CASE EndRun \/ StreamCancelled
  BY <1>1, <1>6, IdleIsRun DEF EndRun, StreamCancelled, LocalTypes, localVars
<1>7. ASSUME NEW i \in run.todo, BeginDownload(i) PROVE LocalTypes'
  <2>1. run' \in Run
    BY <1>1, <1>7 DEF BeginDownload, Run
  <2> QED
    BY <1>1, <1>7, <2>1 DEF BeginDownload, LocalTypes, localVars
<1>8. ASSUME NEW i \in run.todo, DeleteFile(i) PROVE LocalTypes'
  <2>1. disk' \in Listing
    BY <1>1, <1>3, <1>8 DEF DeleteFile, Listing
  <2>2. run.listing \in {NoListing} \cup Listing
    BY <1>1 DEF Run
  <2>3. run' \in Run
    <3>1. CASE run' = [run EXCEPT !.phase = "recording"]
      BY <1>1, <3>1 DEF Run
    <3>2. CASE Fail(i, run.listing)
      BY <2>2, <3>2, DoneIsRun DEF Fail
    <3> QED
      BY <1>8, <3>1, <3>2 DEF DeleteFile
  <2>4. open' \subseteq File /\ faults' \in 0 .. MaxFaults
    BY <1>1, <1>2, <1>8, FaultIsCounted DEF DeleteFile, Fail
  <2> QED
    BY <1>1, <1>8, <2>1, <2>3, <2>4 DEF DeleteFile, LocalTypes
<1>9. ASSUME NEW i \in run.todo, Locate(i) PROVE LocalTypes'
  <2> DEFINE listing == IF run.listing = NoListing THEN blob ELSE run.listing
  <2>1. listing \in Listing
    BY <1>1 DEF Run
  <2>2. listing[i.file] \in Version
    BY <1>2, <2>1 DEF Listing
  <2>3. CASE run' = [run EXCEPT !.phase = "streaming", !.listing = listing, !.found = listing[i.file]]
             /\ UNCHANGED <<record, open, faults>>
    <3>1. run' \in Run
      BY <1>1, <2>1, <2>2, <2>3 DEF Run
    <3> QED
      BY <1>1, <1>9, <2>3, <3>1 DEF Locate, LocalTypes
  <2>4. CASE Missing(i, listing)
    BY <1>1, <1>9, <2>1, <2>4, MissingIsTyped DEF Locate, LocalTypes
  <2> QED
    BY <1>9, <2>3, <2>4 DEF Locate
<1>10. ASSUME NEW i \in run.todo, Stream(i) PROVE LocalTypes'
  <2>1. run.found \in Version
    BY <1>1 DEF Run
  <2>2. disk' \in Listing /\ run' \in Run
    BY <1>1, <1>10, <2>1 DEF Stream, Listing, Run
  <2> QED
    BY <1>1, <1>10, <2>2 DEF Stream, LocalTypes
<1>11. ASSUME NEW i \in run.todo, StreamChanged(i) PROVE LocalTypes'
  <2>1. run.listing \in {NoListing} \cup Listing
    BY <1>1 DEF Run
  <2>2. CASE Missing(i, run.listing)
    BY <1>1, <1>11, <2>1, <2>2, MissingIsTyped DEF StreamChanged, LocalTypes
  <2>3. CASE run.tries < Retries /\ TryAgain /\ UNCHANGED open /\ UNCHANGED <<record, faults>>
    BY <1>1, <1>11, <2>3, TryAgainIsRun DEF StreamChanged, LocalTypes
  <2>4. CASE Fail(i, run.listing) /\ UNCHANGED <<record, faults>>
    BY <1>1, <1>2, <1>11, <2>1, <2>4, DoneIsRun DEF StreamChanged, Fail, LocalTypes
  <2> QED
    BY <1>11, <2>2, <2>3, <2>4 DEF StreamChanged
<1>12. ASSUME NEW i \in run.todo, Commit(i) PROVE LocalTypes'
  <2>1. record' \in [File -> Record(Time)]
    <3>1. CASE UNCHANGED record
      BY <1>1, <3>1
    <3>2. CASE ~ UNCHANGED record
      BY <1>12, <3>2, RowIsRecord DEF Commit
    <3> QED
      BY <3>1, <3>2
  <2>2. run.listing \in {NoListing} \cup Listing
    BY <1>1 DEF Run
  <2>3. run' \in Run
    BY <1>12, <2>2, DoneIsRun DEF Commit
  <2>4. open' \subseteq File /\ faults' \in 0 .. MaxFaults
    BY <1>1, <1>12, FaultIsCounted DEF Commit
  <2> QED
    BY <1>1, <1>12, <2>1, <2>3, <2>4 DEF Commit, LocalTypes
<1> QED
  BY <1>4, <1>5, <1>6, <1>7, <1>8, <1>9, <1>10, <1>11, <1>12 DEF Step

LEMMA TroubleIsTyped == ASSUME TypeOK, Trouble PROVE LocalTypes'
<1>1. /\ disk \in Listing /\ record \in [File -> Record(Time)] /\ open \subseteq File
      /\ faults \in 0 .. MaxFaults /\ run \in Run
  BY DEF TypeOK
<1>2. \A i \in run.todo : i.file \in File
  BY <1>1 DEF Run, Item
<1>3. run.listing \in {NoListing} \cup Listing
  BY <1>1 DEF Run
<1>4. CASE Cancel
  <2>1. run' \in Run
    BY <1>1, <1>4 DEF Cancel, Run
  <2> QED
    BY <1>1, <1>4, <2>1, FaultIsCounted DEF Cancel, LocalTypes, localVars
<1>5. CASE Crash
  BY <1>1, <1>5, FaultIsCounted, IdleIsRun DEF Crash, LocalTypes, localVars
<1>6. CASE \E f \in File : Lose(f)
  <2>1. Absent \in Version
    BY Numbers DEF Version, Absent
  <2>2. disk' \in Listing
    BY <1>1, <1>6, <2>1 DEF Lose, Listing
  <2> QED
    BY <1>1, <1>6, <2>2, FaultIsCounted DEF Lose, LocalTypes
<1>7. ASSUME NEW i \in run.todo, ConnectionFails(i) PROVE LocalTypes'
  <2>1. run' \in Run
    BY <1>7, TryAgainIsRun, IdleIsRun DEF ConnectionFails
  <2> QED
    BY <1>1, <1>2, <1>7, <2>1, FaultIsCounted DEF ConnectionFails, LocalTypes
<1>8. ASSUME NEW i \in run.todo, StreamFails(i) PROVE LocalTypes'
  <2>1. run' \in Run
    BY <1>3, <1>8, TryAgainIsRun, DoneIsRun DEF StreamFails, Fail
  <2> QED
    BY <1>1, <1>2, <1>8, <2>1, FaultIsCounted DEF StreamFails, Fail, LocalTypes
<1> QED
  BY <1>4, <1>5, <1>6, <1>7, <1>8 DEF Trouble

LEMMA InitIsTyped == Init => TypeOK
<1> SUFFICES ASSUME Init PROVE TypeOK
  OBVIOUS
<1>1. clock \in 1 .. MaxClock + 1 /\ faults \in 0 .. MaxFaults /\ Absent \in Version
  BY Numbers DEF Init, Version, Absent
<1>2. log \in Seq(Entry(Time)) /\ unlogged \subseteq Entry(Time) /\ open \subseteq File
  BY DEF Init
<1>3. blob \in Listing /\ disk \in Listing
  BY <1>1 DEF Init, Listing
<1>4. record \in [File -> Record(Time)]
  BY DEF Init, Record
<1> QED
  BY <1>1, <1>2, <1>3, <1>4, IdleIsRun DEF Init, TypeOK

LEMMA NextIsTyped == TypeOK /\ [Next]_vars => TypeOK'
<1> SUFFICES ASSUME TypeOK, [Next]_vars PROVE TypeOK'
  OBVIOUS
<1>1. CASE Cloud
  BY <1>1, CloudIsTyped
<1>2. CASE Step \/ Trouble
  <2>1. LocalTypes' /\ UNCHANGED cloudVars
    BY <1>2, OnlyLocal, StepIsTyped, TroubleIsTyped
  <2> QED
    BY <2>1 DEF LocalTypes, cloudVars, TypeOK
<1>3. CASE UNCHANGED vars
  BY <1>3 DEF vars, cloudVars, localVars, TypeOK
<1> QED
  BY <1>1, <1>2, <1>3 DEF Next

(* Every behaviour of Transfer keeps its types: versions and times stay    *)
(* within the clock, tries within retry_count (transfer.py:84), the items  *)
(* of a run are of files and times that have been.                         *)
THEOREM TypeCorrect == Spec => []TypeOK
BY InitIsTyped, NextIsTyped, PTL DEF Spec
-----------------------------------------------------------------------------
(* The invariant: the web application's steps                              *)

(* Azure only moves forward: a blob is replaced by a newer one, or removed.*)
LEMMA CloudMovesOn ==
  ASSUME IInv, Cloud
  PROVE  /\ clock \in Nat /\ clock' \in Nat /\ clock <= clock'
         /\ \A f \in File : blob'[f] <= clock'
         /\ \A f \in File, t \in Nat : t <= clock /\ AtLeast(blob[f], t) => AtLeast(blob'[f], t)
         /\ UNCHANGED <<localVars, run>>
<1>1. clock \in Nat /\ blob \in [File -> 0 .. MaxClock] /\ \A f \in File : blob[f] <= clock
  BY Numbers DEF IInv, TypeOK, BlobsArePast, Listing, Version
<1>2. \A f \in File : blob[f] \in Nat
  BY <1>1
<1>3. CASE Tick
  BY <1>1, <1>2, <1>3 DEF Tick, localVars
<1>4. CASE \E f \in File : Upload(f)
  <2>1. PICK f \in File : Upload(f)
    BY <1>4
  <2>2. clock' = clock + 1 /\ blob' = [blob EXCEPT ![f] = clock] /\ UNCHANGED <<localVars, run>>
    BY <2>1 DEF Upload
  <2>3. blob'[f] = clock /\ \A g \in File : g # f => blob'[g] = blob[g]
    BY <1>1, <2>2
  <2> QED
    BY <1>1, <1>2, <2>2, <2>3 DEF AtLeast
<1>5. CASE \E f \in File : Remove(f)
  <2>1. PICK f \in File : Remove(f)
    BY <1>5
  <2>2. clock' = clock + 1 /\ blob' = [blob EXCEPT ![f] = Absent] /\ UNCHANGED <<localVars, run>>
    BY <2>1 DEF Remove
  <2>3. blob'[f] = Absent /\ \A g \in File : g # f => blob'[g] = blob[g]
    BY <1>1, <2>2
  <2> QED
    BY <1>1, <1>2, <2>2, <2>3 DEF AtLeast, Absent
<1>6. CASE \E e \in unlogged : WriteLog(e)
  BY <1>1, <1>2, <1>6 DEF WriteLog, localVars
<1> QED
  BY <1>3, <1>4, <1>5, <1>6 DEF Cloud

(* The entries still to come are of what has happened to the blobs.        *)
LEMMA CloudEntriesArePast == ASSUME IInv, Cloud PROVE EntriesArePast'
<1>1. /\ clock \in Nat /\ blob \in [File -> 0 .. MaxClock]
      /\ unlogged \subseteq Entry(Time) /\ run.seen \subseteq Entry(Time) /\ log \in Seq(Entry(Time))
  BY Numbers DEF IInv, TypeOK, Listing, Version, Run
<1>2. /\ clock' \in Nat /\ clock <= clock'
      /\ \A f \in File, t \in Nat : t <= clock /\ AtLeast(blob[f], t) => AtLeast(blob'[f], t)
      /\ run' = run
  BY CloudMovesOn
<1>3. ASSUME NEW e \in Entry(Time), Past(e) PROVE Past(e)'
  <2>1. e.file \in File /\ e.time \in Nat
    BY Numbers DEF Entry
  <2> QED
    BY <1>1, <1>2, <1>3, <2>1 DEF Past, AtLeast
<1>4. ASSUME NEW e \in unlogged \cup run.seen PROVE Past(e)'
  BY <1>1, <1>3, <1>4 DEF IInv, EntriesArePast
<1>5. ASSUME NEW k \in DOMAIN log, NEW e, e = log[k] PROVE Past(e)'
  <2>1. e \in Entry(Time)
    BY <1>1, <1>5
  <2>2. Past(e)
    BY <1>5 DEF IInv, EntriesArePast
  <2> QED
    BY <1>3, <2>1, <2>2
<1>6. ASSUME log' = log, \A e \in unlogged' : e \notin unlogged => Past(e)'
      PROVE  EntriesArePast'
  BY <1>2, <1>4, <1>5, <1>6 DEF EntriesArePast
<1>7. CASE Tick
  BY <1>6, <1>7 DEF Tick
<1>8. CASE \E f \in File : Upload(f)
  <2>1. PICK f \in File : Upload(f)
    BY <1>8
  <2>2. blob'[f] = clock /\ log' = log
    BY <1>1, <2>1 DEF Upload
  <2>3. ASSUME NEW e \in unlogged', e \notin unlogged PROVE e.file = f /\ e.time = clock
    BY <2>1, <2>3 DEF Upload, Announce
  <2>4. ASSUME NEW e \in unlogged', e \notin unlogged PROVE Past(e)'
    BY <1>1, <1>2, <2>2, <2>3, <2>4 DEF Past, AtLeast
  <2> QED
    BY <1>6, <2>2, <2>4
<1>9. CASE \E f \in File : Remove(f)
  <2>1. PICK f \in File : Remove(f)
    BY <1>9
  <2>2. blob'[f] = Absent /\ log' = log
    BY <1>1, <2>1 DEF Remove
  <2>3. ASSUME NEW e \in unlogged', e \notin unlogged PROVE e.file = f /\ e.time = clock
    BY <2>1, <2>3 DEF Remove, Announce
  <2>4. ASSUME NEW e \in unlogged', e \notin unlogged PROVE Past(e)'
    BY <1>1, <1>2, <2>2, <2>3, <2>4 DEF Past, AtLeast
  <2> QED
    BY <1>6, <2>2, <2>4
<1>10. CASE \E e \in unlogged : WriteLog(e)
  <2>1. PICK e \in unlogged : WriteLog(e)
    BY <1>10
  <2>2. log' = Append(log, e) /\ unlogged' \subseteq unlogged
    BY <2>1 DEF WriteLog
  <2>3. ASSUME NEW k \in DOMAIN log'
        PROVE  \/ log'[k] = e
               \/ k \in DOMAIN log /\ log'[k] = log[k]
    <3>1. e \in Entry(Time)
      BY <1>1
    <3>2. Len(log) \in Nat /\ DOMAIN log = 1 .. Len(log) /\ DOMAIN log' = 1 .. Len(log) + 1
      BY <1>1, <2>2, <3>1
    <3>3. CASE k = Len(log) + 1
      BY <1>1, <2>2, <3>1, <3>3
    <3>4. CASE k # Len(log) + 1
      <4>1. k \in 1 .. Len(log)
        BY <3>2, <3>4
      <4> QED
        BY <1>1, <2>2, <3>1, <3>2, <4>1
    <3> QED
      BY <3>3, <3>4
  <2>4. ASSUME NEW k \in DOMAIN log', NEW d, d = log'[k] PROVE Past(d)'
    <3>1. CASE d = e
      BY <1>4, <3>1
    <3>2. CASE k \in DOMAIN log /\ d = log[k]
      BY <1>5, <3>2
    <3> QED
      BY <2>3, <2>4, <3>1, <3>2
  <2> QED
    BY <1>2, <1>4, <2>2, <2>4 DEF EntriesArePast
<1> QED
  BY <1>7, <1>8, <1>9, <1>10 DEF Cloud

LEMMA CloudKeepsIt == ASSUME IInv, Cloud PROVE IInv'
<1>1. /\ clock \in Nat /\ clock' \in Nat /\ clock <= clock'
      /\ \A f \in File, t \in Nat : t <= clock /\ AtLeast(blob[f], t) => AtLeast(blob'[f], t)
      /\ record' = record /\ disk' = disk /\ run' = run
  BY CloudMovesOn DEF localVars
<1>2. TypeOK' /\ EntriesArePast' /\ BlobsArePast'
  BY CloudIsTyped, CloudEntriesArePast, CloudMovesOn DEF IInv, BlobsArePast
<1>3. RecordsArePast'
  <2>1. \A f \in File : record[f].time \in Nat
    <3>1. ASSUME NEW f \in File PROVE record[f].time \in Nat
      <4>1. record[f] \in Record(Time)
        BY DEF IInv, TypeOK
      <4> QED
        BY <4>1, RecordTime
    <3> QED
      BY <3>1
  <2> QED
    BY <1>1, <2>1 DEF IInv, RecordsArePast
<1>4. ItemsArePast'
  <2>1. \A i \in run.todo : i.file \in File /\ i.time \in Nat
    BY Numbers DEF IInv, TypeOK, Run, Item
  <2> QED
    BY <1>1, <2>1 DEF IInv, ItemsArePast
<1>5. OneEntryEach' /\ ItemsAreDue' /\ ItemsAreRead' /\ OneItemEach' /\ Resting'
  BY <1>1 DEF IInv, OneEntryEach, ItemsAreDue, ItemsAreRead, OneItemEach, Resting
<1>6. Fresh(run.listing)'
  BY <1>1 DEF IInv, Fresh
<1>7. InHand'
  BY <1>1 DEF IInv, InHand, IsNext
<1> QED
  BY <1>2, <1>3, <1>4, <1>5, <1>6, <1>7 DEF IInv
-----------------------------------------------------------------------------
(* The invariant: what the steps of a run have in common                   *)

Items == ItemsArePast /\ ItemsAreDue /\ ItemsAreRead /\ OneItemEach
Cloudy == EntriesArePast /\ BlobsArePast /\ OneEntryEach

(* A list that only gets shorter stays sound.                              *)
LEMMA FewerItems ==
  ASSUME IInv, UNCHANGED cloudVars, run'.todo \subseteq run.todo, run'.seen \subseteq run.seen,
         run'.todo # {} => run'.on = run.on /\ run'.boundary = run.boundary
  PROVE  Items' /\ Cloudy'
<1>1. UNCHANGED <<clock, blob, log, unlogged>>
  BY DEF cloudVars
<1>2. EntriesArePast'
  <2>1. \A e \in unlogged \cup run.seen : Past(e)'
    BY <1>1 DEF IInv, EntriesArePast, Past, AtLeast
  <2>2. \A k \in DOMAIN log : Past(log[k])'
    BY <1>1 DEF IInv, EntriesArePast, Past, AtLeast
  <2> QED
    BY <1>1, <2>1, <2>2 DEF EntriesArePast
<1>3. BlobsArePast' /\ OneEntryEach'
  BY <1>1 DEF IInv, BlobsArePast, OneEntryEach
<1>4. ItemsArePast' /\ OneItemEach'
  BY <1>1 DEF IInv, ItemsArePast, OneItemEach, AtLeast
<1>5. ItemsAreDue'
  BY <1>1 DEF IInv, ItemsAreDue, After
<1>6. ItemsAreRead'
  BY DEF IInv, ItemsAreRead
<1> QED
  BY <1>2, <1>3, <1>4, <1>5, <1>6 DEF Items, Cloudy

(* Records stay sound while what they say does not change and a file is    *)
(* only replaced by one as new as its record, or lost.                     *)
LEMMA RecordsStayPast ==
  ASSUME IInv, UNCHANGED cloudVars,
         \A f \in File : record'[f].status = "Success" =>
           /\ record'[f] = record[f]
           /\ disk'[f] = disk[f] \/ AtLeast(disk'[f], record[f].time)
  PROVE  RecordsArePast'
<1>1. UNCHANGED <<clock, blob>>
  BY DEF cloudVars
<1> QED
  BY <1>1 DEF IInv, RecordsArePast, AtLeast

(* The end of a run, however it comes                                      *)
LEMMA IdleKeepsIt ==
  ASSUME IInv, TypeOK', run' = Idle, UNCHANGED <<cloudVars, disk, record>>
  PROVE  IInv'
<1>1. run'.todo = {} /\ run'.seen = {} /\ run'.listing = NoListing
  BY DEF Idle
<1>2. Items' /\ Cloudy' /\ RecordsArePast'
  BY <1>1, FewerItems, RecordsStayPast
<1>3. Fresh(run.listing)' /\ Resting' /\ InHand'
  BY <1>1 DEF Fresh, Resting, InHand
<1> QED
  BY <1>2, <1>3 DEF IInv, Items, Cloudy

(* Another try starts with a fresh listing.                                *)
LEMMA TryAgainKeepsIt ==
  ASSUME IInv, TypeOK', TryAgain, run.phase \in {"locating", "streaming"},
         UNCHANGED <<cloudVars, disk, record>>
  PROVE  IInv'
<1>1. run \in Run
  BY DEF IInv, TypeOK
<1>2. /\ run'.todo = run.todo /\ run'.seen = run.seen /\ run'.listing = NoListing
      /\ run'.on = run.on /\ run'.boundary = run.boundary /\ run'.phase = "locating"
  BY <1>1 DEF TryAgain, Run
<1>3. Items' /\ Cloudy' /\ RecordsArePast'
  BY <1>2, FewerItems, RecordsStayPast
<1>4. Fresh(run.listing)' /\ Resting'
  BY <1>2 DEF Fresh, Resting
<1>5. InHand'
  BY <1>2 DEF IInv, InHand, IsNext
<1> QED
  BY <1>3, <1>4, <1>5 DEF IInv, Items, Cloudy

(* The next item: the record of at most one file has changed, to the time  *)
(* of the item it was made for, and the listing is that of the run.        *)
LEMMA DoneKeepsIt ==
  ASSUME IInv, TypeOK', NEW i \in run.todo, NEW listing, run' = Done(i, listing),
         Fresh(listing), UNCHANGED cloudVars, RecordsArePast',
         \A f \in File : record'[f].status = "Success" =>
           \/ record'[f] = record[f]
           \/ f = i.file /\ i.action = "Download" /\ record'[f].time = i.time
  PROVE  IInv'
<1>1. run \in Run
  BY DEF IInv, TypeOK
<1>2. /\ run'.todo = run.todo \ {i} /\ run'.seen = run.seen /\ run'.listing = listing
      /\ run'.on = run.on /\ run'.boundary = run.boundary /\ run'.phase = "working"
  BY <1>1 DEF Done, Run
<1>3. Items' /\ Cloudy'
  BY <1>2, FewerItems
<1>4. Fresh(run.listing)'
  BY <1>2 DEF Fresh, AtLeast
<1>5. Resting' /\ InHand'
  BY <1>2 DEF Resting, InHand
<1> QED
  BY <1>3, <1>4, <1>5 DEF IInv, Items, Cloudy

LEMMA FailKeepsIt ==
  ASSUME IInv, TypeOK', NEW i \in run.todo, NEW listing, Fail(i, listing), Fresh(listing),
         UNCHANGED <<cloudVars, disk, record>>
  PROVE  IInv'
<1>1. RecordsArePast'
  BY RecordsStayPast
<1> QED
  BY <1>1, DoneKeepsIt DEF Fail

(* Where Azure does not have the file, a record can only become Deleted.   *)
LEMMA MissingKeepsIt ==
  ASSUME IInv, TypeOK', NEW i \in run.todo, NEW listing, Missing(i, listing), Fresh(listing),
         UNCHANGED <<cloudVars, disk>>
  PROVE  IInv'
<1>1. CASE /\ record' = [record EXCEPT ![i.file] =
                           LatestRecord(@, [status |-> "Deleted", time |-> i.time])]
           /\ run' = Done(i, listing)
  <2>1. record \in [File -> Record(Time)]
    BY DEF IInv, TypeOK
  <2>2. \A f \in File : record'[f].status = "Success" => record'[f] = record[f]
    BY <1>1, <2>1, LatestRecordIsEither
  <2>3. RecordsArePast'
    BY <2>2, RecordsStayPast
  <2> QED
    BY <1>1, <2>2, <2>3, DoneKeepsIt
<1>2. CASE Fail(i, listing) /\ UNCHANGED record
  BY <1>2, FailKeepsIt
<1> QED
  BY <1>1, <1>2 DEF Missing

(* One item at a time is next.                                             *)
LEMMA NextIsOne ==
  ASSUME IInv, NEW i \in run.todo, NEW k \in run.todo, IsNext(i), IsNext(k)
  PROVE  i = k
<1>1. i \in Item /\ k \in Item
  BY DEF IInv, TypeOK, Run
<1>2. i.file \in File /\ k.file \in File
  BY <1>1 DEF Item
<1>3. Rank[i.file] \in Nat /\ Rank[k.file] \in Nat
  BY <1>2, TransferAssumption
<1>4. Rank[i.file] = Rank[k.file]
  BY <1>3 DEF IsNext, Before
<1>5. i.file = k.file
  BY <1>2, <1>4, TransferAssumption
<1> QED
  BY <1>5 DEF IInv, OneItemEach
-----------------------------------------------------------------------------
(* The invariant: the steps of a run                                       *)

LEMMA ReadLogKeepsIt == ASSUME IInv, TypeOK', NEW on \in BOOLEAN, ReadLog(on) PROVE IInv'
<1>1. /\ run'.phase = "checked" /\ run'.seen = Latest(log) /\ run'.todo = {}
      /\ run'.listing = NoListing
  BY DEF ReadLog, Idle
<1>2. log \in Seq(Entry(Time)) /\ UNCHANGED <<clock, blob, log, unlogged, disk, record>>
  BY DEF ReadLog, cloudVars, localVars, IInv, TypeOK
<1>3. EntriesArePast'
  <2>1. \A e \in unlogged \cup Latest(log) : Past(e)
    BY <1>2, LatestIsLogged DEF IInv, EntriesArePast
  <2> QED
    BY <1>1, <1>2, <2>1 DEF IInv, EntriesArePast, Past, AtLeast
<1>4. OneEntryEach'
  BY <1>1, <1>2, LatestIsUnique DEF OneEntryEach
<1>5. BlobsArePast' /\ RecordsArePast'
  BY <1>2 DEF IInv, BlobsArePast, RecordsArePast, AtLeast
<1>6. /\ ItemsArePast' /\ ItemsAreDue' /\ ItemsAreRead' /\ OneItemEach'
      /\ Fresh(run.listing)' /\ Resting' /\ InHand'
  BY <1>1 DEF ItemsArePast, ItemsAreDue, ItemsAreRead, OneItemEach, Fresh, Resting, InHand
<1> QED
  BY <1>3, <1>4, <1>5, <1>6 DEF IInv

(* The list of work is sound because the comparison it is made from is.    *)
LEMMA PlanKeepsIt ==
  ASSUME IInv, TypeOK', run.phase = "checked", NEW listed, Listed(listed), Plan(listed),
         UNCHANGED <<cloudVars, localVars>>
  PROVE  IInv'
<1>1. run \in Run
  BY DEF IInv, TypeOK
<1>2. /\ run'.seen = run.seen /\ run'.listing = run.listing /\ run'.phase = "working"
      /\ run'.on = run.on /\ run'.boundary = run.boundary
  BY <1>1 DEF Plan, Run
<1>3. UNCHANGED <<clock, blob, log, unlogged, disk, record>> /\ run.listing = NoListing
  BY DEF cloudVars, localVars, IInv, Resting
<1>4. EntriesArePast' /\ BlobsArePast' /\ RecordsArePast' /\ OneEntryEach'
  BY <1>2, <1>3 DEF IInv, EntriesArePast, BlobsArePast, RecordsArePast, OneEntryEach, Past, AtLeast
<1>5. ASSUME NEW i \in run'.todo
      PROVE  \E row \in Rows(listed) :
               /\ i.file = row.file /\ i.time = row.time
               /\ \/ i.action = row.action /\ row.action \in {"Download", "Delete"} /\ ~i.repair
                  \/ i.action = "Download" /\ row.present /\ i.repair
  <2>1. PICK row \in Rows(listed) :
           \/ /\ row.action \in {"Download", "Delete"}
              /\ i = [file |-> row.file, action |-> row.action, time |-> row.time, repair |-> FALSE]
           \/ /\ row.action = "Done" /\ row.present
              /\ i = [file |-> row.file, action |-> "Download", time |-> row.time, repair |-> TRUE]
    BY ItemsComeFrom DEF IInv
  <2> QED
    BY <2>1
<1>6. ItemsArePast' /\ ItemsAreDue'
  <2>1. \A row \in Rows(listed) :
          /\ row.action \in {"Download", "Delete"} => ~After(row.time, run.on, run.boundary)
          /\ row.action = "Download" \/ row.present
               => row.time <= clock /\ AtLeast(blob[row.file], row.time)
    BY RowsAreSound DEF IInv
  <2>2. ItemsArePast'
    BY <1>3, <1>5, <2>1 DEF ItemsArePast, AtLeast
  <2>3. ItemsAreDue'
    BY <1>2, <1>5, <2>1 DEF ItemsAreDue, After
  <2> QED
    BY <2>2, <2>3
<1>7. OneItemEach'
  <2>1. ASSUME NEW i \in run'.todo, NEW k \in run'.todo, i.file = k.file PROVE i = k
    <3>1. PICK r \in Rows(listed) :
            \/ /\ r.action \in {"Download", "Delete"}
               /\ i = [file |-> r.file, action |-> r.action, time |-> r.time, repair |-> FALSE]
            \/ /\ r.action = "Done" /\ r.present
               /\ i = [file |-> r.file, action |-> "Download", time |-> r.time, repair |-> TRUE]
      BY ItemsComeFrom DEF IInv
    <3>2. PICK s \in Rows(listed) :
            \/ /\ s.action \in {"Download", "Delete"}
               /\ k = [file |-> s.file, action |-> s.action, time |-> s.time, repair |-> FALSE]
            \/ /\ s.action = "Done" /\ s.present
               /\ k = [file |-> s.file, action |-> "Download", time |-> s.time, repair |-> TRUE]
      BY ItemsComeFrom DEF IInv
    <3>3. i.file = r.file /\ k.file = s.file
      BY <3>1, <3>2
    <3>4. r = s
      BY <2>1, <3>3, RowsAreUnique DEF IInv
    <3> QED
      BY <3>1, <3>2, <3>4
  <2> QED
    BY <2>1 DEF OneItemEach
<1>8. Fresh(run.listing)' /\ Resting' /\ InHand'
  BY <1>2, <1>3 DEF Fresh, Resting, InHand
<1>9. ItemsAreRead'
  <2>1. ASSUME NEW row \in Rows(listed), NEW e \in run.seen, e.file = row.file
        PROVE  e.time = row.time
    BY <2>1, RowIsOfEntry DEF IInv
  <2> QED
    BY <1>2, <1>5, <2>1 DEF ItemsAreRead
<1> QED
  BY <1>4, <1>6, <1>7, <1>8, <1>9 DEF IInv

(* Steps that change the phase and at most the listing, what is on disk    *)
(* for the item in hand, or the cancel flag.                               *)
LEMMA SameItemsKeepIt ==
  ASSUME IInv, TypeOK', UNCHANGED <<cloudVars, record>>,
         run'.todo = run.todo, run'.seen = run.seen, run'.on = run.on,
         run'.boundary = run.boundary, RecordsArePast', Fresh(run'.listing), Resting', InHand'
  PROVE  IInv'
<1>1. Items' /\ Cloudy'
  BY FewerItems
<1>2. Fresh(run.listing)'
  BY DEF Fresh, AtLeast
<1> QED
  BY <1>1, <1>2 DEF IInv, Items, Cloudy

LEMMA BeginDownloadKeepsIt == ASSUME IInv, TypeOK', NEW i \in run.todo, BeginDownload(i) PROVE IInv'
<1>1. run \in Run
  BY DEF IInv, TypeOK
<1>2. /\ run'.todo = run.todo /\ run'.seen = run.seen /\ run'.on = run.on
      /\ run'.boundary = run.boundary /\ run'.listing = run.listing /\ run'.phase = "locating"
      /\ UNCHANGED <<cloudVars, disk, record>>
  BY <1>1 DEF BeginDownload, Run, localVars
<1>3. IsNext(i) /\ i.action = "Download"
  BY DEF BeginDownload, Begin
<1>4. \A k \in run.todo : IsNext(k) => k = i
  BY <1>3, NextIsOne
<1>5. RecordsArePast' /\ Fresh(run'.listing)
  BY <1>2, RecordsStayPast DEF IInv
<1>6. Resting' /\ InHand'
  BY <1>2, <1>3, <1>4 DEF Resting, InHand, IsNext
<1> QED
  BY <1>2, <1>5, <1>6, SameItemsKeepIt

LEMMA DeleteFileKeepsIt == ASSUME IInv, TypeOK', NEW i \in run.todo, DeleteFile(i) PROVE IInv'
<1>1. run \in Run /\ disk \in [File -> Version]
  BY DEF IInv, TypeOK, Listing
<1>2. CASE disk' = [disk EXCEPT ![i.file] = Absent] /\ run' = [run EXCEPT !.phase = "recording"]
  <2>1. /\ run'.todo = run.todo /\ run'.seen = run.seen /\ run'.on = run.on
        /\ run'.boundary = run.boundary /\ run'.listing = run.listing /\ run'.phase = "recording"
        /\ UNCHANGED <<cloudVars, record>>
    BY <1>1, <1>2 DEF DeleteFile, Run
  <2>2. IsNext(i) /\ i.action = "Delete"
    BY DEF DeleteFile, Begin
  <2>3. \A k \in run.todo : IsNext(k) => k = i
    BY <2>2, NextIsOne
  <2>4. \A f \in File : disk'[f] = disk[f] \/ disk'[f] = Absent
    BY <1>1, <1>2
  <2>5. RecordsArePast' /\ Fresh(run'.listing)
    BY <2>1, <2>4, RecordsStayPast DEF IInv, AtLeast
  <2>6. Resting' /\ InHand'
    BY <2>1, <2>2, <2>3 DEF Resting, InHand, IsNext
  <2> QED
    BY <2>1, <2>5, <2>6, SameItemsKeepIt
<1>3. CASE Fail(i, run.listing) /\ UNCHANGED disk
  BY <1>3, FailKeepsIt DEF DeleteFile, IInv
<1> QED
  BY <1>2, <1>3 DEF DeleteFile

LEMMA LocateKeepsIt == ASSUME IInv, TypeOK', NEW i \in run.todo, Locate(i) PROVE IInv'
<1> DEFINE listing == IF run.listing = NoListing THEN blob ELSE run.listing
<1>1. run \in Run /\ blob \in Listing
  BY DEF IInv, TypeOK
<1>2. Fresh(listing)
  BY DEF IInv, Fresh, RecordsArePast, ItemsArePast
<1>3. CASE /\ run' = [run EXCEPT !.phase = "streaming", !.listing = listing, !.found = listing[i.file]]
           /\ listing[i.file] # Absent /\ UNCHANGED <<record, open, faults>>
  <2> HIDE DEF listing
  <2>1. /\ run'.todo = run.todo /\ run'.seen = run.seen /\ run'.on = run.on
        /\ run'.boundary = run.boundary /\ run'.listing = listing /\ run'.phase = "streaming"
        /\ run'.found = listing[i.file] /\ UNCHANGED <<cloudVars, disk, record>>
    BY <1>1, <1>3 DEF Locate, Run
  <2>2. IsNext(i) /\ i.action = "Download"
    BY DEF Locate, IInv, InHand
  <2>3. \A k \in run.todo : IsNext(k) => k = i
    BY <2>2, NextIsOne
  <2>4. listing # NoListing
    <3>1. i.file \in File
      BY <1>1 DEF Run, Item
    <3>2. CASE run.listing = NoListing
      <4>1. DOMAIN blob = File /\ DOMAIN NoListing = {}
        BY <1>1 DEF Listing, NoListing
      <4> QED
        BY <3>1, <3>2, <4>1 DEF listing
    <3> QED
      BY <3>2 DEF listing
  <2>5. RecordsArePast'
    BY <2>1, RecordsStayPast
  <2>6. Resting' /\ InHand'
    BY <1>3, <2>1, <2>2, <2>3, <2>4 DEF Resting, InHand, IsNext
  <2> QED
    BY <1>2, <2>1, <2>5, <2>6, SameItemsKeepIt
<1>4. CASE Missing(i, listing)
  BY <1>2, <1>4, MissingKeepsIt DEF Locate
<1> QED
  BY <1>3, <1>4 DEF Locate

(* What is put on the disk is what the listing has, which is as new as the *)
(* record of the file and as the item.                                     *)
LEMMA StreamKeepsIt == ASSUME IInv, TypeOK', NEW i \in run.todo, Stream(i) PROVE IInv'
<1>1. run \in Run /\ disk \in [File -> Version]
  BY DEF IInv, TypeOK, Listing
<1>2. /\ run'.todo = run.todo /\ run'.seen = run.seen /\ run'.on = run.on
      /\ run'.boundary = run.boundary /\ run'.listing = run.listing /\ run'.phase = "recording"
      /\ disk' = [disk EXCEPT ![i.file] = run.found]
      /\ UNCHANGED <<cloudVars, record>>
  BY <1>1 DEF Stream, Run
<1>3. IsNext(i) /\ \A k \in run.todo : IsNext(k) => k = i
  BY NextIsOne DEF Stream
<1>4. run.listing # NoListing /\ run.found = run.listing[i.file] /\ i.action = "Download"
  BY <1>3 DEF Stream, IInv, InHand
<1>5. i.file \in File
  BY <1>1 DEF Run, Item
<1>6. \A f \in File : record[f].status = "Success" =>
        disk'[f] = disk[f] \/ AtLeast(disk'[f], record[f].time)
  BY <1>1, <1>2, <1>4 DEF IInv, Fresh
<1>7. RecordsArePast' /\ Fresh(run'.listing)
  BY <1>2, <1>6, RecordsStayPast DEF IInv
<1>8. AtLeast(disk'[i.file], i.time)
  BY <1>1, <1>2, <1>4, <1>5 DEF IInv, Fresh
<1>9. Resting' /\ InHand'
  BY <1>2, <1>3, <1>8 DEF Resting, InHand, IsNext, AtLeast
<1> QED
  BY <1>2, <1>7, <1>9, SameItemsKeepIt

LEMMA StreamChangedKeepsIt == ASSUME IInv, TypeOK', NEW i \in run.todo, StreamChanged(i) PROVE IInv'
<1>1. Fresh(run.listing)
  BY DEF IInv
<1>2. CASE Missing(i, run.listing)
  BY <1>1, <1>2, MissingKeepsIt DEF StreamChanged
<1>3. CASE TryAgain /\ UNCHANGED record
  BY <1>3, TryAgainKeepsIt DEF StreamChanged
<1>4. CASE Fail(i, run.listing) /\ UNCHANGED record
  BY <1>1, <1>4, FailKeepsIt DEF StreamChanged
<1> QED
  BY <1>2, <1>3, <1>4 DEF StreamChanged

LEMMA StreamFailsKeepsIt == ASSUME IInv, TypeOK', NEW i \in run.todo, StreamFails(i) PROVE IInv'
<1>1. Fresh(run.listing)
  BY DEF IInv
<1>2. CASE TryAgain
  BY <1>2, TryAgainKeepsIt DEF StreamFails
<1>3. CASE Fail(i, run.listing)
  BY <1>1, <1>3, FailKeepsIt DEF StreamFails
<1> QED
  BY <1>2, <1>3 DEF StreamFails

LEMMA ConnectionFailsKeepsIt ==
  ASSUME IInv, TypeOK', NEW i \in run.todo, ConnectionFails(i) PROVE IInv'
BY TryAgainKeepsIt, IdleKeepsIt DEF ConnectionFails

(* The row committed is of the file that has just been put on the disk.    *)
LEMMA CommitKeepsIt == ASSUME IInv, TypeOK', NEW i \in run.todo, Commit(i) PROVE IInv'
<1> DEFINE status == IF i.action = "Download" THEN "Success" ELSE "Deleted"
           row == [status |-> status, time |-> i.time]
<1>1. /\ run \in Run /\ record \in [File -> Record(Time)] /\ run' = Done(i, run.listing)
      /\ UNCHANGED <<clock, blob, disk>> /\ UNCHANGED cloudVars
  BY DEF IInv, TypeOK, Commit, cloudVars
<1>2. i \in Item
  BY <1>1 DEF Run
<1>3. i.file \in File /\ i.action \in {"Download", "Delete"}
  BY <1>2 DEF Item
<1>4. i.action = "Download" =>
        i.time <= clock /\ AtLeast(blob[i.file], i.time) /\ AtLeast(disk[i.file], i.time)
  BY DEF Commit, IInv, ItemsArePast, InHand
<1>5. ASSUME NEW f \in File, record'[f].status = "Success"
      PROVE  \/ record'[f] = record[f]
             \/ f = i.file /\ i.action = "Download" /\ record'[f].time = i.time
  <2>1. CASE record' = record
    BY <2>1
  <2>2. CASE record' = [record EXCEPT ![i.file] = LatestRecord(@, row)]
    <3>1. record'[f] = record[f] \/ (f = i.file /\ record'[f] = row)
      BY <1>1, <2>2, LatestRecordIsEither
    <3> QED
      BY <1>5, <3>1
  <2> QED
    BY <2>1, <2>2 DEF Commit
<1>6. RecordsArePast'
  <2>1. RecordsArePast
    BY DEF IInv
  <2> QED
    BY <1>1, <1>4, <1>5, <2>1 DEF RecordsArePast, AtLeast
<1>7. Fresh(run.listing)
  BY DEF IInv
<1> QED
  BY <1>1, <1>5, <1>6, <1>7, DoneKeepsIt

LEMMA CancelKeepsIt == ASSUME IInv, TypeOK', Cancel PROVE IInv'
<1>1. run \in Run
  BY DEF IInv, TypeOK
<1>2. /\ run'.todo = run.todo /\ run'.seen = run.seen /\ run'.on = run.on
      /\ run'.boundary = run.boundary /\ run'.listing = run.listing /\ run'.phase = run.phase
      /\ run'.found = run.found /\ UNCHANGED <<cloudVars, disk, record>>
  BY <1>1 DEF Cancel, Run, localVars
<1>3. RecordsArePast' /\ Fresh(run'.listing)
  BY <1>2, RecordsStayPast DEF IInv
<1>4. Resting' /\ InHand'
  BY <1>2 DEF IInv, Resting, InHand, IsNext, AtLeast
<1> QED
  BY <1>2, <1>3, <1>4, SameItemsKeepIt

LEMMA LoseKeepsIt == ASSUME IInv, TypeOK', NEW f \in File, Lose(f) PROVE IInv'
<1>1. disk \in [File -> Version] /\ run \in Run
  BY DEF IInv, TypeOK, Listing
<1>2. run' = run /\ UNCHANGED <<cloudVars, record>>
  BY DEF Lose
<1>3. \A g \in File : disk'[g] = disk[g] \/ disk'[g] = Absent
  BY <1>1 DEF Lose
<1>4. RecordsArePast' /\ Fresh(run'.listing)
  BY <1>2, <1>3, RecordsStayPast DEF IInv, AtLeast
<1>5. \A i \in run.todo : i.file \in File
  BY <1>1 DEF Run, Item
<1>6. Resting' /\ InHand'
  BY <1>2, <1>3, <1>5 DEF IInv, Resting, InHand, IsNext, AtLeast
<1> QED
  BY <1>2, <1>4, <1>6, SameItemsKeepIt
-----------------------------------------------------------------------------
LEMMA InitHolds == Init => IInv
<1> SUFFICES ASSUME Init PROVE IInv
  OBVIOUS
<1>1. TypeOK
  BY InitIsTyped
<1>2. /\ run.phase = "idle" /\ run.seen = {} /\ run.todo = {} /\ run.listing = NoListing
      /\ log = <<>> /\ unlogged = {} /\ clock = 1
      /\ \A f \in File : blob[f] = 0 /\ record[f].status = "None"
  BY DEF Init, Idle, NoRecord, Absent
<1>3. EntriesArePast /\ BlobsArePast /\ RecordsArePast /\ OneEntryEach
  BY <1>2 DEF EntriesArePast, BlobsArePast, RecordsArePast, OneEntryEach
<1>4. ItemsArePast /\ ItemsAreDue /\ ItemsAreRead /\ OneItemEach
  BY <1>2 DEF ItemsArePast, ItemsAreDue, ItemsAreRead, OneItemEach
<1>5. Fresh(run.listing) /\ Resting /\ InHand
  BY <1>2 DEF Fresh, Resting, InHand
<1> QED
  BY <1>1, <1>3, <1>4, <1>5 DEF IInv

LEMMA StepKeepsIt == ASSUME IInv, TypeOK', Step PROVE IInv'
<1>1. CASE ListAzure
  <2>1. Listed(blob) /\ Listed([f \in File |-> Absent])
    <3>1. blob \in Listing /\ Absent \in Version
      BY Numbers DEF IInv, TypeOK, Version, Absent
    <3> QED
      BY <3>1 DEF Listed, Listing
  <2> QED
    BY <1>1, <2>1, PlanKeepsIt DEF ListAzure, localVars
<1>2. CASE EndRun \/ StreamCancelled
  BY <1>2, IdleKeepsIt DEF EndRun, StreamCancelled, localVars
<1>3. CASE \E on \in BOOLEAN : ReadLog(on)
  BY <1>3, ReadLogKeepsIt
<1>4. CASE \E i \in run.todo : \/ BeginDownload(i) \/ DeleteFile(i) \/ Locate(i)
                               \/ Stream(i) \/ StreamChanged(i) \/ Commit(i)
  BY <1>4, BeginDownloadKeepsIt, DeleteFileKeepsIt, LocateKeepsIt, StreamKeepsIt,
     StreamChangedKeepsIt, CommitKeepsIt
<1> QED
  BY <1>1, <1>2, <1>3, <1>4 DEF Step

LEMMA NextKeepsIt == IInv /\ [Next]_vars => IInv'
<1> SUFFICES ASSUME IInv, [Next]_vars PROVE IInv'
  OBVIOUS
<1>1. TypeOK'
  BY NextIsTyped DEF IInv
<1>2. CASE Cloud
  BY <1>2, CloudKeepsIt
<1>3. CASE Step
  BY <1>1, <1>3, StepKeepsIt
<1>4. CASE Cancel \/ Crash
  BY <1>1, <1>4, CancelKeepsIt, IdleKeepsIt DEF Crash, localVars
<1>5. CASE \E f \in File : Lose(f)
  BY <1>1, <1>5, LoseKeepsIt
<1>6. CASE \E i \in run.todo : ConnectionFails(i) \/ StreamFails(i)
  BY <1>1, <1>6, ConnectionFailsKeepsIt, StreamFailsKeepsIt
<1>7. CASE UNCHANGED vars
  <2>1. UNCHANGED <<cloudVars, clock, blob, disk, record, run>>
    BY <1>7 DEF vars, cloudVars, localVars
  <2>2. RecordsArePast' /\ Fresh(run'.listing)
    BY <2>1, RecordsStayPast DEF IInv
  <2>3. Resting' /\ InHand'
    BY <2>1 DEF IInv, Resting, InHand, IsNext, AtLeast
  <2> QED
    BY <1>1, <2>1, <2>2, <2>3, SameItemsKeepIt
<1> QED
  BY <1>2, <1>3, <1>4, <1>5, <1>6, <1>7 DEF Next, Trouble

LEMMA Always == Spec => []IInv
BY InitHolds, NextKeepsIt, PTL DEF Spec

(* A file on disk is never older than the record that makes later checks   *)
(* say "already downloaded" (changes.py:355), whatever the order of the    *)
(* log's lines, the failures, the losses and the crashes between the       *)
(* rename and the row (transfer.py:127-142).                               *)
THEOREM RecordIsHonest == Spec => []RecordNotAhead
<1>1. ASSUME IInv PROVE RecordNotAhead
  <2>1. \A f \in File : disk[f] \in Nat /\ record[f].time \in Nat
    <3>1. \A f \in File : disk[f] \in Version /\ record[f] \in Record(Time)
      BY <1>1 DEF IInv, TypeOK, Listing
    <3> QED
      BY <3>1, RecordTime, Numbers DEF Version
  <2> QED
    BY <1>1, <2>1 DEF IInv, RecordsArePast, RecordNotAhead, AtLeast
<1> QED
  BY <1>1, Always, PTL

(* A run replaces or removes nothing of which its check has read a change  *)
(* later than the cut-off (changes.py:329), but a file that was lost, and  *)
(* it stores nothing older than what its check has read of.                *)
THEOREM CutoffIsKept == Spec => CutoffHolds
<1> DEFINE Allowed(i) == \A t \in TimesRead(i) : ~After(t, run.on, run.boundary) \/ i.repair
           Recent(i, v) == \A t \in TimesRead(i) : v # Absent => t <= v
           Kept ==
      \A f \in File :
        disk'[f] # disk[f] /\ faults' = faults
          => \E i \in run.todo :
               /\ IsNext(i) /\ i.file = f
               /\ \A t \in TimesRead(i) :
                    /\ ~After(t, run.on, run.boundary) \/ i.repair
                    /\ disk'[f] # Absent => t <= disk'[f]
<1>1. ASSUME IInv, [Next]_vars PROVE [Kept]_vars
  <2> SUFFICES ASSUME NEW f \in File, disk'[f] # disk[f], faults' = faults, Next
               PROVE  \E i \in run.todo :
                        IsNext(i) /\ i.file = f /\ Allowed(i) /\ Recent(i, disk'[f])
    BY <1>1 DEF vars, localVars
  <2>1. disk \in [File -> Version] /\ faults \in Nat
    BY <1>1, Numbers DEF IInv, TypeOK, Listing
  <2>2. \A i \in run.todo : TimesRead(i) = {i.time}
    BY <1>1 DEF IInv, ItemsAreRead, TimesRead
  <2>3. ~ \E g \in File : Lose(g)
    BY <2>1 DEF Lose, Fault
  <2>4. PICK i \in run.todo : DeleteFile(i) \/ Stream(i)
    BY <2>3 DEF Next, Cloud, Step, Trouble, Tick, Upload, Remove, WriteLog, ListAzure, EndRun,
       StreamCancelled, ReadLog, BeginDownload, Locate, StreamChanged, Commit, Cancel, Crash,
       ConnectionFails, StreamFails, localVars
  <2>5. Allowed(i)
    BY <1>1, <2>2 DEF IInv, ItemsAreDue
  <2>6. CASE DeleteFile(i)
    <3>1. disk' = [disk EXCEPT ![i.file] = Absent] /\ IsNext(i)
      BY <2>6 DEF DeleteFile, Begin
    <3>2. f = i.file /\ disk'[f] = Absent
      BY <2>1, <3>1
    <3> QED
      BY <2>5, <3>1, <3>2
  <2>7. CASE Stream(i)
    <3>1. disk' = [disk EXCEPT ![i.file] = run.found] /\ IsNext(i) /\ run.phase = "streaming"
      BY <2>7 DEF Stream
    <3>2. f = i.file /\ disk'[f] = run.found
      BY <2>1, <3>1
    <3>3. run.listing # NoListing /\ run.found = run.listing[i.file] /\ i.action = "Download"
      BY <1>1, <3>1 DEF IInv, InHand
    <3>4. AtLeast(run.found, i.time)
      BY <1>1, <3>3 DEF IInv, Fresh
    <3>5. run.found \in Nat /\ i.time \in Nat
      <4>1. run.found \in Version /\ i \in Item
        BY <1>1 DEF IInv, TypeOK, Run
      <4>2. i.time \in Time
        BY <4>1 DEF Item
      <4>3. i.time \in Nat
        BY <4>2, Numbers
      <4>4. run.found \in Nat
        BY <4>1, Numbers DEF Version
      <4> QED
        BY <4>3, <4>4
    <3>6. Recent(i, disk'[f])
      BY <2>2, <3>2, <3>4, <3>5 DEF AtLeast
    <3> QED
      BY <2>5, <3>1, <3>2, <3>6
  <2> QED
    BY <2>4, <2>6, <2>7
<1>2. [][Kept]_vars => CutoffHolds
  BY PTL DEF CutoffHolds
<1> QED
  BY <1>1, <1>2, Always, PTL DEF Spec
=============================================================================
