------------------------------- MODULE Changes -------------------------------
(***************************************************************************)
(* What a change check decides (services/changes.py): each file's latest   *)
(* entry in the cloud change log against the latest record of the local    *)
(* history, and Azure's own list for the files the log never mentions.     *)
(* Files are the keys the code groups paths by; times are numbers.         *)
(***************************************************************************)
EXTENDS Integers, Sequences, FiniteSets

CONSTANTS File,
          Day,       \* the length of a day
          DayTime    \* the time of day of the cut-off

ASSUME DayAssumption == Day \in Nat \ {0} /\ DayTime \in 0 .. Day - 1

Absent == 0          \* a version number: no such blob, no such file on disk
NoTime == 0          \* times start at 1; also "no cut-off"

Status == {"New", "Updated", "Deleted"}
Entry(T) == [file : File, status : Status, time : T]

NoRecord == [status |-> "None", time |-> NoTime]
Record(T) == {NoRecord} \cup [status : {"Success", "Deleted"}, time : T]

(* local_state: rows are read in the order they were written, and a later  *)
(* row replaces an earlier one unless its source time is older.            *)
LatestRecord(current, row) ==
  IF current = NoRecord \/ row.time >= current.time THEN row ELSE current

(* compare: of a file's entries the one with the latest (timestamp, line). *)
IsLatest(log, i) ==
  \A k \in DOMAIN log :
    log[k].file = log[i].file =>
      \/ log[k].time < log[i].time
      \/ log[k].time = log[i].time /\ k <= i

Latest(log) == {log[i] : i \in {k \in DOMAIN log : IsLatest(log, k)}}

(* cutoff_boundary: today's cut-off when it has passed, or yesterday's      *)
(* (NoTime: off).                                                          *)
Boundary(on, now) ==
  LET candidate == now - (now % Day) + DayTime
  IN  IF ~on THEN NoTime ELSE IF candidate > now THEN candidate - Day ELSE candidate

After(time, on, boundary) == on /\ time > boundary
-----------------------------------------------------------------------------
(* the cut-off forgotten for removals                                      *)
DecideDeletedNow(latest, have, on, boundary) ==
  LET older == have = NoRecord \/ have.time < latest.time
  IN  IF latest.status = "Deleted"
      THEN IF have.status = "Success" /\ older THEN "Delete" ELSE "Done"
      ELSE IF ~older THEN "Done"
      ELSE IF After(latest.time, on, boundary) THEN "Held" ELSE "Download"

(* a removed file is never taken up again                                  *)
DecideOnce(latest, have, on, boundary) ==
  LET work == IF latest.status = "Deleted"
              THEN have.status = "Success" /\ have.time < latest.time
              ELSE have = NoRecord \/ (have.status = "Success" /\ have.time < latest.time)
  IN  IF ~work THEN "Done"
      ELSE IF After(latest.time, on, boundary) THEN "Held"
      ELSE IF latest.status = "Deleted" THEN "Delete" ELSE "Download"
-----------------------------------------------------------------------------
(* _decide: there is work when the entry is newer than the record (for a   *)
(* removal: than a stored copy); the cut-off only ever holds work back.    *)
Decide(latest, have, on, boundary) ==
  LET work == IF latest.status = "Deleted"
              THEN have.status = "Success" /\ have.time < latest.time
              ELSE have = NoRecord \/ have.time < latest.time
  IN  IF ~work THEN "Done"
      ELSE IF After(latest.time, on, boundary) THEN "Held"
      ELSE IF latest.status = "Deleted" THEN "Delete" ELSE "Download"

(* add_azure_files: a file Azure holds and the log never mentions is work  *)
(* only while the history knows nothing of it.                             *)
DecideUnlogged(modified, have, on, boundary) ==
  IF have # NoRecord THEN "Done"
  ELSE IF After(modified, on, boundary) THEN "Held" ELSE "Download"

AssessLogged(latest, have, on, boundary) ==
  [file |-> latest.file, action |-> Decide(latest, have[latest.file], on, boundary),
   time |-> latest.time, present |-> latest.status # "Deleted"]

AssessUnlogged(f, modified, have, on, boundary) ==
  [file |-> f, action |-> DecideUnlogged(modified, have[f], on, boundary),
   time |-> modified, present |-> TRUE]

(* The comparison: a row for the latest entry of each file the log mentions*)
(* and one for each other file in Azure's list.                            *)
Comparison(latest, listed, have, on, boundary) ==
  LET unlogged == {f \in File : listed[f] # Absent /\ \A e \in latest : e.file # f}
  IN  {AssessLogged(e, have, on, boundary) : e \in latest}
      \cup {AssessUnlogged(f, listed[f], have, on, boundary) : f \in unlogged}

(* asset_items, rpi_items: a row that is done although the file it says is *)
(* stored is not on the disk is downloaded after all ("repair").           *)
NeedsRepair(row, have, disk) ==
  /\ row.action = "Done" /\ row.present
  /\ have[row.file].status = "Success"
  /\ disk[row.file] = Absent
=============================================================================
