------------------------------- MODULE Transfer -------------------------------
(***************************************************************************)
(* Bringing one event's files from Azure to the local disk: a check        *)
(* (changes.check_event), the list of work made from it (assets.py,        *)
(* rpi.py) and the loop over it (transfer.run), while the web application  *)
(* goes on changing Azure, files get lost on disk, calls fail, the         *)
(* operator cancels and the process dies.                                  *)
(*                                                                         *)
(* A version of a file is the time it was uploaded.  The web application   *)
(* uploads (or removes) a blob and then writes the change log entry;       *)
(* several of its sessions may be between these two steps, so lines are    *)
(* not in time order.  Files outside Logged are put in Azure by hand.      *)
(* All files are in one folder, so the run has one listing.  Not here: the *)
(* operation log, the counters of the summary, the Failure rows of the     *)
(* history (local_state does not read them), a check that fails (it has no *)
(* report, so nothing follows), a failure that cannot even be recorded,    *)
(* and when last_download was.                                             *)
(***************************************************************************)
EXTENDS Changes

CONSTANTS Logged,     \* the files the web application logs
          Rank,       \* the order of the comparison
          MaxClock,   \* bound: the last instant
          MaxFaults,  \* bound: failures, losses, crashes and cancels
          Retries,    \* Settings -> Download: retry_count
          MaxFiles    \* MAX_FILES_PER_RUN

ASSUME TransferAssumption ==
  /\ Logged \subseteq File
  /\ Rank \in [File -> Nat]
  /\ \A f, g \in File : Rank[f] = Rank[g] => f = g
  /\ {MaxClock, MaxFaults, Retries, MaxFiles} \subseteq Nat

Time == 1 .. MaxClock
Version == 0 .. MaxClock
NoListing == <<>>    \* the empty cache

VARIABLES
  clock, blob, log, unlogged,   \* the cloud: now, contents, change log, entries to come
  disk, record,                 \* this computer: contents, local_state(history)
  open,                         \* files with an unresolved exception
  faults,                       \* how many faults there have been
  run                           \* the run of the event's job

cloudVars == <<clock, blob, log, unlogged>>
localVars == <<disk, record, open>>
vars == <<cloudVars, localVars, faults, run>>

Item == [file : File, action : {"Download", "Delete"}, time : Time, repair : BOOLEAN]
Listing == [File -> Version]

(* phase: idle; checked (the log was read); working (between items);       *)
(* locating, streaming, recording (inside an item)                         *)
Run == [phase : {"idle", "checked", "working", "locating", "streaming", "recording"},
        seen : SUBSET Entry(Time),         \* the latest entries of the log as it was read
        on : BOOLEAN, boundary : Int,      \* the cut-off of the check
        todo : SUBSET Item, tried : Nat,   \* items to do; how many were tried
        listing : {NoListing} \cup Listing, found : Version, tries : 0 .. Retries,
        cancelled : BOOLEAN]

Idle == [phase |-> "idle", seen |-> {}, on |-> FALSE, boundary |-> NoTime, todo |-> {},
         tried |-> 0, listing |-> NoListing, found |-> Absent, tries |-> 0, cancelled |-> FALSE]

TypeOK ==
  /\ clock \in 1 .. MaxClock + 1
  /\ blob \in Listing /\ disk \in Listing
  /\ log \in Seq(Entry(Time)) /\ unlogged \subseteq Entry(Time)
  /\ record \in [File -> Record(Time)]
  /\ open \subseteq File
  /\ faults \in 0 .. MaxFaults
  /\ run \in Run

Init ==
  /\ clock = 1 /\ faults = 0
  /\ blob = [f \in File |-> Absent] /\ disk = [f \in File |-> Absent]
  /\ log = <<>> /\ unlogged = {}
  /\ record = [f \in File |-> NoRecord]
  /\ open = {}
  /\ run = Idle

(* The item that is next, or is being worked on: the rows the comparison   *)
(* marks come before the repairs.                                          *)
Before(i, k) ==
  \/ ~i.repair /\ k.repair
  \/ i.repair = k.repair /\ Rank[i.file] <= Rank[k.file]

IsNext(i) == i \in run.todo /\ \A k \in run.todo : Before(i, k)

Fault == faults < MaxFaults /\ faults' = faults + 1
-----------------------------------------------------------------------------
(* Azure and the web application                                           *)

Announce(f, status) ==
  unlogged' = IF f \in Logged
              THEN unlogged \cup {[file |-> f, status |-> status, time |-> clock]}
              ELSE unlogged

Upload(f) ==
  /\ clock <= MaxClock
  /\ blob' = [blob EXCEPT ![f] = clock]
  /\ Announce(f, IF blob[f] = Absent THEN "New" ELSE "Updated")
  /\ clock' = clock + 1
  /\ UNCHANGED <<log, localVars, faults, run>>

Remove(f) ==
  /\ clock <= MaxClock /\ blob[f] # Absent
  /\ blob' = [blob EXCEPT ![f] = Absent]
  /\ Announce(f, "Deleted")
  /\ clock' = clock + 1
  /\ UNCHANGED <<log, localVars, faults, run>>

WriteLog(e) ==
  /\ e \in unlogged
  /\ unlogged' = unlogged \ {e}
  /\ log' = Append(log, e)
  /\ UNCHANGED <<clock, blob, localVars, faults, run>>

Tick ==
  /\ clock <= MaxClock /\ clock' = clock + 1
  /\ UNCHANGED <<blob, log, unlogged, localVars, faults, run>>

(* Somebody deletes a file of the local folder, or the folder is replaced. *)
Lose(f) ==
  /\ Fault /\ disk[f] # Absent
  /\ disk' = [disk EXCEPT ![f] = Absent]
  /\ UNCHANGED <<cloudVars, record, open, run>>
-----------------------------------------------------------------------------
(* The check                                                               *)

(* check_event up to the change log; the cut-off setting may be on or off. *)
ReadLog(on) ==
  /\ run.phase = "idle"
  /\ run' = [Idle EXCEPT !.phase = "checked", !.seen = Latest(log), !.on = on,
                         !.boundary = Boundary(on, clock)]
  /\ UNCHANGED <<cloudVars, localVars, faults>>

(* The rest of the check and the list of work: Azure's list (a failed one  *)
(* only hides the files it would show), then the look at the disk.         *)
Plan(listed) ==
  LET rows  == Comparison(run.seen, listed, record, run.on, run.boundary)
      ToItem(row, action, repair) ==
        [file |-> row.file, action |-> action, time |-> row.time, repair |-> repair]
      work  == {row \in rows : row.action \in {"Download", "Delete"}}
      again == {row \in rows : NeedsRepair(row, record, disk)}
  IN  run' = [run EXCEPT
                !.phase = "working",
                !.todo = {ToItem(row, row.action, FALSE) : row \in work}
                         \cup {ToItem(row, "Download", TRUE) : row \in again}]

ListAzure ==
  /\ run.phase = "checked"
  /\ \/ Plan(blob) /\ UNCHANGED faults
     \/ Fault /\ Plan([f \in File |-> Absent])
  /\ UNCHANGED <<cloudVars, localVars>>
-----------------------------------------------------------------------------
(* Deviations the runs must be able to see                                 *)
BeginRecorded(i) ==                   \* the history row before the file
  /\ run.phase = "working" /\ i.action = "Download" /\ IsNext(i)
  /\ run' = [run EXCEPT !.phase = "locating"]
  /\ record' = [record EXCEPT ![i.file] = [status |-> "Success", time |-> i.time]]
  /\ UNCHANGED <<cloudVars, disk, open, faults>>

TryAgainUncounted ==                  \* the counter is not kept
  run' = [run EXCEPT !.phase = "locating", !.tries = @ - 1, !.listing = NoListing,
                     !.found = Absent]
-----------------------------------------------------------------------------
(* The loop                                                                *)

Cancel ==
  /\ Fault /\ run.phase # "idle" /\ ~run.cancelled
  /\ run' = [run EXCEPT !.cancelled = TRUE]
  /\ UNCHANGED <<cloudVars, localVars>>

Finished == run.todo = {} \/ run.tried >= MaxFiles \/ run.cancelled

EndRun ==
  /\ run.phase = "working" /\ Finished
  /\ run' = Idle
  /\ UNCHANGED <<cloudVars, localVars, faults>>

Begin(i) == run.phase = "working" /\ ~Finished /\ IsNext(i)

BeginDownload(i) ==
  /\ Begin(i) /\ i.action = "Download"
  /\ run' = [run EXCEPT !.phase = "locating"]
  /\ UNCHANGED <<cloudVars, localVars, faults>>

Done(i, listing) ==
  [run EXCEPT !.phase = "working", !.todo = @ \ {i}, !.tried = @ + 1, !.tries = 0,
              !.listing = listing, !.found = Absent]

(* _fail: the exception is recorded and the run goes on with the next file *)
Fail(i, listing) ==
  /\ open' = open \cup {i.file}
  /\ run' = Done(i, listing)

(* The local copy is deleted (or was not there), or that fails.            *)
DeleteFile(i) ==
  /\ Begin(i) /\ i.action = "Delete"
  /\ \/ /\ disk' = [disk EXCEPT ![i.file] = Absent]
        /\ run' = [run EXCEPT !.phase = "recording"]
        /\ UNCHANGED <<open, faults>>
     \/ Fault /\ Fail(i, run.listing) /\ UNCHANGED disk
  /\ UNCHANGED <<cloudVars, record>>

TryAgain == run' = [run EXCEPT !.phase = "locating", !.tries = @ + 1, !.listing = NoListing,
                               !.found = Absent]

(* A connection or permission problem at any call of an item: tried again  *)
(* with a fresh listing, then the run stops.                               *)
ConnectionFails(i) ==
  /\ Fault /\ run.phase \in {"locating", "streaming"} /\ IsNext(i)
  /\ \/ run.tries < Retries /\ TryAgain /\ UNCHANGED open
     \/ run.tries = Retries /\ run' = Idle /\ open' = open \cup {i.file}
  /\ UNCHANGED <<cloudVars, disk, record>>

(* Azure does not have the file.  For a repair that is the end of it: the  *)
(* history says Deleted from now on.  Any other download has failed, and   *)
(* so has a repair whose row cannot be written.                            *)
Missing(i, listing) ==
  \/ /\ i.repair
     /\ record' = [record EXCEPT ![i.file] =
                      LatestRecord(@, [status |-> "Deleted", time |-> i.time])]
     /\ run' = Done(i, listing)
     /\ UNCHANGED <<open, faults>>
  \/ /\ IF i.repair THEN Fault ELSE UNCHANGED faults
     /\ Fail(i, listing)
     /\ UNCHANGED record

(* find_blob, in the listing this run already has if it has one            *)
Locate(i) ==
  LET listing == IF run.listing = NoListing THEN blob ELSE run.listing
      found   == listing[i.file]
  IN  /\ run.phase = "locating" /\ IsNext(i)
      /\ \/ /\ found # Absent
            /\ run' = [run EXCEPT !.phase = "streaming", !.listing = listing, !.found = found]
            /\ UNCHANGED <<record, open, faults>>
         \/ found = Absent /\ Missing(i, listing)
      /\ UNCHANGED <<cloudVars, disk>>

(* iter_blob and write_stream: a complete copy of the version found takes  *)
(* the file's place in one step, after the last chunk.                     *)
Stream(i) ==
  /\ run.phase = "streaming" /\ IsNext(i) /\ blob[i.file] = run.found
  /\ disk' = [disk EXCEPT ![i.file] = run.found]
  /\ run' = [run EXCEPT !.phase = "recording"]
  /\ UNCHANGED <<cloudVars, record, open, faults>>

(* Another version is there now ("changed in Azure"), or none.             *)
StreamChanged(i) ==
  /\ run.phase = "streaming" /\ IsNext(i) /\ blob[i.file] # run.found
  /\ \/ blob[i.file] = Absent /\ Missing(i, run.listing)
     \/ /\ blob[i.file] # Absent
        /\ \/ run.tries < Retries /\ TryAgain /\ UNCHANGED open
           \/ run.tries = Retries /\ Fail(i, run.listing)
        /\ UNCHANGED <<record, faults>>
  /\ UNCHANGED <<cloudVars, disk>>

(* A wrong size or checksum is tried again; a file or folder that cannot   *)
(* be written is not.                                                      *)
StreamFails(i) ==
  /\ Fault /\ run.phase = "streaming" /\ IsNext(i)
  /\ \/ run.tries < Retries /\ TryAgain /\ UNCHANGED open
     \/ Fail(i, run.listing)
  /\ UNCHANGED <<cloudVars, disk, record>>

StreamCancelled ==
  /\ run.phase = "streaming" /\ run.cancelled
  /\ run' = Idle
  /\ UNCHANGED <<cloudVars, localVars, faults>>

(* The row of the history and the exceptions it resolves are committed; or *)
(* the database cannot be written, and the row is not there.               *)
Commit(i) ==
  LET status == IF i.action = "Download" THEN "Success" ELSE "Deleted"
  IN  /\ run.phase = "recording" /\ IsNext(i)
      /\ \/ /\ record' = [record EXCEPT ![i.file] =
                              LatestRecord(@, [status |-> status, time |-> i.time])]
            /\ open' = open \ {i.file}
            /\ UNCHANGED faults
         \/ Fault /\ UNCHANGED <<record, open>>
      /\ run' = Done(i, run.listing)
      /\ UNCHANGED <<cloudVars, disk>>

(* The process ends; what is on disk and committed stays.                  *)
Crash ==
  /\ Fault /\ run.phase # "idle"
  /\ run' = Idle
  /\ UNCHANGED <<cloudVars, localVars>>
-----------------------------------------------------------------------------
Cloud == Tick \/ (\E f \in File : Upload(f) \/ Remove(f)) \/ \E e \in unlogged : WriteLog(e)

Step ==
  \/ ListAzure \/ EndRun \/ StreamCancelled \/ \E on \in BOOLEAN : ReadLog(on)
  \/ \E i \in run.todo : \/ BeginDownload(i) \/ DeleteFile(i) \/ Locate(i)
                         \/ Stream(i) \/ StreamChanged(i) \/ Commit(i)

Trouble ==
  \/ Cancel \/ Crash \/ \E f \in File : Lose(f)
  \/ \E i \in run.todo : ConnectionFails(i) \/ StreamFails(i)

Next == Cloud \/ Step \/ Trouble

Spec == Init /\ [][Next]_vars

(* Time passes, the web application writes the entries it owes, and the    *)
(* scheduled task or the operator starts a run again and again; each call  *)
(* of a run has a deadline.                                                *)
FairSpec ==
  /\ Spec
  /\ WF_vars(Tick) /\ WF_vars(\E e \in unlogged : WriteLog(e))
  /\ WF_vars(Step)
-----------------------------------------------------------------------------
(* "Already downloaded" is true (changes.py:355): through failures, losses *)
(* and crashes, a file on disk is never older than the source time of the  *)
(* record that makes later checks leave it alone.                          *)
RecordNotAhead ==
  \A f \in File :
    record[f].status = "Success" /\ disk[f] # Absent => disk[f] >= record[f].time

(* What the check of the run has read of an item: its log entry or blob.   *)
TimesRead(i) == {i.time} \cup {e.time : e \in {d \in run.seen : d.file = i.file}}

(* The cut-off holds back new work (changes.py:329): a run replaces or     *)
(* removes a file only when no change of it that its check has read is     *)
(* later than the boundary, and never puts an older version there than the *)
(* check has read of; only a lost file is brought back whatever its time.  *)
(* It does not hold back the bytes: a file that is uploaded again after    *)
(* the check has read the log comes in its new version, unreviewed,        *)
(* against what changes.py:29 says of changes close to showtime.           *)
CutoffHolds ==
  [][\A f \in File :
       disk'[f] # disk[f] /\ faults' = faults
         => \E i \in run.todo :
              /\ IsNext(i) /\ i.file = f
              /\ \A t \in TimesRead(i) :
                   /\ ~After(t, run.on, run.boundary) \/ i.repair
                   /\ disk'[f] # Absent => t <= disk'[f]]_vars

(* Nothing is lost for good: when the faults and the changes in Azure are  *)
(* over, every logged file that Azure has is on disk in the version it has *)
(* there, a removed one is recorded as removed, and no failure of an       *)
(* existing file is still open for attention.                              *)
Converges ==
  \A f \in Logged :
    <>[](IF blob[f] # Absent THEN disk[f] = blob[f] /\ f \notin open
         ELSE record[f].status # "Success")

(* "Removed in the cloud; nothing is stored locally" and "the removal has  *)
(* already been processed" (changes.py:340, 343): when a check says so the *)
(* file is not on the disk.                                                *)
NothingStored ==
  \A f \in Logged :
    /\ run.phase = "checked" /\ record[f].status # "Success"
    /\ \E e \in run.seen : e.file = f /\ e.status = "Deleted"
    => disk[f] = Absent
=============================================================================
