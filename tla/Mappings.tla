------------------------------ MODULE Mappings ------------------------------
(***************************************************************************)
(* The device folders of registered events: services/mappings.py and the   *)
(* page of an event (web/views_devices.py).  The web server is threaded, a *)
(* request reads and writes the database in several statements, and only a *)
(* write and what follows it up to the commit is a transaction: each step  *)
(* here is a read, or one transaction.                                     *)
(* Not here: IP addresses (recorded only), the spelling of folders, the    *)
(* logs, and the event status that is refreshed after a save (EventStatus).*)
(***************************************************************************)
EXTENDS Integers

CONSTANTS Event, Led, EventOf,
          Folder, NoFolder,
          Guid, NoGuid,
          Rank,        \* the order in which LEDs are treated: table, LED type
          Actor,       \* browser tabs that send requests, one at a time
          Page         \* those that have the page of an event open

ASSUME MappingsAssumption ==
  /\ EventOf \in [Led -> Event]
  /\ Rank \in [Led -> Nat] /\ \A k, l \in Led : Rank[k] = Rank[l] => k = l
  /\ NoFolder \notin Folder /\ NoGuid \notin Guid
  /\ Page \subseteq Actor

VARIABLES
  guid,    \* events.event_guid; NoGuid: not registered
  leds,    \* the enabled LEDs in events.configuration_json
  made,    \* the LEDs that have a row in led_mappings
  shown,   \* those whose row has enabled = 1
  folder,  \* led_mappings.shared_folder
  tested,  \* the folder connection_status is about; NoFolder: not tested
  page,    \* the request of each tab for the page of an event
  left     \* bound: the requests each tab may still send

rowVars == <<made, shown, folder, tested>>
eventVars == <<guid, leds>>

LedsOf(e) == {l \in Led : EventOf[l] = e}
Registered == {e \in Event : guid[e] # NoGuid}
Value == Folder \cup {NoFolder}
Untested == NoFolder

(* What a request has read of the rows of an event, or works on.           *)
Rows(e) == [made |-> made \cap LedsOf(e), shown |-> shown \cap LedsOf(e),
            folder |-> [l \in LedsOf(e) |-> folder[l]]]
NoRows == [made |-> {}, shown |-> {}, folder |-> << >>]
IdlePage == [step |-> "idle", event |-> "none", leds |-> {}, entries |-> << >>, test |-> FALSE,
             seen |-> NoRows, targets |-> {}]
Entries(e) == UNION {[S -> Value] : S \in SUBSET leds[e] \ {{}}}

MappingsTypeOK ==
  /\ guid \in [Event -> Guid \cup {NoGuid}]
  /\ leds \in [Event -> SUBSET Led] /\ \A e \in Event : leds[e] \subseteq LedsOf(e)
  /\ shown \subseteq made /\ made \subseteq Led
  /\ folder \in [Led -> Value]
  /\ tested \in [Led -> Value]
  /\ left \in [Actor -> Nat]
  /\ \A p \in Page : page[p].step \in
       {"idle", "opening", "ensuring", "posted", "saving", "picking", "testing"}

MappingsInit ==
  /\ guid = [e \in Event |-> NoGuid] /\ leds = [e \in Event |-> {}]
  /\ made = {} /\ shown = {}
  /\ folder = [l \in Led |-> NoFolder] /\ tested = [l \in Led |-> Untested]
  /\ page = [p \in Page |-> IdlePage]

NewRequest(x) == left[x] > 0 /\ left' = [left EXCEPT ![x] = @ - 1]
Finished(p) == page' = [page EXCEPT ![p] = IdlePage]
-----------------------------------------------------------------------------
(* Deviations the runs must be able to see                                 *)
LosesNothing(l, wanted, seen) == FALSE  \* a LED returns with the folder it had

ReconcileAdding(wanted, seen, reset) == \* LEDs that are gone stay enabled
  /\ made' = made \cup wanted /\ shown' = shown \cup wanted
  /\ UNCHANGED <<folder, tested>>

ReconcileClearing(wanted, seen, reset) ==
  /\ made' = made \cup wanted           \* LEDs that are gone give up their folder
  /\ shown' = (shown \ (seen.made \ wanted)) \cup wanted
  /\ folder' = [l \in Led |-> IF l \in seen.made \ wanted THEN NoFolder ELSE folder[l]]
  /\ tested' = [l \in Led |-> Untested]

StillThereAnyway(l, f) == TRUE          \* the folder in the WHERE clause forgotten
-----------------------------------------------------------------------------
(* A hidden LED that returns although its folder is used by now: by a LED  *)
(* that was there all along, or by one that returns before it.             *)
Loses(l, wanted, seen) ==
  /\ l \in seen.made \ seen.shown /\ seen.folder[l] # NoFolder
  /\ \E k \in (wanted \cap seen.made) \ {l} :
       /\ seen.folder[k] = seen.folder[l]
       /\ k \in seen.shown \/ Rank[k] < Rank[l]

(* reconcile: the rows that were read are shown or hidden, never deleted;  *)
(* a row that has come into being since makes the insert fail.             *)
CanReconcile(wanted, seen) == (wanted \ seen.made) \cap made = {}

Reconcile(wanted, seen, reset) ==
  LET lost == {l \in wanted : Loses(l, wanted, seen)}
      again == IF reset THEN wanted \cap seen.made ELSE {}
  IN /\ made' = made \cup wanted
     /\ shown' = (shown \ (seen.made \ wanted)) \cup wanted
     /\ folder' = [l \in Led |-> IF l \in lost THEN NoFolder ELSE folder[l]]
     /\ tested' = [l \in Led |-> IF l \in lost \cup again THEN Untested ELSE tested[l]]

(* load_structure: the enabled LEDs of the stored file.                    *)
Structure(e) == leds[e]

(* GET /events/<id>: the structure, then the rows are read, then ensure_   *)
(* rows makes the rows match the structure that was read.                  *)
Details(p, e) ==
  /\ page[p].step = "idle" /\ e \in Registered /\ NewRequest(p)
  /\ page' = [page EXCEPT ![p] = [IdlePage EXCEPT !.step = "opening", !.event = e, !.leds = Structure(e)]]
  /\ UNCHANGED <<eventVars, rowVars>>

ReadRows(p) ==
  /\ page[p].step = "opening"
  /\ page' = [page EXCEPT ![p].step = "ensuring", ![p].seen = Rows(page[p].event)]
  /\ UNCHANGED <<eventVars, rowVars, left>>

EnsureRows(p) ==
  /\ page[p].step = "ensuring"
  /\ IF CanReconcile(page[p].leds, page[p].seen)
     THEN Reconcile(page[p].leds, page[p].seen, FALSE)
     ELSE UNCHANGED rowVars
  /\ Finished(p) /\ UNCHANGED <<eventVars, left>>
-----------------------------------------------------------------------------
(* POST /events/<id>/mappings: the fields of enabled LEDs that the form    *)
(* has (it may be of a page opened earlier); then save_mappings validates  *)
(* them against the rows it reads.                                         *)
Post(p, e, entries, test) ==
  /\ page[p].step = "idle" /\ e \in Registered /\ NewRequest(p)
  /\ page' = [page EXCEPT ![p] = [IdlePage EXCEPT !.step = "posted", !.event = e, !.leds = Structure(e),
                                                   !.entries = entries, !.test = test]]
  /\ UNCHANGED <<eventVars, rowVars>>

(* No folder twice in the form, nor one of an enabled LED not in the form. *)
Acceptable(entries, seen) ==
  /\ \A k, l \in DOMAIN entries : entries[k] = entries[l] /\ entries[k] # NoFolder => k = l
  /\ \A k \in seen.shown \ DOMAIN entries, l \in DOMAIN entries :
       seen.folder[k] # NoFolder => entries[l] # seen.folder[k]

Validate(p) ==
  /\ page[p].step = "posted"
  /\ LET seen == Rows(page[p].event)
     IN IF Acceptable(page[p].entries, seen)
        THEN page' = [page EXCEPT ![p].step = "saving", ![p].seen = seen]
        ELSE Finished(p)
  /\ UNCHANGED <<eventVars, rowVars, left>>

(* The transaction: a LED that had no enabled row is inserted, which fails *)
(* when it has a hidden one; a changed folder has not been tested yet.     *)
Save(p) ==
  LET entries == page[p].entries  seen == page[p].seen
      new == DOMAIN entries \ seen.shown
      changed == {l \in DOMAIN entries : l \in new \/ entries[l] # seen.folder[l]}
  IN /\ page[p].step = "saving"
     /\ IF new \cap made = {}
        THEN /\ made' = made \cup new /\ shown' = shown \cup new
             /\ folder' = [l \in Led |-> IF l \in changed THEN entries[l] ELSE folder[l]]
             /\ tested' = [l \in Led |-> IF l \in changed THEN Untested ELSE tested[l]]
             /\ IF page[p].test THEN page' = [page EXCEPT ![p].step = "picking"] ELSE Finished(p)
        ELSE Finished(p) /\ UNCHANGED rowVars
     /\ UNCHANGED <<eventVars, left>>
-----------------------------------------------------------------------------
(* The test of one LED or of all: the rows are read again, the folders are *)
(* tried for up to ten seconds, and the outcomes are recorded one by one,  *)
(* only where the row still has the folder that was tried.                 *)
PickTargets(p) ==
  /\ page[p].step = "picking"
  /\ LET all == {l \in shown \cap LedsOf(page[p].event) : folder[l] # NoFolder}
     IN \E ts \in {all} \cup {{l} : l \in all} :
          IF ts = {} THEN Finished(p)
          ELSE page' = [page EXCEPT ![p].step = "testing",
                                    ![p].targets = {<<l, folder[l]>> : l \in ts}]
  /\ UNCHANGED <<eventVars, rowVars, left>>

StillThere(l, f) == l \in shown /\ folder[l] = f

RecordTest(p, l, f) ==
  /\ page[p].step = "testing" /\ <<l, f>> \in page[p].targets
  /\ \A x \in page[p].targets : Rank[l] <= Rank[x[1]]
  /\ tested' = IF StillThere(l, f) THEN [tested EXCEPT ![l] = f] ELSE tested
  /\ IF page[p].targets = {<<l, f>>} THEN Finished(p)
     ELSE page' = [page EXCEPT ![p].targets = @ \ {<<l, f>>}]
  /\ UNCHANGED <<eventVars, made, shown, folder, left>>

(* A statement fails (the database is locked, the disk full): the request  *)
(* ends and its transaction is rolled back.                                *)
PageFails(p) ==
  /\ page[p].step \in {"ensuring", "saving", "testing"}
  /\ Finished(p) /\ UNCHANGED <<eventVars, rowVars, left>>

MappingsNext ==
  \E p \in Page :
    \/ \E e \in Event : Details(p, e) \/ \E m \in Entries(e), t \in BOOLEAN : Post(p, e, m, t)
    \/ ReadRows(p) \/ EnsureRows(p) \/ Validate(p) \/ Save(p) \/ PickTargets(p) \/ PageFails(p)
    \/ \E l \in Led, f \in Folder : RecordTest(p, l, f)
=============================================================================
