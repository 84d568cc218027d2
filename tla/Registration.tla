---------------------------- MODULE Registration ----------------------------
(***************************************************************************)
(* Registering events: services/registration.py and web/views_events.py,   *)
(* with cloud.fetch_event_config and the unique indexes of                 *)
(* db/connection.py, together with the pages of the events (Mappings).     *)
(*                                                                         *)
(* The configuration in an event's cloud folder changes under the program: *)
(* an export gives it a new GUID and other LEDs; a mistake has put the file *)
(* of one event, or its GUID, into the folder of another (place: the       *)
(* folder of its eventStorageUrl); or it does not parse (sound).  Not      *)
(* here: the other fields of the file, the logs, the spelling of ids.      *)
(***************************************************************************)
EXTENDS Mappings, FiniteSets

CONSTANTS Tab,        \* tabs that register; they share the browser's cookie
          Config,     \* the files that may be in the cloud
          MaxPending, \* PendingReregistrations: max_items
          Scenarios   \* bounds: the files in the cloud at first, the requests of each
                      \* tab and how many at once, the exports to come and the restarts

ASSUME RegistrationAssumption ==
  /\ Tab \subseteq Actor /\ Tab \cap Page = {}
  /\ Config \subseteq [event : Event, guid : Guid, leds : SUBSET Led, place : Event, sound : BOOLEAN]
  /\ \A c \in Config : c.leds \subseteq LedsOf(c.event)
  /\ MaxPending \in Nat \ {0}
  /\ Scenarios \subseteq [cloud : [Event -> Config], left : [Actor -> Nat], atOnce : Nat,
                          exports : SUBSET Config, starts : Nat]

VARIABLES
  cloud,    \* the _GUID.json in the folder of each event
  atOnce, exports, starts, \* what is left of the bounds
  tokens,   \* tokens handed out: the last one
  pending,  \* PendingReregistrations; in memory only
  cookie,   \* the token in the session cookie; 0: none
  screen,   \* per tab: the request its re-registration page shows
  form,     \* per tab: its request to register or to re-register
  crossed   \* history: events about which two requests have gone on at once

vars == <<guid, leds, made, shown, folder, tested, page, left, cloud, atOnce, exports, starts,
          tokens, pending, cookie, screen, form, crossed>>

IdleForm == [step |-> "idle", event |-> "none", config |-> "none", token |-> 0, pasted |-> NoGuid]
NoScreen == [token |-> 0, event |-> "none", config |-> "none"]

RegistrationTypeOK ==
  /\ cloud \in [Event -> Config]
  /\ {atOnce, starts} \subseteq Nat /\ exports \subseteq Config
  /\ tokens \in Nat /\ cookie \in 0 .. tokens
  /\ Cardinality(pending) <= MaxPending
  /\ pending \subseteq [token : 1 .. tokens, event : Event, config : Config]
  /\ \A t \in Tab :
       /\ screen[t].token \in 0 .. tokens
       /\ form[t].step \in {"idle", "fetched", "searching", "inserting", "confirming", "updating"}
       /\ form[t].step # "idle" => form[t].event \in Event /\ form[t].config \in Config
  /\ crossed \subseteq Event

TypeOK == MappingsTypeOK /\ RegistrationTypeOK

Init ==
  /\ MappingsInit
  /\ \E s \in Scenarios : /\ cloud = s.cloud /\ left = s.left /\ atOnce = s.atOnce
                          /\ exports = s.exports /\ starts = s.starts
  /\ tokens = 0 /\ pending = {} /\ cookie = 0
  /\ screen = [t \in Tab |-> NoScreen] /\ form = [t \in Tab |-> IdleForm]
  /\ crossed = {}
-----------------------------------------------------------------------------
(* Deviations the run must be able to see                                  *)
RoomFull(held) == held                     \* the oldest is never dropped
NoIndex(e, g) == TRUE                   \* only the search before the write
AnyForm(t) == TRUE                      \* whatever page the form is from
-----------------------------------------------------------------------------
Held(tok) == {q \in pending : q.token = tok}
Without(tok) == pending \ Held(tok)

(* Dropping the oldest, whose token is the lowest, so that one more fits.  *)
Oldest(held) == {q \in held : \A r \in held : q.token <= r.token}
Room(held) == IF Cardinality(held) < MaxPending THEN held ELSE held \ Oldest(held)

Ended(t) == form' = [form EXCEPT ![t] = IdleForm]
Goes(t, step) == form' = [form EXCEPT ![t].step = step]

(* _ensure_guid_not_used_elsewhere, and the index ux_events_event_guid.    *)
UsedElsewhere(e, g) == \E d \in Event \ {e} : guid[d] = g
IndexAllows(e, g) == ~UsedElsewhere(e, g)

pendingVars == <<tokens, pending, cookie>>
cloudVars == <<cloud, exports, starts>>

(* The web application exports an event once more.                         *)
Export(c) ==
  /\ c \in exports /\ exports' = exports \ {c}
  /\ cloud' = [cloud EXCEPT ![c.place] = c]
  /\ UNCHANGED <<eventVars, rowVars, page, left, starts, pendingVars, screen, form>>
-----------------------------------------------------------------------------
(* parse_event_config, and verify_storage_location: what a file must be    *)
(* before anything in it is used.                                          *)
Parses(c) == c.sound
IsAtItsPlace(e, c) == c.place = e

(* POST /events/new: the file is fetched from the folder of the event.     *)
NewEvent(t, e) ==
  /\ form[t].step = "idle" /\ NewRequest(t)
  /\ \/ ~(Parses(cloud[e]) /\ IsAtItsPlace(e, cloud[e])) /\ UNCHANGED form
     \/ /\ Parses(cloud[e]) /\ IsAtItsPlace(e, cloud[e])
        /\ form' = [form EXCEPT ![t] = [IdleForm EXCEPT !.step = "fetched", !.event = e,
                                                        !.config = cloud[e], !.token = cookie]]
  /\ UNCHANGED <<eventVars, rowVars, page, cloudVars, pendingVars, screen>>

(* register_event: the identity of the file, then the row of the event.    *)
IsItsFile(t) == form[t].config.event = form[t].event
RowSays(t) ==
  IF ~IsItsFile(t) THEN "refused"
  ELSE CASE guid[form[t].event] = NoGuid -> "free"
         [] guid[form[t].event] = form[t].config.guid -> "already registered"
         [] OTHER -> "mismatch"

LookUp(t) ==
  /\ form[t].step = "fetched"
  /\ \/ RowSays(t) = "free" /\ Goes(t, "searching")
     \/ RowSays(t) \in {"refused", "already registered"} /\ Ended(t)
  /\ UNCHANGED <<eventVars, rowVars, page, left, cloudVars, pendingVars, screen>>

(* GuidMismatch: the file is kept under a new token, and the one that the  *)
(* request's cookie named is dropped.                                      *)
Mismatch(t) ==
  /\ form[t].step = "fetched" /\ RowSays(t) = "mismatch"
  /\ tokens' = tokens + 1 /\ cookie' = tokens + 1
  /\ pending' = Room(Without(form[t].token)) \cup
                  {[token |-> tokens + 1, event |-> form[t].event, config |-> form[t].config]}
  /\ Ended(t) /\ UNCHANGED <<eventVars, rowVars, page, left, cloudVars, screen>>

Search(t) ==
  /\ \/ /\ form[t].step = "searching"
        /\ IF UsedElsewhere(form[t].event, form[t].config.guid) THEN Ended(t) ELSE Goes(t, "inserting")
     \/ /\ form[t].step = "confirming"
        /\ IF UsedElsewhere(form[t].event, form[t].config.guid) THEN Ended(t) ELSE Goes(t, "updating")
  /\ UNCHANGED <<eventVars, rowVars, page, left, cloudVars, pendingVars, screen>>

(* The transaction of a registration; either index may refuse it.          *)
Insert(t) ==
  LET e == form[t].event  c == form[t].config
  IN /\ form[t].step = "inserting"
     /\ IF guid[e] = NoGuid /\ IndexAllows(e, c.guid)
        THEN /\ guid' = [guid EXCEPT ![e] = c.guid] /\ leds' = [leds EXCEPT ![e] = c.leds]
             /\ Reconcile(c.leds, Rows(e), FALSE)
        ELSE UNCHANGED <<eventVars, rowVars>>
     /\ Ended(t) /\ UNCHANGED <<page, left, cloudVars, pendingVars, screen>>
-----------------------------------------------------------------------------
(* The cookie names nothing that is still held.                            *)
IsExpired == Held(cookie) = {}

(* GET /events/reregister: what the cookie names, or a note that it is     *)
(* gone.                                                                   *)
ShowPending(t) ==
  /\ form[t].step = "idle"
  /\ IF IsExpired
     THEN cookie' = 0 /\ screen' = [screen EXCEPT ![t] = NoScreen]
     ELSE /\ cookie' = cookie
          /\ \E q \in Held(cookie) : screen' = [screen EXCEPT ![t] = q]
  /\ UNCHANGED <<eventVars, rowVars, page, left, cloudVars, tokens, pending, form>>

(* The form must be that of the request the session holds.                 *)
FormIsCurrent(t) == screen[t].token = cookie

(* reregister_event before it writes: the GUID of the file was pasted, and *)
(* the event is registered.                                                *)
MayReplace(q, g) == g = q.config.guid /\ q.event \in Registered

(* POST /events/reregister with the GUID the operator pasted.              *)
Confirm(t, g) ==
  /\ form[t].step = "idle" /\ screen[t].token # 0 /\ NewRequest(t)
  /\ \/ /\ IsExpired /\ cookie' = 0
        /\ screen' = [screen EXCEPT ![t] = NoScreen] /\ UNCHANGED form
     \/ /\ ~IsExpired /\ ~FormIsCurrent(t)
        /\ UNCHANGED <<cookie, screen, form>>
     \/ \E q \in Held(cookie) :
        /\ FormIsCurrent(t)
        /\ IF MayReplace(q, g)
           THEN form' = [form EXCEPT ![t] = [step |-> "confirming", event |-> q.event,
                           config |-> q.config, token |-> cookie, pasted |-> g]]
           ELSE UNCHANGED form
        /\ UNCHANGED <<cookie, screen>>
  /\ UNCHANGED <<eventVars, rowVars, page, cloudVars, tokens, pending>>

(* The transaction of a re-registration; when the index refuses it the     *)
(* request stays pending.  The answer takes the token from the cookie.     *)
Update(t) ==
  LET e == form[t].event  c == form[t].config
  IN /\ form[t].step = "updating"
     /\ IF IndexAllows(e, c.guid)
        THEN /\ guid' = [guid EXCEPT ![e] = c.guid] /\ leds' = [leds EXCEPT ![e] = c.leds]
             /\ Reconcile(c.leds, Rows(e), TRUE)
             /\ pending' = Without(form[t].token) /\ cookie' = 0
             /\ screen' = [screen EXCEPT ![t] = NoScreen]
        ELSE UNCHANGED <<eventVars, rowVars, pending, cookie, screen>>
     /\ Ended(t) /\ UNCHANGED <<page, left, cloudVars, tokens>>

(* POST /events/reregister/cancel.                                         *)
Cancel(t) ==
  /\ form[t].step = "idle" /\ screen[t].token # 0 /\ NewRequest(t)
  /\ IF IsExpired \/ FormIsCurrent(t)
     THEN /\ pending' = Without(cookie) /\ cookie' = 0
          /\ screen' = [screen EXCEPT ![t] = NoScreen]
     ELSE UNCHANGED <<pending, cookie, screen>>
  /\ UNCHANGED <<eventVars, rowVars, page, cloudVars, tokens, form>>

(* A statement of a transaction fails: it is rolled back.                  *)
FormFails(t) ==
  /\ form[t].step \in {"inserting", "updating"} /\ Ended(t)
  /\ UNCHANGED <<eventVars, rowVars, page, left, cloudVars, pendingVars, screen>>

(* ttl_seconds pass: the oldest is forgotten.                              *)
Expire ==
  /\ pending # {} /\ pending' = pending \ Oldest(pending)
  /\ UNCHANGED <<eventVars, rowVars, page, left, cloudVars, tokens, cookie, screen, form>>

(* The application ends and is started again: requests and what was in     *)
(* memory are gone, cookies are no longer valid, open pages stay.          *)
Restart ==
  /\ starts > 0 /\ starts' = starts - 1
  /\ pending' = {} /\ cookie' = 0
  /\ form' = [t \in Tab |-> IdleForm] /\ page' = [p \in Page |-> IdlePage]
  /\ UNCHANGED <<eventVars, rowVars, left, cloud, exports, tokens, screen>>
-----------------------------------------------------------------------------
RegistrationNext ==
  \/ \E c \in Config : Export(c)
  \/ \E t \in Tab :
       \/ \E e \in Event : NewEvent(t, e)
       \/ LookUp(t) \/ Mismatch(t) \/ Search(t) \/ Insert(t) \/ ShowPending(t)
       \/ \E g \in Guid : Confirm(t, g)
       \/ Update(t) \/ Cancel(t) \/ FormFails(t)
  \/ Expire \/ Restart

PageStep ==
  MappingsNext /\ UNCHANGED <<cloudVars, pendingVars, screen, form>>

(* Two requests about an event go on at once after this step.              *)
Busy == {p \in Page : page[p].step # "idle"} \cup {t \in Tab : form[t].step # "idle"}
About(x) == IF x \in Tab THEN form[x].event ELSE page[x].event
NoteCrossing ==
  crossed' = crossed \cup {e \in Event : \E x, y \in Busy' : x # y /\ About(x)' = e /\ About(y)' = e}

Next ==
  /\ RegistrationNext \/ PageStep
  /\ NoteCrossing
  /\ Cardinality(Busy') <= atOnce /\ UNCHANGED atOnce

Spec == Init /\ [][Next]_vars
-----------------------------------------------------------------------------
(* No GUID is that of two events, although each request looks for it before *)
(* it writes and another may write in between (registration.py:285, the    *)
(* index of db/connection.py:105).                                         *)
GuidIsUnique ==
  \A d, e \in Registered : guid[d] = guid[e] => d = e

(* A re-registration that is being written is the one the operator's page  *)
(* showed, and the operator pasted its GUID: not one that another tab has  *)
(* started since (views_events.py:104, registration.py:345).               *)
ShownIsApplied ==
  \A t \in Tab : form[t].step \in {"confirming", "updating"} =>
    /\ [event |-> form[t].event, config |-> form[t].config]
         = [event |-> screen[t].event, config |-> screen[t].config]
    /\ form[t].pasted = form[t].config.guid

(* What a row says of a connection was found out about the folder it has   *)
(* (mappings.py:330, 349, 270): through saves, re-registrations and LEDs   *)
(* that come and go while folders are being tried.                         *)
TestIsOfFolder ==
  \A l \in Led : tested[l] \in {Untested, folder[l]}

(* Of the events whose requests never crossed, no two enabled LEDs have    *)
(* the same folder (mappings.py:10, 258), however often LEDs leave and     *)
(* return with the folders they had.                                       *)
OneFolderEach ==
  \A k, l \in shown :
    /\ EventOf[k] = EventOf[l] /\ EventOf[l] \notin crossed
    /\ folder[k] = folder[l] /\ folder[l] # NoFolder
    => k = l

(* ... and exactly the LEDs of the registered file are enabled             *)
(* (mappings.py:247).                                                      *)
RowsFollowFile ==
  \A e \in Registered \ crossed : shown \cap LedsOf(e) = leds[e]

(* ... and a folder once entered is given up only by a save of that page,  *)
(* or by a hidden LED that finds it taken (mappings.py:12-14): a           *)
(* re-registration loses none.                                             *)
FoldersSurvive ==
  [][\A l \in Led :
       folder[l] # NoFolder /\ folder'[l] # folder[l] /\ EventOf[l] \notin crossed =>
         \/ \E p \in Page : page[p].step = "saving" /\ l \in DOMAIN page[p].entries
         \/ l \notin shown /\ \E k \in made \ {l} : EventOf[k] = EventOf[l] /\ folder[k] = folder[l]]_vars
=============================================================================
