------------------------- MODULE RegistrationProofs -------------------------
(***************************************************************************)
(* For any number of events, LEDs, tabs and requests: no two events get    *)
(* the same GUID, no two LEDs the same folder, the rows are what the file  *)
(* said and folders outlive a re-registration, a connection status is      *)
(* about the folder the row has, and what replaces a configuration is what *)
(* the operator's page showed.                                             *)
(***************************************************************************)
EXTENDS Registration, FiniteSetTheorems, WellFoundedInduction, TLAPS

(* The requests and the pages of the events, as the steps they take.       *)
TabStep(t) ==
  \/ \E e \in Event : NewEvent(t, e)
  \/ LookUp(t) \/ Mismatch(t) \/ Search(t) \/ Insert(t) \/ ShowPending(t)
  \/ \E g \in Guid : Confirm(t, g)
  \/ Update(t) \/ Cancel(t) \/ FormFails(t)

(* The requests that are left, which others spend too (Reports), do not    *)
(* matter to what is proved here.                                          *)
restVars == <<guid, leds, made, shown, folder, tested, page, cloud, exports, starts,
              tokens, pending, cookie, screen, form, crossed>>

LooseSpec == Init /\ [][Next]_restVars

LEMMA Loosely == Spec => LooseSpec
<1>1. [Next]_vars => [Next]_restVars
  BY DEF vars, restVars
<1> QED BY <1>1, PTL DEF Spec, LooseSpec

LEMMA Acting ==
  ASSUME Next
  PROVE  \/ \E c \in Config : Export(c)
         \/ \E t \in Tab : TabStep(t)
         \/ Expire \/ Restart \/ PageStep
BY DEF Next, RegistrationNext, TabStep

(* GUIDs: the row of an event is written under the index only.             *)
Guids == guid = [e \in Event |-> guid[e]] /\ GuidIsUnique

LEMMA Writing ==
  ASSUME Guids, NEW e, NEW g, IndexAllows(e, g), guid' = [guid EXCEPT ![e] = g]
  PROVE  Guids'
<1>1. guid = [d \in Event |-> guid[d]]
  BY DEF Guids
<1>2. guid' = [d \in Event |-> IF d = e THEN g ELSE guid[d]]
  BY <1>1
<1>3. guid' = [d \in Event |-> guid'[d]]
  BY <1>2
<1>4. \A d \in Event : guid'[d] = IF d = e THEN g ELSE guid[d]
  BY <1>2
<1>5. \A d \in Event \ {e} : guid[d] # g
  BY DEF IndexAllows, UsedElsewhere
<1>6. \A c, d \in Event : guid[c] # NoGuid /\ guid[d] # NoGuid /\ guid[c] = guid[d] => c = d
  BY DEF Guids, GuidIsUnique, Registered
<1>7. \A c, d \in Event : guid'[c] # NoGuid /\ guid'[d] # NoGuid /\ guid'[c] = guid'[d] => c = d
  BY <1>4, <1>5, <1>6
<1> QED BY <1>3, <1>7 DEF Guids, GuidIsUnique, Registered

LEMMA GuidsAlways == LooseSpec => []GuidIsUnique
<1>1. Init => Guids
  BY DEF Init, MappingsInit, Guids, GuidIsUnique, Registered
<1>2. Guids /\ [Next]_restVars => Guids'
  <2> SUFFICES ASSUME Guids, [Next]_restVars PROVE Guids'
    OBVIOUS
  <2>1. ASSUME UNCHANGED guid PROVE Guids'
    BY <2>1 DEF Guids, GuidIsUnique, Registered
  <2>2. ASSUME NEW t \in Tab, TabStep(t) PROVE Guids'
    <3>1. CASE Insert(t)
      BY <2>1, <3>1, Writing DEF Insert, eventVars
    <3>2. CASE Update(t)
      BY <2>1, <3>2, Writing DEF Update, eventVars
    <3>3. CASE ~Insert(t) /\ ~Update(t)
      BY <2>1, <2>2, <3>3 DEF TabStep, NewEvent, LookUp, Mismatch, Search, ShowPending, Confirm,
                              Cancel, FormFails, eventVars
    <3> QED BY <3>1, <3>2, <3>3
  <2>3. CASE PageStep
    BY <2>1, <2>3 DEF PageStep, MappingsNext, Details, Post, ReadRows, EnsureRows, Validate, Save,
                      PickTargets, PageFails, RecordTest, eventVars
  <2>4. CASE (\E c \in Config : Export(c)) \/ Expire \/ Restart
    BY <2>1, <2>4 DEF Export, Expire, Restart, eventVars
  <2>5. CASE UNCHANGED restVars
    BY <2>1, <2>5 DEF restVars
  <2> QED BY <2>2, <2>3, <2>4, <2>5, Acting
<1>3. Guids => GuidIsUnique
  BY DEF Guids
<1> QED BY <1>1, <1>2, <1>3, PTL DEF LooseSpec

(* No GUID is that of two events.                                          *)
THEOREM UniqueGuids == Spec => []GuidIsUnique
BY Loosely, GuidsAlways, PTL

(* Connections: an outcome is recorded for the folder that was tried, and  *)
(* whatever changes a folder forgets the outcome.                          *)
Tests == tested = [l \in Led |-> tested[l]] /\ TestIsOfFolder

LEMMA Reconciling ==
  ASSUME Tests, NEW wanted, NEW seen, NEW reset, Reconcile(wanted, seen, reset)
  PROVE  Tests'
<1> DEFINE lost == {l \in wanted : Loses(l, wanted, seen)}
           again == IF reset THEN wanted \cap seen.made ELSE {}
<1>1. /\ folder' = [l \in Led |-> IF l \in lost THEN NoFolder ELSE folder[l]]
      /\ tested' = [l \in Led |-> IF l \in lost \cup again THEN Untested ELSE tested[l]]
  BY DEF Reconcile
<1> HIDE DEF lost, again
<1> QED BY <1>1 DEF Tests, TestIsOfFolder

LEMMA TestsAlways == LooseSpec => []TestIsOfFolder
<1>1. Init => Tests
  BY DEF Init, MappingsInit, Tests, TestIsOfFolder
<1>2. Tests /\ [Next]_restVars => Tests'
  <2> SUFFICES ASSUME Tests, [Next]_restVars PROVE Tests'
    OBVIOUS
  <2>1. ASSUME UNCHANGED <<folder, tested>> PROVE Tests'
    BY <2>1 DEF Tests, TestIsOfFolder
  <2>2. ASSUME NEW t \in Tab, TabStep(t) PROVE Tests'
    <3>1. CASE Insert(t)
      BY <2>1, <3>1, Reconciling DEF Insert, rowVars
    <3>2. CASE Update(t)
      BY <2>1, <3>2, Reconciling DEF Update, rowVars
    <3>3. CASE ~Insert(t) /\ ~Update(t)
      BY <2>1, <2>2, <3>3 DEF TabStep, NewEvent, LookUp, Mismatch, Search, ShowPending, Confirm,
                              Cancel, FormFails, rowVars
    <3> QED BY <3>1, <3>2, <3>3
  <2>3. CASE PageStep
    <3>1. ASSUME NEW p, EnsureRows(p) PROVE Tests'
      BY <2>1, <3>1, Reconciling DEF EnsureRows, rowVars
    <3>2. ASSUME NEW p, Save(p) PROVE Tests'
      <4>1. CASE UNCHANGED rowVars
        BY <2>1, <4>1 DEF rowVars
      <4>2. CASE ~UNCHANGED rowVars
        <5> DEFINE changed == {l \in DOMAIN page[p].entries :
                                 \/ l \in DOMAIN page[p].entries \ page[p].seen.shown
                                 \/ page[p].entries[l] # page[p].seen.folder[l]}
        <5>1. /\ folder' = [l \in Led |-> IF l \in changed THEN page[p].entries[l] ELSE folder[l]]
              /\ tested' = [l \in Led |-> IF l \in changed THEN Untested ELSE tested[l]]
          BY <3>2, <4>2 DEF Save
        <5> HIDE DEF changed
        <5> QED BY <5>1 DEF Tests, TestIsOfFolder
      <4> QED BY <4>1, <4>2
    <3>3. ASSUME NEW p, NEW l \in Led, NEW f, RecordTest(p, l, f) PROVE Tests'
      <4>1. folder' = folder /\ tested' = IF StillThere(l, f) THEN [tested EXCEPT ![l] = f] ELSE tested
        BY <3>3 DEF RecordTest
      <4> QED BY <4>1 DEF Tests, TestIsOfFolder, StillThere
    <3>4. ASSUME NEW p, PageFails(p) \/ ReadRows(p) \/ Validate(p) \/ PickTargets(p) PROVE Tests'
      BY <2>1, <3>4 DEF PageFails, ReadRows, Validate, PickTargets, rowVars
    <3>5. ASSUME NEW p, NEW e, Details(p, e) \/ (\E m, t : Post(p, e, m, t)) PROVE Tests'
      BY <2>1, <3>5 DEF Details, Post, rowVars
    <3> QED BY <2>3, <3>1, <3>2, <3>3, <3>4, <3>5 DEF PageStep, MappingsNext
  <2>4. CASE (\E c \in Config : Export(c)) \/ Expire \/ Restart
    BY <2>1, <2>4 DEF Export, Expire, Restart, rowVars
  <2>5. CASE UNCHANGED restVars
    BY <2>1, <2>5 DEF restVars
  <2> QED BY <2>2, <2>3, <2>4, <2>5, Acting
<1>3. Tests => TestIsOfFolder
  BY DEF Tests
<1> QED BY <1>1, <1>2, <1>3, PTL DEF LooseSpec

(* What a row says of a connection is about the folder it has.             *)
THEOREM TestsAreCurrent == Spec => []TestIsOfFolder
BY Loosely, TestsAlways, PTL

(* Pages: a token is given out once, so what a page shows with a token is  *)
(* what is held under it.                                                  *)
Fresh ==
  /\ tokens \in Nat /\ \A q \in pending : q.token \in 1 .. tokens
  /\ \A q, r \in pending : q.token = r.token => q = r

Screens ==
  /\ screen = [t \in Tab |-> screen[t]]
  /\ \A t \in Tab :
       screen[t].token \in 0 .. tokens /\ \A q \in pending : q.token = screen[t].token => q = screen[t]

Forms == form = [t \in Tab |-> form[t]] /\ ShownIsApplied

Pages == Fresh /\ Screens /\ Forms

LEMMA Forgetting ==
  ASSUME Fresh, Screens, pending' \subseteq pending, UNCHANGED tokens,
         \/ UNCHANGED screen
         \/ \E t \in Tab : \E q \in pending \cup {NoScreen} : screen' = [screen EXCEPT ![t] = q]
  PROVE  Fresh' /\ Screens'
<1>1. Fresh'
  BY DEF Fresh
<1>2. CASE UNCHANGED screen
  BY <1>1, <1>2 DEF Screens
<1>3. ASSUME NEW t \in Tab, NEW q \in pending \cup {NoScreen}, screen' = [screen EXCEPT ![t] = q]
      PROVE  Screens'
  <2>1. q.token \in 0 .. tokens /\ \A r \in pending : r.token = q.token => r = q
    <3>1. CASE q \in pending
      BY <3>1 DEF Fresh
    <3>2. CASE q = NoScreen
      <4>1. q.token = 0
        BY <3>2 DEF NoScreen
      <4>2. tokens \in Nat /\ \A r \in pending : r.token \in 1 .. tokens
        BY DEF Fresh
      <4> QED BY <4>1, <4>2
    <3> QED BY <3>1, <3>2
  <2>2. screen' = [u \in Tab |-> IF u = t THEN q ELSE screen[u]]
    BY <1>3 DEF Screens
  <2>3. screen' = [u \in Tab |-> screen'[u]] /\ \A u \in Tab : screen'[u] = IF u = t THEN q ELSE screen[u]
    BY <2>2
  <2> QED BY <2>1, <2>3 DEF Screens
<1> QED BY <1>1, <1>2, <1>3

LEMMA Refusing ==
  ASSUME Fresh, Screens, NEW t \in Tab, Mismatch(t) PROVE Fresh' /\ Screens'
<1> DEFINE new == [token |-> tokens + 1, event |-> form[t].event, config |-> form[t].config]
<1>1. tokens' = tokens + 1 /\ pending' \subseteq pending \cup {new} /\ screen' = screen
  BY DEF Mismatch, Room, Without
<1>2. new.token = tokens + 1
  OBVIOUS
<1> HIDE DEF new
<1>3. tokens \in Nat /\ (\A q \in pending : q.token \in 1 .. tokens)
      /\ \A q, r \in pending : q.token = r.token => q = r
  BY DEF Fresh
<1>4. \A q \in pending : q.token # new.token
  BY <1>2, <1>3
<1>5. Fresh'
  <2>1. tokens' \in Nat /\ \A q \in pending' : q.token \in 1 .. tokens'
    BY <1>1, <1>2, <1>3
  <2>2. \A q, r \in pending' : q.token = r.token => q = r
    BY <1>1, <1>3, <1>4
  <2> QED BY <2>1, <2>2 DEF Fresh
<1>6. \A u \in Tab : screen[u].token \in 0 .. tokens /\ \A q \in pending : q.token = screen[u].token => q = screen[u]
  BY DEF Screens
<1>7. ASSUME NEW u \in Tab
      PROVE  screen[u].token \in 0 .. tokens + 1 /\ \A q \in pending' : q.token = screen[u].token => q = screen[u]
  <2>1. screen[u].token # new.token
    BY <1>2, <1>3, <1>6
  <2> QED BY <1>1, <1>3, <1>6, <2>1
<1>8. Screens'
  BY <1>1, <1>7 DEF Screens
<1> QED BY <1>5, <1>8

(* A form that is being applied keeps the page it came from.               *)
LEMMA Holding ==
  ASSUME Forms, NEW t \in Tab, \A u \in Tab \ {t} : screen'[u] = screen[u],
         UNCHANGED form \/ \E v : form' = [form EXCEPT ![t] = v],
         /\ form'[t].step \in {"confirming", "updating"} =>
              /\ form'[t].event = screen'[t].event /\ form'[t].config = screen'[t].config
              /\ form'[t].pasted = form'[t].config.guid
  PROVE  Forms'
<1>1. form = [u \in Tab |-> form[u]]
      /\ \A u \in Tab : form[u].step \in {"confirming", "updating"} =>
           /\ form[u].event = screen[u].event /\ form[u].config = screen[u].config
           /\ form[u].pasted = form[u].config.guid
  BY DEF Forms, ShownIsApplied
<1>2. form' = [u \in Tab |-> form'[u]] /\ \A u \in Tab \ {t} : form'[u] = form[u]
  BY <1>1
<1>3. \A u \in Tab : form'[u].step \in {"confirming", "updating"} =>
           /\ form'[u].event = screen'[u].event /\ form'[u].config = screen'[u].config
           /\ form'[u].pasted = form'[u].config.guid
  BY <1>1, <1>2
<1> QED BY <1>2, <1>3 DEF Forms, ShownIsApplied

LEMMA Handling ==
  ASSUME Pages, NEW t \in Tab, TabStep(t) PROVE Pages'
<1>1. Fresh /\ Screens /\ Forms
  BY DEF Pages
<1>2. screen = [u \in Tab |-> screen[u]] /\ form = [u \in Tab |-> form[u]]
  BY <1>1 DEF Screens, Forms
<1>3. form[t].step \in {"confirming", "updating"} =>
        /\ form[t].event = screen[t].event /\ form[t].config = screen[t].config
        /\ form[t].pasted = form[t].config.guid
  BY <1>1 DEF Forms, ShownIsApplied
<1> DEFINE Right == form'[t].step \in {"confirming", "updating"} =>
              /\ form'[t].event = screen'[t].event /\ form'[t].config = screen'[t].config
              /\ form'[t].pasted = form'[t].config.guid
<1>4. ASSUME Ended(t), pending' \subseteq pending, UNCHANGED tokens,
             UNCHANGED screen \/ screen' = [screen EXCEPT ![t] = NoScreen]
      PROVE  Pages'
  <2>1. form' = [form EXCEPT ![t] = IdleForm] /\ IdleForm.step = "idle"
    BY <1>4 DEF Ended, IdleForm
  <2>2. form'[t].step = "idle" /\ \A u \in Tab \ {t} : screen'[u] = screen[u]
    BY <1>2, <1>4, <2>1
  <2>3. Forms'
    BY <1>1, <2>1, <2>2, Holding
  <2> QED BY <1>1, <1>4, <2>3, Forgetting DEF Pages
<1>5. ASSUME UNCHANGED form, form[t].step = "idle", pending' \subseteq pending, UNCHANGED tokens,
             UNCHANGED screen \/ \E q \in pending \cup {NoScreen} : screen' = [screen EXCEPT ![t] = q]
      PROVE  Pages'
  <2>1. \A u \in Tab \ {t} : screen'[u] = screen[u]
    BY <1>2, <1>5
  <2>2. Forms'
    BY <1>1, <1>5, <2>1, Holding
  <2> QED BY <1>1, <1>5, <2>2, Forgetting DEF Pages
<1>6. ASSUME UNCHANGED <<tokens, pending, screen>>, NEW v, form' = [form EXCEPT ![t] = v],
             v.step \in {"confirming", "updating"} =>
               /\ v.event = screen[t].event /\ v.config = screen[t].config /\ v.pasted = v.config.guid
      PROVE  Pages'
  <2>1. form'[t] = v
    BY <1>2, <1>6
  <2>2. Forms'
    BY <1>1, <1>6, <2>1, Holding
  <2> QED BY <1>1, <1>6, <2>2, Forgetting DEF Pages
<1>7. ASSUME NEW e, NewEvent(t, e) PROVE Pages'
  <2>1. UNCHANGED <<tokens, pending, screen>> /\ form[t].step = "idle"
    BY <1>7 DEF NewEvent, pendingVars
  <2>2. CASE UNCHANGED form
    BY <1>5, <2>1, <2>2
  <2>3. CASE ~UNCHANGED form
    <3> DEFINE v == [IdleForm EXCEPT !.step = "fetched", !.event = e, !.config = cloud[e], !.token = cookie]
    <3>1. form' = [form EXCEPT ![t] = v] /\ v.step = "fetched"
      BY <1>7, <2>3 DEF NewEvent, IdleForm
    <3> HIDE DEF v
    <3> QED BY <1>6, <2>1, <3>1
  <2> QED BY <2>2, <2>3
<1>8. ASSUME NEW step \in {"searching", "inserting"}, Goes(t, step), UNCHANGED <<tokens, pending, screen>>
      PROVE  Pages'
  <2> DEFINE v == [form[t] EXCEPT !.step = step]
  <2>1. form' = [form EXCEPT ![t] = v]
    BY <1>8 DEF Goes
  <2>2. v.step = step \/ v = form[t]
    OBVIOUS
  <2> HIDE DEF v
  <2> QED BY <1>3, <1>6, <1>8, <2>1, <2>2
<1>9. CASE LookUp(t) \/ Search(t)
  <2>1. UNCHANGED <<tokens, pending, screen>>
    BY <1>9 DEF LookUp, Search, pendingVars
  <2>2. \/ Ended(t) \/ Goes(t, "searching") \/ Goes(t, "inserting")
        \/ form[t].step = "confirming" /\ Goes(t, "updating")
    BY <1>9 DEF LookUp, Search
  <2>3. CASE form[t].step = "confirming" /\ Goes(t, "updating")
    <3> DEFINE v == [form[t] EXCEPT !.step = "updating"]
    <3>1. form' = [form EXCEPT ![t] = v]
      BY <2>3 DEF Goes
    <3>2. v.event = form[t].event /\ v.config = form[t].config /\ v.pasted = form[t].pasted
      OBVIOUS
    <3> HIDE DEF v
    <3> QED BY <1>3, <1>6, <2>1, <2>3, <3>1, <3>2
  <2> QED BY <1>4, <1>8, <2>1, <2>2, <2>3
<1>10. CASE Mismatch(t)
  <2>1. Ended(t) /\ UNCHANGED screen
    BY <1>10 DEF Mismatch
  <2>2. form' = [form EXCEPT ![t] = IdleForm] /\ IdleForm.step = "idle"
    BY <2>1 DEF Ended, IdleForm
  <2>3. form'[t].step = "idle"
    BY <1>2, <2>2
  <2>4. Forms'
    BY <1>1, <2>1, <2>2, <2>3, Holding
  <2> QED BY <1>1, <1>10, <2>4, Refusing DEF Pages
<1>11. CASE Insert(t) \/ FormFails(t)
  BY <1>4, <1>11 DEF Insert, FormFails, pendingVars
<1>12. CASE Update(t)
  <2>1. Ended(t) /\ pending' \subseteq pending /\ UNCHANGED tokens
        /\ (UNCHANGED screen \/ screen' = [screen EXCEPT ![t] = NoScreen])
    BY <1>12 DEF Update, Without
  <2> QED BY <1>4, <2>1
<1>13. CASE Cancel(t)
  BY <1>5, <1>13 DEF Cancel, Without
<1>14. CASE ShowPending(t)
  BY <1>5, <1>14 DEF ShowPending, Held
<1>15. ASSUME NEW g, Confirm(t, g) PROVE Pages'
  <2>1. UNCHANGED <<tokens, pending>> /\ form[t].step = "idle"
    BY <1>15 DEF Confirm
  <2>2. CASE UNCHANGED form
    BY <1>5, <1>15, <2>1, <2>2 DEF Confirm
  <2>3. CASE ~UNCHANGED form
    <3>1. UNCHANGED screen /\ FormIsCurrent(t) /\ \E q \in Held(cookie) :
            /\ MayReplace(q, g)
            /\ form' = [form EXCEPT ![t] = [step |-> "confirming", event |-> q.event,
                         config |-> q.config, token |-> cookie, pasted |-> g]]
      BY <1>15, <2>3 DEF Confirm
    <3>2. PICK q \in Held(cookie) :
            /\ MayReplace(q, g)
            /\ form' = [form EXCEPT ![t] = [step |-> "confirming", event |-> q.event,
                         config |-> q.config, token |-> cookie, pasted |-> g]]
      BY <3>1
    <3>3. q \in pending /\ q.token = screen[t].token
      BY <3>1 DEF Held, FormIsCurrent
    <3>4. q = screen[t] /\ g = q.config.guid
      BY <1>1, <3>2, <3>3 DEF Screens, MayReplace
    <3> DEFINE v == [step |-> "confirming", event |-> q.event, config |-> q.config, token |-> cookie, pasted |-> g]
    <3>5. v.event = q.event /\ v.config = q.config /\ v.pasted = g
      OBVIOUS
    <3>6. form' = [form EXCEPT ![t] = v]
      BY <3>2
    <3> HIDE DEF v
    <3> QED BY <1>6, <2>1, <3>1, <3>4, <3>5, <3>6
  <2> QED BY <2>2, <2>3
<1> QED
  BY <1>7, <1>9, <1>10, <1>11, <1>12, <1>13, <1>14, <1>15 DEF TabStep

LEMMA PagesHold == LooseSpec => []Pages
<1>1. Init => Pages
  <2> SUFFICES ASSUME Init PROVE Fresh /\ Screens /\ Forms
    BY DEF Pages
  <2>1. tokens = 0 /\ pending = {} /\ screen = [t \in Tab |-> NoScreen] /\ form = [t \in Tab |-> IdleForm]
    BY DEF Init
  <2>2. NoScreen.token = 0 /\ IdleForm.step = "idle"
    BY DEF NoScreen, IdleForm
  <2> QED BY <2>1, <2>2 DEF Fresh, Screens, Forms, ShownIsApplied
<1>2. Pages /\ [Next]_restVars => Pages'
  <2> SUFFICES ASSUME Pages, [Next]_restVars PROVE Pages'
    OBVIOUS
  <2>1. ASSUME UNCHANGED <<tokens, screen, form>>, pending' \subseteq pending PROVE Pages'
    <3>1. Forms'
      BY <2>1 DEF Pages, Forms, ShownIsApplied
    <3> QED BY <2>1, <3>1, Forgetting DEF Pages
  <2>2. CASE \E t \in Tab : TabStep(t)
    BY <2>2, Handling
  <2>3. CASE PageStep
    BY <2>1, <2>3 DEF PageStep, pendingVars
  <2>4. CASE (\E c \in Config : Export(c)) \/ Expire
    BY <2>1, <2>4 DEF Export, Expire, pendingVars
  <2>5. CASE Restart
    <3>1. pending' = {} /\ form' = [t \in Tab |-> IdleForm] /\ UNCHANGED <<tokens, screen>>
      BY <2>5 DEF Restart
    <3>2. IdleForm.step = "idle"
      BY DEF IdleForm
    <3>3. Forms'
      BY <3>1, <3>2 DEF Forms, ShownIsApplied
    <3> QED BY <3>1, <3>3, Forgetting DEF Pages
  <2>6. CASE UNCHANGED restVars
    BY <2>1, <2>6 DEF restVars
  <2> QED BY <2>2, <2>3, <2>4, <2>5, <2>6, Acting
<1> QED BY <1>1, <1>2, PTL DEF LooseSpec

LEMMA PagesAlways == LooseSpec => []ShownIsApplied
<1>1. Pages => ShownIsApplied
  BY DEF Pages, Forms
<1> QED BY <1>1, PagesHold, PTL

(* What replaces the configuration of an event is what the operator's page *)
(* showed, under the GUID the operator pasted.                             *)
THEOREM AppliedAsShown == Spec => []ShownIsApplied
BY Loosely, PagesAlways, PTL

(* The requests for the page of an event: what each step makes of the      *)
(* request, and of the rows.                                               *)
PageActs(p) ==
  \/ \E e \in Event : Details(p, e) \/ \E m \in Entries(e), test \in BOOLEAN : Post(p, e, m, test)
  \/ ReadRows(p) \/ EnsureRows(p) \/ Validate(p) \/ Save(p) \/ PickTargets(p) \/ PageFails(p)
  \/ \E l \in Led, f \in Folder : RecordTest(p, l, f)

IsPage(x) == x = [step |-> x.step, event |-> x.event, leds |-> x.leds, entries |-> x.entries,
                  test |-> x.test, seen |-> x.seen, targets |-> x.targets]

Steps == {"idle", "opening", "ensuring", "posted", "saving", "picking", "testing"}

PagesKnown == page = [p \in Page |-> page[p]] /\ \A p \in Page : IsPage(page[p]) /\ page[p].step \in Steps

(* A request has begun, or goes on.                                        *)
Begun(y) ==
  /\ y.step \in {"opening", "posted"} /\ y.event \in Registered
  /\ y.leds = leds[y.event] /\ y.seen = NoRows
  /\ y.entries = << >> \/ y.entries \in Entries(y.event)

GoneOn(x, y) ==
  /\ y.event = x.event /\ y.leds = x.leds /\ y.entries = x.entries
  /\ \/ x.step \in {"saving", "picking", "testing"} /\ y.step \in {"picking", "testing"} /\ y.seen = x.seen
     \/ x.step = "opening" /\ y.step = "ensuring" /\ y.seen = Rows(x.event)
     \/ /\ x.step = "posted" /\ y.step = "saving" /\ y.seen = Rows(x.event)
        /\ Acceptable(y.entries, y.seen)

Outcome(x, y) ==
  /\ IsPage(y)
  /\ \/ y.step = "idle"
     \/ x.step = "idle" /\ Begun(y)
     \/ GoneOn(x, y)

LEMMA NewPage ==
  /\ IsPage(IdlePage) /\ IdlePage.step = "idle" /\ IdlePage.entries = << >> /\ IdlePage.seen = NoRows
  /\ NoRows.made = {} /\ NoRows.shown = {} /\ DOMAIN << >> = {}
BY DEF IdlePage, NoRows, IsPage

LEMMA Paging ==
  ASSUME PagesKnown, NEW p \in Page, PageActs(p)
  PROVE  \E y : page' = [page EXCEPT ![p] = y] /\ Outcome(page[p], y)
<1> PICK x : x = page[p]
  OBVIOUS
<1>1. IsPage(x) /\ x.step \in Steps /\ page = [q \in Page |-> page[q]]
  BY DEF PagesKnown
<1> SUFFICES \E y : page' = [page EXCEPT ![p] = y] /\ Outcome(x, y)
  OBVIOUS
<1>2. Outcome(x, IdlePage)
  BY NewPage DEF Outcome
<1>3. Finished(p) => \E y : page' = [page EXCEPT ![p] = y] /\ Outcome(x, y)
  BY <1>2 DEF Finished
<1>4. ASSUME NEW e \in Event, Details(p, e) PROVE \E y : page' = [page EXCEPT ![p] = y] /\ Outcome(x, y)
  <2> PICK y : y = [IdlePage EXCEPT !.step = "opening", !.event = e, !.leds = Structure(e)]
    OBVIOUS
  <2>1. IsPage(y) /\ y.step = "opening" /\ y.event = e /\ y.leds = leds[e] /\ y.entries = << >> /\ y.seen = NoRows
    BY DEF IsPage, IdlePage, Structure
  <2>2. page' = [page EXCEPT ![p] = y] /\ x.step = "idle" /\ e \in Registered
    BY <1>4 DEF Details
  <2> QED BY <2>1, <2>2 DEF Outcome, Begun
<1>5. ASSUME NEW e \in Event, NEW m \in Entries(e), NEW test \in BOOLEAN, Post(p, e, m, test)
      PROVE  \E y : page' = [page EXCEPT ![p] = y] /\ Outcome(x, y)
  <2> PICK y : y = [IdlePage EXCEPT !.step = "posted", !.event = e, !.leds = Structure(e),
                                    !.entries = m, !.test = test]
    OBVIOUS
  <2>1. IsPage(y) /\ y.step = "posted" /\ y.event = e /\ y.leds = leds[e] /\ y.entries = m /\ y.seen = NoRows
    BY DEF IsPage, IdlePage, Structure
  <2>2. page' = [page EXCEPT ![p] = y] /\ x.step = "idle" /\ e \in Registered
    BY <1>5 DEF Post
  <2> QED BY <2>1, <2>2 DEF Outcome, Begun
<1>6. CASE ReadRows(p)
  <2> PICK y : y = [[x EXCEPT !.step = "ensuring"] EXCEPT !.seen = Rows(x.event)]
    OBVIOUS
  <2>1. /\ IsPage(y) /\ y.step = "ensuring" /\ y.seen = Rows(x.event)
        /\ y.event = x.event /\ y.leds = x.leds /\ y.entries = x.entries
    BY <1>1 DEF IsPage
  <2>2. page' = [page EXCEPT ![p] = y] /\ x.step = "opening"
    BY <1>1, <1>6 DEF ReadRows
  <2> QED BY <2>1, <2>2 DEF Outcome, GoneOn
<1>7. CASE Validate(p)
  <2> PICK y : y = [[x EXCEPT !.step = "saving"] EXCEPT !.seen = Rows(x.event)]
    OBVIOUS
  <2>1. /\ IsPage(y) /\ y.step = "saving" /\ y.seen = Rows(x.event)
        /\ y.event = x.event /\ y.leds = x.leds /\ y.entries = x.entries
    BY <1>1 DEF IsPage
  <2>2. x.step = "posted"
    BY <1>7 DEF Validate
  <2>3. CASE Acceptable(x.entries, Rows(x.event))
    <3>1. page' = [page EXCEPT ![p] = y]
      BY <1>1, <1>7, <2>3 DEF Validate
    <3> QED BY <2>1, <2>2, <2>3, <3>1 DEF Outcome, GoneOn
  <2>4. CASE ~Acceptable(x.entries, Rows(x.event))
    BY <1>3, <1>7, <2>4 DEF Validate
  <2> QED BY <2>3, <2>4
<1>8. CASE Save(p)
  <2> PICK y : y = [x EXCEPT !.step = "picking"]
    OBVIOUS
  <2>1. /\ IsPage(y) /\ y.step = "picking" /\ y.seen = x.seen
        /\ y.event = x.event /\ y.leds = x.leds /\ y.entries = x.entries
    BY <1>1 DEF IsPage
  <2>2. x.step = "saving" /\ (page' = [page EXCEPT ![p] = y] \/ Finished(p))
    BY <1>1, <1>8 DEF Save
  <2>3. Outcome(x, y)
    BY <2>1, <2>2 DEF Outcome, GoneOn
  <2> QED BY <1>3, <2>2, <2>3
<1>9. CASE PickTargets(p)
  <2>1. CASE Finished(p)
    BY <1>3, <2>1
  <2>2. CASE ~Finished(p)
    <3>1. PICK targets : page' = [page EXCEPT ![p].step = "testing", ![p].targets = targets]
      BY <1>9, <2>2 DEF PickTargets
    <3> PICK y : y = [[x EXCEPT !.step = "testing"] EXCEPT !.targets = targets]
      OBVIOUS
    <3>2. /\ IsPage(y) /\ y.step = "testing" /\ y.seen = x.seen
          /\ y.event = x.event /\ y.leds = x.leds /\ y.entries = x.entries
      BY <1>1 DEF IsPage
    <3>3. page' = [page EXCEPT ![p] = y] /\ x.step = "picking"
      BY <1>1, <1>9, <3>1 DEF PickTargets
    <3> QED BY <3>2, <3>3 DEF Outcome, GoneOn
  <2> QED BY <2>1, <2>2
<1>10. ASSUME NEW l \in Led, NEW f \in Folder, RecordTest(p, l, f)
       PROVE  \E y : page' = [page EXCEPT ![p] = y] /\ Outcome(x, y)
  <2> PICK y : y = [x EXCEPT !.targets = @ \ {<<l, f>>}]
    OBVIOUS
  <2>1. /\ IsPage(y) /\ y.step = x.step /\ y.seen = x.seen
        /\ y.event = x.event /\ y.leds = x.leds /\ y.entries = x.entries
    BY <1>1 DEF IsPage
  <2>2. x.step = "testing" /\ (page' = [page EXCEPT ![p] = y] \/ Finished(p))
    BY <1>1, <1>10 DEF RecordTest
  <2>3. Outcome(x, y)
    BY <2>1, <2>2 DEF Outcome, GoneOn
  <2> QED BY <1>3, <2>2, <2>3
<1>11. CASE EnsureRows(p) \/ PageFails(p)
  BY <1>3, <1>11 DEF EnsureRows, PageFails
<1> QED BY <1>4, <1>5, <1>6, <1>7, <1>8, <1>9, <1>10, <1>11 DEF PageActs

(* The rows: a LED without one has no folder.                              *)
RowsKnown ==
  /\ shown \subseteq made /\ made \subseteq Led /\ folder \in [Led -> Value]
  /\ \A l \in Led \ made : folder[l] = NoFolder

(* What a request may have read of the rows, which are never deleted.      *)
SeenOf(e, seen) == seen.shown \subseteq seen.made /\ seen.made \subseteq made \cap LedsOf(e)

OneFolder(e) ==
  \A k, l \in shown \cap LedsOf(e) : folder[k] = folder[l] /\ folder[l] # NoFolder => k = l

Follows(e) == guid[e] # NoGuid => shown \cap LedsOf(e) = leds[e]

(* Nothing that these say of an event changes.                             *)
SameEvent(e) ==
  /\ guid'[e] = guid[e] /\ leds'[e] = leds[e]
  /\ made' \cap LedsOf(e) = made \cap LedsOf(e) /\ shown' \cap LedsOf(e) = shown \cap LedsOf(e)
  /\ \A l \in LedsOf(e) : folder'[l] = folder[l]

LEMMA ReadsRows ==
  ASSUME NEW e
  PROVE  /\ Rows(e).made = made \cap LedsOf(e) /\ Rows(e).shown = shown \cap LedsOf(e)
         /\ \A l \in LedsOf(e) : Rows(e).folder[l] = folder[l]
         /\ RowsKnown => SeenOf(e, Rows(e))
BY DEF Rows, RowsKnown, SeenOf

LEMMA StaysSame ==
  ASSUME NEW e, SameEvent(e)
  PROVE  /\ Rows(e)' = Rows(e) /\ (OneFolder(e) => OneFolder(e)') /\ (Follows(e) => Follows(e)')
<1>1. [l \in LedsOf(e) |-> folder'[l]] = [l \in LedsOf(e) |-> folder[l]]
  BY DEF SameEvent
<1>2. Rows(e)' = Rows(e)
  BY <1>1 DEF SameEvent, Rows, LedsOf
<1>3. OneFolder(e) => OneFolder(e)'
  BY DEF SameEvent, OneFolder, LedsOf
<1> QED BY <1>2, <1>3 DEF SameEvent, Follows, LedsOf

LEMMA OfOneEvent ==
  ASSUME NEW d, NEW e, d # e PROVE LedsOf(d) \cap LedsOf(e) = {}
BY DEF LedsOf

(* Reconciling touches the rows of one event, and adds to them.            *)
LEMMA ReconcilesOne ==
  ASSUME RowsKnown, NEW e, NEW wanted \in SUBSET LedsOf(e), NEW seen, SeenOf(e, seen), NEW reset,
         Reconcile(wanted, seen, reset)
  PROVE  /\ RowsKnown' /\ made \subseteq made'
         /\ \A d : d # e => /\ made' \cap LedsOf(d) = made \cap LedsOf(d)
                           /\ shown' \cap LedsOf(d) = shown \cap LedsOf(d)
                           /\ \A l \in LedsOf(d) : folder'[l] = folder[l]
<1> DEFINE lost == {l \in wanted : Loses(l, wanted, seen)}
<1>1. /\ made' = made \cup wanted
      /\ shown' = (shown \ (seen.made \ wanted)) \cup wanted
      /\ folder' = [l \in Led |-> IF l \in lost THEN NoFolder ELSE folder[l]]
      /\ lost \subseteq wanted
  BY DEF Reconcile
<1> HIDE DEF lost
<1>2. LedsOf(e) \subseteq Led
  BY DEF LedsOf
<1>3. RowsKnown'
  BY <1>1, <1>2 DEF RowsKnown, Value
<1>4. ASSUME NEW d, d # e
      PROVE  /\ made' \cap LedsOf(d) = made \cap LedsOf(d)
             /\ shown' \cap LedsOf(d) = shown \cap LedsOf(d)
             /\ \A l \in LedsOf(d) : folder'[l] = folder[l]
  <2>1. LedsOf(d) \cap LedsOf(e) = {} /\ LedsOf(d) \subseteq Led
    BY <1>4, OfOneEvent DEF LedsOf
  <2> QED BY <1>1, <2>1 DEF SeenOf, RowsKnown
<1> QED BY <1>1, <1>3, <1>4

(* With the rows as they are, it enables exactly what is wanted, leaves no *)
(* folder twice, and takes one only from a hidden LED that finds it used.  *)
LEMMA ReconcilesRight ==
  ASSUME RowsKnown, NEW e, NEW wanted \in SUBSET LedsOf(e), NEW seen, seen = Rows(e), NEW reset,
         Reconcile(wanted, seen, reset)
  PROVE  /\ shown' \cap LedsOf(e) = wanted
         /\ OneFolder(e) => OneFolder(e)'
         /\ \A l \in Led : folder'[l] # folder[l] =>
              l \notin shown /\ \E k \in made \ {l} : EventOf[k] = EventOf[l] /\ folder[k] = folder[l]
<1> DEFINE lost == {l \in wanted : Loses(l, wanted, seen)}
<1>1. /\ made' = made \cup wanted
      /\ shown' = (shown \ (seen.made \ wanted)) \cup wanted
      /\ folder' = [l \in Led |-> IF l \in lost THEN NoFolder ELSE folder[l]]
  BY DEF Reconcile
<1>2. /\ seen.made = made \cap LedsOf(e) /\ seen.shown = shown \cap LedsOf(e)
      /\ \A l \in LedsOf(e) : seen.folder[l] = folder[l]
  BY ReadsRows
<1>3. LedsOf(e) \subseteq Led /\ \A l \in LedsOf(e) : EventOf[l] = e
  BY DEF LedsOf
<1>4. \A l \in lost :
        /\ l \in wanted /\ l \in made /\ l \notin shown
        /\ \E k \in (wanted \cap made) \ {l} : folder[k] = folder[l]
  BY <1>2, <1>3 DEF Loses
<1>5. ASSUME NEW l \in wanted, NEW k \in wanted, l \in made, k \in made, k # l, l \notin shown,
             folder[l] # NoFolder, folder[k] = folder[l], k \in shown \/ Rank[k] < Rank[l]
      PROVE  l \in lost
  BY <1>2, <1>3, <1>5 DEF Loses
<1> HIDE DEF lost
<1>6. shown' \cap LedsOf(e) = wanted
  BY <1>1, <1>2 DEF RowsKnown
<1>7. ASSUME OneFolder(e), NEW k \in wanted, NEW l \in wanted,
             folder'[k] = folder'[l], folder'[l] # NoFolder, k # l
      PROVE  FALSE
  <2>1. k \in Led /\ l \in Led /\ k \in LedsOf(e) /\ l \in LedsOf(e)
    BY <1>3
  <2>2. k \notin lost /\ l \notin lost /\ folder[k] = folder[l] /\ folder[l] # NoFolder
    BY <1>1, <1>7, <2>1
  <2>3. k \in made /\ l \in made
    BY <2>1, <2>2 DEF RowsKnown
  <2>4. ~(k \in shown /\ l \in shown)
    BY <1>7, <2>1, <2>2 DEF OneFolder
  <2>5. Rank[k] \in Nat /\ Rank[l] \in Nat /\ Rank[k] # Rank[l]
    BY <1>7, <2>1, MappingsAssumption
  <2>6. Rank[k] < Rank[l] \/ Rank[l] < Rank[k]
    BY <2>5
  <2> QED BY <1>5, <1>7, <2>2, <2>3, <2>4, <2>6
<1>8. OneFolder(e) => OneFolder(e)'
  <2> SUFFICES ASSUME OneFolder(e), NEW k \in wanted, NEW l \in wanted,
                      folder'[k] = folder'[l], folder'[l] # NoFolder
               PROVE  k = l
    BY <1>6 DEF OneFolder, LedsOf
  <2> QED BY <1>7
<1>9. ASSUME NEW l \in Led, folder'[l] # folder[l]
      PROVE  l \notin shown /\ \E k \in made \ {l} : EventOf[k] = EventOf[l] /\ folder[k] = folder[l]
  <2>1. l \in lost
    BY <1>1, <1>9
  <2> QED BY <1>3, <1>4, <2>1
<1> QED BY <1>6, <1>8, <1>9

(* Saving touches the rows of the page's event, and adds to them.          *)
SavedAs(entries, seen, changed) ==
  LET new == DOMAIN entries \ seen.shown
  IN /\ new \subseteq changed /\ changed \subseteq DOMAIN entries
     /\ made' = made \cup new /\ shown' = shown \cup new
     /\ folder' = [l \in Led |-> folder'[l]]
     /\ \A l \in Led : folder'[l] = IF l \in changed THEN entries[l] ELSE folder[l]

LEMMA SavesOne ==
  ASSUME RowsKnown, NEW e, NEW entries, DOMAIN entries \subseteq LedsOf(e),
         \A l \in DOMAIN entries : entries[l] \in Value,
         NEW seen, SeenOf(e, seen), NEW changed, SavedAs(entries, seen, changed)
  PROVE  /\ RowsKnown' /\ made \subseteq made'
         /\ \A d : d # e => /\ made' \cap LedsOf(d) = made \cap LedsOf(d)
                           /\ shown' \cap LedsOf(d) = shown \cap LedsOf(d)
                           /\ \A l \in LedsOf(d) : folder'[l] = folder[l]
<1>1. LedsOf(e) \subseteq Led
  BY DEF LedsOf
<1> DEFINE new == DOMAIN entries \ seen.shown
<1>2. /\ new \subseteq changed /\ changed \subseteq DOMAIN entries
      /\ made' = made \cup new /\ shown' = shown \cup new
      /\ folder' = [l \in Led |-> folder'[l]]
      /\ \A l \in Led : folder'[l] = IF l \in changed THEN entries[l] ELSE folder[l]
  BY DEF SavedAs
<1>3. changed \subseteq made'
  BY <1>2 DEF SeenOf, RowsKnown
<1>4. folder' \in [Led -> Value] /\ \A l \in Led : folder'[l] = IF l \in changed THEN entries[l] ELSE folder[l]
  BY <1>2 DEF RowsKnown, Value
<1>5. \A l \in Led \ made' : folder'[l] = NoFolder
  BY <1>2, <1>3, <1>4 DEF RowsKnown
<1>6. shown' \subseteq made' /\ made' \subseteq Led
  BY <1>1, <1>2, <1>3 DEF RowsKnown
<1>7. RowsKnown'
  BY <1>4, <1>5, <1>6 DEF RowsKnown, Value
<1>8. ASSUME NEW d, d # e
      PROVE  /\ made' \cap LedsOf(d) = made \cap LedsOf(d)
             /\ shown' \cap LedsOf(d) = shown \cap LedsOf(d)
             /\ \A l \in LedsOf(d) : folder'[l] = folder[l]
  <2>1. LedsOf(d) \cap LedsOf(e) = {} /\ LedsOf(d) \subseteq Led
    BY <1>8, OfOneEvent DEF LedsOf
  <2> QED BY <1>2, <1>4, <2>1
<1> QED BY <1>2, <1>7, <1>8

(* With the rows as they were validated, and those of the structure, no    *)
(* LED is added and no folder is there twice.                              *)
LEMMA SavesRight ==
  ASSUME RowsKnown, NEW e, NEW entries, DOMAIN entries \subseteq LedsOf(e),
         DOMAIN entries \subseteq shown, OneFolder(e),
         NEW seen, seen = Rows(e), Acceptable(entries, seen),
         shown' = shown \cup (DOMAIN entries \ seen.shown),
         NEW changed, changed = {l \in DOMAIN entries : l \in (DOMAIN entries \ seen.shown)
                                                        \/ entries[l] # seen.folder[l]},
         folder' = [l \in Led |-> folder'[l]],
         \A l \in Led : folder'[l] = IF l \in changed THEN entries[l] ELSE folder[l]
  PROVE  shown' = shown /\ OneFolder(e)'
<1>1. seen.shown = shown \cap LedsOf(e) /\ \A l \in LedsOf(e) : seen.folder[l] = folder[l]
  BY ReadsRows
<1>2. shown' = shown
  BY <1>1
<1>3. LedsOf(e) \subseteq Led
  BY DEF LedsOf
<1>4. \A l \in LedsOf(e) : folder'[l] = IF l \in DOMAIN entries THEN entries[l] ELSE folder[l]
  BY <1>1, <1>3
<1>5. ASSUME NEW k \in shown \cap LedsOf(e), NEW l \in shown \cap LedsOf(e),
             folder'[k] = folder'[l], folder'[l] # NoFolder
      PROVE  k = l
  <2>1. CASE k \in DOMAIN entries /\ l \in DOMAIN entries
    BY <1>4, <1>5, <2>1 DEF Acceptable
  <2>2. CASE k \notin DOMAIN entries /\ l \in DOMAIN entries
    BY <1>1, <1>4, <1>5, <2>2 DEF Acceptable
  <2>3. CASE k \in DOMAIN entries /\ l \notin DOMAIN entries
    BY <1>1, <1>4, <1>5, <2>3 DEF Acceptable
  <2>4. CASE k \notin DOMAIN entries /\ l \notin DOMAIN entries
    BY <1>4, <1>5, <2>4 DEF OneFolder
  <2> QED BY <2>1, <2>2, <2>3, <2>4
<1>6. OneFolder(e)'
  BY <1>2, <1>5 DEF OneFolder, LedsOf
<1> QED BY <1>2, <1>6

(* The requests to register and to re-register, in the same way.           *)
IsRequest(x) == x = [step |-> x.step, event |-> x.event, config |-> x.config, token |-> x.token,
                     pasted |-> x.pasted]

FormsKnown == form = [t \in Tab |-> form[t]] /\ \A t \in Tab : IsRequest(form[t])

Answer(x, y) ==
  \/ y.step = "idle"
  \/ y = x
  \/ /\ y.step = "fetched" /\ y.event \in Event /\ y.config = cloud[y.event]
     /\ Parses(y.config) /\ IsAtItsPlace(y.event, y.config)
  \/ y.step = "confirming" /\ \E q \in Held(cookie) : y.event = q.event /\ y.config = q.config
  \/ /\ y.event = x.event /\ y.config = x.config
     /\ \/ x.step = "fetched" /\ x.config.event = x.event /\ y.step = "searching"
        \/ x.step = "searching" /\ y.step = "inserting"
        \/ x.step = "confirming" /\ y.step = "updating"

LEMMA ItsFile ==
  ASSUME NEW t, RowSays(t) \in {"free", "mismatch"}
  PROVE  form[t].config.event = form[t].event
<1>1. ~IsItsFile(t) => RowSays(t) = "refused"
  BY DEF RowSays
<1> QED BY <1>1 DEF IsItsFile

LEMMA Tabbing ==
  ASSUME FormsKnown, NEW t \in Tab, TabStep(t)
  PROVE  \E y : form' = [form EXCEPT ![t] = y] /\ IsRequest(y) /\ Answer(form[t], y)
<1> PICK x : x = form[t]
  OBVIOUS
<1>1. IsRequest(x) /\ form = [u \in Tab |-> form[u]]
  BY DEF FormsKnown
<1> SUFFICES \E y : form' = [form EXCEPT ![t] = y] /\ IsRequest(y) /\ Answer(x, y)
  OBVIOUS
<1>2. Ended(t) => \E y : form' = [form EXCEPT ![t] = y] /\ IsRequest(y) /\ Answer(x, y)
  <2>1. IsRequest(IdleForm) /\ IdleForm.step = "idle"
    BY DEF IsRequest, IdleForm
  <2> QED BY <2>1 DEF Ended, Answer
<1>3. UNCHANGED form => \E y : form' = [form EXCEPT ![t] = y] /\ IsRequest(y) /\ Answer(x, y)
  <2>1. form = [form EXCEPT ![t] = x]
    BY <1>1
  <2> QED BY <1>1, <2>1 DEF Answer
<1>4. ASSUME NEW step, Goes(t, step),
             \/ x.step = "fetched" /\ x.config.event = x.event /\ step = "searching"
             \/ x.step = "searching" /\ step = "inserting"
             \/ x.step = "confirming" /\ step = "updating"
      PROVE  \E y : form' = [form EXCEPT ![t] = y] /\ IsRequest(y) /\ Answer(x, y)
  <2> PICK y : y = [x EXCEPT !.step = step]
    OBVIOUS
  <2>1. IsRequest(y) /\ y.step = step /\ y.event = x.event /\ y.config = x.config
    BY <1>1 DEF IsRequest
  <2>2. form' = [form EXCEPT ![t] = y]
    BY <1>1, <1>4 DEF Goes
  <2> QED BY <1>4, <2>1, <2>2 DEF Answer
<1>5. ASSUME NEW e \in Event, NewEvent(t, e)
      PROVE  \E y : form' = [form EXCEPT ![t] = y] /\ IsRequest(y) /\ Answer(x, y)
  <2> PICK y : y = [IdleForm EXCEPT !.step = "fetched", !.event = e, !.config = cloud[e], !.token = cookie]
    OBVIOUS
  <2>1. IsRequest(y) /\ y.step = "fetched" /\ y.event = e /\ y.config = cloud[e]
    BY DEF IsRequest, IdleForm
  <2>2. \/ UNCHANGED form
        \/ form' = [form EXCEPT ![t] = y] /\ Parses(cloud[e]) /\ IsAtItsPlace(e, cloud[e])
    BY <1>5 DEF NewEvent
  <2> QED BY <1>3, <2>1, <2>2 DEF Answer
<1>6. ASSUME NEW g, Confirm(t, g)
      PROVE  \E y : form' = [form EXCEPT ![t] = y] /\ IsRequest(y) /\ Answer(x, y)
  <2>1. CASE UNCHANGED form
    BY <1>3, <2>1
  <2>2. CASE ~UNCHANGED form
    <3>1. PICK q \in Held(cookie) :
            form' = [form EXCEPT ![t] = [step |-> "confirming", event |-> q.event,
                       config |-> q.config, token |-> cookie, pasted |-> g]]
      BY <1>6, <2>2 DEF Confirm
    <3> PICK y : y = [step |-> "confirming", event |-> q.event, config |-> q.config, token |-> cookie, pasted |-> g]
      OBVIOUS
    <3>2. IsRequest(y) /\ y.step = "confirming" /\ y.event = q.event /\ y.config = q.config
      BY DEF IsRequest
    <3> QED BY <3>1, <3>2 DEF Answer
  <2> QED BY <2>1, <2>2
<1>7. CASE LookUp(t)
  <2>1. \/ Ended(t)
        \/ x.step = "fetched" /\ RowSays(t) = "free" /\ Goes(t, "searching")
    BY <1>7 DEF LookUp
  <2> QED BY <1>2, <1>4, <2>1, ItsFile
<1>10. CASE Search(t)
  <2>1. \/ Ended(t)
        \/ x.step = "searching" /\ Goes(t, "inserting")
        \/ x.step = "confirming" /\ Goes(t, "updating")
    BY <1>10 DEF Search
  <2> QED BY <1>2, <1>4, <2>1
<1>8. CASE Mismatch(t) \/ Insert(t) \/ Update(t) \/ FormFails(t)
  BY <1>2, <1>8 DEF Mismatch, Insert, Update, FormFails
<1>9. CASE ShowPending(t) \/ Cancel(t)
  BY <1>3, <1>9 DEF ShowPending, Cancel
<1> QED BY <1>5, <1>6, <1>7, <1>8, <1>9, <1>10 DEF TabStep

(* What is known of every request, row and file, whatever has crossed.     *)
PageTyped(x) ==
  x.step # "idle" =>
    /\ x.event \in Registered /\ x.leds \subseteq LedsOf(x.event)
    /\ DOMAIN x.entries \subseteq LedsOf(x.event) /\ \A l \in DOMAIN x.entries : x.entries[l] \in Value
    /\ SeenOf(x.event, x.seen)

FormTyped(x) ==
  /\ x.step \in {"idle", "fetched", "searching", "inserting", "confirming", "updating"}
  /\ x.step # "idle" => x.event \in Event /\ x.config \in Config
  /\ x.step \notin {"idle", "fetched"} => x.config.event = x.event

EventsKnown ==
  /\ guid \in [Event -> Guid \cup {NoGuid}] /\ leds \in [Event -> SUBSET Led]
  /\ \A e \in Event : leds[e] \subseteq LedsOf(e)
  /\ \A e \in Event : guid[e] = NoGuid => made \cap LedsOf(e) = {}

FilesKnown ==
  /\ cloud \in [Event -> Config]
  /\ \A q \in pending : q.event \in Event /\ q.config \in Config /\ q.config.event = q.event

Known ==
  /\ PagesKnown /\ FormsKnown /\ RowsKnown /\ EventsKnown /\ FilesKnown
  /\ \A p \in Page : PageTyped(page[p])
  /\ \A t \in Tab : FormTyped(form[t])

LEMMA PageStaysTyped ==
  ASSUME NEW x, PageTyped(x), Registered \subseteq Registered', made \subseteq made' PROVE PageTyped(x)'
<1>1. SeenOf(x.event, x.seen) => SeenOf(x.event, x.seen)'
  BY DEF SeenOf, LedsOf
<1> QED BY <1>1 DEF PageTyped, LedsOf, Value

LEMMA PageGoesTyped ==
  ASSUME NEW x, NEW y, PageTyped(x), Outcome(x, y), x.step \in Steps, RowsKnown, EventsKnown
  PROVE  PageTyped(y) /\ y.step \in Steps
<1>1. CASE y.step = "idle"
  BY <1>1 DEF PageTyped, Steps
<1>2. CASE x.step = "idle" /\ Begun(y)
  <2>1. y.event \in Event /\ y.event \in Registered /\ y.step \in {"opening", "posted"}
    BY <1>2 DEF Begun, Registered
  <2>2. y.leds \subseteq LedsOf(y.event)
    BY <1>2, <2>1 DEF Begun, EventsKnown
  <2>3. DOMAIN y.entries \subseteq LedsOf(y.event) /\ \A l \in DOMAIN y.entries : y.entries[l] \in Value
    <3>1. CASE y.entries = << >>
      BY <3>1, NewPage
    <3>2. CASE y.entries # << >>
      <4>1. PICK S \in SUBSET leds[y.event] : y.entries \in [S -> Value]
        BY <1>2, <3>2 DEF Begun, Entries
      <4> QED BY <1>2, <2>2, <4>1 DEF Begun
    <3> QED BY <3>1, <3>2
  <2>4. SeenOf(y.event, y.seen)
    BY <1>2, NewPage DEF Begun, SeenOf
  <2> QED BY <2>1, <2>2, <2>3, <2>4 DEF PageTyped, Steps
<1>3. CASE GoneOn(x, y)
  <2>1. x.step # "idle" /\ y.step \in Steps /\ y.event = x.event /\ y.leds = x.leds /\ y.entries = x.entries
    BY <1>3 DEF GoneOn, Steps
  <2>2. SeenOf(y.event, y.seen)
    BY <1>3, <2>1, ReadsRows DEF GoneOn, PageTyped
  <2> QED BY <2>1, <2>2 DEF PageTyped
<1> QED BY <1>1, <1>2, <1>3 DEF Outcome

LEMMA FormGoesTyped ==
  ASSUME NEW x, NEW y, FormTyped(x), Answer(x, y), FilesKnown PROVE FormTyped(y)
<1>1. CASE y.step = "idle" \/ y = x
  BY <1>1 DEF FormTyped
<1>2. CASE y.step = "fetched" /\ y.event \in Event /\ y.config = cloud[y.event]
  BY <1>2 DEF FormTyped, FilesKnown
<1>3. CASE y.step = "confirming" /\ \E q \in Held(cookie) : y.event = q.event /\ y.config = q.config
  BY <1>3 DEF FormTyped, FilesKnown, Held
<1>4. CASE /\ y.event = x.event /\ y.config = x.config
           /\ \/ x.step = "fetched" /\ x.config.event = x.event /\ y.step = "searching"
              \/ x.step = "searching" /\ y.step = "inserting"
              \/ x.step = "confirming" /\ y.step = "updating"
  BY <1>4 DEF FormTyped
<1> QED BY <1>1, <1>2, <1>3, <1>4 DEF Answer

(* What a page knows of an event about which no requests have crossed.     *)
PageCurrent(x) ==
  x.step # "idle" /\ x.event \notin crossed =>
    /\ x.leds = leds[x.event] /\ DOMAIN x.entries \subseteq leds[x.event]
    /\ x.step \in {"ensuring", "saving"} => x.seen = Rows(x.event)
    /\ x.step = "saving" => Acceptable(x.entries, x.seen)

EventRight(e) == e \notin crossed => OneFolder(e) /\ Follows(e)

(* A folder is given up by a save, or by a hidden LED that finds it taken. *)
GivesUp(l) ==
  \/ \E p \in Page : page[p].step = "saving" /\ l \in DOMAIN page[p].entries
  \/ l \notin shown /\ \E k \in made \ {l} : EventOf[k] = EventOf[l] /\ folder[k] = folder[l]

Kept(e) == \A l \in LedsOf(e) : folder'[l] # folder[l] => GivesUp(l)

(* A step that writes, does so about one event, which it leaves right when *)
(* it was, and the request was current.                                    *)
Unwritten == UNCHANGED <<guid, leds, made, shown, folder>>

WritesOf(e, current) ==
  /\ RowsKnown' /\ EventsKnown' /\ made \subseteq made' /\ Registered \subseteq Registered'
  /\ \A d \in Event : d # e => SameEvent(d)
  /\ current /\ OneFolder(e) /\ Follows(e) => OneFolder(e)' /\ Follows(e)' /\ Kept(e)

LEMMA Unwriting ==
  ASSUME RowsKnown, EventsKnown, Unwritten, NEW e, NEW current PROVE WritesOf(e, current)
<1>1. RowsKnown' /\ EventsKnown'
  BY DEF Unwritten, RowsKnown, EventsKnown, LedsOf, Value
<1>2. made \subseteq made' /\ Registered \subseteq Registered'
  BY DEF Unwritten, Registered
<1>3. \A d : SameEvent(d)
  BY DEF Unwritten, SameEvent
<1>4. Kept(e)
  BY DEF Unwritten, Kept
<1> QED BY <1>1, <1>2, <1>3, <1>4, StaysSame DEF WritesOf

(* Reconciling and saving, as such steps.                                  *)
LEMMA EventStays ==
  ASSUME EventsKnown, UNCHANGED eventVars, NEW e \in Event, guid[e] # NoGuid,
         \A d \in Event : d # e => made' \cap LedsOf(d) = made \cap LedsOf(d)
  PROVE  EventsKnown' /\ Registered' = Registered
<1>1. \A d \in Event : guid'[d] = NoGuid => made' \cap LedsOf(d) = {}
  BY DEF EventsKnown, eventVars
<1> QED BY <1>1 DEF EventsKnown, eventVars, Registered, LedsOf

LEMMA Ensures ==
  ASSUME Known, NEW p \in Page, EnsureRows(p), NEW x, x = page[p],
         NEW current, current = (x.event \notin crossed /\ PageCurrent(x))
  PROVE  WritesOf(x.event, current)
<1> PICK e : e = x.event
  OBVIOUS
<1>1. x.step = "ensuring" /\ UNCHANGED eventVars
  BY DEF EnsureRows
<1>2. RowsKnown /\ EventsKnown /\ e \in Registered /\ x.leds \in SUBSET LedsOf(e) /\ SeenOf(e, x.seen)
  BY <1>1 DEF Known, PageTyped
<1>3. e \in Event /\ guid[e] # NoGuid
  BY <1>2 DEF Registered
<1>4. CASE UNCHANGED rowVars
  BY <1>1, <1>2, <1>4, Unwriting DEF Unwritten, eventVars, rowVars
<1>5. CASE Reconcile(x.leds, x.seen, FALSE)
  <2>1. /\ RowsKnown' /\ made \subseteq made'
        /\ \A d : d # e => /\ made' \cap LedsOf(d) = made \cap LedsOf(d)
                          /\ shown' \cap LedsOf(d) = shown \cap LedsOf(d)
                          /\ \A l \in LedsOf(d) : folder'[l] = folder[l]
    BY <1>2, <1>5, ReconcilesOne
  <2>2. EventsKnown' /\ Registered' = Registered
    BY <1>1, <1>2, <1>3, <2>1, EventStays
  <2>3. \A d \in Event : d # e => SameEvent(d)
    BY <1>1, <2>1 DEF SameEvent, eventVars
  <2>4. ASSUME current, OneFolder(e), Follows(e) PROVE OneFolder(e)' /\ Follows(e)' /\ Kept(e)
    <3>1. x.leds = leds[e] /\ x.seen = Rows(e)
      BY <1>1, <2>4 DEF PageCurrent
    <3>2. /\ shown' \cap LedsOf(e) = x.leds /\ OneFolder(e)'
          /\ \A l \in Led : folder'[l] # folder[l] =>
               l \notin shown /\ \E k \in made \ {l} : EventOf[k] = EventOf[l] /\ folder[k] = folder[l]
      <4> PICK wanted, seen : wanted = x.leds /\ seen = x.seen
        OBVIOUS
      <4>1. wanted \in SUBSET LedsOf(e) /\ seen = Rows(e) /\ Reconcile(wanted, seen, FALSE)
        BY <1>2, <1>5, <3>1
      <4> QED BY <1>2, <2>4, <4>1, ReconcilesRight
    <3>3. Follows(e)'
      BY <1>1, <3>1, <3>2 DEF Follows, LedsOf, eventVars
    <3> QED BY <3>2, <3>3 DEF Kept, GivesUp, LedsOf
  <2> QED BY <2>1, <2>2, <2>3, <2>4 DEF WritesOf
<1> QED BY <1>4, <1>5 DEF EnsureRows

LEMMA Saves ==
  ASSUME Known, NEW p \in Page, Save(p), NEW x, x = page[p],
         NEW current, current = (x.event \notin crossed /\ PageCurrent(x))
  PROVE  WritesOf(x.event, current)
<1> PICK e, entries, seen : e = x.event /\ entries = x.entries /\ seen = x.seen
  OBVIOUS
<1> PICK changed : changed = {l \in DOMAIN entries : l \in (DOMAIN entries \ seen.shown)
                                                     \/ entries[l] # seen.folder[l]}
  OBVIOUS
<1>1. x.step = "saving" /\ UNCHANGED eventVars
  BY DEF Save
<1>2. /\ RowsKnown /\ EventsKnown /\ e \in Registered /\ SeenOf(e, seen)
      /\ DOMAIN entries \subseteq LedsOf(e) /\ \A l \in DOMAIN entries : entries[l] \in Value
  BY <1>1 DEF Known, PageTyped
<1>3. e \in Event /\ guid[e] # NoGuid
  BY <1>2 DEF Registered
<1>4. CASE UNCHANGED rowVars
  BY <1>1, <1>2, <1>4, Unwriting DEF Unwritten, eventVars, rowVars
<1>5. CASE /\ made' = made \cup (DOMAIN entries \ seen.shown)
           /\ shown' = shown \cup (DOMAIN entries \ seen.shown)
           /\ folder' = [l \in Led |-> IF l \in changed THEN entries[l] ELSE folder[l]]
  <2>6. folder' = [l \in Led |-> folder'[l]]
        /\ \A l \in Led : folder'[l] = IF l \in changed THEN entries[l] ELSE folder[l]
    BY <1>5
  <2>1. changed \subseteq DOMAIN entries /\ SavedAs(entries, seen, changed)
    BY <1>5, <2>6 DEF SavedAs
  <2>2. /\ RowsKnown' /\ made \subseteq made'
        /\ \A d : d # e => /\ made' \cap LedsOf(d) = made \cap LedsOf(d)
                          /\ shown' \cap LedsOf(d) = shown \cap LedsOf(d)
                          /\ \A l \in LedsOf(d) : folder'[l] = folder[l]
    BY <1>2, <2>1, SavesOne
  <2>3. EventsKnown' /\ Registered' = Registered
    BY <1>1, <1>2, <1>3, <2>2, EventStays
  <2>4. \A d \in Event : d # e => SameEvent(d)
    BY <1>1, <2>2 DEF SameEvent, eventVars
  <2>5. ASSUME current, OneFolder(e), Follows(e) PROVE OneFolder(e)' /\ Follows(e)' /\ Kept(e)
    <3>1. DOMAIN entries \subseteq leds[e] /\ seen = Rows(e) /\ Acceptable(entries, seen)
      BY <1>1, <2>5 DEF PageCurrent
    <3>2. shown \cap LedsOf(e) = leds[e]
      BY <1>3, <2>5 DEF Follows
    <3>3. shown' = shown /\ OneFolder(e)'
      BY <1>2, <1>5, <2>6, <2>5, <3>1, <3>2, SavesRight
    <3>4. Follows(e)'
      BY <1>1, <3>2, <3>3 DEF Follows, LedsOf, eventVars
    <3>5. \A l \in LedsOf(e) : folder'[l] # folder[l] => l \in DOMAIN page[p].entries
      BY <1>5, <2>1 DEF LedsOf
    <3> QED BY <1>1, <3>3, <3>4, <3>5 DEF Kept, GivesUp
  <2> QED BY <2>2, <2>3, <2>4, <2>5 DEF WritesOf
<1> QED BY <1>4, <1>5 DEF Save

LEMMA PageWrites ==
  ASSUME Known, NEW p \in Page, PageActs(p), NEW x, x = page[p],
         NEW current, current = (x.event \notin crossed /\ PageCurrent(x))
  PROVE  /\ WritesOf(x.event, current)
         /\ \/ Unwritten
            \/ x.step = "ensuring" /\ page'[p].step = "idle"
            \/ x.step = "saving" /\ page'[p].step \in {"idle", "picking"}
<1>1. RowsKnown /\ EventsKnown /\ page = [q \in Page |-> page[q]] /\ IsPage(x)
  BY DEF Known, PagesKnown
<1>2. Finished(p) => page'[p].step = "idle"
  BY <1>1, NewPage DEF Finished
<1>3. CASE EnsureRows(p)
  BY <1>2, <1>3, Ensures DEF EnsureRows
<1>4. CASE Save(p)
  <2>1. page' = [page EXCEPT ![p].step = "picking"] => page'[p].step = "picking"
    <3> PICK y : y = [x EXCEPT !.step = "picking"]
      OBVIOUS
    <3>1. y.step = "picking"
      BY <1>1 DEF IsPage
    <3> QED BY <1>1, <3>1
  <2>2. x.step = "saving" /\ page'[p].step \in {"idle", "picking"}
    BY <1>2, <1>4, <2>1 DEF Save
  <2> QED BY <1>4, <2>2, Saves
<1>5. CASE ~EnsureRows(p) /\ ~Save(p)
  <2>1. Unwritten
    BY <1>5 DEF PageActs, Details, Post, ReadRows, Validate, PickTargets, PageFails, RecordTest,
                eventVars, rowVars, Unwritten
  <2> QED BY <1>1, <2>1, Unwriting
<1> QED BY <1>3, <1>4, <1>5

(* The transaction of a registration or a re-registration.                 *)
LEMMA Registers ==
  ASSUME Known, NEW c \in Config, NEW e, e = c.event, NEW reset, Reconcile(c.leds, Rows(e), reset),
         guid' = [guid EXCEPT ![e] = c.guid], leds' = [leds EXCEPT ![e] = c.leds]
  PROVE  \A current : WritesOf(e, current)
<1>1. RowsKnown /\ EventsKnown
  BY DEF Known
<1>2. e \in Event /\ c.guid \in Guid /\ c.leds \in SUBSET LedsOf(e) /\ c.guid # NoGuid
  BY RegistrationAssumption, MappingsAssumption
<1> PICK wanted, seen : wanted = c.leds /\ seen = Rows(e)
  OBVIOUS
<1>3. wanted \in SUBSET LedsOf(e) /\ Reconcile(wanted, seen, reset) /\ SeenOf(e, seen)
  BY <1>1, <1>2, ReadsRows
<1>4. /\ RowsKnown' /\ made \subseteq made'
      /\ \A d : d # e => /\ made' \cap LedsOf(d) = made \cap LedsOf(d)
                        /\ shown' \cap LedsOf(d) = shown \cap LedsOf(d)
                        /\ \A l \in LedsOf(d) : folder'[l] = folder[l]
  BY <1>1, <1>3, ReconcilesOne
<1>5. /\ shown' \cap LedsOf(e) = wanted /\ (OneFolder(e) => OneFolder(e)')
      /\ \A l \in Led : folder'[l] # folder[l] =>
           l \notin shown /\ \E k \in made \ {l} : EventOf[k] = EventOf[l] /\ folder[k] = folder[l]
  BY <1>1, <1>3, ReconcilesRight
<1>6. /\ guid' \in [Event -> Guid \cup {NoGuid}] /\ leds' \in [Event -> SUBSET Led]
      /\ guid'[e] = c.guid /\ leds'[e] = wanted
      /\ \A d \in Event : d # e => guid'[d] = guid[d] /\ leds'[d] = leds[d]
  BY <1>1, <1>2 DEF EventsKnown, LedsOf
<1>7. EventsKnown'
  <2>1. ASSUME NEW d \in Event
        PROVE  leds'[d] \subseteq LedsOf(d) /\ (guid'[d] = NoGuid => made' \cap LedsOf(d) = {})
    <3>1. CASE d = e
      BY <1>2, <1>6, <3>1
    <3>2. CASE d # e
      BY <1>1, <1>4, <1>6, <3>2 DEF EventsKnown
    <3> QED BY <3>1, <3>2
  <2> QED BY <1>6, <2>1 DEF EventsKnown, LedsOf
<1>8. Registered \subseteq Registered'
  BY <1>2, <1>6 DEF Registered
<1>9. \A d \in Event : d # e => SameEvent(d)
  BY <1>4, <1>6 DEF SameEvent
<1>10. Follows(e)'
  BY <1>5, <1>6 DEF Follows, LedsOf
<1>11. Kept(e)
  BY <1>5 DEF Kept, GivesUp, LedsOf
<1> QED BY <1>4, <1>5, <1>7, <1>8, <1>9, <1>10, <1>11 DEF WritesOf

LEMMA TabWrites ==
  ASSUME Known, NEW t \in Tab, TabStep(t), NEW x, x = form[t], NEW current
  PROVE  WritesOf(x.event, current) /\ (Unwritten \/ x.step # "idle")
<1>1. RowsKnown /\ EventsKnown /\ FormTyped(x)
  BY DEF Known
<1>2. UNCHANGED <<eventVars, rowVars>> => WritesOf(x.event, current) /\ Unwritten
  <2>1. UNCHANGED <<eventVars, rowVars>> => Unwritten
    BY DEF Unwritten, eventVars, rowVars
  <2> QED BY <1>1, <2>1, Unwriting
<1>3. ASSUME NEW reset, x.step \in {"inserting", "updating"}, Reconcile(x.config.leds, Rows(x.event), reset),
             guid' = [guid EXCEPT ![x.event] = x.config.guid],
             leds' = [leds EXCEPT ![x.event] = x.config.leds]
      PROVE  WritesOf(x.event, current)
  <2> PICK c, e : c = x.config /\ e = x.event
    OBVIOUS
  <2>1. c \in Config /\ e = c.event
    BY <1>1, <1>3 DEF FormTyped
  <2> QED BY <1>3, <2>1, Registers
<1>4. CASE Insert(t)
  <2>1. x.step = "inserting"
    BY <1>4 DEF Insert
  <2>2. \/ UNCHANGED <<eventVars, rowVars>>
        \/ /\ \E reset : Reconcile(x.config.leds, Rows(x.event), reset)
           /\ guid' = [guid EXCEPT ![x.event] = x.config.guid]
           /\ leds' = [leds EXCEPT ![x.event] = x.config.leds]
    BY <1>4 DEF Insert
  <2> QED BY <1>2, <1>3, <2>1, <2>2
<1>5. CASE Update(t)
  <2>1. x.step = "updating"
    BY <1>5 DEF Update
  <2>2. \/ UNCHANGED <<eventVars, rowVars>>
        \/ /\ \E reset : Reconcile(x.config.leds, Rows(x.event), reset)
           /\ guid' = [guid EXCEPT ![x.event] = x.config.guid]
           /\ leds' = [leds EXCEPT ![x.event] = x.config.leds]
    BY <1>5 DEF Update
  <2> QED BY <1>2, <1>3, <2>1, <2>2
<1>6. CASE ~Insert(t) /\ ~Update(t)
  BY <1>2, <1>6 DEF TabStep, NewEvent, LookUp, Mismatch, Search, ShowPending, Confirm, Cancel, FormFails
<1> QED BY <1>4, <1>5, <1>6

(* What is held, and where its files come from.                            *)
LEMMA FilesStay ==
  ASSUME FilesKnown, UNCHANGED cloud, pending' \subseteq pending PROVE FilesKnown'
BY DEF FilesKnown

LEMMA TabFiles ==
  ASSUME Known, NEW t \in Tab, TabStep(t) PROVE FilesKnown'
<1>1. FilesKnown /\ FormTyped(form[t]) /\ UNCHANGED cloud
  BY DEF Known, TabStep, NewEvent, LookUp, Mismatch, Search, Insert, ShowPending, Confirm, Update,
         Cancel, FormFails, cloudVars
<1>2. CASE Mismatch(t)
  <2> DEFINE new == [token |-> tokens + 1, event |-> form[t].event, config |-> form[t].config]
  <2>1. RowSays(t) = "mismatch" /\ form[t].step = "fetched" /\ pending' \subseteq pending \cup {new}
    BY <1>2 DEF Mismatch, Room, Without
  <2>2. new.event \in Event /\ new.config \in Config /\ new.config.event = new.event
    BY <1>1, <2>1, ItsFile DEF FormTyped
  <2> HIDE DEF new
  <2> QED BY <1>1, <2>1, <2>2 DEF FilesKnown
<1>3. CASE ~Mismatch(t)
  <2>1. pending' \subseteq pending
    BY <1>3 DEF TabStep, NewEvent, LookUp, Search, Insert, ShowPending, Confirm, Update, Cancel,
                FormFails, pendingVars, Without
  <2> QED BY <1>1, <2>1, FilesStay
<1> QED BY <1>2, <1>3

(* Known is kept by every step.                                            *)
LEMMA PagesStayTyped ==
  ASSUME Known, NEW e, NEW current, WritesOf(e, current),
         \A p \in Page : page'[p] = page[p] \/ PageTyped(page'[p])
  PROVE  \A p \in Page : PageTyped(page[p])'
<1>1. Registered \subseteq Registered' /\ made \subseteq made'
  BY DEF WritesOf
<1> SUFFICES ASSUME NEW p \in Page PROVE PageTyped(page[p])'
  OBVIOUS
<1> PICK x : x = page'[p]
  OBVIOUS
<1>2. PageTyped(x)
  BY DEF Known
<1>3. PageTyped(x)'
  BY <1>1, <1>2, PageStaysTyped
<1> QED BY <1>3 DEF PageTyped, SeenOf, LedsOf, Registered, Value

LEMMA PageKeepsKnown ==
  ASSUME Known, NEW p \in Page, PageActs(p), UNCHANGED <<cloud, pending, form>>
  PROVE  Known'
<1> PICK x : x = page[p]
  OBVIOUS
<1> PICK current : current = (x.event \notin crossed /\ PageCurrent(x))
  OBVIOUS
<1>1. WritesOf(x.event, current)
  BY PageWrites
<1>2. PICK y : page' = [page EXCEPT ![p] = y] /\ Outcome(x, y)
  BY Paging DEF Known
<1>3. page = [q \in Page |-> page[q]] /\ x.step \in Steps /\ PageTyped(x) /\ RowsKnown /\ EventsKnown
  BY DEF Known, PagesKnown
<1>4. PageTyped(y) /\ y.step \in Steps /\ IsPage(y)
  BY <1>2, <1>3, PageGoesTyped DEF Outcome
<1>5. page' = [q \in Page |-> page'[q]] /\ \A q \in Page : page'[q] = IF q = p THEN y ELSE page[q]
  BY <1>2, <1>3
<1>6. \A q \in Page : PageTyped(page[q])'
  BY <1>1, <1>4, <1>5, PagesStayTyped
<1>7. \A q \in Page : IsPage(page'[q]) /\ page'[q].step \in Steps
  BY <1>4, <1>5 DEF Known, PagesKnown
<1>8. PagesKnown'
  BY <1>5, <1>7 DEF PagesKnown, IsPage, Steps
<1>9. FilesKnown' /\ FormsKnown' /\ \A t \in Tab : FormTyped(form[t])'
  BY FilesStay DEF Known, FormsKnown, IsRequest, FormTyped
<1> QED BY <1>1, <1>6, <1>8, <1>9 DEF Known, WritesOf

LEMMA TabKeepsKnown ==
  ASSUME Known, NEW t \in Tab, TabStep(t) PROVE Known'
<1> PICK x : x = form[t]
  OBVIOUS
<1>1. WritesOf(x.event, TRUE)
  BY TabWrites
<1>2. PICK y : form' = [form EXCEPT ![t] = y] /\ IsRequest(y) /\ Answer(x, y)
  BY Tabbing DEF Known
<1>3. form = [u \in Tab |-> form[u]] /\ FormTyped(x) /\ FilesKnown
  BY DEF Known, FormsKnown
<1>4. FormTyped(y)
  BY <1>2, <1>3, FormGoesTyped
<1>5. form' = [u \in Tab |-> form'[u]] /\ \A u \in Tab : form'[u] = IF u = t THEN y ELSE form[u]
  BY <1>2, <1>3
<1>6. \A u \in Tab : IsRequest(form'[u]) /\ FormTyped(form'[u])
  BY <1>2, <1>4, <1>5 DEF Known, FormsKnown
<1>7. FormsKnown' /\ \A u \in Tab : FormTyped(form[u])'
  BY <1>5, <1>6 DEF FormsKnown, IsRequest, FormTyped
<1>8. UNCHANGED page
  BY DEF TabStep, NewEvent, LookUp, Mismatch, Search, Insert, ShowPending, Confirm, Update, Cancel, FormFails
<1>9. PagesKnown' /\ \A p \in Page : PageTyped(page[p])'
  BY <1>1, <1>8, PagesStayTyped DEF Known, PagesKnown, IsPage, Steps
<1> QED BY <1>1, <1>7, <1>9, TabFiles DEF Known, WritesOf

LEMMA OthersKeepKnown ==
  ASSUME Known, (\E c \in Config : Export(c)) \/ Expire \/ Restart \/ UNCHANGED restVars
  PROVE  Known' /\ Unwritten
<1>1. Unwritten
  BY DEF Export, Expire, Restart, eventVars, rowVars, restVars, Unwritten
<1> PICK e : e = 0
  OBVIOUS
<1>2. WritesOf(e, TRUE)
  BY <1>1, Unwriting DEF Known
<1>3. FilesKnown'
  <2>1. ASSUME NEW c \in Config, Export(c) PROVE FilesKnown'
    <3>1. cloud' = [cloud EXCEPT ![c.place] = c] /\ UNCHANGED pending
      BY <2>1 DEF Export, pendingVars
    <3> QED BY <3>1 DEF Known, FilesKnown
  <2>2. CASE Expire \/ Restart \/ UNCHANGED restVars
    <3>1. UNCHANGED cloud /\ pending' \subseteq pending
      BY <2>2 DEF Expire, Restart, cloudVars, restVars
    <3> QED BY <3>1, FilesStay DEF Known
  <2> QED BY <2>1, <2>2
<1>4. CASE UNCHANGED <<page, form>>
  <2>1. PagesKnown' /\ \A p \in Page : PageTyped(page[p])'
    BY <1>2, <1>4, PagesStayTyped DEF Known, PagesKnown, IsPage, Steps
  <2>2. FormsKnown' /\ \A t \in Tab : FormTyped(form[t])'
    BY <1>4 DEF Known, FormsKnown, IsRequest, FormTyped
  <2> QED BY <1>1, <1>2, <1>3, <2>1, <2>2 DEF Known, WritesOf
<1>5. CASE page' = [p \in Page |-> IdlePage] /\ form' = [t \in Tab |-> IdleForm]
  <2>1. PageTyped(IdlePage) /\ IsPage(IdlePage) /\ IdlePage.step \in Steps
    BY NewPage DEF PageTyped, Steps
  <2>2. \A p \in Page : PageTyped(page'[p])
    BY <1>5, <2>1
  <2>3. PagesKnown' /\ \A p \in Page : PageTyped(page[p])'
    BY <1>2, <1>5, <2>1, <2>2, PagesStayTyped DEF PagesKnown, IsPage, Steps
  <2>4. FormTyped(IdleForm) /\ IsRequest(IdleForm)
    BY DEF IdleForm, FormTyped, IsRequest
  <2>5. FormsKnown' /\ \A t \in Tab : FormTyped(form[t])'
    BY <1>5, <2>4 DEF FormsKnown, IsRequest, FormTyped
  <2> QED BY <1>1, <1>2, <1>3, <2>3, <2>5 DEF Known, WritesOf
<1>6. UNCHANGED <<page, form>> \/ (page' = [p \in Page |-> IdlePage] /\ form' = [t \in Tab |-> IdleForm])
  BY DEF Export, Expire, Restart, restVars
<1> QED BY <1>4, <1>5, <1>6

(* As long as no two requests go on about an event at once, each knows the *)
(* rows and the file as they are, and leaves them right.                   *)
Alone == \A x, y \in Busy : x # y /\ About(x) = About(y) => About(x) \in crossed

Right ==
  /\ Known
  /\ \A p \in Page : PageCurrent(page[p])
  /\ \A e \in Event : EventRight(e)
  /\ Alone

LEMMA CrossingsNoted ==
  ASSUME Known', NoteCrossing PROVE Alone'
<1>1. ASSUME NEW x \in Busy' PROVE About(x)' \in Event
  <2>1. CASE x \in Tab /\ form'[x].step # "idle"
    BY <2>1 DEF Known, FormTyped, About
  <2>2. CASE x \in Page /\ page'[x].step # "idle"
    <3>1. x \notin Tab
      BY <2>2, RegistrationAssumption
    <3> QED BY <2>2, <3>1 DEF Known, PageTyped, Registered, About
  <2> QED BY <1>1, <2>1, <2>2 DEF Busy
<1> QED BY <1>1 DEF NoteCrossing, Alone

LEMMA StayAlone ==
  ASSUME Alone, UNCHANGED restVars PROVE Alone'
BY DEF Alone, Busy, About, restVars

LEMMA EventsStayRight ==
  ASSUME Right, NEW e, NEW current, WritesOf(e, current), e \notin crossed => current,
         crossed \subseteq crossed'
  PROVE  \A d \in Event : EventRight(d)'
<1> SUFFICES ASSUME NEW d \in Event, d \notin crossed' PROVE OneFolder(d)' /\ Follows(d)'
  BY DEF EventRight
<1>1. d \notin crossed /\ OneFolder(d) /\ Follows(d)
  BY DEF Right, EventRight
<1>2. CASE d = e
  BY <1>1, <1>2 DEF WritesOf
<1>3. CASE d # e
  BY <1>1, <1>3, StaysSame DEF WritesOf
<1> QED BY <1>2, <1>3

LEMMA PageStaysCurrent ==
  ASSUME NEW x, PageCurrent(x), crossed \subseteq crossed', SameEvent(x.event) PROVE PageCurrent(x)'
<1>1. Rows(x.event)' = Rows(x.event)
  BY StaysSame
<1>2. leds'[x.event] = leds[x.event]
  BY DEF SameEvent
<1> QED BY <1>1, <1>2 DEF PageCurrent, Acceptable

LEMMA PageGoesCurrent ==
  ASSUME NEW x, NEW y, PageCurrent(x), Outcome(x, y), UNCHANGED leds, crossed \subseteq crossed',
         y.step \in {"ensuring", "saving"} => Unwritten
  PROVE  PageCurrent(y)'
<1>1. PageCurrent(y)
  <2>1. CASE y.step = "idle"
    BY <2>1 DEF PageCurrent
  <2>2. CASE x.step = "idle" /\ Begun(y)
    <3>1. DOMAIN y.entries \subseteq leds[y.event]
      BY <2>2, NewPage DEF Begun, Entries
    <3> QED BY <2>2, <3>1 DEF Begun, PageCurrent
  <2>3. CASE GoneOn(x, y)
    BY <2>3 DEF GoneOn, PageCurrent
  <2> QED BY <2>1, <2>2, <2>3 DEF Outcome
<1>2. CASE y.step \in {"ensuring", "saving"}
  BY <1>1, <1>2, PageStaysCurrent DEF SameEvent, Unwritten
<1>3. CASE y.step \notin {"ensuring", "saving"}
  BY <1>1, <1>3 DEF PageCurrent
<1> QED BY <1>2, <1>3

(* A request that writes is alone, so the others know what they knew.      *)
LEMMA OthersStayCurrent ==
  ASSUME Right, NEW a, NEW e, NEW current, WritesOf(e, current), crossed \subseteq crossed',
         NEW p \in Page, page'[p] = page[p],
         Unwritten \/ (p # a /\ a \in Busy /\ About(a) = e)
  PROVE  PageCurrent(page[p])'
<1> PICK x : x = page[p]
  OBVIOUS
<1>1. PageCurrent(x)
  BY DEF Right
<1>2. x.step # "idle" /\ x.event \notin crossed => x.event \in Event /\ (Unwritten \/ x.event # e)
  <2> SUFFICES ASSUME x.step # "idle", x.event \notin crossed PROVE x.event \in Event /\ (Unwritten \/ x.event # e)
    OBVIOUS
  <2>1. p \in Busy /\ p \notin Tab
    BY RegistrationAssumption DEF Busy
  <2>2. About(p) = x.event
    BY <2>1 DEF About
  <2>3. x.event \in Event
    BY DEF Right, Known, PageTyped, Registered
  <2> QED BY <2>1, <2>2, <2>3 DEF Right, Alone
<1>3. PageCurrent(x)'
  <2>1. CASE x.step # "idle" /\ x.event \notin crossed
    <3>1. SameEvent(x.event)
      BY <1>2, <2>1 DEF WritesOf, SameEvent, Unwritten
    <3> QED BY <1>1, <3>1, PageStaysCurrent
  <2>2. CASE x.step = "idle" \/ x.event \in crossed
    BY <2>2 DEF PageCurrent
  <2> QED BY <2>1, <2>2
<1> QED BY <1>3 DEF PageCurrent, Rows, Acceptable, LedsOf

LEMMA ByAPage ==
  ASSUME Right, NEW p \in Page, PageActs(p), UNCHANGED <<cloud, pending, form>>, NoteCrossing
  PROVE  Right'
<1> PICK x : x = page[p]
  OBVIOUS
<1> PICK current : current = (x.event \notin crossed /\ PageCurrent(x))
  OBVIOUS
<1>1. Known /\ PageCurrent(x) /\ crossed \subseteq crossed'
  BY DEF Right, NoteCrossing
<1>2. WritesOf(x.event, current) /\ (x.event \notin crossed => current)
  BY <1>1, PageWrites
<1>3. /\ page = [q \in Page |-> page[q]]
      /\ \/ Unwritten
         \/ x.step = "ensuring" /\ page'[p].step = "idle"
         \/ x.step = "saving" /\ page'[p].step \in {"idle", "picking"}
  BY <1>1, PageWrites DEF Known, PagesKnown
<1>4. PICK y : page' = [page EXCEPT ![p] = y] /\ Outcome(x, y)
  BY <1>1, Paging DEF Known
<1>5. \A q \in Page : page'[q] = IF q = p THEN y ELSE page[q]
  BY <1>3, <1>4
<1>6. UNCHANGED leds
  BY DEF PageActs, Details, Post, ReadRows, EnsureRows, Validate, Save, PickTargets, PageFails,
         RecordTest, eventVars
<1>7. PageCurrent(y)'
  BY <1>1, <1>3, <1>4, <1>5, <1>6, PageGoesCurrent
<1>8. Unwritten \/ (p \in Busy /\ About(p) = x.event)
  BY <1>3, RegistrationAssumption DEF Busy, About
<1>9. ASSUME NEW q \in Page PROVE PageCurrent(page[q])'
  <2>1. CASE q = p
    <3>1. page'[q] = y
      BY <1>5, <2>1
    <3>2. Rows(page[q].event)' = Rows(y.event)'
      BY <3>1 DEF Rows, LedsOf
    <3> QED BY <1>7, <3>1, <3>2 DEF PageCurrent, Acceptable
  <2>2. CASE q # p
    BY <1>1, <1>2, <1>5, <1>8, <2>2, OthersStayCurrent
  <2> QED BY <2>1, <2>2
<1>10. \A e \in Event : EventRight(e)'
  BY <1>1, <1>2, EventsStayRight
<1>11. Known'
  BY <1>1, PageKeepsKnown
<1> QED BY <1>9, <1>10, <1>11, CrossingsNoted DEF Right

LEMMA ByATab ==
  ASSUME Right, NEW t \in Tab, TabStep(t), NoteCrossing
  PROVE  Right'
<1> PICK x : x = form[t]
  OBVIOUS
<1>1. Known /\ crossed \subseteq crossed'
  BY DEF Right, NoteCrossing
<1>2. WritesOf(x.event, TRUE) /\ (Unwritten \/ x.step # "idle")
  BY <1>1, TabWrites
<1>3. UNCHANGED page
  BY DEF TabStep, NewEvent, LookUp, Mismatch, Search, Insert, ShowPending, Confirm, Update, Cancel, FormFails
<1>4. Unwritten \/ (t \in Busy /\ About(t) = x.event)
  BY <1>2 DEF Busy, About
<1>5. \A p \in Page : p # t
  BY RegistrationAssumption
<1>6. \A p \in Page : PageCurrent(page[p])'
  BY <1>1, <1>2, <1>3, <1>4, <1>5, OthersStayCurrent
<1>7. \A e \in Event : EventRight(e)'
  BY <1>1, <1>2, EventsStayRight
<1>8. Known'
  BY <1>1, TabKeepsKnown
<1> QED BY <1>6, <1>7, <1>8, CrossingsNoted DEF Right

LEMMA ByOthers ==
  ASSUME Right,
         \/ ((\E c \in Config : Export(c)) \/ Expire \/ Restart) /\ NoteCrossing
         \/ UNCHANGED restVars
  PROVE  Right'
<1>1. Known /\ crossed \subseteq crossed'
  BY DEF Right, NoteCrossing, restVars
<1>2. Known' /\ Unwritten
  BY <1>1, OthersKeepKnown
<1> PICK e : e = 0
  OBVIOUS
<1>3. WritesOf(e, TRUE)
  BY <1>1, <1>2, Unwriting DEF Known
<1>4. \A d \in Event : EventRight(d)'
  BY <1>1, <1>3, EventsStayRight
<1>5. UNCHANGED page \/ page' = [p \in Page |-> IdlePage]
  BY DEF Export, Expire, Restart, restVars
<1>6. ASSUME NEW p \in Page PROVE PageCurrent(page[p])'
  <2>1. CASE UNCHANGED page
    BY <1>1, <1>2, <1>3, <2>1, OthersStayCurrent
  <2>2. CASE page' = [q \in Page |-> IdlePage]
    BY <2>2, NewPage DEF PageCurrent
  <2> QED BY <1>5, <2>1, <2>2
<1> QED BY <1>2, <1>4, <1>6, CrossingsNoted, StayAlone DEF Right

LEMMA Starting ==
  ASSUME Init PROVE Right
<1>1. /\ guid = [e \in Event |-> NoGuid] /\ leds = [e \in Event |-> {}] /\ made = {} /\ shown = {}
      /\ folder = [l \in Led |-> NoFolder] /\ page = [p \in Page |-> IdlePage]
      /\ pending = {} /\ form = [t \in Tab |-> IdleForm] /\ cloud \in [Event -> Config]
  BY RegistrationAssumption DEF Init, MappingsInit
<1>2. IsPage(IdlePage) /\ IdlePage.step = "idle" /\ IsRequest(IdleForm) /\ IdleForm.step = "idle"
  BY NewPage DEF IdleForm, IsRequest
<1>3. PagesKnown /\ FormsKnown /\ RowsKnown /\ EventsKnown /\ FilesKnown
  BY <1>1, <1>2 DEF PagesKnown, FormsKnown, RowsKnown, EventsKnown, FilesKnown, Steps, Value
<1>4. Known
  BY <1>1, <1>2, <1>3 DEF Known, PageTyped, FormTyped
<1>5. \A p \in Page : PageCurrent(page[p])
  BY <1>1, <1>2 DEF PageCurrent
<1>6. \A e \in Event : EventRight(e)
  BY <1>1 DEF EventRight, OneFolder, Follows
<1>7. Alone
  BY <1>1, <1>2 DEF Alone, Busy
<1> QED BY <1>4, <1>5, <1>6, <1>7 DEF Right

LEMMA Stepping ==
  ASSUME Next
  PROVE  /\ NoteCrossing
         /\ \/ \E p \in Page : PageActs(p) /\ UNCHANGED <<cloud, pending, form>>
            \/ \E t \in Tab : TabStep(t)
            \/ (\E c \in Config : Export(c)) \/ Expire \/ Restart
<1>1. NoteCrossing
  BY DEF Next
<1>2. CASE PageStep
  <2>1. PICK p \in Page : PageActs(p)
    BY <1>2 DEF PageStep, MappingsNext, PageActs
  <2> QED BY <1>1, <1>2, <2>1 DEF PageStep, cloudVars, pendingVars
<1> QED BY <1>1, <1>2, Acting

LEMMA AllRight == LooseSpec => []Right
<1>1. Right /\ [Next]_restVars => Right'
  <2> SUFFICES ASSUME Right, [Next]_restVars PROVE Right'
    OBVIOUS
  <2>1. CASE Next
    BY <2>1, Stepping, ByAPage, ByATab, ByOthers
  <2>2. CASE UNCHANGED restVars
    BY <2>2, ByOthers
  <2> QED BY <2>1, <2>2
<1> QED BY <1>1, Starting, PTL DEF LooseSpec

LEMMA RightIsSafe ==
  ASSUME Right PROVE OneFolderEach /\ RowsFollowFile
<1>1. OneFolderEach
  <2> SUFFICES ASSUME NEW k \in shown, NEW l \in shown, EventOf[k] = EventOf[l], EventOf[l] \notin crossed,
                      folder[k] = folder[l], folder[l] # NoFolder
               PROVE  k = l
    BY DEF OneFolderEach
  <2>1. k \in Led /\ l \in Led /\ EventOf[l] \in Event
    BY MappingsAssumption DEF Right, Known, RowsKnown
  <2>2. OneFolder(EventOf[l])
    BY <2>1 DEF Right, EventRight
  <2> QED BY <2>1, <2>2 DEF OneFolder, LedsOf
<1>2. RowsFollowFile
  BY DEF Right, EventRight, Follows, RowsFollowFile, Registered
<1> QED BY <1>1, <1>2

LEMMA FoldersAlways == LooseSpec => []OneFolderEach
BY AllRight, RightIsSafe, PTL

LEMMA RowsAlways == LooseSpec => []RowsFollowFile
BY AllRight, RightIsSafe, PTL

(* No two enabled LEDs of an event have the same folder, unless requests   *)
(* about it have gone on at once: through saves, re-registrations, and     *)
(* LEDs that leave and return with their folders.                          *)
THEOREM FoldersAreApart == Spec => []OneFolderEach
BY Loosely, FoldersAlways, PTL

(* ... and its enabled LEDs are those of the file that is registered.      *)
THEOREM RowsAsRegistered == Spec => []RowsFollowFile
BY Loosely, RowsAlways, PTL

(* A step of an event about which nothing crosses gives up a folder only   *)
(* as it may.                                                              *)
LEMMA Keeping ==
  ASSUME Right, NEW e, NEW current, WritesOf(e, current), e \notin crossed => current,
         NEW l \in Led, folder'[l] # folder[l], EventOf[l] \notin crossed
  PROVE  GivesUp(l)
<1>1. EventOf[l] \in Event /\ l \in LedsOf(EventOf[l])
  BY MappingsAssumption DEF LedsOf
<1>2. EventOf[l] = e
  BY <1>1 DEF WritesOf, SameEvent
<1>3. OneFolder(e) /\ Follows(e)
  BY <1>1, <1>2 DEF Right, EventRight
<1> QED BY <1>1, <1>2, <1>3 DEF WritesOf, Kept

LEMMA KeepingAlways ==
  LooseSpec => [][\A l \in Led : folder'[l] # folder[l] /\ EventOf[l] \notin crossed => GivesUp(l)]_restVars
<1> DEFINE Keeps == \A l \in Led : folder'[l] # folder[l] /\ EventOf[l] \notin crossed => GivesUp(l)
<1>1. Right /\ [Next]_restVars => [Keeps]_restVars
  <2> SUFFICES ASSUME Right, Next PROVE Keeps
    OBVIOUS
  <2>1. Known
    BY DEF Right
  <2>2. ASSUME NEW p \in Page, PageActs(p) PROVE Keeps
    <3> PICK x : x = page[p]
      OBVIOUS
    <3> PICK current : current = (x.event \notin crossed /\ PageCurrent(x))
      OBVIOUS
    <3>1. WritesOf(x.event, current) /\ (x.event \notin crossed => current)
      BY <2>1, <2>2, PageWrites DEF Right
    <3> QED BY <3>1, Keeping
  <2>3. ASSUME NEW t \in Tab, TabStep(t) PROVE Keeps
    <3> PICK x : x = form[t]
      OBVIOUS
    <3>1. WritesOf(x.event, TRUE)
      BY <2>1, <2>3, TabWrites
    <3> QED BY <3>1, Keeping
  <2>4. CASE (\E c \in Config : Export(c)) \/ Expire \/ Restart
    BY <2>1, <2>4, OthersKeepKnown DEF Unwritten
  <2> QED BY <2>2, <2>3, <2>4, Stepping
<1> QED BY <1>1, AllRight, PTL DEF LooseSpec

LEMMA SurvivalAlways == LooseSpec => FoldersSurvive
<1>1. [\A l \in Led : folder'[l] # folder[l] /\ EventOf[l] \notin crossed => GivesUp(l)]_restVars
        => [\A l \in Led :
              folder[l] # NoFolder /\ folder'[l] # folder[l] /\ EventOf[l] \notin crossed => GivesUp(l)]_vars
  BY DEF restVars
<1> QED BY <1>1, KeepingAlways, PTL DEF FoldersSurvive, GivesUp

(* A folder once entered is lost only to a save of that page, or by a      *)
(* hidden LED that finds it taken: for events whose requests do not cross. *)
THEOREM FoldersOutlive == Spec => FoldersSurvive
BY Loosely, SurvivalAlways, PTL

(* What is held: room is made for one more by dropping the oldest, which   *)
(* there always is.                                                        *)
LEMMA LowestIsThere ==
  ASSUME NEW S \in SUBSET Nat, S # {} PROVE \E x \in S : \A y \in S : x <= y
<1> DEFINE below == OpToRel(<, Nat)
<1>1. \A x, y \in Nat : <<y, x>> \in below <=> y < x
  BY DEF OpToRel
<1>2. IsWellFoundedOn(below, Nat)
  BY NatLessThanWellFounded
<1> HIDE DEF below
<1>3. PICK x \in S : \A y \in S : <<y, x>> \notin below
  BY <1>2, WFMin
<1>4. ASSUME NEW y \in S PROVE x <= y
  <2>1. ~(y < x) /\ x \in Nat /\ y \in Nat
    BY <1>1, <1>3
  <2> QED BY <2>1
<1> QED BY <1>4

LEMMA RoomForOne ==
  ASSUME NEW held, IsFiniteSet(held), Cardinality(held) <= MaxPending,
         \A q \in held : q.token \in Nat
  PROVE  /\ IsFiniteSet(Room(held)) /\ Room(held) \subseteq held
         /\ Cardinality(Room(held)) < MaxPending
<1>1. MaxPending \in Nat /\ MaxPending > 0 /\ Cardinality(held) \in Nat
  BY RegistrationAssumption, FS_CardinalityType
<1>2. CASE Cardinality(held) < MaxPending
  BY <1>2 DEF Room
<1>3. CASE ~(Cardinality(held) < MaxPending)
  <2>1. Room(held) = held \ Oldest(held) /\ Cardinality(held) = MaxPending
    BY <1>1, <1>3 DEF Room
  <2>2. held # {}
    BY <1>1, <2>1, FS_EmptySet
  <2>3. PICK S : S = {q.token : q \in held}
    OBVIOUS
  <2>4. S \in SUBSET Nat /\ S # {}
    BY <2>2, <2>3
  <2>5. PICK q \in held : \A r \in held : q.token <= r.token
    <3>1. PICK x \in S : \A y \in S : x <= y
      BY <2>4, LowestIsThere
    <3> QED BY <2>3, <3>1
  <2>6. q \in Oldest(held)
    BY <2>5 DEF Oldest
  <2>7. Room(held) \in SUBSET held /\ Room(held) # held
    BY <2>1, <2>6
  <2>8. IsFiniteSet(Room(held)) /\ Cardinality(Room(held)) <= Cardinality(held)
        /\ Cardinality(Room(held)) # Cardinality(held)
    BY <2>7, FS_Subset
  <2>9. Cardinality(Room(held)) \in Nat
    BY <2>8, FS_CardinalityType
  <2> QED BY <1>1, <2>1, <2>7, <2>8, <2>9
<1> QED BY <1>2, <1>3

LEMMA FewerHeld ==
  ASSUME NEW held, NEW S \in SUBSET held, IsFiniteSet(held), Cardinality(held) <= MaxPending
  PROVE  IsFiniteSet(S) /\ Cardinality(S) <= MaxPending
<1>1. IsFiniteSet(S) /\ Cardinality(S) <= Cardinality(held)
  BY FS_Subset
<1>2. Cardinality(S) \in Nat /\ Cardinality(held) \in Nat /\ MaxPending \in Nat
  BY <1>1, FS_CardinalityType, RegistrationAssumption
<1> QED BY <1>1, <1>2

(* The types: of what is held, and of the rest.                            *)
HeldTyped ==
  /\ tokens \in Nat /\ cookie \in 0 .. tokens
  /\ IsFiniteSet(pending) /\ Cardinality(pending) <= MaxPending
  /\ pending \subseteq [token : 1 .. tokens, event : Event, config : Config]

LEMMA HeldShrinks ==
  ASSUME HeldTyped, UNCHANGED tokens, pending' \subseteq pending, cookie' \in {cookie, 0}
  PROVE  HeldTyped'
<1>1. IsFiniteSet(pending') /\ Cardinality(pending') <= MaxPending
  BY FewerHeld DEF HeldTyped
<1> QED BY <1>1 DEF HeldTyped

LEMMA HeldGrows ==
  ASSUME HeldTyped, Known, NEW t \in Tab, Mismatch(t) PROVE HeldTyped'
<1> PICK held : held = Without(form[t].token)
  OBVIOUS
<1> PICK new : new = [token |-> tokens + 1, event |-> form[t].event, config |-> form[t].config]
  OBVIOUS
<1>1. tokens' = tokens + 1 /\ cookie' = tokens + 1 /\ pending' = Room(held) \cup {new}
  BY DEF Mismatch
<1>2. held \in SUBSET pending /\ tokens \in Nat
  BY DEF Without, HeldTyped
<1>3. IsFiniteSet(held) /\ Cardinality(held) <= MaxPending /\ \A q \in held : q.token \in Nat
  BY <1>2, FewerHeld DEF HeldTyped
<1>4. IsFiniteSet(Room(held)) /\ Room(held) \subseteq held /\ Cardinality(Room(held)) < MaxPending
  BY <1>3, RoomForOne
<1>5. IsFiniteSet(pending') /\ Cardinality(pending') <= MaxPending
  <2>1. /\ IsFiniteSet(Room(held) \cup {new})
        /\ Cardinality(Room(held) \cup {new}) \in {Cardinality(Room(held)), Cardinality(Room(held)) + 1}
    BY <1>4, FS_AddElement
  <2>2. Cardinality(Room(held)) \in Nat /\ MaxPending \in Nat
    BY <1>4, FS_CardinalityType, RegistrationAssumption
  <2> QED BY <1>1, <1>4, <2>1, <2>2
<1>6. form[t].event \in Event /\ form[t].config \in Config
  BY DEF Mismatch, Known, FormTyped
<1>7. new \in [token : 1 .. tokens', event : Event, config : Config]
  BY <1>1, <1>2, <1>6
<1>8. \A q \in pending : q \in [token : 1 .. tokens', event : Event, config : Config]
  BY <1>1, <1>2 DEF HeldTyped
<1>9. pending' \subseteq [token : 1 .. tokens', event : Event, config : Config]
  BY <1>1, <1>2, <1>4, <1>7, <1>8
<1> QED BY <1>1, <1>2, <1>5, <1>9 DEF HeldTyped

TestsTyped == tested = [l \in Led |-> tested[l]] /\ \A l \in Led : tested[l] \in Value

RestTyped == TestsTyped /\ starts \in Nat /\ exports \subseteq Config

LEMMA TestsReset ==
  ASSUME TestsTyped, NEW T, tested' = [l \in Led |-> IF l \in T THEN Untested ELSE tested[l]]
  PROVE  TestsTyped'
BY DEF TestsTyped, Value, Untested

LEMMA ReconcilesTests ==
  ASSUME TestsTyped, NEW wanted, NEW seen, NEW reset, Reconcile(wanted, seen, reset)
  PROVE  TestsTyped'
<1> PICK T : T = {l \in wanted : Loses(l, wanted, seen)} \cup (IF reset THEN wanted \cap seen.made ELSE {})
  OBVIOUS
<1>1. tested' = [l \in Led |-> IF l \in T THEN Untested ELSE tested[l]]
  BY DEF Reconcile
<1> QED BY <1>1, TestsReset

LEMMA PageKeepsTyped ==
  ASSUME RestTyped, NEW p \in Page, PageActs(p), UNCHANGED cloudVars PROVE RestTyped'
<1>1. UNCHANGED tested => TestsTyped'
  BY DEF RestTyped, TestsTyped, Value
<1>2. CASE EnsureRows(p)
  BY <1>1, <1>2, ReconcilesTests DEF EnsureRows, rowVars, RestTyped, cloudVars
<1>3. CASE Save(p)
  <2> PICK T : T = {l \in DOMAIN page[p].entries :
                      \/ l \in DOMAIN page[p].entries \ page[p].seen.shown
                      \/ page[p].entries[l] # page[p].seen.folder[l]}
    OBVIOUS
  <2>1. UNCHANGED tested \/ tested' = [l \in Led |-> IF l \in T THEN Untested ELSE tested[l]]
    BY <1>3 DEF Save, rowVars
  <2> QED BY <1>1, <2>1, TestsReset DEF RestTyped, cloudVars
<1>4. ASSUME NEW l \in Led, NEW f \in Folder, RecordTest(p, l, f) PROVE RestTyped'
  <2>1. UNCHANGED tested \/ tested' = [tested EXCEPT ![l] = f]
    BY <1>4 DEF RecordTest
  <2>2. TestsTyped'
    BY <1>1, <2>1 DEF RestTyped, TestsTyped, Value
  <2> QED BY <2>2 DEF RestTyped, cloudVars
<1>5. CASE \/ \E e \in Event : Details(p, e) \/ \E m \in Entries(e), test \in BOOLEAN : Post(p, e, m, test)
           \/ ReadRows(p) \/ Validate(p) \/ PickTargets(p) \/ PageFails(p)
  <2>1. UNCHANGED tested
    BY <1>5 DEF Details, Post, ReadRows, Validate, PickTargets, PageFails, rowVars
  <2> QED BY <1>1, <2>1 DEF RestTyped, cloudVars
<1> QED BY <1>2, <1>3, <1>4, <1>5 DEF PageActs

LEMMA TabKeepsTyped ==
  ASSUME Known, HeldTyped, RestTyped, NEW t \in Tab, TabStep(t) PROVE HeldTyped' /\ RestTyped'
<1>1. UNCHANGED tested => TestsTyped'
  BY DEF RestTyped, TestsTyped, Value
<1>2. UNCHANGED cloudVars
  BY DEF TabStep, NewEvent, LookUp, Mismatch, Search, Insert, ShowPending, Confirm, Update, Cancel, FormFails
<1>3. TestsTyped'
  <2>1. CASE Insert(t)
    BY <1>1, <2>1, ReconcilesTests DEF Insert, rowVars, RestTyped
  <2>2. CASE Update(t)
    BY <1>1, <2>2, ReconcilesTests DEF Update, rowVars, RestTyped
  <2>3. CASE ~Insert(t) /\ ~Update(t)
    BY <1>1, <2>3 DEF TabStep, NewEvent, LookUp, Mismatch, Search, ShowPending, Confirm, Cancel,
                      FormFails, rowVars
  <2> QED BY <2>1, <2>2, <2>3
<1>4. HeldTyped'
  <2>1. CASE ~Mismatch(t)
    <3>1. UNCHANGED tokens /\ pending' \subseteq pending /\ cookie' \in {cookie, 0}
      BY <2>1 DEF TabStep, NewEvent, LookUp, Search, Insert, ShowPending, Confirm, Update, Cancel,
                  FormFails, pendingVars, Without
    <3> QED BY <3>1, HeldShrinks
  <2> QED BY <2>1, HeldGrows
<1> QED BY <1>2, <1>3, <1>4 DEF RestTyped, cloudVars

Typed == Right /\ HeldTyped /\ RestTyped /\ crossed \subseteq Event

LEMMA KeepsTyped ==
  ASSUME Typed, [Next]_restVars PROVE HeldTyped' /\ RestTyped' /\ (crossed \subseteq Event)'
<1>1. Known /\ HeldTyped /\ RestTyped /\ crossed \subseteq Event
  BY DEF Typed, Right
<1>2. (crossed \subseteq Event)'
  BY <1>1 DEF Next, NoteCrossing, restVars
<1>3. ASSUME UNCHANGED <<tokens, tested>>, pending' \subseteq pending, cookie' \in {cookie, 0},
             starts' \in Nat, exports' \subseteq exports
      PROVE  HeldTyped' /\ RestTyped'
  <2>1. HeldTyped'
    BY <1>1, <1>3, HeldShrinks
  <2>2. TestsTyped'
    BY <1>1, <1>3 DEF RestTyped, TestsTyped, Value
  <2> QED BY <1>1, <1>3, <2>1, <2>2 DEF RestTyped
<1>4. ASSUME NEW t \in Tab, TabStep(t) PROVE HeldTyped' /\ RestTyped'
  BY <1>1, <1>4, TabKeepsTyped
<1>5. CASE PageStep
  <2>1. PICK p \in Page : PageActs(p)
    BY <1>5 DEF PageStep, MappingsNext, PageActs
  <2>2. RestTyped'
    BY <1>1, <1>5, <2>1, PageKeepsTyped DEF PageStep
  <2>3. HeldTyped'
    BY <1>1, <1>5, HeldShrinks DEF PageStep, pendingVars
  <2> QED BY <1>2, <2>2, <2>3
<1>6. CASE \E c \in Config : Export(c)
  BY <1>1, <1>2, <1>3, <1>6 DEF Export, pendingVars, rowVars, RestTyped
<1>7. CASE Expire
  BY <1>1, <1>2, <1>3, <1>7 DEF Expire, cloudVars, rowVars, RestTyped
<1>8. CASE Restart
  <2>1. starts' \in Nat
    <3>1. starts \in Nat /\ starts > 0 /\ starts' = starts - 1
      BY <1>1, <1>8 DEF Restart, RestTyped
    <3> QED BY <3>1
  <2> QED BY <1>1, <1>2, <1>3, <1>8, <2>1 DEF Restart, rowVars
<1>9. CASE UNCHANGED restVars
  BY <1>1, <1>3, <1>9 DEF restVars, RestTyped
<1> QED BY <1>2, <1>4, <1>5, <1>6, <1>7, <1>8, <1>9, Acting

LEMMA AllTyped == LooseSpec => []Typed
<1>1. Init => HeldTyped /\ RestTyped /\ crossed \subseteq Event
  <2> SUFFICES ASSUME Init PROVE HeldTyped /\ RestTyped /\ crossed \subseteq Event
    OBVIOUS
  <2>1. tokens = 0 /\ pending = {} /\ cookie = 0 /\ crossed = {} /\ tested = [l \in Led |-> Untested]
    BY DEF Init, MappingsInit
  <2>2. starts \in Nat /\ exports \subseteq Config
    BY RegistrationAssumption DEF Init
  <2>3. IsFiniteSet({}) /\ Cardinality({}) <= MaxPending
    <3>1. Cardinality({}) = 0 /\ MaxPending \in Nat
      BY FS_EmptySet, RegistrationAssumption
    <3> QED BY <3>1, FS_EmptySet
  <2> QED BY <2>1, <2>2, <2>3 DEF HeldTyped, RestTyped, TestsTyped, Value, Untested
<1>2. Typed /\ [Next]_restVars => HeldTyped' /\ RestTyped' /\ (crossed \subseteq Event)'
  BY KeepsTyped
<1> QED BY <1>1, <1>2, AllRight, PTL DEF LooseSpec, Typed

(* The requests that are left, and the bound on those at once.             *)
LEMMA LeftGoes ==
  ASSUME left \in [Actor -> Nat], UNCHANGED left \/ \E x : NewRequest(x)
  PROVE  left' \in [Actor -> Nat]
<1>1. ASSUME NEW x, NewRequest(x) PROVE left' \in [Actor -> Nat]
  <2>1. left' = [left EXCEPT ![x] = @ - 1] /\ left[x] > 0
    BY <1>1 DEF NewRequest
  <2>2. x \in Actor => left[x] - 1 \in Nat
    <3>1. x \in Actor => left[x] \in Nat
      OBVIOUS
    <3> QED BY <2>1, <3>1
  <2> QED BY <2>1, <2>2
<1> QED BY <1>1

LEMMA NextSpends ==
  ASSUME Next PROVE UNCHANGED atOnce /\ (UNCHANGED left \/ \E x : NewRequest(x))
<1>1. UNCHANGED atOnce
  BY DEF Next
<1>2. ASSUME NEW t \in Tab, TabStep(t) PROVE UNCHANGED left \/ \E x : NewRequest(x)
  BY <1>2 DEF TabStep, NewEvent, LookUp, Mismatch, Search, Insert, ShowPending, Confirm, Update, Cancel, FormFails
<1>3. ASSUME NEW p \in Page, PageActs(p) PROVE UNCHANGED left \/ \E x : NewRequest(x)
  BY <1>3 DEF PageActs, Details, Post, ReadRows, EnsureRows, Validate, Save, PickTargets, PageFails, RecordTest
<1>4. CASE (\E c \in Config : Export(c)) \/ Expire \/ Restart
  BY <1>1, <1>4 DEF Export, Expire, Restart
<1> QED BY <1>1, <1>2, <1>3, <1>4, Stepping

LEMMA TypesFollow ==
  ASSUME Typed, Pages, left \in [Actor -> Nat], atOnce \in Nat PROVE TypeOK
<1>1. MappingsTypeOK
  <2>1. EventsKnown /\ RowsKnown /\ TestsTyped /\ \A p \in Page : page[p].step \in Steps
    BY DEF Typed, Right, Known, PagesKnown, RestTyped
  <2>2. tested \in [Led -> Value]
    BY <2>1 DEF TestsTyped
  <2> QED BY <2>1, <2>2 DEF EventsKnown, RowsKnown, Steps, MappingsTypeOK
<1>2. RegistrationTypeOK
  <2>1. cloud \in [Event -> Config] /\ \A t \in Tab : FormTyped(form[t])
    BY DEF Typed, Right, Known, FilesKnown
  <2>2. \A t \in Tab : screen[t].token \in 0 .. tokens
    BY DEF Pages, Screens
  <2> QED BY <2>1, <2>2 DEF Typed, HeldTyped, RestTyped, FormTyped, RegistrationTypeOK
<1> QED BY <1>1, <1>2 DEF TypeOK

(* The variables have their types, and there is never more than the cache  *)
(* of pending requests has room for: whatever is dropped for a new one.    *)
THEOREM TypesAreRight == Spec => []TypeOK
<1>1. Init => left \in [Actor -> Nat] /\ atOnce \in Nat
  BY RegistrationAssumption DEF Init
<1>2. left \in [Actor -> Nat] /\ atOnce \in Nat /\ [Next]_vars => (left \in [Actor -> Nat] /\ atOnce \in Nat)'
  BY NextSpends, LeftGoes DEF vars
<1>3. Typed /\ Pages /\ left \in [Actor -> Nat] /\ atOnce \in Nat => TypeOK
  BY TypesFollow
<1> QED BY <1>1, <1>2, <1>3, Loosely, AllTyped, PagesHold, PTL DEF Spec
=============================================================================
