---------------------------- MODULE ReportsProofs ----------------------------
(***************************************************************************)
(* For any events, threads and requests: a page shows a report only with   *)
(* the history it was made from.  A check counts the rows before it reads   *)
(* them, and rows are only added; so if the count is still right when the   *)
(* page looks, nothing has been added since, not even in between.          *)
(* Likewise for the structure: a check reads the GUID before the           *)
(* structure, the page compares the GUIDs only, and a GUID that was        *)
(* replaced does not come back with another structure.                     *)
(***************************************************************************)
EXTENDS Reports, RegistrationProofs

IsCheck(x) == x = [step |-> x.step, event |-> x.event, guid |-> x.guid, leds |-> x.leds,
                   marker |-> x.marker, history |-> x.history]
IsView(x) == x = [step |-> x.step, event |-> x.event, report |-> x.report]

(* What a report says of the history was so, and the marker before it.     *)
Past(r, e) ==
  /\ r.marker \in Nat /\ r.history \in Nat
  /\ r.marker <= r.history /\ r.history <= rows[e]

ChecksArePast ==
  /\ check = [c \in Checker |-> check[c]]
  /\ \A c \in Checker :
       /\ IsCheck(check[c])
       /\ check[c].step # "idle" => check[c].event \in Event
       /\ check[c].step = "read" => check[c].marker \in Nat /\ check[c].marker <= rows[check[c].event]
       /\ check[c].step = "compared" => Past(check[c], check[c].event)

ReportsArePast ==
  /\ reports = [e \in Event |-> reports[e]]
  /\ \A e \in Event : \A r \in reports[e] : Past(r, e)

ViewsArePast ==
  /\ view = [v \in Viewer |-> view[v]]
  /\ \A v \in Viewer :
       /\ IsView(view[v])
       /\ view[v].step \in {"taken", "same event"} =>
            view[v].event \in Event /\ Past(view[v].report, view[v].event)

IInv == /\ rows \in [Event -> Nat]
        /\ ChecksArePast /\ ReportsArePast /\ ViewsArePast

(* Rows are only added, and what is past stays so.                         *)
LEMMA PastStays ==
  ASSUME NEW r, NEW e \in Event, rows \in [Event -> Nat], rows' \in [Event -> Nat],
         rows'[e] >= rows[e], Past(r, e)
  PROVE  Past(r, e)'
BY DEF Past

(* If the marker is still right, so is what was read after it.             *)
LEMMA StillRight ==
  ASSUME NEW r, NEW e, Past(r, e), rows[e] = r.marker PROVE r.history = rows[e]
BY DEF Past

LEMMA NotFewer ==
  ASSUME rows \in [Event -> Nat], UNCHANGED rows
  PROVE  rows' \in [Event -> Nat] /\ \A e \in Event : rows'[e] >= rows[e]
OBVIOUS

LEMMA AllStay ==
  ASSUME IInv, rows' \in [Event -> Nat], \A e \in Event : rows'[e] >= rows[e]
  PROVE  /\ UNCHANGED check => ChecksArePast'
         /\ UNCHANGED reports => ReportsArePast'
         /\ UNCHANGED view => ViewsArePast'
<1>1. ASSUME UNCHANGED check PROVE ChecksArePast'
  <2> SUFFICES ASSUME NEW c \in Checker
               PROVE  /\ check[c].step = "read" => check[c].marker <= rows'[check[c].event]
                      /\ check[c].step = "compared" => Past(check[c], check[c].event)'
    BY <1>1 DEF IInv, ChecksArePast, IsCheck
  <2> QED BY <1>1, PastStays DEF IInv, ChecksArePast
<1>2. ASSUME UNCHANGED reports PROVE ReportsArePast'
  BY <1>2, PastStays DEF IInv, ReportsArePast
<1>3. ASSUME UNCHANGED view PROVE ViewsArePast'
  BY <1>3, PastStays DEF IInv, ViewsArePast, IsView
<1> QED BY <1>1, <1>2, <1>3

(* One thread goes on, and the others have read what they had read.        *)
LEMMA OneChecks ==
  ASSUME IInv, NEW c \in Checker, NEW x, check' = [check EXCEPT ![c] = x], UNCHANGED rows,
         IsCheck(x), x.step # "idle" => x.event \in Event,
         x.step = "read" => x.marker \in Nat /\ x.marker <= rows[x.event],
         x.step = "compared" => Past(x, x.event)
  PROVE  ChecksArePast'
<1> \A d \in Checker : check'[d] = IF d = c THEN x ELSE check[d]
  BY DEF IInv, ChecksArePast
<1> check' = [d \in Checker |-> check'[d]]
  BY DEF IInv, ChecksArePast
<1> QED BY DEF IInv, ChecksArePast, IsCheck, Past

LEMMA OneViews ==
  ASSUME IInv, NEW v \in Viewer, NEW x, view' = [view EXCEPT ![v] = x], UNCHANGED rows,
         IsView(x),
         x.step \in {"taken", "same event"} => x.event \in Event /\ Past(x.report, x.event)
  PROVE  ViewsArePast'
<1> \A u \in Viewer : view'[u] = IF u = v THEN x ELSE view[u]
  BY DEF IInv, ViewsArePast
<1> view' = [u \in Viewer |-> view'[u]]
  BY DEF IInv, ViewsArePast
<1> QED BY DEF IInv, ViewsArePast, IsView, Past

LEMMA Checking ==
  ASSUME IInv, NEW c \in Checker,
         \/ \E e \in Event : Begin(c, e)
         \/ LoadStructure(c) \/ Fetch(c) \/ ReadHistory(c) \/ Report(c) \/ CheckFails(c)
  PROVE  IInv'
<1> DEFINE x == check[c]
<1> IsCheck(x) /\ (x.step # "idle" => x.event \in Event)
  BY DEF IInv, ChecksArePast
<1> IsCheck(IdleCheck) /\ IdleCheck.step = "idle"
  BY DEF IsCheck, IdleCheck
<1>1. UNCHANGED rows /\ UNCHANGED view
  BY DEF Begin, LoadStructure, Fetch, ReadHistory, Report, CheckFails, OnlyChecks
<1>2. rows' \in [Event -> Nat] /\ ViewsArePast' /\ (UNCHANGED reports => ReportsArePast')
  <2>1. rows' \in [Event -> Nat] /\ \A e \in Event : rows'[e] >= rows[e]
    BY <1>1, NotFewer DEF IInv
  <2> QED BY <1>1, <2>1, AllStay
<1>3. CASE check' = [check EXCEPT ![c] = IdleCheck] /\ UNCHANGED reports
  BY <1>1, <1>2, <1>3, OneChecks DEF IInv
<1>4. CASE \E e \in Event : Begin(c, e)
  <2> PICK e \in Event : Begin(c, e)
    BY <1>4
  <2> PICK y : y = [IdleCheck EXCEPT !.step = "registered", !.event = e, !.guid = guid[e]]
    OBVIOUS
  <2> IsCheck(y) /\ y.step = "registered" /\ y.event = e
    BY DEF IsCheck, IdleCheck
  <2> check' = [check EXCEPT ![c] = y] /\ UNCHANGED reports
    BY DEF Begin, CheckGoes
  <2> QED BY <1>1, <1>2, OneChecks DEF IInv
<1>5. CASE LoadStructure(c)
  <2> PICK y : y = [x EXCEPT !.step = "structured", !.leds = leds[x.event]]
    OBVIOUS
  <2> IsCheck(y) /\ y.step = "structured" /\ y.event = x.event
    BY DEF IsCheck
  <2> check' = [check EXCEPT ![c] = y] /\ UNCHANGED reports /\ x.step # "idle"
    BY <1>5 DEF LoadStructure, CheckGoes, OnlyChecks
  <2> QED BY <1>1, <1>2, OneChecks DEF IInv
<1>6. CASE Fetch(c)
  <2> PICK y : y = [x EXCEPT !.step = "fetched"]
    OBVIOUS
  <2> IsCheck(y) /\ y.step = "fetched" /\ y.event = x.event
    BY DEF IsCheck
  <2> /\ check' = [check EXCEPT ![c] = y] \/ check' = [check EXCEPT ![c] = IdleCheck]
      /\ UNCHANGED reports /\ x.step # "idle"
    BY <1>6 DEF Fetch, CheckGoes, OnlyChecks
  <2> QED BY <1>1, <1>2, <1>3, OneChecks DEF IInv
<1>7. CASE ReadHistory(c)
  <2> HistoryReads[1] = "marker" /\ HistoryReads[2] = "history"
    BY DEF HistoryReads
  <2> UNCHANGED reports /\ x.step # "idle" /\ rows[x.event] \in Nat
    BY <1>7 DEF ReadHistory, CheckGoes, OnlyChecks, IInv
  <2>1. CASE x.step = "fetched"
    <3> PICK y : y = [x EXCEPT !.step = "read", !["marker"] = rows[x.event]]
      OBVIOUS
    <3> IsCheck(y) /\ y.step = "read" /\ y.event = x.event /\ y.marker = rows[x.event]
      BY DEF IsCheck
    <3> check' = [check EXCEPT ![c] = y]
      BY <1>7, <2>1 DEF ReadHistory, CheckGoes
    <3> y.marker \in Nat /\ y.marker <= rows[y.event] /\ y.event \in Event
      OBVIOUS
    <3> QED BY <1>1, <1>2, OneChecks DEF IInv
  <2>2. CASE x.step = "read"
    <3> PICK y : y = [x EXCEPT !.step = "compared", !["history"] = rows[x.event]]
      OBVIOUS
    <3> /\ IsCheck(y) /\ y.step = "compared" /\ y.event = x.event
        /\ y.marker = x.marker /\ y.history = rows[x.event]
      BY DEF IsCheck
    <3> Past(y, y.event)
      BY <2>2 DEF IInv, ChecksArePast, Past
    <3> check' = [check EXCEPT ![c] = y]
      BY <1>7, <2>2 DEF ReadHistory, CheckGoes
    <3> QED BY <1>1, <1>2, OneChecks DEF IInv
  <2> QED BY <1>7, <2>1, <2>2 DEF ReadHistory, CheckGoes
<1>8. CASE Report(c)
  <2> /\ check' = [check EXCEPT ![c] = IdleCheck] /\ x.step = "compared"
      /\ reports' = [reports EXCEPT ![x.event] = {x}]
    BY <1>8 DEF Report, CheckGoes
  <2>1. ChecksArePast'
    BY <1>1, OneChecks
  <2>2. ReportsArePast'
    <3> Past(x, x.event)
      BY DEF IInv, ChecksArePast
    <3> QED BY <1>1 DEF IInv, ReportsArePast, Past
  <2> QED BY <1>2, <2>1, <2>2 DEF IInv
<1>9. CASE CheckFails(c)
  BY <1>3, <1>9 DEF CheckFails, CheckGoes, OnlyChecks
<1> QED BY <1>4, <1>5, <1>6, <1>7, <1>8, <1>9

LEMMA Viewing ==
  ASSUME IInv, NEW v \in Viewer,
         \/ \E e \in Event : Open(v, e)
         \/ JudgeRegistration(v) \/ JudgeHistory(v) \/ Drop(v)
  PROVE  IInv'
<1> DEFINE x == view[v]
<1> IsView(IdleView) /\ IdleView.step = "idle"
  BY DEF IsView, IdleView
<1> /\ IsView(x)
    /\ x.step \in {"taken", "same event"} => x.event \in Event /\ Past(x.report, x.event)
  BY DEF IInv, ViewsArePast
<1>1. UNCHANGED rows /\ UNCHANGED check
  BY DEF Open, JudgeRegistration, JudgeHistory, Drop, OnlyViews
<1>2. rows' \in [Event -> Nat] /\ ChecksArePast' /\ (UNCHANGED reports => ReportsArePast')
  <2>1. rows' \in [Event -> Nat] /\ \A e \in Event : rows'[e] >= rows[e]
    BY <1>1, NotFewer DEF IInv
  <2> QED BY <1>1, <2>1, AllStay
<1>3. CASE \E e \in Event : Open(v, e)
  <2> PICK e \in Event : Open(v, e)
    BY <1>3
  <2> UNCHANGED reports
    BY DEF Open
  <2>1. CASE view' = [view EXCEPT ![v] = IdleView]
    BY <1>1, <1>2, <2>1, OneViews DEF IInv
  <2>2. CASE \E r \in reports[e] :
               view' = [view EXCEPT ![v] = [step |-> "taken", event |-> e, report |-> r]]
    <3> PICK r \in reports[e] :
               view' = [view EXCEPT ![v] = [step |-> "taken", event |-> e, report |-> r]]
      BY <2>2
    <3> PICK y : y = [step |-> "taken", event |-> e, report |-> r]
      OBVIOUS
    <3> IsView(y) /\ y.event = e /\ y.report = r
      BY DEF IsView
    <3> Past(r, e)
      BY DEF IInv, ReportsArePast
    <3> QED BY <1>1, <1>2, OneViews DEF IInv
  <2> QED BY <2>1, <2>2 DEF Open
<1>4. ASSUME NEW is, is # "idle", ViewGoes(v, x.step, is), UNCHANGED reports,
             is = "same event" => x.step = "taken", is # "taken"
      PROVE  IInv'
  <2> PICK y : y = [x EXCEPT !.step = is]
    OBVIOUS
  <2> IsView(y) /\ y.step = is /\ y.event = x.event /\ y.report = x.report
    BY DEF IsView
  <2> view' = [view EXCEPT ![v] = y]
    <3> view' = [view EXCEPT ![v] = [@ EXCEPT !.step = is]]
      BY <1>4 DEF ViewGoes
    <3> QED OBVIOUS
  <2> QED BY <1>1, <1>2, <1>4, OneViews DEF IInv
<1>5. CASE JudgeRegistration(v)
  <2> UNCHANGED reports /\ x.step = "taken"
    BY <1>5 DEF JudgeRegistration, ViewGoes, OnlyViews
  <2>1. ViewGoes(v, x.step, "same event") \/ ViewGoes(v, x.step, "outdated")
    BY <1>5 DEF JudgeRegistration
  <2> QED BY <1>4, <2>1
<1>6. CASE JudgeHistory(v)
  <2> UNCHANGED reports /\ x.step = "same event"
    BY <1>6 DEF JudgeHistory, ViewGoes, OnlyViews
  <2>1. ViewGoes(v, x.step, "shown") \/ ViewGoes(v, x.step, "outdated")
    BY <1>6 DEF JudgeHistory
  <2> QED BY <1>4, <2>1
<1>7. CASE Drop(v)
  <2> view' = [view EXCEPT ![v] = IdleView] /\ reports' = [reports EXCEPT ![x.event] = {}]
    BY <1>7 DEF Drop, ViewGoes
  <2>1. ViewsArePast'
    BY <1>1, OneViews
  <2>2. ReportsArePast'
    BY <1>1 DEF IInv, ReportsArePast, Past
  <2> QED BY <1>2, <2>1, <2>2 DEF IInv
<1> QED BY <1>3, <1>5, <1>6, <1>7

LEMMA Stays ==
  ASSUME IInv, [ReportNext]_allVars PROVE IInv'
<1>1. CASE UNCHANGED reportVars
  <2> rows' \in [Event -> Nat] /\ \A e \in Event : rows'[e] >= rows[e]
    BY <1>1 DEF IInv, reportVars
  <2> QED BY <1>1, AllStay DEF IInv, reportVars
<1>2. CASE Forget
  <2>1. ChecksArePast'
    BY <1>2 DEF Forget, ChecksArePast, IsCheck, IdleCheck
  <2>2. ReportsArePast'
    BY <1>2 DEF Forget, ReportsArePast, NoReports
  <2>3. ViewsArePast'
    BY <1>2 DEF Forget, ViewsArePast, IsView, IdleView
  <2> QED BY <1>2, <2>1, <2>2, <2>3 DEF IInv, Forget
<1>3. ASSUME NEW r \in Run, NEW e \in Event, Record(r, e) PROVE IInv'
  <2> rows' \in [Event -> Nat] /\ (\A d \in Event : rows'[d] >= rows[d])
    BY <1>3 DEF Record, IInv
  <2> QED BY <1>3, AllStay DEF Record, IInv
<1>4. ASSUME NEW c \in Checker,
             \/ \E e \in Event : Begin(c, e)
             \/ LoadStructure(c) \/ Fetch(c) \/ ReadHistory(c) \/ Report(c) \/ CheckFails(c)
      PROVE  IInv'
  BY <1>4, Checking
<1>5. ASSUME NEW v \in Viewer,
             \/ \E e \in Event : Open(v, e)
             \/ JudgeRegistration(v) \/ JudgeHistory(v) \/ Drop(v)
      PROVE  IInv'
  BY <1>5, Viewing
<1> QED BY <1>1, <1>2, <1>3, <1>4, <1>5 DEF ReportNext, allVars, reportVars

(* What the page shows was compared with exactly the history there is.     *)
THEOREM HistoryShown == ReportSpec => ShownHistoryIsTrue
<1>1. ReportInit => IInv
  <2> SUFFICES ASSUME ReportInit PROVE IInv
    OBVIOUS
  <2>1. rows \in [Event -> Nat]
    BY DEF ReportInit
  <2>2. ChecksArePast
    BY DEF ReportInit, ChecksArePast, IsCheck, IdleCheck
  <2>3. ReportsArePast
    BY DEF ReportInit, ReportsArePast, NoReports
  <2>4. ViewsArePast
    BY DEF ReportInit, ViewsArePast, IsView, IdleView
  <2> QED BY <2>1, <2>2, <2>3, <2>4 DEF IInv
<1>2. IInv /\ [ReportNext]_allVars => IInv'
  BY Stays
<1> DEFINE Shows(v) == view[v].step = "same event" /\ view'[v].step = "shown"
<1>3. IInv /\ [ReportNext]_allVars =>
        [\A v \in Viewer : Shows(v) => view[v].report.history = rows[view[v].event]]_allVars
  <2> SUFFICES ASSUME IInv, ReportNext, NEW v \in Viewer, Shows(v)
               PROVE  view[v].report.history = rows[view[v].event]
    OBVIOUS
  <2>1. SameHistory(view[v].report, view[v].event)
    <3>1. view'[v] # view[v]
      OBVIOUS
    <3>2. ASSUME Next, IF starts' # starts THEN Forget ELSE UNCHANGED reportVars PROVE FALSE
      <4>1. CASE UNCHANGED reportVars
        BY <3>1, <4>1 DEF reportVars
      <4>2. CASE Forget
        <5> view'[v] = IdleView /\ IdleView.step = "idle"
          BY <4>2 DEF Forget, IdleView
        <5> QED OBVIOUS
      <4> QED BY <3>2, <4>1, <4>2
    <3>3. ASSUME NEW u \in Viewer, NEW e \in Event, Open(u, e) PROVE FALSE
      BY <3>3 DEF Open, IdleView, IInv, ViewsArePast
    <3>4. ASSUME NEW u \in Viewer, JudgeRegistration(u) \/ Drop(u) PROVE FALSE
      BY <3>4 DEF JudgeRegistration, Drop, ViewGoes, IdleView, IInv, ViewsArePast, IsView
    <3>5. ASSUME NEW u \in Viewer, JudgeHistory(u) PROVE SameHistory(view[v].report, view[v].event)
      BY <3>1, <3>5 DEF JudgeHistory, ViewGoes, IInv, ViewsArePast, IsView
    <3>6. ASSUME NEW c \in Checker,
                 \/ \E e \in Event : Begin(c, e)
                 \/ LoadStructure(c) \/ Fetch(c) \/ ReadHistory(c) \/ Report(c) \/ CheckFails(c)
          PROVE  FALSE
      BY <3>1, <3>6 DEF Begin, LoadStructure, Fetch, ReadHistory, Report, CheckFails, OnlyChecks
    <3>7. ASSUME NEW r \in Run, NEW e \in Event, Record(r, e) PROVE FALSE
      BY <3>1, <3>7 DEF Record
    <3> QED BY <3>2, <3>3, <3>4, <3>5, <3>6, <3>7 DEF ReportNext
  <2>2. Past(view[v].report, view[v].event) /\ view[v].event \in Event /\ rows \in [Event -> Nat]
    BY DEF IInv, ViewsArePast
  <2>3. rows[view[v].event] = view[v].report.marker
    BY <2>1 DEF SameHistory
  <2> QED BY <2>2, <2>3, StillRight
<1> QED BY <1>1, <1>2, <1>3, PTL DEF ReportSpec, ShownHistoryIsTrue

(* Checks, reports and pages only read what the registrations write.       *)
LEMMA EachOnlyReads == [ReportNext]_allVars => [Next]_restVars
<1> SUFFICES ASSUME [ReportNext]_allVars PROVE Next \/ UNCHANGED restVars
  OBVIOUS
<1>1. UNCHANGED others => UNCHANGED restVars
  BY DEF others, restVars, eventVars, rowVars, cloudVars, pendingVars
<1>2. CASE Next
  BY <1>2
<1>3. ASSUME NEW e \in Event, (\E r \in Run : Record(r, e)) \/ (\E c \in Checker : Begin(c, e))
                              \/ (\E v \in Viewer : Open(v, e))
      PROVE  UNCHANGED restVars
  BY <1>1, <1>3 DEF Record, Begin, Open
<1>4. ASSUME NEW c \in Checker, LoadStructure(c) \/ Fetch(c) \/ ReadHistory(c) \/ Report(c) \/ CheckFails(c)
      PROVE  UNCHANGED restVars
  BY <1>1, <1>4 DEF LoadStructure, Fetch, ReadHistory, Report, CheckFails, OnlyChecks
<1>5. ASSUME NEW v \in Viewer, JudgeRegistration(v) \/ JudgeHistory(v) \/ Drop(v)
      PROVE  UNCHANGED restVars
  BY <1>1, <1>5 DEF JudgeRegistration, JudgeHistory, Drop, OnlyViews
<1>6. CASE UNCHANGED allVars
  BY <1>6 DEF allVars, vars, restVars
<1> QED BY <1>2, <1>3, <1>4, <1>5, <1>6 DEF ReportNext

LEMMA OnlyReading == ReportSpec => LooseSpec
<1>1. ReportInit => Init
  BY DEF ReportInit
<1> QED BY <1>1, EachOnlyReads, PTL DEF ReportSpec, LooseSpec

(* So events, rows and pending requests stay as they are proved to be,     *)
(* whatever checks and pages go on meanwhile.                              *)
THEOREM RegistrationsAmongReports ==
  ReportSpec => /\ [](GuidIsUnique /\ ShownIsApplied /\ TestIsOfFolder /\ OneFolderEach /\ RowsFollowFile)
                /\ FoldersSurvive
BY OnlyReading, GuidsAlways, PagesAlways, TestsAlways, FoldersAlways, RowsAlways, SurvivalAlways, PTL

(* The types of the checks, the reports and the pages.                     *)
CheckSteps == {"idle", "registered", "structured", "fetched", "read", "compared"}
ViewSteps == {"idle", "taken", "same event", "shown", "outdated"}

CheckTyped(x) ==
  /\ IsCheck(x) /\ x.step \in CheckSteps
  /\ x.step # "idle" => x.event \in Event /\ x.guid \in Guid

ChecksTyped == check = [c \in Checker |-> check[c]] /\ \A c \in Checker : CheckTyped(check[c])

ReportsTyped ==
  /\ reports = [e \in Event |-> reports[e]]
  /\ \A e \in Event : reports[e] = {} \/ \E r : reports[e] = {r} /\ r.guid \in Guid

ViewsTyped ==
  view = [v \in Viewer |-> view[v]] /\ \A v \in Viewer : IsView(view[v]) /\ view[v].step \in ViewSteps

AllReportsTyped ==
  /\ rows \in [Event -> Nat] /\ left \in [Actor -> Nat] /\ atOnce \in Nat
  /\ ChecksTyped /\ ReportsTyped /\ ViewsTyped

LEMMA CheckGoesTyped ==
  ASSUME ChecksTyped, EventsKnown, NEW c \in Checker,
         \/ \E e \in Event : Begin(c, e)
         \/ LoadStructure(c) \/ Fetch(c) \/ ReadHistory(c) \/ Report(c) \/ CheckFails(c)
  PROVE  ChecksTyped'
<1> PICK x : x = check[c]
  OBVIOUS
<1>1. CheckTyped(x) /\ check = [d \in Checker |-> check[d]]
  BY DEF ChecksTyped
<1>2. ASSUME NEW y, CheckTyped(y), check' = [check EXCEPT ![c] = y] PROVE ChecksTyped'
  <2>1. check' = [d \in Checker |-> check'[d]] /\ \A d \in Checker : check'[d] = IF d = c THEN y ELSE check[d]
    BY <1>1, <1>2
  <2>2. \A d \in Checker : CheckTyped(check'[d])
    BY <1>2, <2>1 DEF ChecksTyped
  <2> QED BY <2>1, <2>2 DEF ChecksTyped, CheckTyped, IsCheck, CheckSteps
<1>3. CheckTyped(IdleCheck)
  BY DEF CheckTyped, IdleCheck, IsCheck, CheckSteps
<1>4. ASSUME NEW e \in Event, Begin(c, e) PROVE ChecksTyped'
  <2> PICK y : y = [IdleCheck EXCEPT !.step = "registered", !.event = e, !.guid = guid[e]]
    OBVIOUS
  <2>1. IsCheck(y) /\ y.step = "registered" /\ y.event = e /\ y.guid = guid[e]
    BY DEF IsCheck, IdleCheck
  <2>2. guid[e] \in Guid /\ check' = [check EXCEPT ![c] = y]
    BY <1>4 DEF Begin, CheckGoes, Registered, EventsKnown
  <2> QED BY <1>2, <2>1, <2>2 DEF CheckTyped, CheckSteps
<1>5. ASSUME NEW y, IsCheck(y), x.step # "idle", y.event = x.event, y.guid = x.guid, y.step \in CheckSteps,
             check' = [check EXCEPT ![c] = y]
      PROVE  ChecksTyped'
  BY <1>1, <1>2, <1>5 DEF CheckTyped
<1>6. CASE LoadStructure(c)
  <2> PICK y : y = [x EXCEPT !.step = "structured", !.leds = leds[x.event]]
    OBVIOUS
  <2>1. IsCheck(y) /\ y.step = "structured" /\ y.event = x.event /\ y.guid = x.guid
    BY <1>1 DEF CheckTyped, IsCheck
  <2>2. x.step # "idle" /\ check' = [check EXCEPT ![c] = y]
    BY <1>6 DEF LoadStructure, CheckGoes
  <2> QED BY <1>5, <2>1, <2>2 DEF CheckSteps
<1>7. CASE Fetch(c)
  <2> PICK y : y = [x EXCEPT !.step = "fetched"]
    OBVIOUS
  <2>1. IsCheck(y) /\ y.step = "fetched" /\ y.event = x.event /\ y.guid = x.guid
    BY <1>1 DEF CheckTyped, IsCheck
  <2>2. x.step # "idle" /\ (check' = [check EXCEPT ![c] = y] \/ check' = [check EXCEPT ![c] = IdleCheck])
    BY <1>7 DEF Fetch, CheckGoes
  <2> QED BY <1>2, <1>3, <1>5, <2>1, <2>2 DEF CheckSteps
<1>8. CASE ReadHistory(c)
  <2>1. HistoryReads[1] = "marker" /\ HistoryReads[2] = "history"
    BY DEF HistoryReads
  <2>2. PICK y : \/ y = [x EXCEPT !.step = "read", !["marker"] = rows[x.event]]
                    /\ x.step = "fetched" /\ check' = [check EXCEPT ![c] = y]
                 \/ y = [x EXCEPT !.step = "compared", !["history"] = rows[x.event]]
                    /\ x.step = "read" /\ check' = [check EXCEPT ![c] = y]
    BY <1>8, <2>1 DEF ReadHistory, CheckGoes
  <2>3. /\ IsCheck(y) /\ y.step \in {"read", "compared"} /\ y.event = x.event /\ y.guid = x.guid
        /\ x.step # "idle" /\ check' = [check EXCEPT ![c] = y]
    BY <1>1, <2>2 DEF CheckTyped, IsCheck
  <2> QED BY <1>5, <2>3 DEF CheckSteps
<1>9. CASE Report(c) \/ CheckFails(c)
  BY <1>2, <1>3, <1>9 DEF Report, CheckFails, CheckGoes
<1> QED BY <1>4, <1>6, <1>7, <1>8, <1>9

LEMMA ReportsGoTyped ==
  ASSUME ReportsTyped, \/ UNCHANGED reports
                       \/ \E e : reports' = [reports EXCEPT ![e] = {}]
                       \/ \E e, r : reports' = [reports EXCEPT ![e] = {r}] /\ r.guid \in Guid
  PROVE  ReportsTyped'
<1>1. CASE UNCHANGED reports
  BY <1>1 DEF ReportsTyped
<1>2. ASSUME NEW e, NEW S, S = {} \/ \E r : S = {r} /\ r.guid \in Guid, reports' = [reports EXCEPT ![e] = S]
      PROVE  ReportsTyped'
  <2>1. /\ reports' = [d \in Event |-> reports'[d]]
        /\ \A d \in Event : reports'[d] = IF d = e THEN S ELSE reports[d]
    BY <1>2 DEF ReportsTyped
  <2>2. \A d \in Event : reports'[d] = {} \/ \E r : reports'[d] = {r} /\ r.guid \in Guid
    BY <1>2, <2>1 DEF ReportsTyped
  <2> QED BY <2>1, <2>2 DEF ReportsTyped
<1> QED BY <1>1, <1>2

LEMMA ViewsGoTyped ==
  ASSUME ViewsTyped, NEW v \in Viewer,
         (\E e \in Event : Open(v, e)) \/ JudgeRegistration(v) \/ JudgeHistory(v) \/ Drop(v)
  PROVE  ViewsTyped'
<1> PICK x : x = view[v]
  OBVIOUS
<1>1. view = [u \in Viewer |-> view[u]] /\ IsView(x)
  BY DEF ViewsTyped
<1>2. ASSUME NEW y, IsView(y), y.step \in ViewSteps, view' = [view EXCEPT ![v] = y] PROVE ViewsTyped'
  <2>1. view' = [u \in Viewer |-> view'[u]] /\ \A u \in Viewer : view'[u] = IF u = v THEN y ELSE view[u]
    BY <1>1, <1>2
  <2>2. \A u \in Viewer : IsView(view'[u]) /\ view'[u].step \in ViewSteps
    BY <1>2, <2>1 DEF ViewsTyped
  <2> QED BY <2>1, <2>2 DEF ViewsTyped, IsView, ViewSteps
<1>3. IsView(IdleView) /\ IdleView.step \in ViewSteps
  BY DEF IsView, IdleView, ViewSteps
<1>4. ASSUME NEW e \in Event, Open(v, e) PROVE ViewsTyped'
  <2>1. CASE view' = [view EXCEPT ![v] = IdleView]
    BY <1>2, <1>3, <2>1
  <2>2. CASE \E r \in reports[e] :
               view' = [view EXCEPT ![v] = [step |-> "taken", event |-> e, report |-> r]]
    <3>1. PICK r : view' = [view EXCEPT ![v] = [step |-> "taken", event |-> e, report |-> r]]
      BY <2>2
    <3> PICK y : y = [step |-> "taken", event |-> e, report |-> r]
      OBVIOUS
    <3>2. IsView(y) /\ y.step \in ViewSteps
      BY DEF IsView, ViewSteps
    <3> QED BY <1>2, <3>1, <3>2
  <2> QED BY <1>4, <2>1, <2>2 DEF Open
<1>5. ASSUME NEW is \in ViewSteps, is # "idle", NEW was, ViewGoes(v, was, is) PROVE ViewsTyped'
  <2> PICK y : y = [x EXCEPT !.step = is]
    OBVIOUS
  <2>1. IsView(y) /\ y.step = is
    BY <1>1 DEF IsView
  <2>2. view' = [view EXCEPT ![v] = [@ EXCEPT !.step = is]]
    BY <1>5 DEF ViewGoes
  <2>3. view' = [view EXCEPT ![v] = y]
    BY <1>1, <2>2
  <2> QED BY <1>2, <1>5, <2>1, <2>3
<1>6. CASE JudgeRegistration(v) \/ JudgeHistory(v)
  <2>1. \E is \in {"same event", "shown", "outdated"}, was \in {"taken", "same event"} : ViewGoes(v, was, is)
    BY <1>6 DEF JudgeRegistration, JudgeHistory
  <2> QED BY <1>5, <2>1 DEF ViewSteps
<1>7. CASE Drop(v)
  <2>1. view' = [view EXCEPT ![v] = IdleView]
    BY <1>7 DEF Drop, ViewGoes
  <2> QED BY <1>2, <1>3, <2>1
<1> QED BY <1>4, <1>6, <1>7

LEMMA ReportStepTyped ==
  ASSUME AllReportsTyped, EventsKnown, [ReportNext]_allVars PROVE AllReportsTyped'
<1>1. /\ rows \in [Event -> Nat] /\ left \in [Actor -> Nat] /\ atOnce \in Nat
      /\ ChecksTyped /\ ReportsTyped /\ ViewsTyped
  BY DEF AllReportsTyped
<1>2. UNCHANGED check => ChecksTyped'
  BY <1>1 DEF ChecksTyped, CheckTyped, IsCheck, CheckSteps
<1>3. UNCHANGED reports => ReportsTyped'
  BY <1>1 DEF ReportsTyped
<1>4. UNCHANGED view => ViewsTyped'
  BY <1>1 DEF ViewsTyped, IsView, ViewSteps
<1>5. left' \in [Actor -> Nat] \/ ~(UNCHANGED left \/ \E x : NewRequest(x))
  BY <1>1, LeftGoes
<1>6. CASE Next /\ IF starts' # starts THEN Forget ELSE UNCHANGED reportVars
  <2>1. left' \in [Actor -> Nat] /\ atOnce' \in Nat
    BY <1>1, <1>5, <1>6, NextSpends
  <2>2. CASE UNCHANGED reportVars
    BY <1>1, <1>2, <1>3, <1>4, <2>1, <2>2 DEF reportVars, AllReportsTyped
  <2>3. CASE Forget
    <3>1. UNCHANGED rows /\ reports' = NoReports /\ check' = [c \in Checker |-> IdleCheck]
          /\ view' = [v \in Viewer |-> IdleView]
      BY <2>3 DEF Forget
    <3>2. ChecksTyped'
      BY <3>1 DEF ChecksTyped, CheckTyped, IdleCheck, IsCheck, CheckSteps
    <3>3. ReportsTyped'
      BY <3>1 DEF ReportsTyped, NoReports
    <3>4. ViewsTyped'
      BY <3>1 DEF ViewsTyped, IdleView, IsView, ViewSteps
    <3> QED BY <1>1, <2>1, <3>1, <3>2, <3>3, <3>4 DEF AllReportsTyped
  <2> QED BY <1>6, <2>2, <2>3
<1>7. ASSUME NEW r \in Run, NEW e \in Event, Record(r, e) PROVE AllReportsTyped'
  <2>1. rows' \in [Event -> Nat]
    BY <1>1, <1>7 DEF Record
  <2>2. UNCHANGED <<atOnce, check, reports, view>> /\ NewRequest(r)
    BY <1>7 DEF Record, others
  <2> QED BY <1>1, <1>2, <1>3, <1>4, <1>5, <2>1, <2>2 DEF AllReportsTyped
<1>8. ASSUME NEW c \in Checker,
             \/ \E e \in Event : Begin(c, e)
             \/ LoadStructure(c) \/ Fetch(c) \/ ReadHistory(c) \/ Report(c) \/ CheckFails(c)
      PROVE  AllReportsTyped'
  <2>1. ChecksTyped'
    BY <1>1, <1>8, CheckGoesTyped
  <2>2. UNCHANGED <<atOnce, rows, view>> /\ (UNCHANGED left \/ \E x : NewRequest(x))
    BY <1>8 DEF Begin, LoadStructure, Fetch, ReadHistory, Report, CheckFails, OnlyChecks, others
  <2>3. ReportsTyped'
    <3>1. CASE Report(c)
      <4>1. check[c].step = "compared" /\ reports' = [reports EXCEPT ![check[c].event] = {check[c]}]
        BY <3>1 DEF Report, CheckGoes
      <4>2. check[c].guid \in Guid
        BY <1>1, <4>1 DEF ChecksTyped, CheckTyped
      <4> QED BY <1>1, <4>1, <4>2, ReportsGoTyped
    <3>2. CASE ~Report(c)
      BY <1>3, <1>8, <3>2 DEF Begin, LoadStructure, Fetch, ReadHistory, CheckFails, OnlyChecks
    <3> QED BY <3>1, <3>2
  <2> QED BY <1>1, <1>4, <1>5, <2>1, <2>2, <2>3 DEF AllReportsTyped
<1>9. ASSUME NEW v \in Viewer,
             (\E e \in Event : Open(v, e)) \/ JudgeRegistration(v) \/ JudgeHistory(v) \/ Drop(v)
      PROVE  AllReportsTyped'
  <2>1. ViewsTyped'
    BY <1>1, <1>9, ViewsGoTyped
  <2>2. UNCHANGED <<atOnce, rows, check>> /\ (UNCHANGED left \/ \E x : NewRequest(x))
    BY <1>9 DEF Open, JudgeRegistration, JudgeHistory, Drop, OnlyViews, others
  <2>3. UNCHANGED reports \/ \E e : reports' = [reports EXCEPT ![e] = {}]
    BY <1>9 DEF Open, JudgeRegistration, JudgeHistory, Drop, OnlyViews
  <2>4. ReportsTyped'
    BY <1>1, <2>3, ReportsGoTyped
  <2> QED BY <1>1, <1>2, <1>5, <2>1, <2>2, <2>4 DEF AllReportsTyped
<1>10. CASE UNCHANGED allVars
  <2>1. UNCHANGED <<left, atOnce, rows, check, reports, view>>
    BY <1>10 DEF allVars, vars, reportVars
  <2> QED BY <1>1, <1>2, <1>3, <1>4, <2>1 DEF AllReportsTyped
<1> QED BY <1>6, <1>7, <1>8, <1>9, <1>10 DEF ReportNext

LEMMA ReportsAlwaysTyped == ReportSpec => []AllReportsTyped
<1>1. ReportInit => AllReportsTyped
  <2> SUFFICES ASSUME ReportInit PROVE AllReportsTyped
    OBVIOUS
  <2>1. rows \in [Event -> Nat] /\ left \in [Actor -> Nat] /\ atOnce \in Nat
    BY RegistrationAssumption DEF ReportInit, Init
  <2>2. ChecksTyped
    BY DEF ReportInit, ChecksTyped, CheckTyped, IdleCheck, IsCheck, CheckSteps
  <2>3. ReportsTyped
    BY DEF ReportInit, ReportsTyped, NoReports
  <2>4. ViewsTyped
    BY DEF ReportInit, ViewsTyped, IdleView, IsView, ViewSteps
  <2> QED BY <2>1, <2>2, <2>3, <2>4 DEF AllReportsTyped
<1>2. AllReportsTyped /\ Typed /\ [ReportNext]_allVars => AllReportsTyped'
  BY ReportStepTyped DEF Typed, Right, Known
<1> QED BY <1>1, <1>2, OnlyReading, AllTyped, PTL DEF ReportSpec

(* At most one report is kept of an event, and it is of a registration.    *)
THEOREM ReportTypes == ReportSpec => []ReportTypeOK
<1>1. AllReportsTyped /\ Typed /\ Pages => ReportTypeOK
  <2> SUFFICES ASSUME AllReportsTyped, Typed, Pages PROVE ReportTypeOK
    OBVIOUS
  <2>1. TypeOK
    BY TypesFollow DEF AllReportsTyped
  <2>2. \A e \in Event : Cardinality(reports[e]) <= 1 /\ \A r \in reports[e] : r.guid \in Guid
    <3> SUFFICES ASSUME NEW e \in Event
                 PROVE  Cardinality(reports[e]) <= 1 /\ \A r \in reports[e] : r.guid \in Guid
      OBVIOUS
    <3>1. reports[e] = {} \/ \E r : reports[e] = {r} /\ r.guid \in Guid
      BY DEF AllReportsTyped, ReportsTyped
    <3>2. Cardinality({}) <= 1 /\ \A r : Cardinality({r}) <= 1
      BY FS_EmptySet, FS_Singleton
    <3> QED BY <3>1, <3>2
  <2> QED BY <2>1, <2>2 DEF AllReportsTyped, ChecksTyped, CheckTyped, CheckSteps, ViewsTyped, ViewSteps,
                            ReportTypeOK
<1> QED BY <1>1, ReportsAlwaysTyped, OnlyReading, AllTyped, PagesHold, PTL

-----------------------------------------------------------------------------
(* The structure of a report.  A GUID names one file of an event: so a     *)
(* registration that is replaced is gone for good, unless a file of its    *)
(* GUID is still ahead, or a request still holds one.                      *)
Usable(e, c) == Parses(c) /\ IsAtItsPlace(e, c)
Coming(e, g) == \E c \in exports : Usable(e, c) /\ c.guid = g
There(e, g) == Usable(e, cloud[e]) /\ cloud[e].guid = g
Ahead(e, g) == Coming(e, g) \/ There(e, g)

FilesFresh ==
  /\ \A c, d \in exports : Parses(c) /\ Parses(d) /\ c.place = d.place /\ c.guid = d.guid => c = d
  /\ \A e \in Event : Usable(e, cloud[e]) => ~Coming(e, cloud[e].guid)

(* A GUID that was taken from the cloud: none comes with it any more, and  *)
(* the file that is there has it with the same structure.                  *)
Taken(e, g, ls) == ~Coming(e, g) /\ (There(e, g) => cloud[e].leds = ls)

FilesTaken ==
  /\ \A e \in Registered : Taken(e, guid[e], leds[e])
  /\ \A t \in Tab : form[t].step # "idle" => Taken(form[t].event, form[t].config.guid, form[t].config.leds)
  /\ \A q \in pending : q.event \in Registered /\ Taken(q.event, q.config.guid, q.config.leds)

(* What may be written is the registration there is, or one that comes     *)
(* after it.                                                               *)
Replaces(e, c) ==
  e \notin crossed /\ e \in Registered =>
    IF c.guid = guid[e] THEN c.leds = leds[e] ELSE ~Ahead(e, guid[e])

FilesNewer ==
  /\ \A t \in Tab : form[t].step # "idle" => Replaces(form[t].event, form[t].config)
  /\ \A q \in Held(cookie) : Replaces(q.event, q.config)

FilesRight == FilesFresh /\ FilesTaken /\ FilesNewer

(* What the steps of the registrations do to files and requests.           *)
Keeps == UNCHANGED <<guid, leds, tokens>> /\ pending' \subseteq pending /\ cookie' \in {cookie, 0}

Asks(x) ==
  /\ x.step # "idle" /\ x.event \in Registered
  /\ UNCHANGED <<guid, leds>> /\ tokens' = tokens + 1 /\ cookie' = tokens + 1
  /\ \E new : /\ new.token = tokens + 1 /\ new.event = x.event /\ new.config = x.config
              /\ pending' \subseteq pending \cup {new}

Replaced(x) ==
  /\ x.step # "idle" /\ UNCHANGED tokens /\ pending' \subseteq pending
  /\ guid' = [guid EXCEPT ![x.event] = x.config.guid]
  /\ leds' = [leds EXCEPT ![x.event] = x.config.leds]
  /\ cookie' = 0 \/ (cookie' = cookie /\ guid[x.event] = NoGuid)

FormFrom(x, y) ==
  \/ y.step = "idle"
  \/ x.step # "idle" /\ y.event = x.event /\ y.config = x.config
  \/ y.event \in Event /\ Usable(y.event, cloud[y.event]) /\ y.config = cloud[y.event]
  \/ \E q \in Held(cookie) : y.event = q.event /\ y.config = q.config

LEMMA MismatchIsRegistered ==
  ASSUME Known, NEW t \in Tab, form[t].step = "fetched", RowSays(t) = "mismatch"
  PROVE  form[t].event \in Registered
<1>1. form[t].event \in Event /\ form[t].config.guid # NoGuid
  BY RegistrationAssumption, MappingsAssumption DEF Known, FormTyped
<1>2. CASE guid[form[t].event] = NoGuid
  <2>1. RowSays(t) \in {"refused", "free"}
    BY <1>1, <1>2 DEF RowSays
  <2> QED BY <2>1
<1> QED BY <1>1, <1>2 DEF Registered

LEMMA TabMoves ==
  ASSUME Known, NEW t \in Tab, TabStep(t), NEW x, x = form[t]
  PROVE  /\ UNCHANGED <<cloud, exports>>
         /\ \A u \in Tab \ {t} : form'[u] = form[u]
         /\ FormFrom(x, form'[t])
         /\ \/ Keeps
            \/ form'[t].step = "idle" /\ (Asks(x) \/ Replaced(x))
<1>1. UNCHANGED <<cloud, exports>>
  BY DEF TabStep, NewEvent, LookUp, Mismatch, Search, Insert, ShowPending, Confirm, Update, Cancel,
         FormFails, cloudVars
<1>2. PICK y : form' = [form EXCEPT ![t] = y] /\ Answer(x, y)
  BY Tabbing DEF Known
<1>3. form'[t] = y /\ \A u \in Tab \ {t} : form'[u] = form[u]
  BY <1>2 DEF Known, FormsKnown
<1>4. FormFrom(x, y)
  BY <1>2 DEF Answer, FormFrom, Usable
<1>5. Ended(t) => form'[t].step = "idle"
  BY <1>2, <1>3 DEF Ended, IdleForm, Known, FormsKnown
<1>6. CASE Mismatch(t)
  <2>1. x.event \in Registered
    BY <1>6, MismatchIsRegistered DEF Mismatch
  <2> PICK new : new = [token |-> tokens + 1, event |-> x.event, config |-> x.config]
    OBVIOUS
  <2>2. new.token = tokens + 1 /\ new.event = x.event /\ new.config = x.config
    OBVIOUS
  <2>3. /\ x.step = "fetched" /\ UNCHANGED <<guid, leds>> /\ tokens' = tokens + 1 /\ cookie' = tokens + 1
        /\ pending' \subseteq pending \cup {new} /\ Ended(t)
    BY <1>6 DEF Mismatch, Room, Without, eventVars
  <2>4. Asks(x)
    BY <2>1, <2>2, <2>3 DEF Asks
  <2> QED BY <1>1, <1>3, <1>4, <1>5, <2>3, <2>4
<1>7. CASE Insert(t)
  <2>1. x.step = "inserting" /\ Ended(t) /\ UNCHANGED <<tokens, pending, cookie>>
    BY <1>7 DEF Insert, pendingVars
  <2>2. \/ UNCHANGED <<guid, leds>>
        \/ /\ guid[x.event] = NoGuid
           /\ guid' = [guid EXCEPT ![x.event] = x.config.guid]
           /\ leds' = [leds EXCEPT ![x.event] = x.config.leds]
    BY <1>7 DEF Insert, eventVars
  <2>3. Keeps \/ Replaced(x)
    BY <2>1, <2>2 DEF Keeps, Replaced
  <2> QED BY <1>1, <1>3, <1>4, <1>5, <2>1, <2>3
<1>8. CASE Update(t)
  <2>1. x.step = "updating" /\ Ended(t) /\ UNCHANGED tokens
    BY <1>8 DEF Update
  <2>2. \/ UNCHANGED <<guid, leds, pending, cookie>>
        \/ /\ guid' = [guid EXCEPT ![x.event] = x.config.guid]
           /\ leds' = [leds EXCEPT ![x.event] = x.config.leds]
           /\ pending' \subseteq pending /\ cookie' = 0
    BY <1>8 DEF Update, eventVars, Without
  <2>3. Keeps \/ Replaced(x)
    BY <2>1, <2>2 DEF Keeps, Replaced
  <2> QED BY <1>1, <1>3, <1>4, <1>5, <2>1, <2>3
<1>9. CASE ~Mismatch(t) /\ ~Insert(t) /\ ~Update(t)
  <2>1. UNCHANGED <<guid, leds, tokens>> /\ pending' \subseteq pending /\ cookie' \in {cookie, 0}
    BY <1>9 DEF TabStep, NewEvent, LookUp, Search, ShowPending, Confirm, Cancel, FormFails, pendingVars,
                Without, eventVars
  <2> QED BY <1>1, <1>3, <1>4, <2>1 DEF Keeps
<1> QED BY <1>6, <1>7, <1>8, <1>9

Exported ==
  \E c \in exports : exports' = exports \ {c} /\ cloud' = [cloud EXCEPT ![c.place] = c]

Writes ==
  \E t \in Tab : /\ form'[t].step = "idle" /\ (Asks(form[t]) \/ Replaced(form[t]))
                 /\ \A u \in Tab \ {t} : form'[u] = form[u]

LEMMA Moves ==
  ASSUME Known, [Next]_restVars
  PROVE  /\ crossed \subseteq crossed'
         /\ UNCHANGED <<cloud, exports>> \/ Exported
         /\ \A t \in Tab : FormFrom(form[t], form'[t])
         /\ Keeps \/ Writes
<1>1. crossed \subseteq crossed'
  BY DEF Next, NoteCrossing, restVars
<1>2. \A t \in Tab : form'[t] = form[t] => FormFrom(form[t], form'[t])
  BY DEF FormFrom, Known, FormTyped
<1>3. ASSUME NEW t \in Tab, TabStep(t)
      PROVE  /\ UNCHANGED <<cloud, exports>> /\ (Keeps \/ Writes)
             /\ \A u \in Tab : FormFrom(form[u], form'[u])
  <2> PICK x : x = form[t]
    OBVIOUS
  <2>1. /\ UNCHANGED <<cloud, exports>>
        /\ \A u \in Tab \ {t} : form'[u] = form[u]
        /\ FormFrom(x, form'[t])
        /\ Keeps \/ (form'[t].step = "idle" /\ (Asks(x) \/ Replaced(x)))
    BY <1>3, TabMoves
  <2> QED BY <1>2, <2>1 DEF Writes
<1>4. CASE PageStep
  BY <1>1, <1>2, <1>4 DEF PageStep, MappingsNext, Details, Post, ReadRows, EnsureRows, Validate, Save,
                          PickTargets, PageFails, RecordTest, cloudVars, pendingVars, eventVars, Keeps
<1>5. CASE \E c \in Config : Export(c)
  BY <1>1, <1>2, <1>5 DEF Export, Exported, pendingVars, eventVars, Keeps
<1>6. CASE Expire \/ UNCHANGED restVars
  BY <1>1, <1>2, <1>6 DEF Expire, restVars, cloudVars, eventVars, Keeps
<1>7. CASE Restart
  <2>1. UNCHANGED <<cloud, exports, guid, leds, tokens>> /\ pending' = {} /\ cookie' = 0
        /\ \A t \in Tab : form'[t].step = "idle"
    BY <1>7 DEF Restart, eventVars, IdleForm
  <2> QED BY <1>1, <2>1 DEF Keeps, FormFrom
<1> QED BY <1>1, <1>3, <1>4, <1>5, <1>6, <1>7, Acting

LEMMA CloudMoves ==
  ASSUME FilesFresh, Known, RestTyped, UNCHANGED <<cloud, exports>> \/ Exported
  PROVE  /\ FilesFresh'
         /\ \A e \in Event : \A g : /\ Ahead(e, g)' => Ahead(e, g)
                                    /\ \A ls : Taken(e, g, ls) => Taken(e, g, ls)'
<1>1. CASE UNCHANGED <<cloud, exports>>
  BY <1>1 DEF FilesFresh, Coming, There, Ahead, Taken
<1>2. CASE Exported
  <2>1. PICK c \in exports : exports' = exports \ {c} /\ cloud' = [cloud EXCEPT ![c.place] = c]
    BY <1>2 DEF Exported
  <2>2. c.place \in Event /\ cloud \in [Event -> Config]
    BY RegistrationAssumption DEF Known, FilesKnown, RestTyped
  <2>3. \A e \in Event : cloud'[e] = IF e = c.place THEN c ELSE cloud[e]
    BY <2>1, <2>2
  <2>4. \A e, g : Coming(e, g)' => Coming(e, g)
    BY <2>1 DEF Coming, Usable
  <2>5. ASSUME NEW e \in Event, NEW g, There(e, g)'
        PROVE  (There(e, g) /\ cloud'[e] = cloud[e]) \/ Coming(e, g)
    BY <2>1, <2>3, <2>5 DEF There, Coming, Usable, IsAtItsPlace
  <2>6. ASSUME NEW e \in Event, NEW x, x = cloud'[e], Usable(e, x),
               NEW d \in exports', Usable(e, d), d.guid = x.guid
        PROVE  FALSE
    <3>1. d \in exports \ {c}
      BY <2>1, <2>6
    <3>2. CASE e = c.place
      <4>1. x = c /\ Parses(c) /\ Parses(d) /\ d.place = c.place
        BY <2>3, <2>6, <3>2 DEF Usable, IsAtItsPlace
      <4> QED BY <2>6, <3>1, <4>1 DEF FilesFresh
    <3>3. CASE e # c.place
      BY <2>3, <2>6, <3>1, <3>3 DEF FilesFresh, Coming
    <3> QED BY <3>2, <3>3
  <2>7. FilesFresh'
    <3>1. \A x, d \in exports' : Parses(x) /\ Parses(d) /\ x.place = d.place /\ x.guid = d.guid => x = d
      BY <2>1 DEF FilesFresh
    <3>2. \A e \in Event : (Usable(e, cloud[e]) => ~Coming(e, cloud[e].guid))'
      BY <2>6 DEF Coming, Usable, Parses, IsAtItsPlace
    <3> QED BY <3>1, <3>2 DEF FilesFresh, Parses
  <2>8. ASSUME NEW e \in Event, NEW g, NEW ls, Taken(e, g, ls) PROVE Taken(e, g, ls)'
    BY <2>4, <2>5, <2>8 DEF Taken
  <2> QED BY <2>4, <2>5, <2>7, <2>8 DEF Ahead
<1> QED BY <1>1, <1>2

(* What the requests hold afterwards, they had, or took from the cloud.    *)
LEMMA RequestsTake ==
  ASSUME Known, FilesRight, NEW x, NEW y, FormFrom(x, y), y.step # "idle",
         x.step # "idle" => /\ x.event \in Event
                            /\ Taken(x.event, x.config.guid, x.config.leds) /\ Replaces(x.event, x.config)
  PROVE  /\ y.event \in Event
         /\ Taken(y.event, y.config.guid, y.config.leds) /\ Replaces(y.event, y.config)
<1>1. CASE y.event \in Event /\ Usable(y.event, cloud[y.event]) /\ y.config = cloud[y.event]
  <2> PICK e, c : e = y.event /\ c = y.config
    OBVIOUS
  <2>1. ~Coming(e, c.guid)
    BY <1>1 DEF FilesRight, FilesFresh
  <2>2. Taken(e, c.guid, c.leds)
    BY <1>1, <2>1 DEF Taken
  <2>3. e \in Registered => Taken(e, guid[e], leds[e])
    BY DEF FilesRight, FilesTaken
  <2>4. Replaces(e, c)
    BY <1>1, <2>3 DEF Replaces, Ahead, There, Taken
  <2> QED BY <1>1, <2>2, <2>4
<1>2. CASE \E q \in Held(cookie) : y.event = q.event /\ y.config = q.config
  BY <1>2 DEF FilesRight, FilesTaken, FilesNewer, Held, Registered
<1> QED BY <1>1, <1>2 DEF FormFrom

LEMMA HeldMoves ==
  ASSUME HeldTyped
  PROVE  /\ Keeps => Held(cookie)' \subseteq Held(cookie)
         /\ \A x : Asks(x) => \A q \in Held(cookie)' : q.event = x.event /\ q.config = x.config
         /\ \A x : Replaced(x) => \/ Held(cookie)' = {}
                                  \/ guid[x.event] = NoGuid /\ Held(cookie)' \subseteq Held(cookie)
<1>1. tokens \in Nat /\ \A q \in pending : q.token \in 1 .. tokens
  BY DEF HeldTyped
<1>2. cookie' = 0 /\ pending' \subseteq pending => Held(cookie)' = {}
  BY <1>1 DEF Held
<1>3. cookie' = cookie /\ pending' \subseteq pending => Held(cookie)' \subseteq Held(cookie)
  BY DEF Held
<1>4. ASSUME NEW x, Asks(x), NEW q \in Held(cookie)' PROVE q.event = x.event /\ q.config = x.config
  <2>1. PICK new : /\ new.token = tokens + 1 /\ new.event = x.event /\ new.config = x.config
                   /\ pending' \subseteq pending \cup {new}
    BY <1>4 DEF Asks
  <2>2. q \in pending' /\ q.token = tokens + 1
    BY <1>4 DEF Held, Asks
  <2>3. q \notin pending
    BY <1>1, <2>2
  <2> QED BY <2>1, <2>2, <2>3
<1> QED BY <1>2, <1>3, <1>4 DEF Keeps, Replaced

LEMMA ReplacesStays ==
  ASSUME NEW e \in Event, NEW c, Replaces(e, c), crossed \subseteq crossed',
         guid'[e] = guid[e], leds'[e] = leds[e], \A g : Ahead(e, g)' => Ahead(e, g)
  PROVE  Replaces(e, c)'
BY DEF Replaces, Registered

(* No request but the one that writes holds a file of an event about which *)
(* requests have not crossed.                                              *)
LEMMA NoOtherForm ==
  ASSUME Alone, NEW t \in Tab, NEW u \in Tab \ {t}, form[t].step # "idle", form[u].step # "idle",
         form[u].event = form[t].event
  PROVE  form[t].event \in crossed
BY DEF Alone, Busy, About

LEMMA FilesStayRight ==
  ASSUME Typed, FilesRight, [Next]_restVars PROVE FilesRight'
<1>1. /\ Known /\ HeldTyped /\ RestTyped /\ Alone /\ EventsKnown
      /\ FilesFresh /\ FilesTaken /\ FilesNewer
  BY DEF Typed, Right, Known, FilesRight
<1>2. /\ crossed \subseteq crossed'
      /\ UNCHANGED <<cloud, exports>> \/ Exported
      /\ \A t \in Tab : FormFrom(form[t], form'[t])
      /\ Keeps \/ Writes
  BY <1>1, Moves
<1>3. /\ FilesFresh'
      /\ \A e \in Event : \A g : /\ Ahead(e, g)' => Ahead(e, g)
                                 /\ \A ls : Taken(e, g, ls) => Taken(e, g, ls)'
  BY <1>1, <1>2, CloudMoves
<1>4. ASSUME NEW t \in Tab, form[t].step # "idle"
      PROVE  /\ form[t].event \in Event
             /\ Taken(form[t].event, form[t].config.guid, form[t].config.leds)
             /\ Replaces(form[t].event, form[t].config)
  BY <1>1, <1>4 DEF Known, FormTyped, FilesTaken, FilesNewer
<1>5. ASSUME NEW t \in Tab, NEW y, y = form'[t], y.step # "idle"
      PROVE  /\ y.event \in Event
             /\ Taken(y.event, y.config.guid, y.config.leds) /\ Replaces(y.event, y.config)
  BY <1>1, <1>2, <1>4, <1>5, RequestsTake
<1>6. ASSUME NEW t \in Tab, NEW y, y = form'[t], y.step # "idle"
      PROVE  Taken(y.event, y.config.guid, y.config.leds)'
  BY <1>3, <1>5, <1>6
<1>7. ASSUME NEW q \in pending
      PROVE  q.event \in Registered /\ Taken(q.event, q.config.guid, q.config.leds)'
  BY <1>1, <1>3 DEF FilesTaken, Registered
<1>8. \A t \in Tab : (form[t].step # "idle" => Taken(form[t].event, form[t].config.guid, form[t].config.leds))'
  BY <1>6 DEF Taken, Coming, There
<1>11. ASSUME UNCHANGED <<guid, leds>> PROVE \A e \in Registered' : Taken(e, guid[e], leds[e])'
  <2>1. ASSUME NEW e \in Registered', NEW g, NEW ls, g = guid'[e], ls = leds'[e] PROVE Taken(e, g, ls)'
    BY <1>1, <1>3, <1>11, <2>1 DEF FilesTaken, Registered
  <2> QED BY <2>1 DEF Taken, Coming, There
<1>9. CASE Keeps
  <2>1. UNCHANGED <<guid, leds>> /\ pending' \subseteq pending /\ Held(cookie)' \subseteq Held(cookie)
    BY <1>1, <1>9, HeldMoves DEF Keeps
  <2>2. \A e \in Registered' : Taken(e, guid[e], leds[e])'
    BY <1>11, <2>1
  <2>3. ASSUME NEW q \in pending' PROVE q.event \in Registered' /\ Taken(q.event, q.config.guid, q.config.leds)'
    BY <1>7, <2>1 DEF Registered
  <2>4. FilesTaken'
    BY <1>8, <2>2, <2>3 DEF FilesTaken, Taken, Coming, There
  <2>5. ASSUME NEW e \in Event, NEW c, Replaces(e, c) PROVE Replaces(e, c)'
    BY <1>2, <1>3, <2>1, <2>5, ReplacesStays
  <2>6. ASSUME NEW t \in Tab, NEW y, y = form'[t], y.step # "idle" PROVE Replaces(y.event, y.config)'
    BY <1>5, <2>5, <2>6
  <2>7. ASSUME NEW q \in Held(cookie)' PROVE Replaces(q.event, q.config)'
    BY <1>1, <2>1, <2>5 DEF FilesNewer, FilesTaken, Held, Registered
  <2>8. FilesNewer'
    BY <2>6, <2>7 DEF FilesNewer, Replaces, Ahead, Coming, There, Registered
  <2> QED BY <1>3, <2>4, <2>8 DEF FilesRight
<1>10. CASE Writes
  <2>1. PICK t \in Tab : /\ form'[t].step = "idle" /\ (Asks(form[t]) \/ Replaced(form[t]))
                         /\ \A u \in Tab \ {t} : form'[u] = form[u]
    BY <1>10 DEF Writes
  <2> PICK x : x = form[t]
    OBVIOUS
  <2>2. /\ x.step # "idle" /\ x.event \in Event
        /\ Taken(x.event, x.config.guid, x.config.leds) /\ Replaces(x.event, x.config)
    BY <1>4, <2>1 DEF Asks, Replaced
  <2>3. Taken(x.event, x.config.guid, x.config.leds)'
    BY <1>3, <2>2
  <2>4. CASE Asks(x)
    <3>1. UNCHANGED <<guid, leds>>
      BY <2>4 DEF Asks
    <3>2. \A e \in Registered' : Taken(e, guid[e], leds[e])'
      BY <1>11, <3>1
    <3>3. ASSUME NEW q \in pending' PROVE q.event \in Registered' /\ Taken(q.event, q.config.guid, q.config.leds)'
      <4>1. q \in pending \/ (q.event = x.event /\ q.config = x.config)
        BY <2>4, <3>3 DEF Asks
      <4>2. x.event \in Registered'
        BY <2>4, <3>1 DEF Asks, Registered
      <4> QED BY <1>7, <2>3, <3>1, <4>1, <4>2 DEF Registered
    <3>4. FilesTaken'
      BY <1>8, <3>2, <3>3 DEF FilesTaken, Taken, Coming, There
    <3>5. ASSUME NEW e \in Event, NEW c, Replaces(e, c) PROVE Replaces(e, c)'
      BY <1>2, <1>3, <3>1, <3>5, ReplacesStays
    <3>6. ASSUME NEW u \in Tab, NEW y, y = form'[u], y.step # "idle" PROVE Replaces(y.event, y.config)'
      BY <1>5, <3>5, <3>6
    <3>7. ASSUME NEW q \in Held(cookie)' PROVE Replaces(q.event, q.config)'
      <4>1. q.event = x.event /\ q.config = x.config
        BY <1>1, <2>4, <3>7, HeldMoves
      <4> QED BY <2>2, <3>5, <4>1
    <3>8. FilesNewer'
      BY <3>6, <3>7 DEF FilesNewer, Replaces, Ahead, Coming, There, Registered
    <3> QED BY <1>3, <3>4, <3>8 DEF FilesRight
  <2>5. CASE Replaced(x)
    <3>1. /\ guid'[x.event] = x.config.guid /\ leds'[x.event] = x.config.leds
          /\ \A e \in Event : e # x.event => guid'[e] = guid[e] /\ leds'[e] = leds[e]
          /\ pending' \subseteq pending
      BY <1>1, <2>2, <2>5 DEF Replaced, EventsKnown
    <3>2. x.config.guid # NoGuid
      BY <1>1, <2>2, RegistrationAssumption, MappingsAssumption DEF Known, FormTyped
    <3>3. Registered \subseteq Registered'
      BY <3>1, <3>2 DEF Registered
    <3>4. ASSUME NEW e \in Event, NEW g, NEW ls, g = guid'[e], ls = leds'[e], e \in Registered'
          PROVE  Taken(e, g, ls)'
      <4>1. CASE e = x.event
        BY <2>3, <3>1, <3>4, <4>1
      <4>2. CASE e # x.event
        BY <1>1, <1>3, <3>1, <3>4, <4>2 DEF FilesTaken, Registered
      <4> QED BY <4>1, <4>2
    <3>5. FilesTaken'
      <4>1. \A e \in Registered' : Taken(e, guid[e], leds[e])'
        BY <3>4 DEF Registered, Taken, Coming, There
      <4>2. \A q \in pending' : q.event \in Registered' /\ Taken(q.event, q.config.guid, q.config.leds)'
        BY <1>7, <3>1, <3>3
      <4> QED BY <1>8, <4>1, <4>2 DEF FilesTaken, Taken, Coming, There
    <3>6. ASSUME NEW e \in Event, NEW c, Replaces(e, c), e # x.event PROVE Replaces(e, c)'
      BY <1>2, <1>3, <3>1, <3>6, ReplacesStays
    <3>7. ASSUME NEW u \in Tab, NEW y, y = form'[u], y.step # "idle" PROVE Replaces(y.event, y.config)'
      <4>1. u # t /\ y = form[u]
        BY <2>1, <3>7
      <4>2. CASE y.event = x.event
        <5>1. x.event \in crossed
          BY <1>1, <2>2, <3>7, <4>1, <4>2, NoOtherForm
        <5> QED BY <1>2, <4>2, <5>1 DEF Replaces
      <4>3. CASE y.event # x.event
        BY <1>5, <3>6, <3>7, <4>3
      <4> QED BY <4>2, <4>3
    <3>8. ASSUME NEW q \in Held(cookie)' PROVE Replaces(q.event, q.config)'
      <4>1. guid[x.event] = NoGuid /\ q \in Held(cookie)
        BY <1>1, <2>5, <3>8, HeldMoves
      <4>2. q.event \in Registered /\ Replaces(q.event, q.config)
        BY <1>1, <4>1 DEF FilesTaken, FilesNewer, Held
      <4> QED BY <3>6, <4>1, <4>2 DEF Registered
    <3>9. FilesNewer'
      BY <3>7, <3>8 DEF FilesNewer, Replaces, Ahead, Coming, There, Registered
    <3> QED BY <1>3, <3>5, <3>9 DEF FilesRight
  <2> QED BY <2>1, <2>4, <2>5
<1> QED BY <1>2, <1>9, <1>10

LEMMA FilesAlways == LooseSpec => []FilesRight
<1>1. Init => FilesRight
  <2> SUFFICES ASSUME Init PROVE FilesRight
    OBVIOUS
  <2>1. pending = {} /\ Registered = {} /\ \A t \in Tab : form[t].step = "idle"
    BY DEF Init, MappingsInit, Registered, IdleForm
  <2>2. PICK s \in Scenarios : cloud = s.cloud /\ exports = s.exports
    BY DEF Init
  <2>3. FilesFresh
    BY <2>2, ExportAssumption DEF FilesFresh, Coming, Usable, Parses, IsAtItsPlace
  <2>4. FilesTaken /\ FilesNewer
    BY <2>1 DEF FilesTaken, FilesNewer, Held
  <2> QED BY <2>3, <2>4 DEF FilesRight
<1>2. Typed /\ FilesRight /\ [Next]_restVars => FilesRight'
  BY FilesStayRight
<1> QED BY <1>1, <1>2, AllTyped, PTL DEF LooseSpec

(* A GUID that is gone does not come back to its event: no file of it can  *)
(* be found in the cloud, and no request that may still write holds one.   *)
Live(e, g) ==
  \/ \E t \in Tab : form[t].step # "idle" /\ form[t].event = e /\ form[t].config.guid = g
  \/ \E q \in Held(cookie) : q.event = e /\ q.config.guid = g

Gone(e, g) == ~Ahead(e, g) /\ ~Live(e, g) /\ guid[e] # g

LEMMA LiveBefore ==
  ASSUME Typed, FilesRight, [Next]_restVars, NEW e \in Event, NEW g, Live(e, g)' PROVE Live(e, g) \/ Ahead(e, g)
<1>1. Known /\ HeldTyped
  BY DEF Typed, Right
<1>2. (\A t \in Tab : FormFrom(form[t], form'[t])) /\ (Keeps \/ Writes)
  BY <1>1, Moves
<1>3. ASSUME NEW t \in Tab, NEW x, NEW y, x = form[t], y = form'[t], y.step # "idle", y.event = e, y.config.guid = g
      PROVE  Live(e, g) \/ Ahead(e, g)
  <2>1. FormFrom(x, y)
    BY <1>2, <1>3
  <2> QED BY <1>3, <2>1 DEF FormFrom, Live, Ahead, There
<1>4. ASSUME NEW q \in Held(cookie)', q.event = e, q.config.guid = g PROVE Live(e, g)
  <2>1. CASE Keeps
    BY <1>1, <1>4, <2>1, HeldMoves DEF Live
  <2>2. CASE Writes
    <3>1. PICK t \in Tab : Asks(form[t]) \/ Replaced(form[t])
      BY <2>2 DEF Writes
    <3> PICK x : x = form[t]
      OBVIOUS
    <3>2. x.step # "idle" /\ (q \in Held(cookie) \/ (q.event = x.event /\ q.config = x.config))
      BY <1>1, <1>4, <3>1, HeldMoves DEF Asks, Replaced
    <3> QED BY <1>4, <3>2 DEF Live
  <2> QED BY <1>2, <2>1, <2>2
<1> QED BY <1>3, <1>4 DEF Live

LEMMA GoneStays ==
  ASSUME Typed, FilesRight, [Next]_restVars, NEW e \in Event, NEW g, Gone(e, g) PROVE Gone(e, g)'
<1>1. Known /\ RestTyped /\ FilesFresh /\ EventsKnown /\ ~Ahead(e, g) /\ ~Live(e, g) /\ guid[e] # g
  BY DEF Typed, Right, Known, FilesRight, Gone
<1>2. (UNCHANGED <<cloud, exports>> \/ Exported) /\ (Keeps \/ Writes)
  BY <1>1, Moves
<1>3. ~Ahead(e, g)'
  BY <1>1, <1>2, CloudMoves
<1>4. ~Live(e, g)'
  BY <1>1, LiveBefore
<1>5. guid'[e] # g
  <2>1. UNCHANGED guid \/ \E t \in Tab : Replaced(form[t])
    BY <1>2 DEF Keeps, Writes, Asks
  <2>2. ASSUME NEW t \in Tab, NEW x, x = form[t], Replaced(x) PROVE guid'[e] # g
    <3>1. x.step # "idle" /\ guid'[e] = IF e = x.event THEN x.config.guid ELSE guid[e]
      BY <1>1, <2>2 DEF Replaced, EventsKnown
    <3> QED BY <1>1, <2>2, <3>1 DEF Live
  <2> QED BY <1>1, <2>1, <2>2
<1> QED BY <1>3, <1>4, <1>5 DEF Gone

(* What replaces a registration leaves it gone, unless it is the same one. *)
LEMMA SameOrGone ==
  ASSUME Typed, FilesRight, [Next]_restVars, NEW e \in Registered, e \notin crossed', NEW g, g = guid[e]
  PROVE  (guid'[e] = guid[e] /\ leds'[e] = leds[e]) \/ Gone(e, g)'
<1>1. Known /\ HeldTyped /\ RestTyped /\ Alone /\ FilesFresh /\ FilesNewer /\ EventsKnown /\ e \in Event
  BY DEF Typed, Right, Known, FilesRight, Registered
<1>2. /\ crossed \subseteq crossed'
      /\ UNCHANGED <<cloud, exports>> \/ Exported
      /\ Keeps \/ Writes
  BY <1>1, Moves
<1>3. CASE UNCHANGED <<guid, leds>>
  BY <1>3
<1>4. CASE ~UNCHANGED <<guid, leds>>
  <2>1. PICK t \in Tab : /\ form'[t].step = "idle" /\ Replaced(form[t])
                         /\ \A u \in Tab \ {t} : form'[u] = form[u]
    BY <1>2, <1>4 DEF Keeps, Writes, Asks
  <2> PICK x : x = form[t]
    OBVIOUS
  <2>2. /\ x.step # "idle"
        /\ guid'[e] = IF e = x.event THEN x.config.guid ELSE guid[e]
        /\ leds'[e] = IF e = x.event THEN x.config.leds ELSE leds[e]
    BY <1>1, <2>1 DEF Replaced, EventsKnown
  <2>3. Replaces(x.event, x.config)
    BY <1>1, <2>2 DEF FilesNewer
  <2>4. CASE e # x.event \/ x.config.guid = g
    BY <1>2, <2>2, <2>3, <2>4 DEF Replaces
  <2>5. CASE e = x.event /\ x.config.guid # g
    <3>1. ~Ahead(e, g)'
      <4>1. ~Ahead(e, g)
        BY <1>2, <2>3, <2>5 DEF Replaces
      <4> QED BY <1>1, <1>2, <4>1, CloudMoves
    <3>2. ~Live(e, g)'
      <4>1. Held(cookie)' = {}
        BY <1>1, <2>1, <2>5, HeldMoves DEF Registered
      <4>2. ASSUME NEW u \in Tab, form'[u].step # "idle", form'[u].event = e PROVE FALSE
        <5>1. u # t /\ form[u].step # "idle" /\ form[u].event = form[t].event
          BY <2>1, <2>5, <4>2
        <5>2. e \in crossed
          BY <1>1, <2>2, <2>5, <5>1, NoOtherForm
        <5> QED BY <1>2, <5>2
      <4> QED BY <4>1, <4>2 DEF Live
    <3> QED BY <2>2, <2>5, <3>1, <3>2 DEF Gone
  <2> QED BY <2>4, <2>5
<1> QED BY <1>3, <1>4

(* A report, and what a check has read, is of the registration there is,   *)
(* or of one that is gone.                                                 *)
OfEvent(r, e) ==
  /\ e \in Event /\ r.guid \in Guid
  /\ e \in crossed \/ r.guid = guid[e] \/ Gone(e, r.guid)

OfStructure(r, e) ==
  /\ e \in Event /\ r.guid \in Guid
  /\ e \in crossed \/ (r.guid = guid[e] /\ r.leds = leds[e]) \/ Gone(e, r.guid)

LEMMA OfOneStays ==
  ASSUME Typed, FilesRight, [Next]_restVars, NEW r, NEW e
  PROVE  (OfEvent(r, e) => OfEvent(r, e)') /\ (OfStructure(r, e) => OfStructure(r, e)')
<1> SUFFICES ASSUME e \in Event, r.guid \in Guid, e \notin crossed'
             PROVE  /\ r.guid = guid[e] \/ Gone(e, r.guid) => (r.guid = guid[e] \/ Gone(e, r.guid))'
                    /\ (r.guid = guid[e] /\ r.leds = leds[e]) \/ Gone(e, r.guid) =>
                         ((r.guid = guid[e] /\ r.leds = leds[e]) \/ Gone(e, r.guid))'
  <2>1. crossed \subseteq crossed'
    BY Moves DEF Typed, Right
  <2> QED BY <2>1 DEF OfEvent, OfStructure
<1> PICK g : g = r.guid
  OBVIOUS
<1>1. CASE Gone(e, g)
  <2>1. Gone(e, g)'
    BY <1>1, GoneStays
  <2> QED BY <2>1 DEF Gone, Ahead, Coming, There, Live
<1>2. CASE g = guid[e]
  <2>1. e \in Registered
    BY <1>2, MappingsAssumption DEF Registered
  <2>2. (guid'[e] = guid[e] /\ leds'[e] = leds[e]) \/ Gone(e, g)'
    BY <1>2, <2>1, SameOrGone
  <2>3. CASE guid'[e] = guid[e] /\ leds'[e] = leds[e]
    BY <1>2, <2>3 DEF Gone
  <2>4. CASE Gone(e, g)'
    BY <2>4 DEF Gone, Ahead, Coming, There, Live
  <2> QED BY <2>2, <2>3, <2>4
<1>3. CASE g # guid[e] /\ ~Gone(e, g)
  BY <1>3
<1> QED BY <1>1, <1>2, <1>3

CheckOf(x) ==
  /\ x.step = "registered" => OfEvent(x, x.event)
  /\ x.step \in {"structured", "fetched", "read", "compared"} => OfStructure(x, x.event)

StructuresRight ==
  /\ \A c \in Checker : CheckOf(check[c])
  /\ \A e \in Event : \A r \in reports[e] : OfStructure(r, e)
  /\ \A v \in Viewer : view[v].step = "taken" => OfStructure(view[v].report, view[v].event)

(* A check that goes on uses the structure it reads after the GUID.        *)
LEMMA CheckGoesOn ==
  ASSUME Typed, ChecksTyped, NEW c \in Checker, NEW x, NEW y, x = check[c], y = check'[c], CheckOf(x),
         \/ \E e \in Event : Begin(c, e)
         \/ LoadStructure(c) \/ Fetch(c) \/ ReadHistory(c) \/ Report(c) \/ CheckFails(c)
  PROVE  CheckOf(y)
<1>1. check = [d \in Checker |-> check[d]] /\ CheckTyped(x)
  BY DEF ChecksTyped
<1>2. ASSUME NEW z, check' = [check EXCEPT ![c] = z] PROVE y = z
  BY <1>1, <1>2
<1>3. CASE check' = [check EXCEPT ![c] = IdleCheck]
  <2>1. y = IdleCheck
    BY <1>2, <1>3
  <2> QED BY <2>1 DEF CheckOf, IdleCheck
<1>4. ASSUME NEW e \in Event, Begin(c, e) PROVE CheckOf(y)
  <2>1. y = [IdleCheck EXCEPT !.step = "registered", !.event = e, !.guid = guid[e]]
    BY <1>2, <1>4 DEF Begin, CheckGoes
  <2>2. y.step = "registered" /\ y.event = e /\ y.guid = guid[e]
    BY <2>1 DEF IdleCheck
  <2>3. guid[e] \in Guid
    BY <1>4 DEF Begin, Registered, Typed, Right, Known, EventsKnown
  <2> QED BY <2>2, <2>3 DEF CheckOf, OfEvent
<1>5. CASE LoadStructure(c)
  <2>1. x.step = "registered" /\ y = [x EXCEPT !.step = "structured", !.leds = leds[x.event]]
    BY <1>2, <1>5 DEF LoadStructure, CheckGoes
  <2>2. y.step = "structured" /\ y.event = x.event /\ y.guid = x.guid /\ y.leds = leds[x.event]
    BY <1>1, <2>1 DEF CheckTyped, IsCheck
  <2> QED BY <2>1, <2>2 DEF CheckOf, OfEvent, OfStructure
<1>6. ASSUME x.step \in {"structured", "fetched", "read"}, y.step \in {"fetched", "read", "compared"},
             y.event = x.event, y.guid = x.guid, y.leds = x.leds
      PROVE  CheckOf(y)
  BY <1>6 DEF CheckOf, OfStructure
<1>7. CASE Fetch(c)
  <2>1. CASE check' = [check EXCEPT ![c] = IdleCheck]
    BY <1>3, <2>1
  <2>2. CASE check' # [check EXCEPT ![c] = IdleCheck]
    <3>1. x.step = "structured" /\ y = [x EXCEPT !.step = "fetched"]
      BY <1>2, <1>7, <2>2 DEF Fetch, CheckGoes
    <3> QED BY <1>1, <1>6, <3>1 DEF CheckTyped, IsCheck
  <2> QED BY <2>1, <2>2
<1>8. CASE ReadHistory(c)
  <2>1. HistoryReads[1] = "marker" /\ HistoryReads[2] = "history"
    BY DEF HistoryReads
  <2>2. \/ x.step = "fetched" /\ y = [x EXCEPT !.step = "read", !["marker"] = rows[x.event]]
        \/ x.step = "read" /\ y = [x EXCEPT !.step = "compared", !["history"] = rows[x.event]]
    BY <1>2, <1>8, <2>1 DEF ReadHistory, CheckGoes
  <2>3. /\ x.step \in {"fetched", "read"} /\ y.step \in {"read", "compared"}
        /\ y.event = x.event /\ y.guid = x.guid /\ y.leds = x.leds
    BY <1>1, <2>2 DEF CheckTyped, IsCheck
  <2> QED BY <1>6, <2>3
<1>9. CASE Report(c) \/ CheckFails(c)
  BY <1>3, <1>9 DEF Report, CheckFails, CheckGoes
<1> QED BY <1>4, <1>5, <1>7, <1>8, <1>9

(* Where checks, reports and pages have what they have.                    *)
LEMMA ReportsCome ==
  ASSUME Typed, AllReportsTyped, StructuresRight, [ReportNext]_allVars
  PROVE  /\ \A c \in Checker : \A y : y = check'[c] => CheckOf(y)
         /\ \A e \in Event : \A r \in reports'[e] : OfStructure(r, e)
         /\ \A v \in Viewer : \A y : y = view'[v] /\ y.step = "taken" => OfStructure(y.report, y.event)
<1>1. /\ ChecksTyped /\ ReportsTyped /\ ViewsTyped
      /\ \A c \in Checker : CheckOf(check[c])
      /\ \A e \in Event : \A r \in reports[e] : OfStructure(r, e)
      /\ \A v \in Viewer : view[v].step = "taken" => OfStructure(view[v].report, view[v].event)
  BY DEF AllReportsTyped, StructuresRight
<1> DEFINE Checks == \A c \in Checker : \A y : y = check'[c] => CheckOf(y)
           Reported == \A e \in Event : \A r \in reports'[e] : OfStructure(r, e)
           Views == \A v \in Viewer : \A y : y = view'[v] /\ y.step = "taken" => OfStructure(y.report, y.event)
<1>2. (UNCHANGED check => Checks) /\ (UNCHANGED reports => Reported) /\ (UNCHANGED view => Views)
  BY <1>1
<1>3. CASE UNCHANGED <<check, reports, view>>
  BY <1>2, <1>3
<1>4. CASE Forget
  <2>1. check' = [c \in Checker |-> IdleCheck] /\ reports' = [e \in Event |-> {}] /\ view' = [v \in Viewer |-> IdleView]
    BY <1>4 DEF Forget, NoReports
  <2>2. CheckOf(IdleCheck) /\ IdleView.step = "idle"
    BY DEF CheckOf, IdleCheck, IdleView
  <2> QED BY <2>1, <2>2
<1>5. ASSUME NEW c \in Checker,
             \/ \E e \in Event : Begin(c, e)
             \/ LoadStructure(c) \/ Fetch(c) \/ ReadHistory(c) \/ Report(c) \/ CheckFails(c)
      PROVE  Checks /\ Reported /\ Views
  <2>1. UNCHANGED view
    BY <1>5 DEF Begin, LoadStructure, Fetch, ReadHistory, Report, CheckFails, OnlyChecks
  <2>2. \A d \in Checker \ {c} : check'[d] = check[d]
    <3>1. \E y : check' = [check EXCEPT ![c] = y]
      BY <1>5 DEF Begin, LoadStructure, Fetch, ReadHistory, Report, CheckFails, CheckGoes
    <3> QED BY <1>1, <3>1 DEF ChecksTyped
  <2>3. \A y : y = check'[c] => CheckOf(y)
    BY <1>1, <1>5, CheckGoesOn
  <2>4. Checks
    BY <1>1, <2>2, <2>3
  <2>5. Reported
    <3>1. CASE Report(c)
      <4> PICK x : x = check[c]
        OBVIOUS
      <4>1. x.step = "compared" /\ reports' = [reports EXCEPT ![x.event] = {x}]
        BY <3>1 DEF Report, CheckGoes
      <4>2. OfStructure(x, x.event)
        BY <1>1, <4>1 DEF CheckOf
      <4>3. \A e \in Event : reports'[e] = IF e = x.event THEN {x} ELSE reports[e]
        BY <1>1, <4>1 DEF ReportsTyped
      <4> QED BY <1>1, <4>2, <4>3
    <3>2. CASE ~Report(c)
      BY <1>2, <1>5, <3>2 DEF Begin, LoadStructure, Fetch, ReadHistory, CheckFails, OnlyChecks
    <3> QED BY <3>1, <3>2
  <2> QED BY <1>2, <2>1, <2>4, <2>5
<1>6. ASSUME NEW v \in Viewer,
             (\E e \in Event : Open(v, e)) \/ JudgeRegistration(v) \/ JudgeHistory(v) \/ Drop(v)
      PROVE  Checks /\ Reported /\ Views
  <2>1. UNCHANGED check
    BY <1>6 DEF Open, JudgeRegistration, JudgeHistory, Drop, OnlyViews
  <2>2. Reported
    <3>1. UNCHANGED reports \/ \E e : reports' = [reports EXCEPT ![e] = {}]
      BY <1>6 DEF Open, JudgeRegistration, JudgeHistory, Drop, OnlyViews
    <3> QED BY <1>1, <3>1 DEF ReportsTyped
  <2>3. Views
    <3> PICK x : x = view[v]
      OBVIOUS
    <3>1. view = [u \in Viewer |-> view[u]] /\ IsView(x)
      BY <1>1 DEF ViewsTyped
    <3>2. ASSUME NEW y, view' = [view EXCEPT ![v] = y], y.step = "taken" => OfStructure(y.report, y.event)
          PROVE  Views
      <4>1. \A u \in Viewer : view'[u] = IF u = v THEN y ELSE view[u]
        BY <3>1, <3>2
      <4> QED BY <1>1, <3>2, <4>1
    <3>3. IdleView.step = "idle"
      BY DEF IdleView
    <3>4. ASSUME NEW e \in Event, Open(v, e) PROVE Views
      <4>1. CASE view' = [view EXCEPT ![v] = IdleView]
        BY <3>2, <3>3, <4>1
      <4>2. CASE \E r \in reports[e] :
                   view' = [view EXCEPT ![v] = [step |-> "taken", event |-> e, report |-> r]]
        <5>1. PICK r \in reports[e] :
                   view' = [view EXCEPT ![v] = [step |-> "taken", event |-> e, report |-> r]]
          BY <4>2
        <5> PICK y : y = [step |-> "taken", event |-> e, report |-> r]
          OBVIOUS
        <5>2. y.event = e /\ y.report = r /\ OfStructure(r, e)
          BY <1>1
        <5> QED BY <3>2, <5>1, <5>2
      <4> QED BY <3>4, <4>1, <4>2 DEF Open
    <3>5. ASSUME NEW was, NEW is \in {"same event", "shown", "outdated"}, ViewGoes(v, was, is) PROVE Views
      <4> PICK y : y = [x EXCEPT !.step = is]
        OBVIOUS
      <4>1. y.step = is
        BY <3>1 DEF IsView
      <4>2. view' = [view EXCEPT ![v] = [@ EXCEPT !.step = is]]
        BY <3>5 DEF ViewGoes
      <4>3. view' = [view EXCEPT ![v] = y]
        BY <3>1, <4>2
      <4> QED BY <3>2, <4>1, <4>3
    <3>6. CASE JudgeRegistration(v) \/ JudgeHistory(v)
      <4>1. \E was, is \in {"taken", "same event", "shown", "outdated"} :
               is # "taken" /\ ViewGoes(v, was, is)
        BY <3>6 DEF JudgeRegistration, JudgeHistory
      <4> QED BY <3>5, <4>1
    <3>7. CASE Drop(v)
      <4>1. view' = [view EXCEPT ![v] = IdleView]
        BY <3>7 DEF Drop, ViewGoes
      <4> QED BY <3>2, <3>3, <4>1
    <3> QED BY <1>6, <3>4, <3>6, <3>7
  <2> QED BY <1>2, <2>1, <2>2, <2>3
<1>7. ASSUME NEW r \in Run, NEW e \in Event, Record(r, e) PROVE UNCHANGED <<check, reports, view>>
  BY <1>7 DEF Record
<1>8. UNCHANGED reportVars \/ UNCHANGED allVars => UNCHANGED <<check, reports, view>>
  BY DEF allVars, reportVars
<1> QED BY <1>3, <1>4, <1>5, <1>6, <1>7, <1>8 DEF ReportNext

LEMMA StructuresStayRight ==
  ASSUME Typed, FilesRight, AllReportsTyped, StructuresRight, [ReportNext]_allVars PROVE StructuresRight'
<1>1. [Next]_restVars
  BY EachOnlyReads
<1>2. \A r, e : (OfEvent(r, e) => OfEvent(r, e)') /\ (OfStructure(r, e) => OfStructure(r, e)')
  BY <1>1, OfOneStays
<1>3. ASSUME NEW c \in Checker PROVE CheckOf(check[c])'
  <2> PICK y : y = check'[c]
    OBVIOUS
  <2>1. CheckOf(y)
    BY ReportsCome
  <2>2. CheckOf(y)'
    BY <1>2, <2>1 DEF CheckOf
  <2> QED BY <2>2 DEF CheckOf, OfEvent, OfStructure, Gone, Ahead, Coming, There, Live
<1>4. \A e \in Event : \A r \in reports'[e] : OfStructure(r, e)'
  BY <1>2, ReportsCome
<1>5. ASSUME NEW v \in Viewer, NEW y, y = view'[v], y.step = "taken" PROVE OfStructure(y.report, y.event)'
  <2>1. OfStructure(y.report, y.event)
    BY <1>5, ReportsCome
  <2> QED BY <1>2, <2>1
<1>6. \A v \in Viewer : (view[v].step = "taken" => OfStructure(view[v].report, view[v].event))'
  BY <1>5 DEF OfStructure, Gone, Ahead, Coming, There, Live
<1> QED BY <1>3, <1>4, <1>6 DEF StructuresRight

(* A page that finds a report of the registration there is shows it with   *)
(* the structure of that registration: although the check reads the GUID,  *)
(* the structure and the file one after the other, and the event may be    *)
(* registered anew in between (changes.py:464).                            *)
THEOREM StructureShown == ReportSpec => ShownStructureIsTrue
<1>1. ReportInit => StructuresRight
  BY DEF ReportInit, StructuresRight, CheckOf, IdleCheck, NoReports, IdleView
<1>2. Typed /\ FilesRight /\ AllReportsTyped /\ StructuresRight /\ [ReportNext]_allVars => StructuresRight'
  BY StructuresStayRight
<1>3. AllReportsTyped /\ StructuresRight /\ [ReportNext]_allVars =>
        [\A v \in Viewer : view[v].step = "taken" /\ view'[v].step = "same event" =>
           view[v].event \in crossed \/ view[v].report.leds = leds[view[v].event]]_allVars
  <2> SUFFICES ASSUME AllReportsTyped, StructuresRight, ReportNext, NEW v \in Viewer,
                      view[v].step = "taken", view'[v].step = "same event"
               PROVE  view[v].event \in crossed \/ view[v].report.leds = leds[view[v].event]
    OBVIOUS
  <2>1. OfStructure(view[v].report, view[v].event)
    BY DEF StructuresRight
  <2>2. SameRegistration(view[v].report, view[v].event)
    <3>1. view'[v] # view[v]
      OBVIOUS
    <3>2. view = [u \in Viewer |-> view[u]] /\ \A u \in Viewer : IsView(view[u])
      BY DEF AllReportsTyped, ViewsTyped
    <3>3. ASSUME Next, IF starts' # starts THEN Forget ELSE UNCHANGED reportVars PROVE FALSE
      <4>1. CASE UNCHANGED reportVars
        BY <3>1, <4>1 DEF reportVars
      <4>2. CASE Forget
        <5>1. view'[v] = IdleView /\ IdleView.step = "idle"
          BY <4>2 DEF Forget, IdleView
        <5> QED BY <5>1
      <4> QED BY <3>3, <4>1, <4>2
    <3>4. ASSUME NEW u \in Viewer, NEW e \in Event, Open(u, e) PROVE FALSE
      BY <3>1, <3>2, <3>4 DEF Open, IdleView
    <3>5. ASSUME NEW u \in Viewer, JudgeHistory(u) \/ Drop(u) PROVE FALSE
      BY <3>1, <3>2, <3>5 DEF JudgeHistory, Drop, ViewGoes, IdleView, IsView
    <3>6. ASSUME NEW u \in Viewer, JudgeRegistration(u)
          PROVE  SameRegistration(view[v].report, view[v].event)
      <4>1. u = v
        BY <3>1, <3>2, <3>6 DEF JudgeRegistration, ViewGoes
      <4>2. ~ViewGoes(v, "taken", "outdated")
        BY <3>2 DEF ViewGoes, IsView
      <4> QED BY <3>6, <4>1, <4>2 DEF JudgeRegistration
    <3>7. ASSUME NEW c \in Checker,
                 \/ \E e \in Event : Begin(c, e)
                 \/ LoadStructure(c) \/ Fetch(c) \/ ReadHistory(c) \/ Report(c) \/ CheckFails(c)
          PROVE  FALSE
      BY <3>1, <3>7 DEF Begin, LoadStructure, Fetch, ReadHistory, Report, CheckFails, OnlyChecks
    <3>8. ASSUME NEW r \in Run, NEW e \in Event, Record(r, e) PROVE FALSE
      BY <3>1, <3>8 DEF Record
    <3> QED BY <3>3, <3>4, <3>5, <3>6, <3>7, <3>8 DEF ReportNext
  <2> QED BY <2>1, <2>2 DEF OfStructure, SameRegistration, Gone
<1>4. ReportSpec => [](Typed /\ FilesRight /\ AllReportsTyped)
  BY OnlyReading, AllTyped, FilesAlways, ReportsAlwaysTyped, PTL
<1> QED BY <1>1, <1>2, <1>3, <1>4, PTL DEF ReportSpec, ShownStructureIsTrue
=============================================================================
