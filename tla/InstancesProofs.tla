--------------------------- MODULE InstancesProofs ---------------------------
(***************************************************************************)
(* For any number of processes, tabs, forms, install configurations and    *)
(* crashes: one process works at a time, no database says more than it     *)
(* has, seeding replaces nothing, secrets and the password are kept, and   *)
(* attempts to sign in are bounded.                                        *)
(***************************************************************************)
EXTENDS Instances, TLAPS

LEMMA Idling == IdleReq \in Request /\ IdleReq.step = "idle"
BY DEF IdleReq, Request

LEMMA Posting ==
  ASSUME NEW g \in Group, NEW form \in Typed[g], NEW first \in {"tasking", "saving"}
  PROVE  [step |-> first, group |-> g, form |-> form, at |-> 1] \in Request
BY DEF Request

(* The pages of the settings keep the types of their variables.            *)
LEMMA SettingsTyped ==
  ASSUME SettingsTypeOK, SettingsNext, NoteMixing PROVE SettingsTypeOK'
<1> USE DEF Ends, Goes, Busy
<1>1. mixed' \subseteq Group
  BY DEF NoteMixing, SettingsTypeOK
<1>2. PICK t \in Tab :
        \/ cloud_post(t) \/ folders_post(t) \/ download_post(t)
        \/ application_post(t) \/ email_post(t) \/ scheduling_post(t)
        \/ Register(t) \/ Unregister(t) \/ PassOver(t) \/ Write(t) \/ WriteFails(t) \/ Undo(t)
  BY DEF SettingsNext
<1> HIDE DEF Ends, Goes, Busy
<1> DEFINE ReqOK == /\ req \in [Tab -> Request]
                    /\ \A u \in Tab : req[u].step # "idle" =>
                         req[u].group \in Group /\ req[u].form \in Typed[req[u].group] /\ req[u].at > 0
           RestOK == /\ DOMAIN setting = Key /\ failed \subseteq Failure
                     /\ task = NoTask \/ DOMAIN task = {"days", "time", "username"}
<1>3. ReqOK /\ RestOK
  BY DEF SettingsTypeOK, Busy
<1>4. ASSUME NEW r \in Request, req' = [req EXCEPT ![t] = r],
              r.step # "idle" => r.group \in Group /\ r.form \in Typed[r.group] /\ r.at > 0
      PROVE  ReqOK'
  BY <1>3, <1>4
<1>5. Ends(t) => ReqOK'
  <2> HIDE DEF ReqOK
  <2> QED BY <1>4, Idling DEF Ends
<1>6. ASSUME NEW step \in {"saving", "undoing"}, req[t].step # "idle", Goes(t, step) PROVE ReqOK'
  <2> DEFINE r == [req[t] EXCEPT !.step = step]
  <2>1. req[t] \in Request
    BY <1>3
  <2>2. r \in Request /\ r.group = req[t].group /\ r.form = req[t].form /\ r.at = req[t].at
    BY <2>1 DEF Request
  <2>3. req' = [req EXCEPT ![t] = r]
    BY <1>6 DEF Goes
  <2>4. req[t].group \in Group /\ req[t].form \in Typed[req[t].group] /\ req[t].at > 0
    BY <1>3, <1>6
  <2> HIDE DEF ReqOK, r
  <2> QED BY <2>2, <2>3, <2>4, <1>4
<1>10. ASSUME NEW g \in Group, NEW first \in {"tasking", "saving"}, Post(t, g, first) PROVE ReqOK' /\ RestOK'
  <2>1. RestOK'
    BY <1>3, <1>10 DEF Post
  <2>2. CASE UNCHANGED req
    BY <1>3, <2>1, <2>2
  <2>3. CASE ~UNCHANGED req
    <3>1. PICK form \in Typed[g] :
            req' = [req EXCEPT ![t] = [step |-> first, group |-> g, form |-> form, at |-> 1]]
      BY <1>10, <2>3 DEF Post
    <3> DEFINE r == [step |-> first, group |-> g, form |-> form, at |-> 1]
    <3>2. r \in Request /\ r.group = g /\ r.form = form /\ r.at = 1
      BY Posting
    <3>3. req' = [req EXCEPT ![t] = r]
      BY <3>1
    <3> HIDE DEF ReqOK, r
    <3>5. r.group \in Group /\ r.form \in Typed[r.group] /\ r.at > 0
      BY <3>1, <3>2
    <3>4. ReqOK'
      BY <3>2, <3>3, <3>5, <1>4
    <3> QED BY <3>4, <2>1
  <2> QED BY <2>1, <2>2, <2>3
<1>7. DOMAIN Written(req[t].group, req[t].form, req[t].at) = Key
  BY DEF Written
<1>8. \A f : DOMAIN TaskOf(f) = {"days", "time", "username"}
  BY DEF TaskOf
<1>9. ReqOK' /\ RestOK'
  <2> HIDE DEF ReqOK, RestOK
  <2>1. CASE cloud_post(t) \/ folders_post(t) \/ download_post(t) \/ application_post(t) \/ email_post(t) \/ scheduling_post(t)
    BY <2>1, <1>10 DEF cloud_post, folders_post, download_post, application_post, email_post, scheduling_post, Group
  <2>2. CASE Register(t)
    <3>1. ReqOK'
      BY <2>2, <1>5, <1>6 DEF Register
    <3>2. RestOK'
      BY <2>2, <1>3, <1>8 DEF Register, RestOK, Failure
    <3> QED BY <3>1, <3>2
  <2>3. CASE Unregister(t)
    <3>1. ReqOK'
      BY <2>3, <1>5, <1>6 DEF Unregister
    <3>2. RestOK'
      BY <2>3, <1>3 DEF Unregister, RestOK, Failure
    <3> QED BY <3>1, <3>2
  <2>4. CASE PassOver(t)
    <3> DEFINE r == [req[t] EXCEPT !.at = @ + 1]
    <3>1. req[t] \in Request /\ req[t].step # "idle"
      BY <1>3, <2>4 DEF ReqOK, PassOver
    <3>2. r \in Request /\ r.group = req[t].group /\ r.form = req[t].form /\ r.at = req[t].at + 1
      BY <3>1 DEF Request
    <3>3. req' = [req EXCEPT ![t] = r]
      BY <2>4 DEF PassOver
    <3>4. req[t].group \in Group /\ req[t].form \in Typed[req[t].group] /\ req[t].at > 0 /\ req[t].at \in Nat
      BY <1>3, <3>1 DEF ReqOK, Request
    <3>5. RestOK'
      BY <2>4, <1>3 DEF PassOver, RestOK
    <3>6. r.at > 0
      BY <3>2, <3>4
    <3> HIDE DEF r
    <3>7. ReqOK'
      BY <3>2, <3>3, <3>4, <3>6, <1>4
    <3> QED BY <3>5, <3>7
  <2>5. CASE Write(t)
    <3>1. RestOK'
      BY <2>5, <1>3, <1>7 DEF Write, RestOK
    <3> QED BY <3>1, <2>5, <1>5 DEF Write
  <2>6. CASE WriteFails(t)
    <3>1. ReqOK'
      BY <2>6, <1>5, <1>6 DEF WriteFails
    <3>2. RestOK'
      BY <2>6, <1>3 DEF WriteFails, RestOK, Failure
    <3> QED BY <3>1, <3>2
  <2>7. CASE Undo(t)
    <3>1. RestOK'
      BY <2>7, <1>3 DEF Undo, RestOK, Failure
    <3> QED BY <3>1, <2>7, <1>5 DEF Undo
  <2> QED BY <1>2, <2>1, <2>2, <2>3, <2>4, <2>5, <2>6, <2>7
<1> QED
  BY <1>1, <1>9 DEF SettingsTypeOK, Busy

(* So do those of the sign-in.                                             *)
LEMMA Turning ==
  ASSUME NEW r \in Attempt, NEW step \in {"entering", "replacing", "replaced"},
         NEW p \in Password \cup {NoPassword}
  PROVE  [r EXCEPT !.step = step] \in Attempt /\ [r EXCEPT !.step = step, !.stored = p] \in Attempt
BY DEF Attempt

LEMMA Counting ==
  ASSUME attempts \in 0 .. MaxFailures - 1, locked \in BOOLEAN, served \in Nat, Count
  PROVE  attempts' \in 0 .. MaxFailures - 1 /\ locked' \in BOOLEAN /\ served' \in Nat
<1>1. MaxFailures \in Nat \ {0}
  BY SignInAssumption
<1>2. CASE IsLast
  BY <1>1, <1>2 DEF Count
<1>3. CASE ~IsLast
  BY <1>1, <1>3 DEF Count, IsLast
<1> QED BY <1>2, <1>3

LEMMA SignInTyped ==
  ASSUME SignInTypeOK, SignInNext PROVE SignInTypeOK'
<1> DEFINE Throttle == attempts \in 0 .. MaxFailures - 1 /\ locked \in BOOLEAN /\ served \in Nat
           Session == epoch \in Nat /\ session \in -1 .. epoch
           Secret == password \in Password \cup {NoPassword}
           Tabs == attempt \in [Window -> Attempt]
<1>1. Throttle /\ Session /\ Secret /\ Tabs
  BY DEF SignInTypeOK
<1>2. SUFFICES Throttle' /\ Session' /\ Secret' /\ Tabs'
  BY DEF SignInTypeOK
<1>3. NoAttempt \in Attempt
  BY DEF NoAttempt, Attempt
<1>4. ASSUME NEW w, Leaves(w) PROVE Tabs'
  BY <1>1, <1>3, <1>4 DEF Leaves
<1>5. ASSUME NEW w \in Window, NEW step \in {"entering", "replaced"}, Turns(w, step) PROVE Tabs'
  <2>1. [attempt[w] EXCEPT !.step = step] \in Attempt
    BY <1>1, Turning
  <2> QED BY <2>1, <1>1, <1>5 DEF Turns
<1>6. Proved => Throttle'
  <2>1. 0 \in 0 .. MaxFailures - 1 /\ 0 \in Nat
    BY SignInAssumption
  <2> QED BY <2>1 DEF Proved, Reset
<1>7. UNCHANGED throttleVars => Throttle'
  BY <1>1 DEF throttleVars
<1>8. CASE Unlock
  BY <1>1, <1>8 DEF Unlock
<1>9. ASSUME NEW w \in Window, NEW p \in Password, NEW q \in Password,
             NEW step \in {"signing in", "changing"}, Begin(w, step, p, q)
      PROVE  Throttle' /\ Session' /\ Secret' /\ Tabs'
  <2>1. Session' /\ Secret'
    BY <1>1, <1>9 DEF Begin
  <2>2. CASE locked
    BY <1>1, <1>7, <1>9, <2>1, <2>2 DEF Begin
  <2>3. CASE ~locked
    <3>1. Throttle'
      <4>1. Count
        BY <1>9, <2>3 DEF Begin
      <4> QED BY <1>1, <4>1, Counting
    <3>2. [NoAttempt EXCEPT !.step = step, !.typed = p, !.new = q] \in Attempt
      BY DEF NoAttempt, Attempt
    <3>3. Tabs'
      BY <1>1, <1>9, <2>3, <3>2 DEF Begin
    <3> QED BY <2>1, <3>1, <3>3
  <2> QED BY <2>2, <2>3
<1> HIDE DEF Throttle, Tabs
<1>10. ASSUME NEW w \in Window, Check(w) PROVE Throttle' /\ Session' /\ Secret' /\ Tabs'
  BY <1>1, <1>4, <1>5, <1>6, <1>7, <1>10 DEF Check
<1>11. ASSUME NEW w \in Window, Enter(w) PROVE Throttle' /\ Session' /\ Secret' /\ Tabs'
  BY <1>1, <1>4, <1>7, <1>11 DEF Enter
<1>12. ASSUME NEW w \in Window, Compare(w) PROVE Throttle' /\ Session' /\ Secret' /\ Tabs'
  <2>1. [attempt[w] EXCEPT !.step = "replacing", !.stored = password] \in Attempt
    BY <1>1, Turning DEF Tabs
  <2>2. Tabs'
    BY <1>1, <1>4, <1>12, <2>1 DEF Compare, Tabs
  <2>3. Throttle'
    BY <1>1, <1>6, <1>7, <1>12 DEF Compare, GuessCounts
  <2> QED BY <1>1, <1>12, <2>2, <2>3 DEF Compare
<1>13. ASSUME NEW w \in Window, Replace(w) PROVE Throttle' /\ Session' /\ Secret' /\ Tabs'
  <2>1. attempt[w].new \in Password \cup {NoPassword}
    BY <1>1 DEF Tabs, Attempt
  <2>2. Throttle' /\ Tabs'
    BY <1>4, <1>5, <1>6, <1>7, <1>13 DEF Replace
  <2> QED BY <1>1, <1>13, <2>1, <2>2 DEF Replace
<1>14. ASSUME NEW w \in Window, Renew(w) PROVE Throttle' /\ Session' /\ Secret' /\ Tabs'
  BY <1>1, <1>4, <1>6, <1>14 DEF Renew
<1>15. ASSUME NEW w \in Window, LogOut(w) PROVE Throttle' /\ Session' /\ Secret' /\ Tabs'
  BY <1>1, <1>7, <1>15 DEF LogOut, Tabs
<1> QED
  BY <1>8, <1>9, <1>10, <1>11, <1>12, <1>13, <1>14, <1>15 DEF SignInNext, login_post, change_password

(* And those of the processes.                                             *)
LEMMA Columned == AllColumns \subseteq {"cutoff_enabled", "cutoff_time"} /\ {"cutoff_enabled", "cutoff_time"} \subseteq AllColumns
BY DEF AllColumns, Columns

LEMMA Stepping ==
  ASSUME NEW r \in State
  PROVE  /\ \A s \in Steps : [r EXCEPT !.step = s] \in State
         /\ \A s \in Steps, v \in Nat : [r EXCEPT !.step = s, !.version = v] \in State
         /\ \A s \in Steps, c \in SUBSET (AllColumns \cup {"none"}) :
              [r EXCEPT !.step = s, !.columns = c] \in State
         /\ \A c \in SUBSET (AllColumns \cup {"none"}) : [r EXCEPT !.columns = c] \in State
         /\ \A s \in Steps, f \in Seeds, todo \in SUBSET (EventId \cup Group) :
              [r EXCEPT !.step = s, !.file = f, !.todo = todo] \in State
         /\ \A s \in Steps, todo \in SUBSET (EventId \cup Group) :
              [r EXCEPT !.step = s, !.todo = todo] \in State
         /\ \A todo \in SUBSET (EventId \cup Group) : [r EXCEPT !.todo = todo] \in State
BY DEF State

LEMMA OffState == Off \in State
BY DEF Off, State, Steps

LEMMA ProcTyped ==
  ASSUME TypeOK, NEW p \in Proc,
         OpenStep(p) \/ SeedStep(p) \/ AdminStep(p) \/ CloseStep(p)
  PROVE  /\ lock' \in Proc \cup {Nobody} /\ version' \in Nat
         /\ columns' \subseteq AllColumns \cup {"none"} /\ proc' \in [Proc -> State]
<1> DEFINE Rest == lock' \in Proc \cup {Nobody} /\ version' \in Nat
           Result == Rest /\ columns' \subseteq AllColumns \cup {"none"} /\ proc' \in [Proc -> State]
<1>1. /\ lock \in Proc \cup {Nobody} /\ version \in Nat
      /\ columns \subseteq AllColumns \cup {"none"} /\ proc \in [Proc -> State] /\ proc[p] \in State
  BY DEF TypeOK
<1>2. ASSUME NEW s \in Steps, To(p, s) PROVE proc' \in [Proc -> State]
  <2>1. [proc[p] EXCEPT !.step = s] \in State
    BY <1>1, Stepping
  <2> QED BY <1>1, <1>2, <2>1 DEF To
<1>3. Exit(p) => proc' \in [Proc -> State] /\ lock' \in Proc \cup {Nobody}
  BY <1>1, OffState DEF Exit
<1>4. {"opening", "creating", "stamping", "migrating", "adding", "verifying",
       "seeding", "serving", "running", "off", "opened"} = Steps
  BY DEF Opening, Working, Steps
<1>5. CASE Start(p)
  <2>1. proc' \in [Proc -> State]
    BY <1>1, <1>2, <1>4, <1>5 DEF Start
  <2> QED BY <1>1, <1>5, <2>1 DEF Start
<1>6. CASE ReadVersion(p)
  <2>1. [proc[p] EXCEPT !.step = "creating", !.version = version] \in State
    BY <1>1, <1>4, Stepping
  <2> QED BY <1>1, <1>3, <1>6, <2>1 DEF ReadVersion
<1>7. CASE CreateTables(p)
  <2>1. NextToTables(p) \in Steps
    BY <1>4 DEF NextToTables
  <2>2. proc' \in [Proc -> State]
    BY <1>2, <1>7, <2>1 DEF CreateTables
  <2> QED BY <1>1, <1>7, <2>2 DEF CreateTables
<1>8. CASE ReadColumns(p)
  <2>1. [proc[p] EXCEPT !.step = "adding", !.columns = columns] \in State
    BY <1>1, <1>4, Stepping
  <2> QED BY <1>1, <1>8, <2>1 DEF ReadColumns
<1>9. CASE AddColumn(p)
  <2>1. CASE To(p, "stamping") /\ UNCHANGED <<lock, columns>>
    BY <1>1, <1>2, <1>4, <1>9, <2>1 DEF AddColumn
  <2>2. CASE \E c \in AllColumns :
               IF c \in columns THEN Exit(p) /\ UNCHANGED columns
               ELSE /\ columns' = columns \cup {c}
                    /\ proc' = [proc EXCEPT ![p].columns = @ \cup {c}] /\ UNCHANGED lock
    <3>1. PICK c \in AllColumns :
               IF c \in columns THEN Exit(p) /\ UNCHANGED columns
               ELSE /\ columns' = columns \cup {c}
                    /\ proc' = [proc EXCEPT ![p].columns = @ \cup {c}] /\ UNCHANGED lock
      BY <2>2
    <3>2. proc[p].columns \cup {c} \in SUBSET (AllColumns \cup {"none"})
      BY <1>1 DEF State
    <3>3. [proc[p] EXCEPT !.columns = proc[p].columns \cup {c}] \in State
      BY <1>1, <3>2, Stepping
    <3> QED BY <1>1, <1>3, <1>9, <3>1, <3>3 DEF AddColumn
  <2> QED BY <1>9, <2>1, <2>2 DEF AddColumn, AllColumns
<1>10. CASE Stamp(p)
  BY <1>1, <1>2, <1>4, <1>10 DEF Stamp, SCHEMA_VERSION
<1>11. CASE Verify(p)
  BY <1>1, <1>2, <1>3, <1>4, <1>11 DEF Verify
<1>12. CASE RecordSkipped(p) \/ Crash(p) \/ Close(p)
  BY <1>1, <1>3, <1>12 DEF RecordSkipped, Crash, Close
<1>13. CASE BeginSeed(p)
  <2>1. ASSUME NEW s \in Seeds
        PROVE  [proc[p] EXCEPT !.step = "seeding", !.file = s, !.todo = DOMAIN s] \in State
    <3>1. DOMAIN s \in SUBSET (EventId \cup Group)
      BY InstancesAssumption
    <3> QED BY <1>1, <1>4, <3>1, Stepping
  <2> QED BY <1>1, <1>3, <1>13, <2>1 DEF BeginSeed
<1>14. ASSUME NEW todo \in SUBSET (EventId \cup Group), proc' = [proc EXCEPT ![p].todo = todo]
       PROVE  proc' \in [Proc -> State]
  <2>1. [proc[p] EXCEPT !.todo = todo] \in State
    BY <1>1, Stepping
  <2> QED BY <1>1, <1>14, <2>1
<1>15. proc[p].todo \in SUBSET (EventId \cup Group)
  BY <1>1 DEF State
<1>16. ASSUME NEW e \in EventId, RunEvent(p, e) PROVE Result
  BY <1>1, <1>3, <1>14, <1>15, <1>16 DEF RunEvent
<1>17. ASSUME NEW g \in Group, SeedGroup(p, g) PROVE Result
  BY <1>1, <1>3, <1>14, <1>15, <1>17 DEF SeedGroup
<1>18. CASE Serve(p)
  BY <1>1, <1>2, <1>4, <1>18 DEF Serve
<1>19. CASE BeginRun(p)
  <2>1. [proc[p] EXCEPT !.step = "running", !.todo = EventId] \in State
    BY <1>1, <1>4, Stepping
  <2> QED BY <1>1, <1>3, <1>19, <2>1 DEF BeginRun
<1> QED
  BY <1>5, <1>6, <1>7, <1>8, <1>9, <1>10, <1>11, <1>12, <1>13, <1>16, <1>17, <1>18, <1>19
     DEF OpenStep, SeedStep, AdminStep, CloseStep

LEMMA Zeros == 0 \in 0 .. MaxFailures - 1 /\ 0 \in Nat /\ -1 \in -1 .. 0
BY SignInAssumption

(* Every variable keeps its type, through pages, tabs, starts and crashes. *)
THEOREM TypeCorrect == Spec => []TypeOK
<1>1. Init => TypeOK
  <2> SUFFICES ASSUME Init PROVE TypeOK
    OBVIOUS
  <2>1. PICK s \in Scenarios :
          /\ version = s.version /\ crashes = s.crashes /\ startable = s.starts
          /\ columns = CASE version = 0 -> {"none"} [] version = 1 -> {} [] OTHER -> AllColumns
          /\ setting = [k \in Key |-> IF k \in DOMAIN s.rows THEN s.rows[k] ELSE Absent]
          /\ task = s.task /\ password = s.password
    BY DEF Init
  <2>2. version \in Nat /\ password \in Password \cup {NoPassword}
    BY <2>1, InstancesAssumption
  <2>3. columns \subseteq AllColumns \cup {"none"}
    BY <2>1
  <2>4. SettingsTypeOK
    <3>1. req \in [Tab -> Request] /\ Busy = {}
      BY Idling DEF Init, SettingsInit, Busy
    <3>2. DOMAIN setting = Key
      BY <2>1
    <3>3. task = NoTask \/ DOMAIN task = {"days", "time", "username"}
      BY <2>1, InstancesAssumption DEF FoundAsSaved, TaskOf
    <3> QED BY <3>1, <3>2, <3>3 DEF Init, SettingsInit, SettingsTypeOK
  <2>5. SignInTypeOK
    <3>1. NoAttempt \in Attempt
      BY DEF NoAttempt, Attempt
    <3> QED BY <2>2, <3>1, Zeros DEF Init, SignInInit, SignInTypeOK
  <2>6. proc \in [Proc -> State] /\ lock \in Proc \cup {Nobody}
    BY OffState DEF Init
  <2> QED BY <2>2, <2>3, <2>4, <2>5, <2>6 DEF TypeOK
<1>2. TypeOK /\ [Next]_vars => TypeOK'
  <2> SUFFICES ASSUME TypeOK, [Next]_vars PROVE TypeOK'
    OBVIOUS
  <2> DEFINE Procs == /\ lock \in Proc \cup {Nobody} /\ version \in Nat
                      /\ columns \subseteq AllColumns \cup {"none"} /\ proc \in [Proc -> State]
  <2>1. SettingsTypeOK /\ SignInTypeOK /\ Procs
    BY DEF TypeOK
  <2>2. SUFFICES SettingsTypeOK' /\ SignInTypeOK' /\ Procs'
    BY DEF TypeOK
  <2>3. UNCHANGED settingVars => SettingsTypeOK'
    BY <2>1 DEF settingVars, SettingsTypeOK, Busy
  <2>4. UNCHANGED signInVars => SignInTypeOK'
    BY <2>1 DEF signInVars, SignInTypeOK
  <2>5. UNCHANGED instanceVars => Procs'
    BY <2>1 DEF instanceVars
  <2>6. CASE UNCHANGED vars
    BY <2>3, <2>4, <2>5, <2>6 DEF vars
  <2>7. CASE PageStep
    BY <2>1, <2>3, <2>4, <2>5, <2>7, SettingsTyped, SignInTyped DEF PageStep
  <2>8. ASSUME NEW p \in Proc, OpenStep(p) \/ SeedStep(p) \/ AdminStep(p) \/ CloseStep(p)
        PROVE  SettingsTypeOK' /\ SignInTypeOK' /\ Procs'
    <3>1. Procs'
      BY <2>8, ProcTyped
    <3>2. CASE OpenStep(p)
      BY <2>3, <2>4, <3>1, <3>2 DEF OpenStep
    <3>3. CASE SeedStep(p)
      <4>1. PICK g \in Group : SeedGroup(p, g)
        BY <3>3 DEF SeedStep
      <4>2. DOMAIN setting' = Key
        BY <2>1, <4>1 DEF SeedGroup, Written, SettingsTypeOK
      <4>3. SettingsTypeOK'
        BY <2>1, <3>3, <4>2 DEF SeedStep, SettingsTypeOK, Busy
      <4> QED BY <2>4, <3>1, <3>3, <4>3 DEF SeedStep
    <3>4. CASE AdminStep(p)
      <4>1. password' \in Password \cup {NoPassword}
        BY <2>1, <3>4, SignInAssumption DEF AdminStep, Serve, BeginRun, SeedAdmin, SignInTypeOK
      <4>2. SignInTypeOK'
        BY <2>1, <3>4, <4>1 DEF AdminStep, SignInTypeOK
      <4> QED BY <2>3, <3>1, <3>4, <4>2 DEF AdminStep
    <3>5. CASE CloseStep(p)
      <4>1. req' \in [Tab -> Request] /\ Busy' = {}
        BY <3>5, Idling DEF CloseStep, Close, DropRequests, Busy
      <4>2. failed' \subseteq Failure
        BY <2>1, <3>5 DEF CloseStep, Close, DropRequests, SettingsTypeOK, Failure
      <4>3. SettingsTypeOK'
        BY <2>1, <3>5, <4>1, <4>2 DEF CloseStep, SettingsTypeOK
      <4>4. NoAttempt \in Attempt
        BY DEF NoAttempt, Attempt
      <4>5. /\ attempts' = 0 /\ locked' = FALSE /\ served' = 0 /\ epoch' = 0 /\ session' = -1
            /\ attempt' = [w \in Window |-> NoAttempt] /\ password' = password
        BY <3>5 DEF CloseStep, Close, ForgetSessions
      <4>6. SignInTypeOK'
        BY <2>1, <4>4, <4>5, Zeros DEF SignInTypeOK
      <4> QED BY <3>1, <4>3, <4>6
    <3> QED BY <2>8, <3>2, <3>3, <3>4, <3>5
  <2> QED BY <2>6, <2>7, <2>8 DEF Next
<1> QED BY <1>1, <1>2, PTL DEF Spec

(* Whoever is past the start holds the lock, but for runs that skip; only  *)
(* the holder works.                                                       *)
HeldBy(p) ==
  /\ At(p, "off") \/ KindOf[p] = "run" \/ lock = p
  /\ proc[p].step \in Working => lock = p

Held == \A p \in Proc : HeldBy(p)

LEMMA OthersHold ==
  ASSUME TypeOK, NEW p \in Proc, OpenStep(p) \/ SeedStep(p) \/ AdminStep(p) \/ CloseStep(p)
  PROVE  \A q \in Proc \ {p} : proc'[q] = proc[q] /\ (lock = q => lock' = q)
<1> SUFFICES ASSUME NEW q \in Proc \ {p} PROVE proc'[q] = proc[q] /\ (lock = q => lock' = q)
  OBVIOUS
<1> DEFINE Result == proc'[q] = proc[q] /\ (lock = q => lock' = q)
<1>1. proc \in [Proc -> State] /\ Nobody \notin Proc
  BY InstancesAssumption DEF TypeOK
<1> USE DEF Exit, To
<1>2. CASE Start(p)
  BY <1>1, <1>2 DEF Start, IsFree
<1>3. CASE ReadVersion(p) \/ CreateTables(p) \/ ReadColumns(p) \/ Stamp(p) \/ Verify(p)
  BY <1>1, <1>3 DEF ReadVersion, CreateTables, ReadColumns, Stamp, Verify
<1>4. CASE AddColumn(p)
  BY <1>1, <1>4 DEF AddColumn
<1>5. CASE RecordSkipped(p) \/ Crash(p) \/ Close(p)
  BY <1>1, <1>5 DEF RecordSkipped, Crash, Close
<1>6. CASE BeginSeed(p) \/ BeginRun(p) \/ Serve(p)
  BY <1>1, <1>6 DEF BeginSeed, BeginRun, Serve
<1>7. ASSUME NEW e, RunEvent(p, e) PROVE Result
  BY <1>1, <1>7 DEF RunEvent
<1>8. ASSUME NEW g, SeedGroup(p, g) PROVE Result
  BY <1>1, <1>8 DEF SeedGroup
<1> QED
  BY <1>2, <1>3, <1>4, <1>5, <1>6, <1>7, <1>8 DEF OpenStep, SeedStep, AdminStep, CloseStep

LEMMA StepHolds ==
  ASSUME TypeOK, Held, NEW p \in Proc,
         OpenStep(p) \/ SeedStep(p) \/ AdminStep(p) \/ CloseStep(p)
  PROVE  HeldBy(p)'
<1>1. proc \in [Proc -> State] /\ Nobody \notin Proc /\ HeldBy(p)
      /\ KindOf[p] \in {"ui", "seed", "run"}
  BY InstancesAssumption DEF TypeOK, Held, Kind
<1>2. ASSUME NEW s, To(p, s) PROVE proc'[p].step = s
  BY <1>1, <1>2 DEF To, State
<1>3. Exit(p) => HeldBy(p)'
  <2>1. Exit(p) => proc'[p].step = "off"
    BY <1>1 DEF Exit, Off
  <2> QED BY <2>1 DEF HeldBy, At, Working
<1>4. ASSUME NEW s \in Opening \cup {"opened"}, proc'[p].step = s, UNCHANGED lock, ~At(p, "off")
      PROVE  HeldBy(p)'
  BY <1>1, <1>4 DEF HeldBy, At, Working, Opening
<1>5. CASE Start(p)
  BY <1>1, <1>2, <1>5 DEF Start, HeldBy, At, Working
<1>6. CASE ReadVersion(p)
  <2>1. proc' = [proc EXCEPT ![p].step = "creating", ![p].version = version] => proc'[p].step = "creating"
    BY <1>1 DEF State
  <2> QED BY <1>3, <1>4, <1>6, <2>1 DEF ReadVersion, Opening, At
<1>7. CASE CreateTables(p)
  <2>1. NextToTables(p) \in Opening
    BY DEF NextToTables, Opening
  <2> QED BY <1>2, <1>4, <1>7, <2>1 DEF CreateTables, At
<1>8. CASE ReadColumns(p)
  <2>1. proc'[p].step = "adding"
    BY <1>1, <1>8 DEF ReadColumns, State
  <2> QED BY <1>4, <1>8, <2>1 DEF ReadColumns, Opening, At
<1>9. CASE AddColumn(p)
  <2>1. ASSUME NEW c, proc' = [proc EXCEPT ![p].columns = @ \cup {c}] PROVE proc'[p].step = proc[p].step
    BY <1>1, <2>1 DEF State
  <2>2. At(p, "adding") /\ "adding" \in Opening /\ "stamping" \in Opening
    BY <1>9 DEF AddColumn, Opening
  <2>3. CASE To(p, "stamping") /\ UNCHANGED lock
    BY <1>2, <1>4, <2>2, <2>3 DEF At
  <2>4. ASSUME NEW c, proc' = [proc EXCEPT ![p].columns = @ \cup {c}], UNCHANGED lock PROVE HeldBy(p)'
    BY <1>4, <2>1, <2>2, <2>4 DEF At
  <2> QED BY <1>3, <1>9, <2>3, <2>4 DEF AddColumn
<1>10. CASE Stamp(p) \/ Verify(p)
  BY <1>2, <1>3, <1>4, <1>10 DEF Stamp, Verify, Opening, At
<1>11. CASE RecordSkipped(p) \/ Crash(p) \/ Close(p)
  BY <1>3, <1>11 DEF RecordSkipped, Crash, Close
<1>12. ASSUME proc'[p].step \in Working, UNCHANGED lock, lock = p PROVE HeldBy(p)'
  BY <1>12 DEF HeldBy
<1>13. CASE Serve(p)
  <2>1. lock = p
    BY <1>1, <1>13 DEF Serve, HeldBy, At
  <2> QED BY <1>2, <1>12, <1>13, <2>1 DEF Serve, Working
<1>14. CASE BeginSeed(p)
  <2>1. lock = p
    BY <1>1, <1>14 DEF BeginSeed, HeldBy, At
  <2>2. ASSUME NEW s, proc' = [proc EXCEPT ![p].step = "seeding", ![p].file = s, ![p].todo = DOMAIN s]
        PROVE  proc'[p].step = "seeding"
    BY <1>1, <2>2 DEF State
  <2> QED BY <1>3, <1>12, <1>14, <2>1, <2>2 DEF BeginSeed, Working
<1>15. CASE BeginRun(p)
  <2>1. proc' = [proc EXCEPT ![p].step = "running", ![p].todo = EventId] => proc'[p].step = "running"
    BY <1>1 DEF State
  <2> QED BY <1>3, <1>12, <1>15, <2>1 DEF BeginRun, Working
<1>16. ASSUME NEW todo, proc' = [proc EXCEPT ![p].todo = todo], UNCHANGED lock PROVE HeldBy(p)'
  <2>1. proc'[p].step = proc[p].step
    BY <1>1, <1>16 DEF State
  <2> QED BY <1>1, <1>16, <2>1 DEF HeldBy, At
<1>17. ASSUME NEW e, RunEvent(p, e) PROVE HeldBy(p)'
  BY <1>3, <1>16, <1>17 DEF RunEvent
<1>18. ASSUME NEW g, SeedGroup(p, g) PROVE HeldBy(p)'
  BY <1>3, <1>16, <1>18 DEF SeedGroup
<1> QED
  BY <1>5, <1>6, <1>7, <1>8, <1>9, <1>10, <1>11, <1>13, <1>14, <1>15, <1>17, <1>18
     DEF OpenStep, SeedStep, AdminStep, CloseStep

(* Whatever starts, is cut off or is skipped, only one process at a time   *)
(* seeds, serves or runs.                                                  *)
LEMMA StaysHeld == ASSUME TypeOK, Held, [Next]_vars PROVE Held'
<1>1. CASE UNCHANGED instanceVars
  BY <1>1 DEF instanceVars, Held, HeldBy, At
<1>2. ASSUME NEW p \in Proc, OpenStep(p) \/ SeedStep(p) \/ AdminStep(p) \/ CloseStep(p) PROVE Held'
  <2>1. HeldBy(p)'
    BY <1>2, StepHolds
  <2>2. ASSUME NEW q \in Proc \ {p} PROVE HeldBy(q)'
    <3>1. HeldBy(q) /\ proc'[q] = proc[q] /\ (lock = q => lock' = q)
      BY <1>2, <2>2, OthersHold DEF Held
    <3> QED BY <3>1 DEF HeldBy, At
  <2> QED BY <2>1, <2>2 DEF Held
<1> QED BY <1>1, <1>2 DEF Next, PageStep, vars

THEOREM OneWorksAlways == Spec => []OneWorks
<1>1. Init => Held
  BY DEF Init, Held, HeldBy, At, Off, Working
<1>2. TypeOK /\ Held /\ [Next]_vars => Held'
  BY StaysHeld
<1>3. Held => OneWorks
  BY DEF Held, HeldBy, OneWorks
<1> QED BY <1>1, <1>2, <1>3, TypeCorrect, PTL DEF Spec

(* What the columns of the database are, given its version, and given what *)
(* a process that opens it has read: a version 0 that has been read before *)
(* somebody else created the tables leads past the migration, and that is  *)
(* right, because tables come into being complete.                         *)
Whole == columns \in {{"none"}, AllColumns}
Tables == columns \subseteq AllColumns

Found == /\ version = 0 => Whole
         /\ version # 0 => Tables
         /\ version = SCHEMA_VERSION => columns = AllColumns

Opens(p) ==
  /\ At(p, "creating") => IF proc[p].version = 0 THEN Whole ELSE Tables
  /\ At(p, "migrating") \/ At(p, "adding") => Tables
  /\ At(p, "adding") => proc[p].columns \subseteq columns
  /\ At(p, "stamping") => columns = AllColumns

Grown == Found /\ \A p \in Proc : Opens(p)

LEMMA Growing ==
  ASSUME TypeOK, Grown, NEW p \in Proc,
         OpenStep(p) \/ SeedStep(p) \/ AdminStep(p) \/ CloseStep(p)
  PROVE  /\ columns \subseteq columns' \/ (columns = {"none"} /\ columns' = AllColumns)
         /\ Tables => Tables'
         /\ Whole => Whole'
         /\ Found'
<1> USE Columned DEF Whole, Tables, SCHEMA_VERSION
<1>1. Found /\ Opens(p)
  BY DEF Grown
<1>2. CASE UNCHANGED <<version, columns>>
  BY <1>1, <1>2 DEF Found
<1>3. CASE CreateTables(p)
  BY <1>1, <1>3 DEF CreateTables, Found
<1>4. CASE AddColumn(p)
  <2>1. Tables
    BY <1>1, <1>4 DEF AddColumn, Opens
  <2>2. CASE UNCHANGED columns
    BY <1>2, <1>4, <2>2 DEF AddColumn
  <2>3. CASE columns' # columns
    <3>1. PICK c \in AllColumns : c \notin columns /\ columns' = columns \cup {c}
      BY <1>4, <2>3 DEF AddColumn, AllColumns
    <3>2. version' = version
      BY <1>4 DEF AddColumn
    <3>3. columns # AllColumns /\ columns # {"none"}
      BY <2>1, <3>1
    <3> QED BY <1>1, <2>1, <3>1, <3>2, <3>3 DEF Found
  <2> QED BY <2>2, <2>3
<1>5. CASE Stamp(p)
  BY <1>1, <1>5 DEF Stamp, Found, Opens
<1>6. CASE Start(p) \/ ReadVersion(p) \/ ReadColumns(p) \/ Verify(p) \/ RecordSkipped(p) \/ BeginSeed(p) \/ Crash(p)
  BY <1>2, <1>6 DEF Start, ReadVersion, ReadColumns, Verify, RecordSkipped, BeginSeed, Crash
<1>7. CASE Serve(p) \/ BeginRun(p) \/ Close(p)
  BY <1>2, <1>7 DEF Serve, BeginRun, Close
<1>8. CASE (\E e \in EventId : RunEvent(p, e)) \/ (\E g \in Group : SeedGroup(p, g))
  BY <1>2, <1>8 DEF RunEvent, SeedGroup
<1> QED
  BY <1>3, <1>4, <1>5, <1>6, <1>7, <1>8 DEF OpenStep, SeedStep, AdminStep, CloseStep

LEMMA StepOpens ==
  ASSUME TypeOK, Grown, NEW p \in Proc,
         OpenStep(p) \/ SeedStep(p) \/ AdminStep(p) \/ CloseStep(p)
  PROVE  Opens(p)'
<1> USE Columned
<1>1. proc \in [Proc -> State] /\ Found /\ Opens(p)
  BY DEF TypeOK, Grown
<1>2. ASSUME NEW s, To(p, s) PROVE proc'[p].step = s
  BY <1>1, <1>2 DEF To, State
<1>3. proc'[p].step \notin {"creating", "migrating", "adding", "stamping"} => Opens(p)'
  BY DEF Opens, At
<1>4. Exit(p) => Opens(p)'
  <2>1. Exit(p) => proc'[p].step = "off"
    BY <1>1 DEF Exit, Off
  <2> QED BY <1>3, <2>1
<1>5. CASE Start(p)
  <2>1. CASE To(p, "opening")
    BY <1>2, <1>3, <2>1
  <2>2. CASE UNCHANGED proc
    BY <1>3, <1>5, <2>2 DEF Start, At
  <2> QED BY <1>5, <2>1, <2>2 DEF Start
<1>6. CASE ReadVersion(p)
  <2>1. CASE Exit(p)
    BY <1>4, <2>1
  <2>2. CASE proc' = [proc EXCEPT ![p].step = "creating", ![p].version = version]
    <3>1. proc'[p].step = "creating" /\ proc'[p].version = version
      BY <1>1, <2>2 DEF State
    <3>2. columns' = columns
      BY <1>6 DEF ReadVersion
    <3> QED BY <1>1, <3>1, <3>2 DEF Opens, At, Found, Whole, Tables
  <2> QED BY <1>6, <2>1, <2>2 DEF ReadVersion
<1>7. CASE CreateTables(p)
  <2>1. proc'[p].step = NextToTables(p)
    BY <1>2, <1>7 DEF CreateTables
  <2>2. columns' = IF columns = {"none"} THEN AllColumns ELSE columns
    BY <1>7 DEF CreateTables
  <2>3. At(p, "creating")
    BY <1>7 DEF CreateTables
  <2>4. CASE proc[p].version = 0
    BY <1>1, <2>1, <2>2, <2>3, <2>4 DEF Opens, At, Whole, NextToTables
  <2>5. CASE proc[p].version # 0
    <3>1. columns' \subseteq AllColumns
      BY <1>1, <2>2, <2>3, <2>5 DEF Opens, Tables
    <3> QED BY <2>1, <2>5, <3>1 DEF Opens, At, Tables, NextToTables
  <2> QED BY <2>4, <2>5
<1>8. CASE ReadColumns(p)
  <2>1. proc'[p].step = "adding" /\ proc'[p].columns = columns
    BY <1>1, <1>8 DEF ReadColumns, State
  <2>2. columns' = columns /\ Tables
    BY <1>1, <1>8 DEF ReadColumns, Opens
  <2> QED BY <2>1, <2>2 DEF Opens, At, Tables
<1>9. CASE AddColumn(p)
  <2>1. At(p, "adding") /\ Tables /\ proc[p].columns \subseteq columns
    BY <1>1, <1>9 DEF AddColumn, Opens
  <2>2. CASE Missing(p) = {} /\ To(p, "stamping") /\ UNCHANGED columns
    <3>1. columns' = AllColumns
      BY <2>1, <2>2 DEF Missing, Tables
    <3> QED BY <1>2, <2>2, <3>1 DEF Opens, At
  <2>3. CASE Exit(p)
    BY <1>4, <2>3
  <2>4. ASSUME NEW c \in AllColumns, columns' = columns \cup {c},
               proc' = [proc EXCEPT ![p].columns = @ \cup {c}]
        PROVE  Opens(p)'
    <3>1. proc'[p].step = "adding" /\ proc'[p].columns = proc[p].columns \cup {c}
      BY <1>1, <2>1, <2>4 DEF State, At
    <3> QED BY <2>1, <2>4, <3>1 DEF Opens, At, Tables
  <2> QED BY <1>9, <2>2, <2>3, <2>4 DEF AddColumn, AllColumns
<1>10. CASE Stamp(p) \/ Verify(p)
  BY <1>2, <1>3, <1>4, <1>10 DEF Stamp, Verify
<1>11. CASE RecordSkipped(p) \/ Crash(p) \/ Close(p)
  BY <1>4, <1>11 DEF RecordSkipped, Crash, Close
<1>12. CASE Serve(p)
  BY <1>2, <1>3, <1>12 DEF Serve
<1>13. CASE BeginSeed(p)
  <2>1. ASSUME NEW s, proc' = [proc EXCEPT ![p].step = "seeding", ![p].file = s, ![p].todo = DOMAIN s]
        PROVE  proc'[p].step = "seeding"
    BY <1>1, <2>1 DEF State
  <2> QED BY <1>3, <1>4, <1>13, <2>1 DEF BeginSeed
<1>14. CASE BeginRun(p)
  <2>1. proc' = [proc EXCEPT ![p].step = "running", ![p].todo = EventId] => proc'[p].step = "running"
    BY <1>1 DEF State
  <2> QED BY <1>3, <1>4, <1>14, <2>1 DEF BeginRun
<1>15. ASSUME NEW todo, proc' = [proc EXCEPT ![p].todo = todo] PROVE proc'[p].step = proc[p].step
  BY <1>1, <1>15 DEF State
<1>16. ASSUME NEW e, RunEvent(p, e) PROVE Opens(p)'
  BY <1>3, <1>4, <1>15, <1>16 DEF RunEvent, At
<1>17. ASSUME NEW g, SeedGroup(p, g) PROVE Opens(p)'
  BY <1>3, <1>4, <1>15, <1>17 DEF SeedGroup, At
<1> QED
  BY <1>5, <1>6, <1>7, <1>8, <1>9, <1>10, <1>11, <1>12, <1>13, <1>14, <1>16, <1>17
     DEF OpenStep, SeedStep, AdminStep, CloseStep

(* A database that is stamped with the present version has every column,   *)
(* however openings overlap and are cut off.                               *)
LEMMA StaysGrown == ASSUME TypeOK, Grown, [Next]_vars PROVE Grown'
<1>1. CASE UNCHANGED instanceVars
  BY <1>1 DEF instanceVars, Grown, Found, Opens, At, Whole, Tables
<1>2. ASSUME NEW p \in Proc, OpenStep(p) \/ SeedStep(p) \/ AdminStep(p) \/ CloseStep(p) PROVE Grown'
  <2>1. /\ columns \subseteq columns' \/ (columns = {"none"} /\ columns' = AllColumns)
        /\ Tables => Tables'
        /\ Whole => Whole'
        /\ Found'
    BY <1>2, Growing
  <2>2. Opens(p)'
    BY <1>2, StepOpens
  <2>3. ASSUME NEW q \in Proc \ {p} PROVE Opens(q)'
    <3>1. Opens(q) /\ proc'[q] = proc[q]
      BY <1>2, <2>3, OthersHold DEF Grown
    <3>2. columns = AllColumns => columns' = AllColumns
      BY <2>1, Columned DEF Tables
    <3>3. Tables => columns \subseteq columns'
      BY <2>1, Columned DEF Tables
    <3> QED BY <2>1, <3>1, <3>2, <3>3 DEF Opens, At
  <2> QED BY <2>1, <2>2, <2>3 DEF Grown
<1> QED BY <1>1, <1>2 DEF Next, PageStep, vars

THEOREM StampedAlways == Spec => []StampedIsComplete
<1>1. Init => Grown
  <2> SUFFICES ASSUME Init PROVE Grown
    OBVIOUS
  <2>1. columns = CASE version = 0 -> {"none"} [] version = 1 -> {} [] OTHER -> AllColumns
    BY DEF Init
  <2>2. Found
    BY <2>1 DEF Found, Whole, Tables, SCHEMA_VERSION
  <2>3. \A p \in Proc : Opens(p)
    BY DEF Init, Opens, At, Off
  <2> QED BY <2>2, <2>3 DEF Grown
<1>2. TypeOK /\ Grown /\ [Next]_vars => Grown'
  BY StaysGrown
<1>3. Grown => StampedIsComplete
  BY DEF Grown, Found, StampedIsComplete
<1> QED BY <1>1, <1>2, <1>3, TypeCorrect, PTL DEF Spec

(* Every attempt that was let through is still counted, or the throttle is *)
(* locked, and then at most MaxFailures were.                              *)
Counted == IF locked THEN served <= MaxFailures ELSE served <= attempts

LEMMA StaysCounted == ASSUME TypeOK, Counted, [Next]_vars PROVE Counted'
<1>1. attempts \in 0 .. MaxFailures - 1 /\ served \in Nat /\ locked \in BOOLEAN
  BY DEF TypeOK, SignInTypeOK
<1>2. MaxFailures \in Nat \ {0}
  BY SignInAssumption
<1>3. UNCHANGED throttleVars => Counted'
  BY DEF throttleVars, Counted
<1>4. attempts' = 0 /\ locked' = FALSE /\ served' = 0 => Counted'
  BY DEF Counted
<1>5. Proved => Counted'
  BY <1>4 DEF Proved, Reset
<1>6. ASSUME Count, ~locked PROVE Counted'
  <2>1. served' = served + 1 /\ served <= attempts
    BY <1>6 DEF Count, Counted
  <2>2. CASE IsLast
    BY <1>1, <1>2, <1>6, <2>1, <2>2 DEF Count, Counted
  <2>3. CASE ~IsLast
    BY <1>1, <1>6, <2>1, <2>3 DEF Count, Counted
  <2> QED BY <2>2, <2>3
<1>7. ASSUME SignInNext PROVE Counted'
  <2>1. CASE Unlock
    BY <1>1, <1>2, <2>1 DEF Unlock, Counted
  <2>2. ASSUME NEW w, NEW step, NEW p, NEW q, Begin(w, step, p, q) PROVE Counted'
    BY <1>3, <1>6, <2>2 DEF Begin
  <2>3. ASSUME NEW w, login_post(w) \/ change_password(w) PROVE Counted'
    BY <2>2, <2>3 DEF login_post, change_password
  <2>4. ASSUME NEW w, Check(w) \/ Enter(w) \/ Compare(w) \/ Replace(w) \/ Renew(w) \/ LogOut(w) PROVE Counted'
    <3>1. Proved \/ UNCHANGED throttleVars
      BY <2>4 DEF Check, Enter, Compare, GuessCounts, Replace, Renew, LogOut
    <3> QED BY <1>3, <1>5, <3>1
  <2> QED BY <1>7, <2>1, <2>3, <2>4 DEF SignInNext
<1>8. CASE UNCHANGED signInVars
  BY <1>3, <1>8 DEF signInVars, throttleVars
<1>9. ASSUME NEW p, OpenStep(p) \/ SeedStep(p) \/ AdminStep(p) \/ CloseStep(p) PROVE Counted'
  BY <1>3, <1>4, <1>8, <1>9 DEF OpenStep, SeedStep, AdminStep, CloseStep, Close, ForgetSessions, throttleVars
<1> QED BY <1>7, <1>8, <1>9 DEF Next, PageStep, vars

(* However the tabs overlap, at most max_failures attempts are let through *)
(* before a right password or the end of a lock.                           *)
THEOREM AttemptsBounded == Spec => []AttemptsAreBounded
<1>1. Init => Counted
  BY SignInAssumption DEF Init, SignInInit, Counted
<1>2. TypeOK /\ Counted /\ [Next]_vars => Counted'
  BY StaysCounted
<1>3. TypeOK /\ Counted => AttemptsAreBounded
  BY SignInAssumption DEF TypeOK, SignInTypeOK, Counted, AttemptsAreBounded
<1> QED BY <1>1, <1>2, <1>3, TypeCorrect, PTL DEF Spec

(* What a change is about to replace is what has been typed.               *)
Proven == \A w \in Window : attempt[w].step = "replacing" => attempt[w].typed = attempt[w].stored

LEMMA StaysProven == ASSUME TypeOK, Proven, [Next]_vars PROVE Proven'
<1>1. attempt \in [Window -> Attempt]
  BY DEF TypeOK, SignInTypeOK
<1>2. UNCHANGED attempt => Proven'
  BY DEF Proven
<1>3. ASSUME NEW w \in Window, NEW r, attempt' = [attempt EXCEPT ![w] = r],
             r.step = "replacing" => r.typed = r.stored
      PROVE  Proven'
  BY <1>1, <1>3 DEF Proven
<1>4. ASSUME NEW w \in Window, Leaves(w) PROVE Proven'
  BY <1>3, <1>4 DEF Leaves, NoAttempt
<1>5. ASSUME NEW w \in Window, NEW step \in {"entering", "replaced"}, Turns(w, step) PROVE Proven'
  BY <1>1, <1>5 DEF Turns, Attempt, Proven
<1>6. ASSUME NEW w \in Window, Compare(w) PROVE Proven'
  <2>1. CASE Leaves(w)
    BY <1>4, <2>1
  <2>2. CASE ~Leaves(w)
    <3>1. attempt[w].typed = password
          /\ attempt' = [attempt EXCEPT ![w].step = "replacing", ![w].stored = password]
      BY <1>6, <2>2 DEF Compare
    <3> QED BY <1>1, <3>1 DEF Attempt, Proven
  <2> QED BY <2>1, <2>2
<1>7. ASSUME NEW w \in Window, NEW step \in {"signing in", "changing"}, NEW p \in Password, NEW q \in Password,
             Begin(w, step, p, q) PROVE Proven'
  <2> DEFINE r == [NoAttempt EXCEPT !.step = step, !.typed = p, !.new = q]
  <2>1. r.step = step
    BY DEF NoAttempt
  <2>2. UNCHANGED attempt \/ attempt' = [attempt EXCEPT ![w] = r]
    BY <1>7 DEF Begin
  <2> HIDE DEF r
  <2> QED BY <1>2, <1>3, <2>1, <2>2
<1>8. CASE SignInNext
  <2>1. ASSUME NEW w \in Window, login_post(w) \/ change_password(w) PROVE Proven'
    BY <1>7, <2>1 DEF login_post, change_password
  <2>2. ASSUME NEW w \in Window, Check(w) \/ Enter(w) \/ Replace(w) \/ Renew(w) \/ LogOut(w) PROVE Proven'
    BY <1>2, <1>4, <1>5, <2>2 DEF Check, Enter, Replace, Renew, LogOut
  <2> QED BY <1>2, <1>6, <1>8, <2>1, <2>2 DEF SignInNext, Unlock
<1>9. CASE UNCHANGED signInVars
  BY <1>2, <1>9 DEF signInVars
<1>10. ASSUME NEW p, OpenStep(p) \/ SeedStep(p) \/ AdminStep(p) PROVE Proven'
  BY <1>2, <1>9, <1>10 DEF OpenStep, SeedStep, AdminStep
<1>11. ASSUME NEW p, CloseStep(p) PROVE Proven'
  <2>1. attempt' = [w \in Window |-> NoAttempt]
    BY <1>11 DEF CloseStep, Close, ForgetSessions
  <2> QED BY <2>1 DEF Proven, NoAttempt
<1> QED BY <1>8, <1>9, <1>10, <1>11 DEF Next, PageStep, vars

(* The password is replaced only by whoever has typed the one it replaces. *)
THEOREM ChangesProved == Spec => ChangesAreProved
<1> DEFINE A == password' # password /\ password # NoPassword =>
                  \E w \in Window : attempt[w].step = "replacing" /\ attempt[w].typed = password
<1>1. Init => Proven
  BY DEF Init, SignInInit, Proven, NoAttempt
<1>2. TypeOK /\ Proven /\ [Next]_vars => Proven'
  BY StaysProven
<1>3. Proven /\ [Next]_vars => [A]_signInVars
  <2> SUFFICES ASSUME Proven, [Next]_vars, password' # password, password # NoPassword
               PROVE  \E w \in Window : attempt[w].step = "replacing" /\ attempt[w].typed = password
    OBVIOUS
  <2>1. CASE SignInNext
    <3>1. PICK w \in Window : Replace(w)
      BY <2>1 DEF SignInNext, Unlock, login_post, change_password, Begin, Check, Enter, Compare, Renew, LogOut
    <3> QED BY <3>1 DEF Replace, IsStill, Proven
  <2> QED
    BY <2>1 DEF Next, PageStep, vars, signInVars, OpenStep, SeedStep, AdminStep, Serve, BeginRun, SeedAdmin, CloseStep
<1>4. Spec => []Proven
  BY <1>1, <1>2, TypeCorrect, PTL DEF Spec
<1> QED BY <1>3, <1>4, PTL DEF Spec, ChangesAreProved

(* The settings of a group are its own, and what is written comes from the *)
(* form.                                                                   *)
LEMMA GroupKeys ==
  /\ KeysOf("cloud") = {"account", "container", "key"} /\ KeysOf("folders") = {"rpi", "assets"}
  /\ KeysOf("retry") = {"count", "delay"} /\ KeysOf("retention") = {"keep"}
  /\ KeysOf("schedule") = {"enabled", "days", "time", "username"}
  /\ KeysOf("email") = {"notify", "recipient", "sender", "connection"}
<1> USE DEF KeysOf, Keys
<1>1. KeysOf("cloud") = {"account", "container", "key"}
  BY DEF CloudKeys
<1>2. KeysOf("folders") = {"rpi", "assets"}
  BY DEF FolderKeys
<1>3. KeysOf("retry") = {"count", "delay"}
  BY DEF RetryKeys
<1>4. KeysOf("retention") = {"keep"}
  BY DEF RetentionKeys
<1>5. KeysOf("schedule") = {"enabled", "days", "time", "username"}
  BY DEF ScheduleKeys
<1>6. KeysOf("email") = {"notify", "recipient", "sender", "connection"}
  BY DEF EmailKeys
<1> QED BY <1>1, <1>2, <1>3, <1>4, <1>5, <1>6

LEMMA OwnKeys ==
  ASSUME NEW g \in Group, NEW h \in Group, g # h PROVE KeysOf(g) \cap KeysOf(h) = {}
BY GroupKeys DEF Group

LEMMA InDomain ==
  ASSUME NEW g \in Group PROVE DOMAIN Keys(g) = 1 .. Len(Keys(g)) /\ Len(Keys(g)) \in Nat
<1> DEFINE Fits(s) == DOMAIN s = 1 .. Len(s) /\ Len(s) \in Nat
<1>1. Fits(CloudKeys)
  BY DEF CloudKeys
<1>2. Fits(FolderKeys)
  BY DEF FolderKeys
<1>3. Fits(RetryKeys)
  BY DEF RetryKeys
<1>4. Fits(RetentionKeys)
  BY DEF RetentionKeys
<1>5. Fits(ScheduleKeys)
  BY DEF ScheduleKeys
<1>6. Fits(EmailKeys)
  BY DEF EmailKeys
<1> HIDE DEF Fits
<1>7. Fits(Keys(g))
  BY <1>1, <1>2, <1>3, <1>4, <1>5, <1>6 DEF Group, Keys
<1> QED BY <1>7 DEF Fits

LEMMA WrittenFrom ==
  ASSUME NEW g \in Group, NEW form, NEW i \in Nat, i > 0, setting' = Written(g, form, i),
         NEW k \in Key, setting'[k] # setting[k]
  PROVE  k \in KeysOf(g) /\ ~Keeps(k, form) /\ setting'[k] = form[k]
<1>1. /\ \E j \in i .. Len(Keys(g)) : Keys(g)[j] = k /\ ~Keeps(k, form) /\ Stored(k) # form[k]
      /\ setting'[k] = form[k]
  BY DEF Written
<1>2. PICK j \in i .. Len(Keys(g)) : Keys(g)[j] = k
  BY <1>1
<1>3. j \in DOMAIN Keys(g)
  <2>1. Len(Keys(g)) \in Nat
    BY InDomain
  <2> QED BY <1>2, <2>1, InDomain
<1>4. k \in KeysOf(g)
  BY <1>2, <1>3 DEF KeysOf
<1> QED BY <1>1, <1>4

(* What is still to be seeded, from a file that does not switch the        *)
(* schedule on, has no row: nobody else writes settings meanwhile.         *)
SeedsFresh(p) ==
  At(p, "seeding") =>
    /\ proc[p].file \in Seeds /\ load_config_file(proc[p].file)
    /\ proc[p].todo \subseteq DOMAIN proc[p].file
    /\ \A g \in proc[p].todo : \A k \in KeysOf(g) : setting[k] = Absent

Fresh == \A p \in Proc : SeedsFresh(p)

LEMMA StepFresh ==
  ASSUME TypeOK, Held, Fresh, NEW p \in Proc,
         OpenStep(p) \/ SeedStep(p) \/ AdminStep(p) \/ CloseStep(p)
  PROVE  SeedsFresh(p)'
<1>1. proc \in [Proc -> State] /\ SeedsFresh(p)
  BY DEF TypeOK, Fresh
<1>2. ASSUME NEW s, To(p, s) PROVE proc'[p].step = s
  BY <1>1, <1>2 DEF To, State
<1>3. ~At(p, "seeding")' => SeedsFresh(p)'
  BY DEF SeedsFresh
<1>4. Exit(p) => ~At(p, "seeding")'
  BY <1>1 DEF Exit, Off, At
<1>5. CASE Start(p)
  BY <1>1, <1>2, <1>3, <1>5 DEF Start, At
<1>6. CASE ReadVersion(p)
  <2>1. proc' = [proc EXCEPT ![p].step = "creating", ![p].version = version] => proc'[p].step = "creating"
    BY <1>1 DEF State
  <2> QED BY <1>3, <1>4, <1>6, <2>1 DEF ReadVersion, At
<1>7. CASE CreateTables(p)
  <2>1. NextToTables(p) # "seeding"
    BY DEF NextToTables
  <2> QED BY <1>2, <1>3, <1>7, <2>1 DEF CreateTables, At
<1>8. CASE ReadColumns(p)
  <2>1. proc'[p].step = "adding"
    BY <1>1, <1>8 DEF ReadColumns, State
  <2> QED BY <1>3, <2>1 DEF At
<1>9. CASE AddColumn(p)
  <2>1. ASSUME NEW c, proc' = [proc EXCEPT ![p].columns = @ \cup {c}] PROVE ~At(p, "seeding")'
    <3>1. proc[p].step = "adding"
      BY <1>9 DEF AddColumn, At
    <3> QED BY <1>1, <2>1, <3>1 DEF State, At
  <2>2. ~At(p, "seeding")'
    BY <1>2, <1>4, <1>9, <2>1 DEF AddColumn, At
  <2> QED BY <1>3, <2>2
<1>10. CASE Stamp(p) \/ Verify(p) \/ RecordSkipped(p) \/ Crash(p) \/ Close(p) \/ Serve(p)
  <2>1. ~At(p, "seeding")'
    BY <1>2, <1>4, <1>10 DEF Stamp, Verify, RecordSkipped, Crash, Close, Serve, At
  <2> QED BY <1>3, <2>1
<1>11. CASE BeginRun(p)
  <2>1. proc' = [proc EXCEPT ![p].step = "running", ![p].todo = EventId] => proc'[p].step = "running"
    BY <1>1 DEF State
  <2> QED BY <1>3, <1>4, <1>11, <2>1 DEF BeginRun, At
<1>12. ASSUME NEW e, RunEvent(p, e) PROVE SeedsFresh(p)'
  <2>1. ASSUME NEW todo, proc' = [proc EXCEPT ![p].todo = todo] PROVE ~At(p, "seeding")'
    <3>1. proc[p].step = "running"
      BY <1>12 DEF RunEvent, At
    <3> QED BY <1>1, <2>1, <3>1 DEF State, At
  <2> QED BY <1>3, <1>4, <1>12, <2>1 DEF RunEvent
<1>13. CASE BeginSeed(p) /\ UNCHANGED setting
  <2>1. CASE Exit(p)
    BY <1>3, <1>4, <2>1
  <2>2. CASE ~Exit(p)
    <3>1. PICK s \in {s \in Seeds : load_config_file(s)} :
            proc' = [proc EXCEPT ![p].step = "seeding", ![p].file = s, ![p].todo = DOMAIN s]
      BY <1>13, <2>2 DEF BeginSeed
    <3>2. proc'[p].file = s /\ proc'[p].todo = DOMAIN s
      BY <1>1, <3>1 DEF State
    <3>3. \A k \in Key : setting[k] = Absent
      BY <1>13, <2>2 DEF BeginSeed, should_seed, AnySetting
    <3>4. \A g \in DOMAIN s : KeysOf(g) \subseteq Key
      BY InstancesAssumption DEF Key
    <3> QED BY <1>13, <3>2, <3>3, <3>4 DEF SeedsFresh
  <2> QED BY <2>1, <2>2
<1>14. ASSUME NEW g \in Group, SeedGroup(p, g) PROVE SeedsFresh(p)'
  <2>1. CASE Exit(p)
    BY <1>3, <1>4, <2>1
  <2>2. CASE ~Exit(p)
    <3>1. /\ setting' = Written(g, proc[p].file[g], 1)
          /\ proc' = [proc EXCEPT ![p].todo = @ \ {g}]
          /\ At(p, "seeding") /\ g \in proc[p].todo
      BY <1>14, <2>2 DEF SeedGroup
    <3>2. /\ proc'[p].file = proc[p].file /\ proc'[p].todo = proc[p].todo \ {g}
          /\ proc[p].file \in Seeds /\ load_config_file(proc[p].file)
          /\ proc[p].todo \subseteq DOMAIN proc[p].file
          /\ \A h \in proc[p].todo : \A k \in KeysOf(h) : setting[k] = Absent
      BY <1>1, <3>1 DEF State, SeedsFresh
    <3>3. \A h \in DOMAIN proc[p].file : h \in Group
      BY <3>2, InstancesAssumption
    <3>4. ASSUME NEW h \in proc[p].todo \ {g}, NEW k \in KeysOf(h) PROVE setting'[k] = Absent
      <4>1. h \in Group /\ k \notin KeysOf(g)
        BY <3>2, <3>3, <3>4, OwnKeys
      <4>2. k \in Key
        BY <4>1, <3>4 DEF Key
      <4>3. setting'[k] = setting[k]
        BY <3>1, <4>1, <4>2, WrittenFrom
      <4> QED BY <3>2, <3>4, <4>3
    <3> QED BY <3>2, <3>4 DEF SeedsFresh
  <2> QED BY <2>1, <2>2
<1>15. BeginSeed(p) /\ OpenStep(p) => UNCHANGED setting
  BY DEF OpenStep, settingVars
<1> QED
  BY <1>5, <1>6, <1>7, <1>8, <1>9, <1>10, <1>11, <1>12, <1>13, <1>14, <1>15
     DEF OpenStep, SeedStep, AdminStep, CloseStep

LEMMA StaysFresh == ASSUME TypeOK, Held, Fresh, [Next]_vars PROVE Fresh'
<1>1. ASSUME UNCHANGED <<proc, setting>> PROVE Fresh'
  BY <1>1 DEF Fresh, SeedsFresh, At
<1>2. CASE PageStep
  <2>1. PICK p \in Proc : At(p, "serving")
    BY <1>2 DEF PageStep, IsServing
  <2>2. \A q \in Proc : ~At(q, "seeding")
    BY <2>1 DEF Held, HeldBy, At, Working
  <2>3. proc' = proc
    BY <1>2 DEF PageStep, instanceVars
  <2> QED BY <2>2, <2>3 DEF Fresh, SeedsFresh, At
<1>3. ASSUME NEW p \in Proc, OpenStep(p) \/ SeedStep(p) \/ AdminStep(p) \/ CloseStep(p) PROVE Fresh'
  <2>1. SeedsFresh(p)'
    BY <1>3, StepFresh
  <2>2. ASSUME NEW q \in Proc \ {p} PROVE SeedsFresh(q)'
    <3>1. SeedsFresh(q) /\ proc'[q] = proc[q]
      BY <1>3, <2>2, OthersHold DEF Fresh
    <3>2. CASE SeedStep(p)
      <4>1. At(p, "seeding")
        BY <3>2 DEF SeedStep, SeedGroup
      <4>2. ~At(q, "seeding")
        BY <4>1, <2>2 DEF Held, HeldBy, At, Working
      <4> QED BY <3>1, <4>2 DEF SeedsFresh, At
    <3>3. CASE ~SeedStep(p)
      <4>1. setting' = setting
        BY <1>3, <3>3 DEF OpenStep, AdminStep, CloseStep, settingVars
      <4> QED BY <3>1, <4>1 DEF SeedsFresh, At
    <3> QED BY <3>2, <3>3
  <2> QED BY <2>1, <2>2 DEF Fresh
<1> QED BY <1>1, <1>2, <1>3 DEF Next, vars, instanceVars, settingVars

LEMMA AlwaysFresh == Spec => [](TypeOK /\ Held /\ Fresh)
<1>1. Init => Held /\ Fresh
  BY DEF Init, Held, HeldBy, Fresh, SeedsFresh, At, Off, Working
<1>2. TypeOK /\ Held /\ Fresh /\ [Next]_vars => Held' /\ Fresh'
  BY StaysHeld, StaysFresh
<1> QED BY <1>1, <1>2, TypeCorrect, PTL DEF Spec

(* Seeding replaces no setting that has a row.                             *)
THEOREM SeedingFirst == Spec => SeedingIsFirst
<1> DEFINE A == \A p \in Proc : SeedStep(p) => \A k \in Key : setting'[k] # setting[k] => setting[k] = Absent
<1>1. TypeOK /\ Held /\ Fresh /\ [Next]_vars => [A]_vars
  <2> SUFFICES ASSUME Fresh, NEW p \in Proc, SeedStep(p), NEW k \in Key, setting'[k] # setting[k]
               PROVE  setting[k] = Absent
    OBVIOUS
  <2>1. PICK g \in Group : SeedGroup(p, g)
    BY DEF SeedStep
  <2>2. setting' = Written(g, proc[p].file[g], 1) /\ At(p, "seeding") /\ g \in proc[p].todo
    BY <2>1 DEF SeedGroup
  <2>3. k \in KeysOf(g)
    BY <2>2, WrittenFrom
  <2> QED BY <2>2, <2>3 DEF Fresh, SeedsFresh
<1> QED BY <1>1, AlwaysFresh, PTL DEF Spec, SeedingIsFirst

(* A stored secret is never lost, whatever the other fields of a form say. *)
LEMMA SecretsStay ==
  ASSUME TypeOK, Fresh, [Next]_vars, NEW k \in {"key", "connection"}, Stored(k) # Blank
  PROVE  Stored(k)' # Blank
<1>1. UNCHANGED setting => Stored(k)' # Blank
  BY DEF Stored
<1>2. k \in Key
  BY GroupKeys DEF Key, Group
<1>3. ASSUME NEW g \in Group, NEW form, NEW i \in Nat, i > 0, setting' = Written(g, form, i),
             \A j \in KeysOf(g) : form[j] # Absent
      PROVE  Stored(k)' # Blank
  <2>1. CASE setting'[k] # setting[k]
    <3>1. k \in KeysOf(g) /\ ~Keeps(k, form) /\ setting'[k] = form[k]
      BY <1>2, <1>3, <2>1, WrittenFrom
    <3>2. form[k] # Absent /\ form[k] # Blank
      BY <1>3, <3>1 DEF Keeps
    <3> QED BY <3>1, <3>2 DEF Stored
  <2>2. CASE setting'[k] = setting[k]
    BY <2>2 DEF Stored
  <2> QED BY <2>1, <2>2
<1>4. ASSUME NEW t \in Tab, Write(t) PROVE Stored(k)' # Blank
  <2>1. CASE UNCHANGED setting
    BY <1>1, <2>1
  <2>2. CASE setting' = Written(req[t].group, req[t].form, req[t].at)
    <3>1. /\ req[t].group \in Group /\ req[t].form \in Typed[req[t].group] /\ req[t].at > 0
          /\ req[t] \in Request
      BY <1>4 DEF TypeOK, SettingsTypeOK, Busy, Write
    <3>2. req[t].at \in Nat
      BY <3>1 DEF Request
    <3>3. \A j \in KeysOf(req[t].group) : req[t].form[j] # Absent
      BY <3>1, SettingsAssumption DEF IsForm
    <3> QED BY <1>3, <2>2, <3>1, <3>2, <3>3
  <2> QED BY <1>4, <2>1, <2>2 DEF Write
<1>5. ASSUME NEW p \in Proc, NEW g \in Group, SeedGroup(p, g) PROVE Stored(k)' # Blank
  <2>1. CASE UNCHANGED setting
    BY <1>1, <2>1
  <2>2. CASE setting' = Written(g, proc[p].file[g], 1)
    <3>1. g \in DOMAIN proc[p].file /\ proc[p].file \in Seeds
      BY <1>5 DEF SeedGroup, Fresh, SeedsFresh
    <3>2. \A j \in KeysOf(g) : proc[p].file[g][j] # Absent
      BY <3>1, InstancesAssumption DEF IsForm
    <3> QED BY <1>3, <2>2, <3>2
  <2> QED BY <1>5, <2>1, <2>2 DEF SeedGroup
<1>6. CASE SettingsNext
  <2>1. UNCHANGED setting \/ \E t \in Tab : Write(t)
    BY <1>6 DEF SettingsNext, cloud_post, folders_post, download_post, application_post, email_post,
                scheduling_post, Post, Register, Unregister, PassOver, WriteFails, Undo
  <2> QED BY <1>1, <1>4, <2>1
<1>7. CASE \E p \in Proc : SeedStep(p)
  BY <1>5, <1>7 DEF SeedStep
<1>8. UNCHANGED settingVars => UNCHANGED setting
  BY DEF settingVars
<1> QED
  BY <1>1, <1>6, <1>7, <1>8 DEF Next, PageStep, OpenStep, AdminStep, CloseStep, vars

(* A stored secret is replaced only by another one.                        *)
THEOREM SecretsKept == Spec => SecretsAreKept
<1> DEFINE A == \A k \in {"key", "connection"} : Stored(k) # Blank => Stored(k)' # Blank
<1>1. TypeOK /\ Fresh /\ [Next]_vars => [A]_settingVars
  BY SecretsStay
<1> QED BY <1>1, AlwaysFresh, PTL DEF Spec, SecretsAreKept
=============================================================================
