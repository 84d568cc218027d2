--------------------------- MODULE SettingsProofs ---------------------------
(***************************************************************************)
(* For any number of processes, tabs, forms, install configurations and    *)
(* crashes: the folders are apart, what is switched on is complete, and    *)
(* Windows runs what the settings say, in the sense of the invariants of   *)
(* Settings.  The argument: as long as no two saves of a group have        *)
(* overlapped, the one under way has passed over only settings that still  *)
(* are what it would have written, so that its write leaves a whole valid  *)
(* form behind; what is kept of a form is a secret, and none is lost.      *)
(***************************************************************************)
EXTENDS InstancesProofs, FiniteSetTheorems

(* A setting that a save would not write.                                  *)
IsSaved(k, form) == Keeps(k, form) \/ Stored(k) = form[k]

FoldersRight ==
  /\ {Stored("rpi"), Stored("assets")} \subseteq Place \cup {Blank}
  /\ Apart(RpiFolder(Stored("rpi")), AssetFolder(Stored("assets")))
ScheduleRight == Stored("enabled") = 1 => \A k \in {"days", "time", "username"} : Stored(k) # Blank
EmailRight == Stored("notify") = 1 => \A k \in {"recipient", "sender", "connection"} : Stored(k) # Blank

(* What a group of settings must satisfy.                                  *)
Right(g) ==
  /\ g = "folders" => FoldersRight
  /\ g = "schedule" => ScheduleRight
  /\ g = "email" => EmailRight

(* What TaskAgrees says of the task, and what excuses a disagreement.      *)
TaskRight ==
  \/ task = Wanted
  \/ "unsaved" \in failed /\ task = NoTask
  \/ "kept" \in failed /\ Stored("enabled") # 1
Heeded == failed \cap {"given up", "not undone", "cut off"} = {}

(* What Windows has been told before a form is saved: what the form says,  *)
(* but for a removal it has refused.                                       *)
TaskAsked(form) ==
  IF form.enabled = 1 THEN task = TaskOf(form) ELSE task = NoTask \/ ("kept" \in failed /\ TaskRight)

(* The request of a tab, while no other one saves the same group.          *)
OnlySave(t) ==
  /\ \A u \in Tab \ {t} : req[u].step # "idle" => req[u].group # req[t].group
  /\ req[t].step = "saving" =>
       \A i \in 1 .. Len(Keys(req[t].group)) : i < req[t].at => IsSaved(Keys(req[t].group)[i], req[t].form)
  /\ req[t].group = "schedule" /\ Heeded =>
       /\ req[t].step = "tasking" => TaskRight
       /\ req[t].step = "saving" => TaskAsked(req[t].form)
       /\ req[t].step = "undoing" => "unsaved" \in failed

SaveRight(t) ==
  req[t].step # "idle" =>
    /\ Valid(req[t].group, req[t].form)
    /\ req[t].step # "saving" => req[t].group = "schedule"
    /\ req[t].step = "tasking" => req[t].at = 1
    /\ req[t].group \notin mixed => OnlySave(t)

Saves == \A t \in Tab : SaveRight(t)

(* A request is answered by an application that is open.                   *)
Served == Busy # {} => IsServing

SettingsRight == (\A g \in Group \ mixed : Right(g)) /\ TaskAgrees

(* A save that has passed over only what is saved leaves all of its form   *)
(* behind, but for the secrets it keeps, and touches nothing else.         *)
LEMMA Elsewhere ==
  ASSUME NEW g \in Group, NEW form, NEW i \in Nat, i > 0,
         setting' = setting \/ setting' = Written(g, form, i),
         NEW k \in Key, k \notin KeysOf(g) \/ Keeps(k, form)
  PROVE  Stored(k)' = Stored(k)
<1>1. setting'[k] = setting[k]
  BY WrittenFrom
<1> QED BY <1>1 DEF Stored

LEMMA WholeForm ==
  ASSUME NEW g \in Group, NEW form, NEW i \in Nat, i > 0,
         IsForm(g, form),
         \A j \in 1 .. Len(Keys(g)) : j < i => IsSaved(Keys(g)[j], form),
         \/ setting' = setting /\ i > Len(Keys(g))
         \/ setting' = Written(g, form, i),
         NEW k \in KeysOf(g), ~Keeps(k, form)
  PROVE  Stored(k)' = form[k]
<1>1. k \in Key /\ form[k] # Absent
  BY DEF Key, IsForm
<1>2. PICK j \in 1 .. Len(Keys(g)) : Keys(g)[j] = k
  BY InDomain DEF KeysOf
<1>3. Len(Keys(g)) \in Nat
  BY InDomain
<1>4. CASE j < i
  <2>1. Stored(k) = form[k]
    BY <1>2, <1>4 DEF IsSaved
  <2>2. CASE setting'[k] = setting[k]
    BY <2>1, <2>2 DEF Stored
  <2>3. CASE setting'[k] # setting[k]
    BY <1>1, <2>3, WrittenFrom DEF Stored
  <2> QED BY <2>2, <2>3
<1>5. CASE ~(j < i)
  <2>1. setting' = Written(g, form, i) /\ j \in i .. Len(Keys(g))
    BY <1>2, <1>3, <1>5
  <2>2. CASE Stored(k) # form[k]
    <3>1. setting'[k] = form[k]
      BY <1>1, <1>2, <2>1, <2>2 DEF Written
    <3> QED BY <1>1, <3>1 DEF Stored
  <2>3. CASE Stored(k) = form[k]
    <3>1. setting'[k] = setting[k]
      BY <1>1, <2>1, <2>3 DEF Written
    <3> QED BY <2>3, <3>1 DEF Stored
  <2> QED BY <2>2, <2>3
<1> QED BY <1>4, <1>5

(* A whole form that is valid is right.                                    *)
LEMMA ValidIsRight ==
  ASSUME NEW g \in Group, NEW form, IsForm(g, form), Valid(g, form),
         \A k \in KeysOf(g) : Stored(k)' = IF Keeps(k, form) THEN Stored(k) ELSE form[k]
  PROVE  Right(g)'
<1>1. ASSUME NEW k \in KeysOf(g), k \notin {"key", "connection"} PROVE Stored(k)' = form[k]
  BY <1>1 DEF Keeps
<1>2. CASE g = "folders"
  <2>1. "rpi" \in KeysOf(g) /\ "assets" \in KeysOf(g)
    BY <1>2, GroupKeys
  <2>2. Stored("rpi")' = form["rpi"] /\ Stored("assets")' = form["assets"]
    BY <1>1, <2>1
  <2> QED BY <1>2, <2>2 DEF Right, FoldersRight, Valid, FoldersAreValid, IsForm
<1>3. CASE g = "schedule"
  <2>1. \A k \in {"enabled", "days", "time", "username"} : Stored(k)' = form[k]
    BY <1>1, <1>3, GroupKeys
  <2> QED BY <1>3, <2>1 DEF Right, ScheduleRight, Valid, ScheduleIsValid, OnIsComplete
<1>4. CASE g = "email"
  <2>1. \A k \in {"notify", "recipient", "sender"} : Stored(k)' = form[k]
    BY <1>1, <1>4, GroupKeys
  <2>2. Stored("connection")' = IF Keeps("connection", form) THEN Stored("connection") ELSE form["connection"]
    BY <1>4, GroupKeys
  <2>3. form["notify"] = 1 => Stored("connection")' # Blank
    BY <1>4, <2>2 DEF Valid, EmailIsValid, Keeps
  <2> QED BY <1>4, <2>1, <2>3 DEF Right, EmailRight, Valid, EmailIsValid, OnIsComplete
<1> QED BY <1>2, <1>3, <1>4 DEF Right

LEMMA SameIsRight ==
  ASSUME NEW g \in Group, Right(g), \A k \in KeysOf(g) : Stored(k)' = Stored(k) PROVE Right(g)'
<1>1. g = "folders" => Stored("rpi")' = Stored("rpi") /\ Stored("assets")' = Stored("assets")
  BY GroupKeys
<1>2. g = "schedule" => \A k \in {"enabled", "days", "time", "username"} : Stored(k)' = Stored(k)
  BY GroupKeys
<1>3. g = "email" => \A k \in {"notify", "recipient", "sender", "connection"} : Stored(k)' = Stored(k)
  BY GroupKeys
<1> QED BY <1>1, <1>2, <1>3 DEF Right, FoldersRight, ScheduleRight, EmailRight

LEMMA TaskStays ==
  ASSUME TaskRight, task' = task, failed \subseteq failed',
         \A k \in KeysOf("schedule") : Stored(k)' = Stored(k)
  PROVE  TaskRight'
<1>1. \A k \in {"enabled", "days", "time", "username"} : k \in Key /\ Stored(k)' = Stored(k)
  BY GroupKeys DEF Key, Group
<1>2. Wanted' = Wanted
  BY <1>1 DEF Wanted, TaskOf
<1> QED BY <1>1, <1>2 DEF TaskRight

LEMMA TaskOfForm ==
  ASSUME NEW form, TaskAsked(form), UNCHANGED <<task, failed>>,
         \A k \in KeysOf("schedule") : Stored(k)' = form[k]
  PROVE  TaskRight'
<1>1. \A k \in {"enabled", "days", "time", "username"} : k \in Key /\ Stored(k)' = form[k]
  BY GroupKeys DEF Key, Group
<1>2. Wanted' = IF form.enabled = 1 THEN TaskOf(form) ELSE NoTask
  BY <1>1 DEF Wanted, TaskOf
<1> QED BY <1>1, <1>2 DEF TaskRight, TaskAsked

(* One step of the request of a tab.                                       *)
TabStep(t) ==
  \/ cloud_post(t) \/ folders_post(t) \/ download_post(t)
  \/ application_post(t) \/ email_post(t) \/ scheduling_post(t)
  \/ Register(t) \/ Unregister(t) \/ PassOver(t) \/ Write(t) \/ WriteFails(t) \/ Undo(t)

Posts(t) ==
  \E g \in Group : Post(t, g, IF g = "schedule" THEN "tasking" ELSE "saving")

LEMMA Asked ==
  ASSUME NEW t, cloud_post(t) \/ folders_post(t) \/ download_post(t)
                \/ application_post(t) \/ email_post(t) \/ scheduling_post(t)
  PROVE  Posts(t)
BY DEF Posts, Group, cloud_post, folders_post, download_post, application_post, email_post, scheduling_post

(* What is known of a request under way.                                   *)
LEMMA UnderWay ==
  ASSUME SettingsTypeOK, NEW t \in Tab, req[t].step # "idle"
  PROVE  /\ req[t].group \in Group /\ req[t].form \in Typed[req[t].group]
         /\ req[t].at \in Nat /\ req[t].at > 0 /\ req[t] \in Request
         /\ IsForm(req[t].group, req[t].form)
<1>1. /\ req[t].group \in Group /\ req[t].form \in Typed[req[t].group]
      /\ req[t].at > 0 /\ req[t] \in Request
  BY DEF SettingsTypeOK, Busy
<1>2. req[t].at \in Nat
  BY <1>1 DEF Request
<1> QED BY <1>1, <1>2, SettingsAssumption

(* The step of a tab touches only its own request and group.               *)
LEMMA Touches ==
  ASSUME SettingsTypeOK, Saves, NEW t \in Tab, TabStep(t)
  PROVE  /\ \A u \in Tab \ {t} : req'[u] = req[u]
         /\ req[t].step = "idle" => UNCHANGED <<setting, task, failed>>
         /\ req[t].step # "idle" =>
              /\ \A k \in Key \ KeysOf(req[t].group) : Stored(k)' = Stored(k)
              /\ req[t].group # "schedule" => UNCHANGED <<task, failed>>
<1> USE DEF Ends, Goes
<1>1. CASE cloud_post(t) \/ folders_post(t) \/ download_post(t)
           \/ application_post(t) \/ email_post(t) \/ scheduling_post(t)
  <2>1. Posts(t)
    BY <1>1, Asked
  <2>2. req[t].step = "idle" /\ UNCHANGED <<setting, task, failed>> /\ \A u \in Tab \ {t} : req'[u] = req[u]
    BY <2>1 DEF Posts, Post, SettingsTypeOK
  <2> QED BY <2>2
<1>2. CASE Register(t) \/ Unregister(t)
  <2>1. req[t].step = "tasking" /\ UNCHANGED setting /\ \A u \in Tab \ {t} : req'[u] = req[u]
    BY <1>2 DEF Register, Unregister, SettingsTypeOK
  <2>2. req[t].group = "schedule"
    BY <2>1 DEF Saves, SaveRight
  <2> QED BY <2>1, <2>2 DEF Stored
<1>3. CASE PassOver(t)
  <2>1. req[t].step = "saving" /\ UNCHANGED <<setting, task, failed>> /\ \A u \in Tab \ {t} : req'[u] = req[u]
    BY <1>3 DEF PassOver, SettingsTypeOK
  <2> QED BY <2>1 DEF Stored
<1>4. CASE Write(t)
  <2>1. /\ req[t].step = "saving" /\ UNCHANGED <<task, failed>> /\ \A u \in Tab \ {t} : req'[u] = req[u]
        /\ setting' = setting \/ setting' = Written(req[t].group, req[t].form, req[t].at)
    BY <1>4 DEF Write, SettingsTypeOK
  <2>2. req[t].group \in Group /\ req[t].at \in Nat /\ req[t].at > 0
    BY <2>1, UnderWay
  <2>3. \A k \in Key \ KeysOf(req[t].group) : Stored(k)' = Stored(k)
    BY <2>1, <2>2, Elsewhere
  <2> QED BY <2>1, <2>3
<1>5. CASE WriteFails(t)
  <2>1. req[t].step = "saving" /\ UNCHANGED setting /\ \A u \in Tab \ {t} : req'[u] = req[u]
    BY <1>5 DEF WriteFails, SettingsTypeOK
  <2>2. req[t].group # "schedule" => UNCHANGED <<task, failed>>
    BY <1>5 DEF WriteFails
  <2> QED BY <2>1, <2>2 DEF Stored
<1>6. CASE Undo(t)
  <2>1. req[t].step = "undoing" /\ UNCHANGED setting /\ \A u \in Tab \ {t} : req'[u] = req[u]
    BY <1>6 DEF Undo, SettingsTypeOK
  <2>2. req[t].group = "schedule"
    BY <2>1 DEF Saves, SaveRight
  <2> QED BY <2>1, <2>2 DEF Stored
<1> QED BY <1>1, <1>2, <1>3, <1>4, <1>5, <1>6 DEF TabStep

(* A form that was accepted stays valid: secrets are kept.                 *)
LEMMA StaysValid ==
  ASSUME TypeOK, Fresh, [Next]_vars, NEW g \in Group, NEW form, Valid(g, form) PROVE Valid(g, form)'
<1>1. CASE g = "email"
  <2>1. Stored("connection") # Blank => Stored("connection")' # Blank
    BY SecretsStay
  <2>2. EmailIsValid(form)
    BY <1>1 DEF Valid
  <2>3. EmailIsValid(form)'
    BY <2>1, <2>2 DEF EmailIsValid, OnIsComplete, Keeps
  <2> QED BY <1>1, <2>3 DEF Valid
<1>2. CASE g = "folders"
  <2>1. FoldersAreValid(form)
    BY <1>2 DEF Valid
  <2>2. FoldersAreValid(form)'
    BY <2>1 DEF FoldersAreValid, OutsideData, Apart, RpiFolder, AssetFolder
  <2> QED BY <1>2, <2>2 DEF Valid
<1>3. CASE g = "cloud"
  BY <1>3 DEF Valid, CloudIsValid
<1>4. CASE g = "retry"
  BY <1>4 DEF Valid, RetryIsValid, InRange
<1>5. CASE g = "retention"
  BY <1>5 DEF Valid, RetentionIsValid, InRange
<1>6. CASE g = "schedule"
  BY <1>6 DEF Valid, ScheduleIsValid, OnIsComplete
<1> QED BY <1>1, <1>2, <1>3, <1>4, <1>5, <1>6 DEF Group

LEMMA StaysAccepted ==
  ASSUME TypeOK, Fresh, [Next]_vars, Saves, NEW t \in Tab, req[t].step # "idle",
         req'[t].group = req[t].group, req'[t].form = req[t].form
  PROVE  Valid(req[t].group, req[t].form)'
<1>1. PICK g \in Group, form \in Typed[req[t].group] : g = req[t].group /\ form = req[t].form
  BY UnderWay DEF TypeOK
<1>2. Valid(g, form)'
  BY <1>1, StaysValid DEF Saves, SaveRight
<1> QED BY <1>1, <1>2

(* The request of another tab is not disturbed, unless the group is mixed. *)
LEMMA OthersRight ==
  ASSUME TypeOK, Fresh, [Next]_vars, Saves, NEW t \in Tab, TabStep(t), NoteMixing, NEW u \in Tab \ {t}
  PROVE  SaveRight(u)'
<1> SUFFICES ASSUME req'[u].step # "idle" PROVE SaveRight(u)'
  BY DEF SaveRight
<1>1. req'[u] = req[u] /\ req[u].step # "idle" /\ SaveRight(u) /\ SettingsTypeOK
  BY Touches DEF Saves, TypeOK
<1>2. req[u].group \in Group /\ req[u].at \in Nat /\ req[u].at > 0
  BY <1>1, UnderWay
<1>3. Valid(req[u].group, req[u].form)'
  BY <1>1, StaysAccepted
<1>4. ASSUME req'[u].group \notin mixed' PROVE OnlySave(u)'
  <2>1. req[u].group \notin mixed /\ OnlySave(u)
    BY <1>1, <1>4 DEF NoteMixing, SaveRight
  <2>2. \A v \in Tab \ {u} : req'[v].step # "idle" => req'[v].group # req'[u].group
    BY <1>1, <1>2, <1>4 DEF NoteMixing, Busy
  <2>3. req[t].step # "idle" => req[t].group # req[u].group
    BY <2>1 DEF OnlySave
  <2>4. \A k \in KeysOf(req[u].group) : k \in Key /\ Stored(k)' = Stored(k)
    <3> SUFFICES ASSUME NEW k \in KeysOf(req[u].group) PROVE k \in Key /\ Stored(k)' = Stored(k)
      OBVIOUS
    <3>1. k \in Key
      BY <1>2 DEF Key
    <3>2. CASE req[t].step = "idle"
      BY <1>1, <3>1, <3>2, Touches DEF Stored
    <3>3. CASE req[t].step # "idle"
      <4>1. req[t].group \in Group /\ k \notin KeysOf(req[t].group)
        BY <1>1, <1>2, <2>3, <3>3, UnderWay, OwnKeys
      <4> QED BY <1>1, <3>1, <3>3, <4>1, Touches
    <3> QED BY <3>2, <3>3
  <2>5. req[u].group = "schedule" => UNCHANGED <<task, failed>>
    BY <1>1, <2>3, Touches
  <2>6. req[u].group = "schedule" /\ TaskRight => TaskRight'
    BY <2>4, <2>5, TaskStays
  <2>8. req[u].group = "schedule" /\ TaskAsked(req[u].form) =>
          (IF req[u].form.enabled = 1 THEN task' = TaskOf(req[u].form)
           ELSE task' = NoTask \/ ("kept" \in failed' /\ TaskRight'))
    BY <2>5, <2>6 DEF TaskAsked
  <2>7. ASSUME NEW i \in 1 .. Len(Keys(req[u].group)), IsSaved(Keys(req[u].group)[i], req[u].form)
        PROVE  (Keeps(Keys(req[u].group)[i], req[u].form) \/ Stored(Keys(req[u].group)[i]) = req[u].form[Keys(req[u].group)[i]])'
    <3>1. Keys(req[u].group)[i] \in KeysOf(req[u].group)
      BY <1>2, InDomain DEF KeysOf
    <3> QED BY <1>1, <2>4, <2>7, <3>1 DEF IsSaved, Keeps
  <2> QED BY <1>1, <2>1, <2>2, <2>5, <2>6, <2>7, <2>8 DEF OnlySave, IsSaved, Heeded, TaskAsked
<1> QED BY <1>1, <1>3, <1>4 DEF SaveRight

(* How the request itself goes on.                                         *)
LEMMA Going ==
  ASSUME SettingsTypeOK, NEW t \in Tab, NEW step, Goes(t, step)
  PROVE  /\ req'[t].step = step /\ req'[t].group = req[t].group
         /\ req'[t].form = req[t].form /\ req'[t].at = req[t].at
<1>1. req[t] \in Request /\ req' = [req EXCEPT ![t].step = step] /\ t \in DOMAIN req
  BY DEF SettingsTypeOK, Goes
<1> QED BY <1>1 DEF Request

LEMMA Ending ==
  ASSUME SettingsTypeOK, NEW t \in Tab, Ends(t) PROVE req'[t].step = "idle"
BY Idling DEF SettingsTypeOK, Ends

LEMMA Passing ==
  ASSUME SettingsTypeOK, NEW t \in Tab, PassOver(t)
  PROVE  /\ req'[t].step = "saving" /\ req'[t].group = req[t].group
         /\ req'[t].form = req[t].form /\ req'[t].at = req[t].at + 1
<1>1. req[t] \in Request /\ req' = [req EXCEPT ![t].at = @ + 1] /\ t \in DOMAIN req /\ req[t].step = "saving"
  BY DEF SettingsTypeOK, PassOver
<1> QED BY <1>1 DEF Request

LEMMA Accepting ==
  ASSUME SettingsTypeOK, NEW t \in Tab, Posts(t)
  PROVE  \/ req'[t].step = "idle"
         \/ /\ req'[t].group \in Group /\ Valid(req'[t].group, req'[t].form) /\ req'[t].at = 1
            /\ req'[t].step = IF req'[t].group = "schedule" THEN "tasking" ELSE "saving"
<1>1. PICK g \in Group : Post(t, g, IF g = "schedule" THEN "tasking" ELSE "saving")
  BY DEF Posts
<1> DEFINE first == IF g = "schedule" THEN "tasking" ELSE "saving"
<1>2. PICK form \in Typed[g] :
        \/ /\ Valid(g, form)
           /\ req' = [req EXCEPT ![t] = [step |-> first, group |-> g, form |-> form, at |-> 1]]
        \/ UNCHANGED req /\ req[t].step = "idle"
  BY <1>1 DEF Post
<1>3. t \in DOMAIN req
  BY DEF SettingsTypeOK
<1>4. CASE UNCHANGED req /\ req[t].step = "idle"
  BY <1>4
<1>5. CASE /\ Valid(g, form)
           /\ req' = [req EXCEPT ![t] = [step |-> first, group |-> g, form |-> form, at |-> 1]]
  <2>1. req'[t] = [step |-> first, group |-> g, form |-> form, at |-> 1]
    BY <1>3, <1>5
  <2> HIDE DEF first
  <2>2. req'[t].step = first /\ req'[t].group = g /\ req'[t].form = form /\ req'[t].at = 1
    BY <2>1
  <2> QED BY <1>5, <2>2 DEF first
<1> QED BY <1>2, <1>4, <1>5

(* The request that has made the step is right, too.                       *)
LEMMA OwnRight ==
  ASSUME TypeOK, Fresh, [Next]_vars, Saves, TaskAgrees, NEW t \in Tab, TabStep(t), NoteMixing
  PROVE  SaveRight(t)'
<1>1. SettingsTypeOK /\ SaveRight(t)
  BY DEF TypeOK, Saves
<1>2. req'[t].step = "idle" => SaveRight(t)'
  BY DEF SaveRight
<1>3. Ends(t) => SaveRight(t)'
  BY <1>1, <1>2, Ending
<1>4. \A u \in Tab \ {t} : req'[u] = req[u]
  BY <1>1, Touches
<1>5. ASSUME NEW g \in Group, g \notin mixed', req'[t].group = g, req'[t].step # "idle"
      PROVE  g \notin mixed /\ \A u \in Tab \ {t} : req'[u].step # "idle" => req'[u].group # g
  BY <1>5 DEF NoteMixing, Busy
<1>6. CASE Posts(t)
  <2>1. UNCHANGED <<setting, task, failed>> /\ req[t].step = "idle"
    BY <1>6 DEF Posts, Post
  <2>2. CASE req'[t].step = "idle"
    BY <1>2, <2>2
  <2>3. CASE req'[t].step # "idle"
    <3>1. /\ req'[t].group \in Group /\ Valid(req'[t].group, req'[t].form) /\ req'[t].at = 1
          /\ req'[t].step = IF req'[t].group = "schedule" THEN "tasking" ELSE "saving"
      BY <1>1, <1>6, <2>3, Accepting
    <3>2. PICK g \in Group : g = req'[t].group
      BY <3>1
    <3>6. PICK form : form = req'[t].form
      OBVIOUS
    <3>3. Valid(g, form)'
      BY <3>1, <3>2, <3>6, StaysValid
    <3>4. Valid(req[t].group, req[t].form)'
      BY <3>2, <3>3, <3>6
    <3>5. ASSUME g \notin mixed' PROVE OnlySave(t)'
      <4>1. g \notin mixed /\ \A u \in Tab \ {t} : req'[u].step # "idle" => req'[u].group # g
        BY <1>5, <2>3, <3>2, <3>5
      <4>2. ~(req'[t].at > 1) /\ req'[t].step # "undoing"
        BY <3>1
      <4>3. \A i \in 1 .. Len(Keys(g)) : ~(i < req'[t].at)
        BY <3>1, InDomain
      <4>4. ASSUME g = "schedule", Heeded' PROVE req'[t].step = "tasking" /\ TaskRight'
        <5>1. \A u \in Busy : req[u].group # "schedule"
          BY <1>4, <2>1, <4>1, <4>4 DEF Busy
        <5>2. TaskRight
          BY <2>1, <4>1, <4>4, <5>1 DEF TaskAgrees, Answered, Heeded, TaskRight
        <5>3. TaskRight'
          BY <2>1, <5>2, TaskStays DEF Stored
        <5> QED BY <3>1, <3>2, <4>4, <5>3
      <4> QED BY <3>2, <4>1, <4>2, <4>3, <4>4 DEF OnlySave
    <3> QED BY <3>1, <3>2, <3>4, <3>5 DEF SaveRight
  <2> QED BY <2>2, <2>3
<1>7. ASSUME req[t].step # "idle", req'[t].group = req[t].group, req'[t].form = req[t].form,
             req'[t].step # "idle"
      PROVE  /\ Valid(req[t].group, req[t].form)'
             /\ req'[t].group \notin mixed' =>
                  OnlySave(t) /\ \A u \in Tab \ {t} : req'[u].step # "idle" => req'[u].group # req'[t].group
  <2>1. Valid(req[t].group, req[t].form)'
    BY <1>7, StaysAccepted
  <2>2. req[t].group \in Group
    BY <1>1, <1>7, UnderWay
  <2>3. req[t].group \notin mixed' => req[t].group \notin mixed
    BY DEF NoteMixing
  <2> QED BY <1>1, <1>5, <1>7, <2>1, <2>2, <2>3 DEF SaveRight
<1>8. CASE Register(t) \/ Unregister(t)
  <2>1. CASE Ends(t)
    BY <1>3, <2>1
  <2>2. CASE ~Ends(t)
    <3>1. /\ req[t].step = "tasking" /\ Goes(t, "saving") /\ UNCHANGED setting
          /\ \/ task' = IF req[t].form.enabled = 1 THEN TaskOf(req[t].form) ELSE NoTask
             \/ req[t].form.enabled # 1 /\ task' = task /\ failed' = failed \cup {"kept"}
      BY <1>8, <2>2 DEF Register, Unregister
    <3>2. /\ req'[t].step = "saving" /\ req'[t].group = req[t].group
          /\ req'[t].form = req[t].form /\ req'[t].at = req[t].at
      BY <1>1, <3>1, Going
    <3>3. req[t].at = 1
      BY <1>1, <3>1 DEF SaveRight
    <3>4. req[t].group \in Group
      BY <1>1, <3>1, UnderWay
    <3>5. \A i \in 1 .. Len(Keys(req[t].group)) : ~(i < req'[t].at)
      BY <3>2, <3>3, <3>4, InDomain
    <3>6. ASSUME OnlySave(t), Heeded', req[t].group = "schedule"
          PROVE  IF req[t].form.enabled = 1 THEN task' = TaskOf(req[t].form)
                 ELSE task' = NoTask \/ ("kept" \in failed' /\ TaskRight')
      <4>1. CASE task' = task /\ failed' = failed \cup {"kept"} /\ req[t].form.enabled # 1
        <5>1. TaskRight
          BY <3>1, <3>6, <4>1 DEF OnlySave, Heeded
        <5>2. TaskRight'
          BY <3>1, <4>1, <5>1, TaskStays DEF Stored
        <5> QED BY <4>1, <5>2
      <4> QED BY <3>1, <4>1
    <3>7. req'[t].group \notin mixed' => OnlySave(t)'
      BY <1>7, <3>1, <3>2, <3>5, <3>6 DEF OnlySave, TaskAsked
    <3> QED BY <1>7, <3>1, <3>2, <3>7 DEF SaveRight
  <2> QED BY <2>1, <2>2
<1>9. CASE PassOver(t)
  <2>1. /\ req'[t].step = "saving" /\ req'[t].group = req[t].group
        /\ req'[t].form = req[t].form /\ req'[t].at = req[t].at + 1
        /\ req[t].step = "saving" /\ UNCHANGED <<setting, task, failed>>
    BY <1>1, <1>9, Passing DEF PassOver
  <2>2. req[t].group \in Group /\ req[t].at \in Nat /\ req[t].at > 0
    BY <1>1, <2>1, UnderWay
  <2>3. ASSUME OnlySave(t), NEW i \in 1 .. Len(Keys(req[t].group)), i < req'[t].at
        PROVE  IsSaved(Keys(req[t].group)[i], req[t].form)
    <3>1. Len(Keys(req[t].group)) \in Nat
      BY <2>2, InDomain
    <3>2. i < req[t].at \/ i = req[t].at
      BY <2>1, <2>2, <2>3, <3>1
    <3>3. i = req[t].at => IsSaved(Keys(req[t].group)[i], req[t].form)
      BY <1>9 DEF PassOver, Current, IsSaved
    <3> QED BY <2>1, <2>3, <3>2, <3>3 DEF OnlySave
  <2>4. ASSUME NEW i \in 1 .. Len(Keys(req[t].group)), IsSaved(Keys(req[t].group)[i], req[t].form)
        PROVE  IsSaved(Keys(req[t].group)[i], req[t].form)'
    BY <2>1, <2>4 DEF IsSaved, Keeps, Stored
  <2>6. TaskAsked(req[t].form) =>
          (IF req[t].form.enabled = 1 THEN task' = TaskOf(req[t].form)
           ELSE task' = NoTask \/ ("kept" \in failed' /\ TaskRight'))
    <3>1. TaskRight => TaskRight'
      BY <2>1, TaskStays DEF Stored
    <3> QED BY <2>1, <3>1 DEF TaskAsked
  <2>5. req'[t].group \notin mixed' => OnlySave(t)'
    BY <1>7, <2>1, <2>3, <2>4, <2>6 DEF OnlySave, Heeded, TaskAsked
  <2> QED BY <1>7, <2>1, <2>5 DEF SaveRight
<1>10. CASE Write(t) \/ Undo(t)
  BY <1>3, <1>10 DEF Write, Undo
<1>11. CASE WriteFails(t)
  <2>1. CASE Ends(t)
    BY <1>3, <2>1
  <2>2. CASE ~Ends(t)
    <3>1. /\ req[t].step = "saving" /\ Goes(t, "undoing")
          /\ "unsaved" \in failed' /\ req[t].group = "schedule"
      BY <1>11, <2>2 DEF WriteFails
    <3>2. /\ req'[t].step = "undoing" /\ req'[t].group = req[t].group
          /\ req'[t].form = req[t].form
      BY <1>1, <3>1, Going
    <3>3. req'[t].group \notin mixed' => OnlySave(t)'
      BY <1>7, <3>1, <3>2 DEF OnlySave
    <3> QED BY <1>7, <3>1, <3>2, <3>3 DEF SaveRight
  <2> QED BY <2>1, <2>2
<1> QED
  BY <1>6, <1>8, <1>9, <1>10, <1>11, Asked DEF TabStep

(* What the write of a save leaves behind.                                 *)
LEMMA WriteSaves ==
  ASSUME TypeOK, Saves, NEW t \in Tab, Write(t), NEW g \in Group, req[t].group = g, g \notin mixed
  PROVE  Right(g)' /\ (g = "schedule" /\ Heeded => TaskRight')
<1>1. /\ req[t].step = "saving" /\ Valid(req[t].group, req[t].form) /\ OnlySave(t) /\ SettingsTypeOK
      /\ UNCHANGED <<task, failed>>
  BY DEF Write, TypeOK, Saves, SaveRight
<1>2. PICK form \in Typed[g], i \in Nat : form = req[t].form /\ i = req[t].at
  BY <1>1, UnderWay
<1>3. i > 0 /\ IsForm(g, form)
  BY <1>1, <1>2, UnderWay
<1>4. \A j \in 1 .. Len(Keys(g)) : j < i => IsSaved(Keys(g)[j], form)
  BY <1>1, <1>2 DEF OnlySave
<1>5. (setting' = setting /\ i > Len(Keys(g))) \/ setting' = Written(g, form, i)
  BY <1>2 DEF Write
<1>6. \A k \in KeysOf(g) : Stored(k)' = IF Keeps(k, form) THEN Stored(k) ELSE form[k]
  <2> SUFFICES ASSUME NEW k \in KeysOf(g)
               PROVE  Stored(k)' = IF Keeps(k, form) THEN Stored(k) ELSE form[k]
    OBVIOUS
  <2>1. k \in Key
    BY DEF Key
  <2>2. Keeps(k, form) => Stored(k)' = Stored(k)
    BY <1>3, <1>5, <2>1, Elsewhere
  <2>3. ~Keeps(k, form) => Stored(k)' = form[k]
    BY <1>3, <1>4, <1>5, WholeForm
  <2> QED BY <2>2, <2>3
<1>7. Right(g)'
  BY <1>1, <1>2, <1>3, <1>6, ValidIsRight
<1>8. ASSUME g = "schedule", Heeded PROVE TaskRight'
  <2>1. TaskAsked(form)
    BY <1>1, <1>2, <1>8 DEF OnlySave
  <2>2. \A k \in KeysOf("schedule") : Stored(k)' = form[k]
    BY <1>6, <1>8, GroupKeys DEF Keeps
  <2> QED BY <1>1, <2>1, <2>2, TaskOfForm
<1> QED BY <1>7, <1>8

(* A step of the pages leaves the settings right.                          *)
LEMMA TabRight ==
  ASSUME TypeOK, Saves, SettingsRight, NEW t \in Tab, TabStep(t), NoteMixing
  PROVE  SettingsRight'
<1>1. SettingsTypeOK /\ SaveRight(t)
  BY DEF TypeOK, Saves
<1>2. mixed \subseteq mixed'
  BY DEF NoteMixing
<1>3. req[t].step # "idle" => req[t].group \in Group
  BY <1>1, UnderWay
<1>4. ASSUME NEW g \in Group, req[t].step # "idle" => req[t].group # g
      PROVE  \A k \in KeysOf(g) : k \in Key /\ Stored(k)' = Stored(k)
  <2> SUFFICES ASSUME NEW k \in KeysOf(g) PROVE k \in Key /\ Stored(k)' = Stored(k)
    OBVIOUS
  <2>1. k \in Key
    BY DEF Key
  <2>2. CASE req[t].step = "idle"
    BY <1>1, <2>1, <2>2, Touches DEF Stored
  <2>3. CASE req[t].step # "idle"
    <3>1. k \notin KeysOf(req[t].group)
      BY <1>3, <1>4, <2>3, OwnKeys
    <3> QED BY <1>1, <2>1, <2>3, <3>1, Touches
  <2> QED BY <2>2, <2>3
<1>5. (\A k \in Key : Stored(k)' = Stored(k)) \/ Write(t)
  <2>1. UNCHANGED setting \/ Write(t)
    <3>1. Posts(t) => UNCHANGED setting
      BY DEF Posts, Post
    <3> QED BY <3>1, Asked DEF TabStep, Register, Unregister, PassOver, WriteFails, Undo
  <2> QED BY <2>1 DEF Stored
<1>6. ASSUME NEW g \in Group \ mixed' PROVE Right(g)'
  <2>1. g \notin mixed /\ Right(g)
    BY <1>2, <1>6 DEF SettingsRight
  <2>2. CASE \A k \in KeysOf(g) : Stored(k)' = Stored(k)
    BY <2>1, <2>2, SameIsRight
  <2>3. CASE ~ \A k \in KeysOf(g) : Stored(k)' = Stored(k)
    <3>1. g = req[t].group /\ Write(t)
      BY <1>4, <1>5, <2>3 DEF Key
    <3> QED BY <2>1, <3>1, WriteSaves
  <2> QED BY <2>2, <2>3
<1>7. ASSUME "schedule" \notin mixed', Heeded', \A u \in Busy' : req'[u].group # "schedule"
      PROVE  TaskRight'
  <2>1. "schedule" \in Group /\ "schedule" \notin mixed
    BY <1>2, <1>7 DEF Group
  <2>2. CASE req[t].step # "idle" /\ req[t].group = "schedule"
    <3>1. req'[t].step = "idle" \/ req'[t].group # "schedule"
      BY <1>7 DEF Busy
    <3>2. ~Posts(t) /\ ~PassOver(t) /\ \A s : Goes(t, s) => s = "idle"
      <4>1. ~Posts(t)
        BY <2>2 DEF Posts, Post
      <4>2. ~PassOver(t)
        BY <1>1, <2>2, <3>1, Passing
      <4>3. \A s : Goes(t, s) => s = "idle"
        BY <1>1, <2>2, <3>1, Going
      <4> QED BY <4>1, <4>2, <4>3
    <3>3. CASE Write(t)
      <4>1. Heeded
        BY <1>7, <3>3 DEF Write, Heeded
      <4> QED BY <2>1, <2>2, <3>3, <4>1, WriteSaves
    <3>4. CASE Register(t) \/ Unregister(t)
      <4>1. UNCHANGED <<setting, task, failed>> /\ req[t].step = "tasking"
        BY <1>7, <3>2, <3>4 DEF Register, Unregister, Heeded
      <4>2. TaskRight
        BY <1>1, <1>7, <2>1, <2>2, <4>1 DEF SaveRight, OnlySave, Heeded
      <4> QED BY <4>1, <4>2, TaskStays DEF Stored
    <3>5. CASE WriteFails(t)
      <4>1. /\ UNCHANGED <<setting, task>> /\ req[t].step = "saving" /\ req[t].form.enabled # 1
            /\ failed' = failed \cup {"unsaved"}
        BY <2>2, <3>2, <3>5 DEF WriteFails
      <4>2. TaskAsked(req[t].form)
        BY <1>1, <1>7, <2>1, <2>2, <4>1 DEF SaveRight, OnlySave, Heeded
      <4>3. TaskRight => TaskRight'
        BY <4>1, TaskStays DEF Stored
      <4> QED BY <4>1, <4>2, <4>3 DEF TaskAsked, TaskRight
    <3>6. CASE Undo(t)
      <4>1. task' = NoTask /\ UNCHANGED failed /\ req[t].step = "undoing"
        BY <1>7, <3>6 DEF Undo, Heeded
      <4>2. "unsaved" \in failed
        BY <1>1, <1>7, <2>1, <2>2, <4>1 DEF SaveRight, OnlySave, Heeded
      <4> QED BY <4>1, <4>2 DEF TaskRight
    <3> QED BY <3>2, <3>3, <3>4, <3>5, <3>6, Asked DEF TabStep
  <2>3. CASE ~(req[t].step # "idle" /\ req[t].group = "schedule")
    <3>1. UNCHANGED <<task, failed>>
      BY <1>1, <2>3, Touches
    <3>2. \A u \in Busy : req[u].group # "schedule"
      <4> SUFFICES ASSUME NEW u \in Busy, req[u].group = "schedule" PROVE FALSE
        OBVIOUS
      <4>1. u # t /\ u \in Tab /\ req[u].step # "idle"
        BY <2>3 DEF Busy
      <4>2. req'[u] = req[u]
        BY <1>1, <4>1, Touches
      <4> QED BY <1>7, <4>1, <4>2 DEF Busy
    <3>3. TaskRight
      BY <1>7, <2>1, <3>1, <3>2 DEF SettingsRight, TaskAgrees, Answered, Heeded, TaskRight
    <3>4. \A k \in KeysOf("schedule") : Stored(k)' = Stored(k)
      BY <1>4, <2>1, <2>3
    <3> QED BY <3>1, <3>3, <3>4, TaskStays
  <2> QED BY <2>2, <2>3
<1> QED BY <1>6, <1>7 DEF SettingsRight, TaskAgrees, Answered, Heeded, TaskRight

LEMMA StaysServed == ASSUME TypeOK, Held, Served, [Next]_vars PROVE Served'
<1>1. ASSUME NEW p \in Proc, OpenStep(p) \/ AdminStep(p) PROVE Served'
  <2>1. req' = req
    BY <1>1 DEF OpenStep, AdminStep, settingVars
  <2>2. ~At(p, "serving")
    BY <1>1 DEF OpenStep, AdminStep, Start, ReadVersion, CreateTables, ReadColumns, AddColumn, Stamp,
                Verify, RecordSkipped, BeginSeed, Crash, RunEvent, Serve, BeginRun, At
  <2>3. \A q \in Proc : At(q, "serving") => At(q, "serving")'
    BY <1>1, <2>2, OthersHold DEF At
  <2> QED BY <2>1, <2>3 DEF Served, IsServing, Busy
<1>2. ASSUME NEW p \in Proc, SeedStep(p) PROVE Served'
  <2>1. At(p, "seeding") /\ req' = req
    BY <1>2 DEF SeedStep, SeedGroup
  <2>2. \A q \in Proc : ~At(q, "serving")
    BY <2>1 DEF Held, HeldBy, At, Working
  <2> QED BY <2>1, <2>2 DEF Served, IsServing, Busy
<1>3. ASSUME NEW p \in Proc, CloseStep(p) PROVE Served'
  <2>1. \A t \in Tab : req'[t].step = "idle"
    BY <1>3, Idling DEF CloseStep, Close, DropRequests
  <2> QED BY <2>1 DEF Served, Busy
<1>4. ASSUME UNCHANGED proc, IsServing PROVE Served'
  BY <1>4 DEF Served, IsServing, At
<1>5. UNCHANGED vars => Served'
  BY DEF vars, instanceVars, settingVars, Served, IsServing, At, Busy
<1> QED BY <1>1, <1>2, <1>3, <1>4, <1>5 DEF Next, PageStep, instanceVars

(* A group that is seeded had no row, and the schedule is not switched on. *)
LEMMA SeedRight ==
  ASSUME TypeOK, Held, Fresh, Served, Saves, SettingsRight, NEW p \in Proc, SeedStep(p)
  PROVE  Saves' /\ SettingsRight'
<1>1. PICK h \in Group : SeedGroup(p, h)
  BY DEF SeedStep
<1>2. At(p, "seeding") /\ h \in proc[p].todo /\ UNCHANGED <<task, req, mixed, failed>>
  BY <1>1 DEF SeedStep, SeedGroup
<1>3. \A q \in Proc : ~At(q, "serving")
  BY <1>2 DEF Held, HeldBy, At, Working
<1>4. \A t \in Tab : req[t].step = "idle"
  BY <1>3 DEF Served, IsServing, Busy
<1>5. Saves'
  BY <1>2, <1>4 DEF Saves, SaveRight
<1>6. PICK form : form = proc[p].file[h]
  OBVIOUS
<1>7. /\ proc[p].file \in Seeds /\ h \in DOMAIN proc[p].file /\ load_config_file(proc[p].file)
      /\ IsForm(h, form) /\ \A k \in KeysOf(h) : setting[k] = Absent
  BY <1>2, <1>6, InstancesAssumption DEF Fresh, SeedsFresh
<1>8. UNCHANGED setting \/ (setting' = Written(h, form, 1) /\ Valid(h, form))
  BY <1>1, <1>6 DEF SeedGroup
<1>9. CASE UNCHANGED setting
  BY <1>2, <1>9, <1>5 DEF SettingsRight, Right, FoldersRight, ScheduleRight, EmailRight,
                       TaskAgrees, Answered, Wanted, Stored, Busy
<1>10. CASE setting' = Written(h, form, 1) /\ Valid(h, form)
  <2>1. \A k \in KeysOf(h) : k \in Key /\ Stored(k)' = IF Keeps(k, form) THEN Stored(k) ELSE form[k]
    <3> SUFFICES ASSUME NEW k \in KeysOf(h)
                 PROVE  k \in Key /\ Stored(k)' = IF Keeps(k, form) THEN Stored(k) ELSE form[k]
      OBVIOUS
    <3>1. k \in Key
      BY DEF Key
    <3>2. Keeps(k, form) => Stored(k)' = Stored(k)
      BY <1>10, <3>1, Elsewhere
    <3>3. ~Keeps(k, form) => Stored(k)' = form[k]
      <4>1. \A j \in 1 .. Len(Keys(h)) : ~(j < 1)
        BY InDomain
      <4> QED BY <1>7, <1>10, <4>1, WholeForm
    <3> QED BY <3>1, <3>2, <3>3
  <2>2. ASSUME NEW g \in Group \ {h} PROVE \A k \in KeysOf(g) : Stored(k)' = Stored(k)
    <3> SUFFICES ASSUME NEW k \in KeysOf(g) PROVE Stored(k)' = Stored(k)
      OBVIOUS
    <3>1. k \in Key /\ k \notin KeysOf(h)
      BY OwnKeys DEF Key
    <3> QED BY <1>10, <3>1, Elsewhere
  <2>3. ASSUME NEW g \in Group \ mixed PROVE Right(g)'
    <3>1. Right(g)
      BY <2>3 DEF SettingsRight
    <3>2. g = h => Right(g)'
      BY <1>7, <1>10, <2>1, ValidIsRight
    <3>3. g # h => Right(g)'
      BY <2>2, <3>1, SameIsRight
    <3> QED BY <3>2, <3>3
  <2>4. "schedule" \notin mixed /\ Heeded => TaskRight
    BY <1>4 DEF SettingsRight, TaskAgrees, Answered, Heeded, TaskRight, Busy
  <2>5. CASE h # "schedule"
    <3>1. \A k \in KeysOf("schedule") : Stored(k)' = Stored(k)
      BY <2>2, <2>5 DEF Group
    <3>2. TaskRight => TaskRight'
      BY <1>2, <3>1, TaskStays
    <3> QED BY <1>2, <1>5, <2>3, <2>4, <3>2 DEF SettingsRight, TaskAgrees, Answered, Heeded, TaskRight
  <2>6. CASE h = "schedule"
    <3>1. "enabled" \in KeysOf(h)
      BY <2>6, GroupKeys
    <3>2. Stored("enabled") # 1
      BY <1>7, <3>1, SettingsAssumption DEF Stored
    <3>3. Stored("enabled")' = form["enabled"] /\ form["enabled"] = 0
      BY <1>6, <1>7, <2>1, <2>6, <3>1 DEF Keeps, load_config_file
    <3>4. TaskRight => TaskRight'
      BY <1>2, <3>2, <3>3 DEF TaskRight, Wanted
    <3> QED BY <1>2, <1>5, <2>3, <2>4, <3>4 DEF SettingsRight, TaskAgrees, Answered, Heeded, TaskRight
  <2> QED BY <2>5, <2>6
<1> QED BY <1>5, <1>8, <1>9, <1>10

LEMMA StaysRight ==
  ASSUME TypeOK, Held, Fresh, Served, Saves, SettingsRight, [Next]_vars
  PROVE  Saves' /\ SettingsRight'
<1>1. UNCHANGED <<setting, task, req, mixed, failed>> => Saves' /\ SettingsRight'
  <2> SUFFICES ASSUME UNCHANGED <<setting, task, req, mixed, failed>> PROVE Saves' /\ SettingsRight'
    OBVIOUS
  <2>1. \A k : Stored(k)' = Stored(k)
    BY DEF Stored
  <2>2. TaskRight' = TaskRight /\ Wanted' = Wanted
    BY DEF TaskRight, Wanted, Stored
  <2>3. SettingsRight'
    BY <2>1, <2>2 DEF SettingsRight, Right, FoldersRight, ScheduleRight, EmailRight, TaskAgrees, Answered, Busy
  <2>4. ASSUME NEW t \in Tab PROVE SaveRight(t)'
    <3>1. req[t].step # "idle" => Valid(req[t].group, req[t].form)'
      BY StaysAccepted
    <3>2. OnlySave(t) => OnlySave(t)'
      BY <2>1, <2>2 DEF OnlySave, IsSaved, TaskAsked, Heeded
    <3> QED BY <3>1, <3>2 DEF Saves, SaveRight
  <2> QED BY <2>3, <2>4 DEF Saves
<1>2. CASE SettingsNext /\ NoteMixing
  <2>1. PICK t \in Tab : TabStep(t)
    BY <1>2 DEF SettingsNext, TabStep
  <2>2. SettingsRight' /\ TaskAgrees
    BY <1>2, <2>1, TabRight DEF SettingsRight
  <2>3. \A u \in Tab : SaveRight(u)'
    BY <1>2, <2>1, <2>2, OwnRight, OthersRight
  <2> QED BY <2>2, <2>3 DEF Saves
<1>3. ASSUME NEW p \in Proc, SeedStep(p) PROVE Saves' /\ SettingsRight'
  BY <1>3, SeedRight
<1>4. ASSUME NEW p \in Proc, CloseStep(p) PROVE Saves' /\ SettingsRight'
  <2>1. /\ \A t \in Tab : req'[t].step = "idle"
        /\ UNCHANGED <<setting, task, mixed>>
        /\ failed' = IF \E t \in Busy : req[t].group = "schedule" THEN failed \cup {"cut off"} ELSE failed
    BY <1>4, Idling DEF CloseStep, Close, DropRequests
  <2>2. Saves'
    BY <2>1 DEF Saves, SaveRight
  <2>3. Answered' => Answered /\ UNCHANGED failed
    BY <2>1 DEF Answered
  <2>5. Wanted' = Wanted
    BY <2>1 DEF Wanted, Stored
  <2>4. SettingsRight'
    BY <2>1, <2>3, <2>5 DEF SettingsRight, Right, FoldersRight, ScheduleRight, EmailRight, TaskAgrees, Stored
  <2> QED BY <2>2, <2>4
<1>5. ASSUME NEW p \in Proc, OpenStep(p) \/ AdminStep(p) PROVE UNCHANGED <<setting, task, req, mixed, failed>>
  BY <1>5 DEF OpenStep, AdminStep, settingVars
<1> QED
  BY <1>1, <1>2, <1>3, <1>4, <1>5 DEF Next, PageStep, vars, settingVars

(* What is found is right.                                                 *)
LEMMA FoundRight ==
  ASSUME Init PROVE Saves /\ Served /\ SettingsRight
<1>1. PICK s \in Scenarios :
        /\ setting = [k \in Key |-> IF k \in DOMAIN s.rows THEN s.rows[k] ELSE Absent]
        /\ task = s.task
  BY DEF Init
<1> DEFINE found == FoundSettings(s.rows)
<1>2. FoundAsSaved(found, task)
  BY <1>1, InstancesAssumption
<1>3. \A k \in Key : Stored(k) = found[k]
  BY <1>1 DEF Stored, FoundSettings
<1>4. \A k \in {"rpi", "assets", "enabled", "days", "time", "username", "notify", "recipient", "sender", "connection"} :
        k \in Key /\ Stored(k) = found[k]
  BY <1>3, GroupKeys DEF Key, Group
<1> HIDE DEF found
<1>5. \A g \in Group : Right(g)
  BY <1>2, <1>4 DEF FoundAsSaved, OnIsComplete, Right, FoldersRight, ScheduleRight, EmailRight
<1>6. TaskRight
  BY <1>2, <1>4 DEF FoundAsSaved, TaskRight, Wanted, TaskOf
<1>7. \A t \in Tab : req[t].step = "idle"
  BY Idling DEF Init, SettingsInit
<1> QED BY <1>5, <1>6, <1>7 DEF Saves, SaveRight, Served, Busy, SettingsRight, TaskAgrees, TaskRight

LEMMA AlwaysRight == Spec => []SettingsRight
<1>1. Init => Saves /\ Served /\ SettingsRight
  BY FoundRight
<1>2. TypeOK /\ Held /\ Fresh /\ Saves /\ Served /\ SettingsRight /\ [Next]_vars
      => Saves' /\ Served' /\ SettingsRight'
  BY StaysServed, StaysRight
<1> QED BY <1>1, <1>2, AlwaysFresh, PTL DEF Spec

(* The two download folders are apart, however forms are sent, unless two  *)
(* saves of them have overlapped.                                          *)
THEOREM FoldersStayApart == Spec => []FoldersApart
<1>1. SettingsRight => FoldersApart
  <2> SUFFICES ASSUME FoldersRight PROVE FoldersApart
    BY DEF SettingsRight, Right, Group, FoldersApart
  <2> DEFINE r == RpiFolder(Stored("rpi"))
             a == AssetFolder(Stored("assets"))
  <2>1. r \in Place /\ a \in Place
    BY SettingsAssumption DEF FoldersRight, RpiFolder, AssetFolder
  <2>2. r # a
    BY <2>1, SettingsAssumption DEF FoldersRight, Apart
  <2>3. Cardinality({r, a}) = 2
    <3>1. Cardinality({r}) = 1 /\ IsFiniteSet({r}) /\ a \notin {r}
      BY <2>2, FS_Singleton
    <3>2. Cardinality({r} \cup {a}) = 2
      BY <3>1, FS_AddElement
    <3> QED BY <3>2
  <2>4. \A f, b \in {r, a} : <<f, b>> \in Within => f = b
    BY DEF FoldersRight, Apart
  <2> QED BY <2>3, <2>4 DEF FoldersApart
<1> QED BY <1>1, AlwaysRight, PTL

(* What is switched on has all it needs.                                   *)
THEOREM SwitchedOnStaysComplete == Spec => []SwitchedOnIsComplete
<1>1. SettingsRight => SwitchedOnIsComplete
  BY DEF SettingsRight, Right, ScheduleRight, EmailRight, Group, SwitchedOnIsComplete
<1> QED BY <1>1, AlwaysRight, PTL

(* Windows runs the application as the settings say, through refusals of   *)
(* Windows and of the database, in the sense and with the exceptions that  *)
(* TaskAgrees and Answered spell out.                                      *)
THEOREM TaskAlwaysAgrees == Spec => []TaskAgrees
<1>1. SettingsRight => TaskAgrees
  BY DEF SettingsRight
<1> QED BY <1>1, AlwaysRight, PTL
=============================================================================
