---------------------------- MODULE MCInstances ----------------------------
(* One data folder, used by the installer, the application (twice) and the *)
(* scheduled run, from each of the databases it may find.                  *)
EXTENDS Instances, TLC

CONSTANTS installer, app, again, scheduled, e1, e2, t1, t2, w1, w2,
          theirs, own, inner, account, container, k1, k2, days, time, user, to, from, p1, p2, p3

MCKindOf == installer :> "seed" @@ app :> "ui" @@ again :> "ui" @@ scheduled :> "run"
MCPlace == {DefaultRpi, DefaultAssets, own, inner}
MCWithin == {<<f, f>> : f \in MCPlace} \cup {<<inner, own>>}

Cloud(a, k) == [account |-> a, container |-> container, key |-> k]
Folders(r, a) == [rpi |-> r, assets |-> a]
Schedule(on, d) == [enabled |-> on, days |-> d, time |-> time, username |-> user]
Email(on, r, c) == [notify |-> on, recipient |-> r, sender |-> from, connection |-> c]

MCTyped ==
  [g \in {"cloud", "folders", "retry", "retention", "schedule", "email"} |->
     CASE g = "cloud" -> {Cloud(account, k1), Cloud(theirs, Blank), Cloud(Blank, k2)}
       [] g = "folders" -> {Folders(r, a) : r \in {Blank, inner, DefaultAssets}, a \in {Blank, own}}
       [] g = "retry" -> {[count |-> 5, delay |-> Blank], [count |-> 0, delay |-> 61]}
       [] g = "retention" -> {[keep |-> 1], [keep |-> 0]}
       [] g = "schedule" -> {Schedule(1, days), Schedule(1, Blank), Schedule(0, Blank)}
       [] g = "email" -> {Email(1, to, Blank), Email(1, to, k1), Email(1, Blank, k1), Email(0, Blank, Blank)}]

(* Install configurations: a right one, one whose last group is not valid, *)
(* and one that asks for what a file must not.                             *)
MCSeeds ==
  {"cloud" :> Cloud(account, k1) @@ "email" :> Email(1, to, k2) @@ "schedule" :> Schedule(0, days),
   "cloud" :> Cloud(account, k1) @@ "folders" :> Folders(own, inner),
   "schedule" :> Schedule(1, days)}

None == t1 :> 0 @@ t2 :> 0 @@ w1 :> 0 @@ w2 :> 0
Base == [version |-> 2, crashes |-> 0, starts |-> {app}, rows |-> << >>, task |-> NoTask,
         password |-> Default, posts |-> None, tries |-> None]
Cloudy == "account" :> theirs @@ "key" :> k2
Switched == Schedule(1, days) @@ Email(1, to, k2)

MCInstall == [Base EXCEPT !.version = 0, !.crashes = 2, !.starts = {installer, again, scheduled},
                          !.password = NoPassword]
MCOneTab == [Base EXCEPT !.posts = t1 :> 3 @@ t2 :> 0]  \* one form after another

MCScenarios ==
  {MCInstall, MCOneTab,
   [Base EXCEPT !.version = 1, !.crashes = 2, !.starts = {installer, app, scheduled}, !.rows = Cloudy],
   [Base EXCEPT !.rows = Switched, !.task = TaskOf(Switched), !.posts = t1 :> 2 @@ t2 :> 0],
   [Base EXCEPT !.version = 3, !.starts = {app, scheduled}],
   [Base EXCEPT !.posts = t1 :> 2 @@ t2 :> 1],             \* two tabs
   [Base EXCEPT !.starts = {app, again}, !.posts = [None EXCEPT ![t1] = 2]],
   [Base EXCEPT !.starts = {app, again}, !.tries = w1 :> 3 @@ w2 :> 2]}
MCInstallOnly == {MCInstall}
MCOneTabOnly == {MCOneTab}
=============================================================================
