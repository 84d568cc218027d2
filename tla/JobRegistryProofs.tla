-------------------------- MODULE JobRegistryProofs --------------------------
(* Theorems about JobRegistry, for any set of events, any number of runs   *)
(* and any number of Cancel requests; by itself, and with any number of    *)
(* the pages of Dashboard open on it.                                      *)
EXTENDS Dashboard, TLAPS

(* A page may show any of the events, so the summaries of any of them may  *)
(* be taken at once.                                                       *)
AnyNext == Next \/ \E E \in SUBSET Event : Take(E)
AnySpec == Init /\ [][AnyNext]_vars

LEMMA RegistryIsAny == Spec => AnySpec
<1>1. [Next]_vars => [AnyNext]_vars
  BY DEF AnyNext
<1> QED BY <1>1, PTL DEF Spec, AnySpec

(* A step of a page is a step of the registry or leaves it alone.          *)
LEMMA PagesAreAny == DashSpec => AnySpec
<1>1. DashInit => Init
  BY DEF DashInit
<1>2. [DashNext]_allVars => [AnyNext]_vars
  <2> SUFFICES ASSUME [DashNext]_allVars PROVE [AnyNext]_vars
    OBVIOUS
  <2>1. ASSUME NEW j \in Job, Worker(j) PROVE AnyNext
    BY <2>1 DEF AnyNext, Next
  <2>2. ASSUME NEW r \in Request, Canceller(r) PROVE AnyNext
    BY <2>2 DEF AnyNext, Next
  <2>3. ASSUME NEW t \in Tab, Script(t) PROVE [AnyNext]_vars
    <3>1. CASE Load(t) \/ Poll(t)
      BY <3>1 DEF Load, Poll
    <3>2. CASE Display(t)
      <4>1. Watches[t] \in SUBSET Event
        BY WatchesAssumption
      <4> QED BY <3>2, <4>1 DEF Display, AnyNext
    <3> QED BY <2>3, <3>1, <3>2 DEF Script
  <2>4. ASSUME NEW t \in Tab, NEW e \in Event, PressStart(t, e) PROVE [AnyNext]_vars
    <3>1. CASE \E j \in Job : Start(e, j)
      BY <3>1 DEF AnyNext, Next
    <3>2. CASE UNCHANGED vars
      BY <3>2
    <3> QED BY <2>4, <3>1, <3>2 DEF PressStart
  <2>5. CASE UNCHANGED allVars
    BY <2>5 DEF allVars
  <2> QED BY <2>1, <2>2, <2>3, <2>4, <2>5 DEF DashNext
<1> QED BY <1>1, <1>2, PTL DEF DashSpec, AnySpec

LEMMA JobFacts == Job \subseteq Nat /\ NoJob \notin Job
BY MaxRunsAssumption DEF Job, NoJob

LEMMA TypesAlways == AnySpec => []TypeOK
<1>1. Init => TypeOK
  BY DEF Init, TypeOK, Outcome
<1>2. TypeOK /\ [AnyNext]_vars => TypeOK'
  <2> SUFFICES ASSUME TypeOK, [AnyNext]_vars PROVE TypeOK'
    OBVIOUS
  <2> USE DEF TypeOK, cancelVars, jobVars, Outcome
  <2>1. ASSUME NEW e \in Event, NEW j \in Job, Start(e, j) PROVE TypeOK'
    BY <2>1 DEF Start
  <2>2. ASSUME NEW j \in Job, ThreadStarts(j) PROVE TypeOK'
    BY <2>2 DEF ThreadStarts
  <2>3. ASSUME NEW j \in Job, NEW o \in Outcome, WorkReturns(j, o) PROVE TypeOK'
    BY <2>3 DEF WorkReturns
  <2>4. ASSUME NEW j \in Job, WorkRaises(j) PROVE TypeOK'
    BY <2>4 DEF WorkRaises
  <2>5. ASSUME NEW j \in Job, End(j) PROVE TypeOK'
    BY <2>5 DEF End
  <2>6. ASSUME NEW E \in SUBSET Event, Take(E) PROVE TypeOK'
    BY <2>6 DEF Take
  <2>7. ASSUME NEW r \in Request, NEW e \in Event, CancelFetch(r, e) PROVE TypeOK'
    BY <2>7 DEF CancelFetch
  <2>8. ASSUME NEW r \in Request, CancelSet(r) PROVE TypeOK'
    BY <2>8 DEF CancelSet
  <2>9. CASE UNCHANGED vars
    BY <2>9 DEF vars
  <2> QED
    BY <2>1, <2>2, <2>3, <2>4, <2>5, <2>6, <2>7, <2>8, <2>9
       DEF AnyNext, Next, Worker, Work, Canceller
<1> QED
  BY <1>1, <1>2, PTL DEF AnySpec

(* The inductive invariant: what says "running" is the run the registry    *)
(* has for its event, a thread that has not ended says "running", a run    *)
(* past its work has its lines, and only a finished run has been seen.     *)
IInv ==
  /\ RunningIsCurrent
  /\ \A j \in Job :
       /\ worker[j] = "unused" => state[j] = "idle"
       /\ worker[j] \in {"summarised", "ended"} => summary[j] # "empty"
       /\ Finished(j) => worker[j] = "ended"
       /\ worker[j] = "ended" => Finished(j)
       /\ seen[j] => Finished(j)
  /\ \A r \in Request : held[r] # NoJob => worker[held[r]] # "unused"
  /\ \A e \in Event : jobs[e] # NoJob => worker[jobs[e]] # "unused" /\ event[jobs[e]] = e

LEMMA InvInductive == TypeOK /\ IInv /\ [AnyNext]_vars => IInv'
<1> SUFFICES ASSUME TypeOK, IInv, [AnyNext]_vars PROVE IInv'
  OBVIOUS
<1> USE JobFacts DEF TypeOK, IInv, RunningIsCurrent, Active, Finished, Outcome,
                     cancelVars, jobVars
<1>1. ASSUME NEW e \in Event, NEW j \in Job, Start(e, j) PROVE IInv'
  <2>1. worker[j] = "unused" /\ ~seen[j]
    BY <1>1 DEF Start, NextJob
  <2>2. RunningIsCurrent'
    BY <1>1, <2>1 DEF Start
  <2>3. \A i \in Job \ {j} : /\ worker'[i] = worker[i] /\ state'[i] = state[i]
                            /\ event'[i] = event[i]
    BY <1>1 DEF Start
  <2>4. /\ worker'[j] = "registered" /\ state'[j] = "running" /\ event'[j] = e
        /\ seen' = seen /\ summary' = summary /\ held' = held
        /\ jobs'[e] = j /\ \A f \in Event \ {e} : jobs'[f] = jobs[f]
    BY <1>1 DEF Start
  <2>5. \A f \in Event : jobs[f] # NoJob =>
          jobs[f] \in Job \ {j} /\ worker[jobs[f]] # "unused" /\ event[jobs[f]] = f
    BY <2>1
  <2>6. \A r \in Request : held[r] # NoJob => held[r] \in Job \ {j} /\ worker[held[r]] # "unused"
    BY <2>1
  <2>7. ASSUME NEW i \in Job
        PROVE  (/\ worker[i] = "unused" => state[i] = "idle"
                /\ worker[i] \in {"summarised", "ended"} => summary[i] # "empty"
                /\ Finished(i) => worker[i] = "ended"
                /\ worker[i] = "ended" => Finished(i)
                /\ seen[i] => Finished(i))'
    BY <2>1, <2>3, <2>4
  <2> HIDE DEF TypeOK, IInv, RunningIsCurrent, Active, Finished, Outcome
  <2>8. (\A r \in Request : held[r] # NoJob => worker[held[r]] # "unused")'
    BY <2>3, <2>4, <2>6
  <2>9. (\A f \in Event : jobs[f] # NoJob => worker[jobs[f]] # "unused" /\ event[jobs[f]] = f)'
    <3> SUFFICES ASSUME NEW f \in Event, jobs'[f] # NoJob
                 PROVE  worker'[jobs'[f]] # "unused" /\ event'[jobs'[f]] = f
      OBVIOUS
    <3>1. CASE f = e
      BY <2>4, <3>1
    <3>2. CASE f # e
      <4>1. jobs'[f] = jobs[f] /\ jobs[f] # NoJob
        BY <2>4, <3>2
      <4>2. jobs[f] \in Job \ {j} /\ worker[jobs[f]] # "unused" /\ event[jobs[f]] = f
        BY <2>5, <4>1
      <4>3. worker'[jobs[f]] = worker[jobs[f]] /\ event'[jobs[f]] = event[jobs[f]]
        BY <2>3, <4>2
      <4> QED
        BY <4>1, <4>2, <4>3
    <3> QED
      BY <3>1, <3>2
  <2> QED
    BY <2>2, <2>7, <2>8, <2>9 DEF IInv
<1>2. ASSUME NEW j \in Job, ThreadStarts(j) PROVE IInv'
  BY <1>2 DEF ThreadStarts
<1>3. ASSUME NEW j \in Job, NEW o \in Outcome, WorkReturns(j, o) PROVE IInv'
  BY <1>3 DEF WorkReturns
<1>4. ASSUME NEW j \in Job, WorkRaises(j) PROVE IInv'
  BY <1>4 DEF WorkRaises
<1>5. ASSUME NEW j \in Job, End(j) PROVE IInv'
  BY <1>5 DEF End
<1>6. ASSUME NEW E \in SUBSET Event, Take(E) PROVE IInv'
  <2>1. UNCHANGED <<jobs, event, worker, state, summary, held>>
    BY <1>6 DEF Take
  <2>2. \A i \in Job : seen'[i] => seen[i] \/ Finished(i)
    BY <1>6 DEF Take, Takeable
  <2> QED
    BY <2>1, <2>2
<1>7. ASSUME NEW r \in Request, NEW e \in Event, CancelFetch(r, e) PROVE IInv'
  BY <1>7 DEF CancelFetch
<1>8. ASSUME NEW r \in Request, CancelSet(r) PROVE IInv'
  BY <1>8 DEF CancelSet
<1>9. CASE UNCHANGED vars
  BY <1>9 DEF vars
<1> HIDE DEF TypeOK, IInv, RunningIsCurrent, Active, Finished
<1> QED
  BY <1>1, <1>2, <1>3, <1>4, <1>5, <1>6, <1>7, <1>8, <1>9
     DEF AnyNext, Next, Worker, Work, Canceller

LEMMA InvAlways == AnySpec => []IInv
<1>1. Init => IInv
  BY JobFacts DEF Init, IInv, RunningIsCurrent, Active, Finished, Outcome
<1> QED
  BY <1>1, InvInductive, TypesAlways, PTL DEF AnySpec

(* Whatever the number of threads, no event ever has two runs that have    *)
(* not ended.                                                              *)
LEMMA OneAlways == AnySpec => []OneRunPerEvent
<1>1. IInv => OneRunPerEvent
  BY DEF IInv, RunningIsCurrent, OneRunPerEvent
<1> QED
  BY <1>1, InvAlways, PTL

(* A page that sees a finished run finds its lines.                        *)
LEMMA SummaryAlways == AnySpec => []FinishedHasSummary
<1>1. IInv => FinishedHasSummary
  BY DEF IInv, FinishedHasSummary
<1> QED
  BY <1>1, InvAlways, PTL

(* The outcome and the lines of a finished run never change again.         *)
LEMMA FinalAlways == AnySpec => FinishedIsFinal
<1> DEFINE Kept == \A j \in Job : Finished(j) => state'[j] = state[j] /\ summary'[j] = summary[j]
<1>1. TypeOK /\ IInv /\ [AnyNext]_vars => [Kept]_vars
  <2> SUFFICES ASSUME TypeOK, IInv, [AnyNext]_vars PROVE Kept
    OBVIOUS
  <2> USE DEF TypeOK, IInv, Finished, Outcome
  <2>1. ASSUME NEW e \in Event, NEW j \in Job, Start(e, j) PROVE Kept
    BY <2>1 DEF Start, NextJob
  <2>2. ASSUME NEW j \in Job, Worker(j) PROVE Kept
    BY <2>2 DEF Worker, Work, ThreadStarts, WorkReturns, WorkRaises, End
  <2>3. ASSUME NEW E \in SUBSET Event, Take(E) PROVE Kept
    BY <2>3 DEF Take
  <2>4. ASSUME NEW r \in Request, Canceller(r) PROVE Kept
    BY <2>4 DEF Canceller, CancelFetch, CancelSet, jobVars
  <2>5. CASE UNCHANGED vars
    BY <2>5 DEF vars, jobVars
  <2> HIDE DEF TypeOK, IInv, Finished, Outcome, Kept
  <2> QED
    BY <2>1, <2>2, <2>3, <2>4, <2>5 DEF AnyNext, Next
<1> QED
  BY <1>1, TypesAlways, InvAlways, PTL DEF AnySpec, FinishedIsFinal

(* The registry with its threads implements RunLifecycle: to the pages an  *)
(* event goes from running to finished to shown, and back to running only  *)
(* when nothing runs.                                                      *)
LEMMA LifecycleAlways == AnySpec => Lifecycle!Spec
<1> DEFINE phase == [e \in Event |-> PhaseOf(e)]
<1>1. Init => Lifecycle!Init
  BY JobFacts DEF Init, Lifecycle!Init, PhaseOf
<1>2. TypeOK /\ IInv /\ [AnyNext]_vars => [Lifecycle!Next]_phase
  <2> SUFFICES ASSUME TypeOK, IInv, [AnyNext]_vars PROVE [Lifecycle!Next]_phase
    OBVIOUS
  <2> USE JobFacts DEF TypeOK, Outcome
  <2>1. ASSUME NEW e \in Event, NEW j \in Job, Start(e, j) PROVE Lifecycle!Begin(e)
    <3>1. \A f \in Event \ {e} : jobs[f] # j
      BY <2>1 DEF IInv, Start, NextJob
    <3>2. PhaseOf(e) # "running"
      BY <2>1 DEF Start, PhaseOf
    <3>3. \A f \in Event : phase'[f] = IF f = e THEN "running" ELSE phase[f]
      BY <2>1, <3>1 DEF Start, PhaseOf
    <3> QED
      BY <3>2, <3>3 DEF Lifecycle!Begin
  <2>2. ASSUME NEW j \in Job, ThreadStarts(j) \/ Work(j) PROVE UNCHANGED phase
    BY <2>2 DEF ThreadStarts, Work, WorkReturns, WorkRaises, PhaseOf
  <2>3. ASSUME NEW j \in Job, End(j) PROVE Lifecycle!Finish(event[j])
    <3>1. jobs[event[j]] = j /\ state[j] = "running" /\ event[j] \in Event /\ ~seen[j]
      BY <2>3 DEF End, IInv, RunningIsCurrent, Active, Finished
    <3>2. \A f \in Event : f # event[j] => jobs[f] # j
      BY DEF IInv
    <3>3. state'[j] \in Outcome /\ final[j] # "running"
      BY <2>3 DEF End
    <3> QED
      BY <2>3, <3>1, <3>2, <3>3 DEF End, PhaseOf, Lifecycle!Finish
  <2>4. ASSUME NEW E \in SUBSET Event, Take(E) PROVE \E F \in SUBSET Event : Lifecycle!Show(F)
    <3> DEFINE F == {e \in E : PhaseOf(e) = "finished"}
    <3>1. ASSUME NEW e \in Event, jobs[e] # NoJob
          PROVE  PhaseOf(e) = "finished" <=> Takeable(jobs[e])
      <4>1. jobs[e] \in Job /\ worker[jobs[e]] # "unused"
        BY <3>1 DEF IInv
      <4>2. state[jobs[e]] = "running" \/ Finished(jobs[e])
        <5>1. CASE Active(jobs[e])
          BY <4>1, <5>1 DEF IInv, RunningIsCurrent
        <5>2. CASE worker[jobs[e]] = "ended"
          BY <4>1, <5>2 DEF IInv
        <5> QED
          BY <4>1, <5>1, <5>2 DEF Active
      <4> QED
        BY <3>1, <4>1, <4>2 DEF PhaseOf, Takeable, Finished
    <3>2. ASSUME NEW e \in Event
          PROVE  phase'[e] = IF e \in F THEN "shown" ELSE phase[e]
      <4>1. CASE jobs[e] = NoJob
        BY <2>4, <4>1 DEF Take, PhaseOf
      <4>2. CASE jobs[e] # NoJob
        <5>1. jobs[e] \in Job /\ \A f \in Event : jobs[f] = jobs[e] => f = e
          BY <4>2 DEF IInv
        <5>2. seen'[jobs[e]] = (seen[jobs[e]] \/ (e \in E /\ Takeable(jobs[e])))
          BY <2>4, <5>1 DEF Take
        <5>3. jobs' = jobs /\ state' = state
          BY <2>4 DEF Take
        <5> QED
          BY <3>1, <4>2, <5>1, <5>2, <5>3 DEF PhaseOf, Takeable, Finished
      <4> QED
        BY <4>1, <4>2
    <3>3. \A e \in F : phase[e] = "finished"
      OBVIOUS
    <3>4. Lifecycle!Show(F)
      BY <3>2, <3>3 DEF Lifecycle!Show
    <3> QED
      BY <3>4
  <2>5. ASSUME NEW r \in Request, Canceller(r) PROVE UNCHANGED phase
    BY <2>5 DEF Canceller, CancelFetch, CancelSet, jobVars, PhaseOf
  <2>6. CASE UNCHANGED vars
    BY <2>6 DEF vars, jobVars, PhaseOf
  <2> HIDE DEF phase, TypeOK, Outcome
  <2>7. ASSUME NEW j \in Job, Worker(j) PROVE [Lifecycle!Next]_phase
    <3>1. CASE ThreadStarts(j) \/ Work(j)
      BY <2>2, <3>1
    <3>2. CASE End(j)
      <4>1. event[j] \in Event
        BY DEF TypeOK
      <4> QED
        BY <2>3, <3>2, <4>1 DEF Lifecycle!Next
    <3> QED
      BY <2>7, <3>1, <3>2 DEF Worker
  <2> QED
    BY <2>1, <2>4, <2>5, <2>6, <2>7 DEF AnyNext, Next, Lifecycle!Next
<1> QED
  BY <1>1, <1>2, TypesAlways, InvAlways, PTL DEF AnySpec, Lifecycle!Spec
-----------------------------------------------------------------------------
(* Every variable keeps its type in every behaviour of the registry.       *)
THEOREM TypeCorrect == Spec => []TypeOK
BY RegistryIsAny, TypesAlways, PTL

(* Whatever the number of threads, no event ever has two runs that have    *)
(* not ended.                                                              *)
THEOREM OneRun == Spec => []OneRunPerEvent
BY RegistryIsAny, OneAlways, PTL

(* A page that sees a finished run finds its lines.                        *)
THEOREM SummaryInPlace == Spec => []FinishedHasSummary
BY RegistryIsAny, SummaryAlways, PTL

(* The outcome and the lines of a finished run never change again.         *)
THEOREM Finality == Spec => FinishedIsFinal
BY RegistryIsAny, FinalAlways, PTL

(* The registry with its threads implements RunLifecycle: to the pages an  *)
(* event goes from running to finished to shown, and back to running only  *)
(* when nothing runs.                                                      *)
THEOREM Implements == Spec => Lifecycle!Spec
BY RegistryIsAny, LifecycleAlways, PTL

(* All of it holds with the pages: however many tabs are open, whatever    *)
(* events they show and whenever they load, poll, take summaries and press *)
(* start, the registry keeps its promises and implements RunLifecycle.     *)
THEOREM PagesKeepThePromise ==
  DashSpec => /\ [](TypeOK /\ OneRunPerEvent /\ FinishedHasSummary)
              /\ FinishedIsFinal
              /\ Lifecycle!Spec
BY PagesAreAny, TypesAlways, OneAlways, SummaryAlways, FinalAlways, LifecycleAlways, PTL

(* The state of every tab keeps its type.                                  *)
THEOREM TabTypes == DashSpec => []TabTypeOK
<1>1. DashInit => TabTypeOK
  BY DEF DashInit, TabTypeOK
<1>2. TabTypeOK /\ [DashNext]_allVars => TabTypeOK'
  <2> SUFFICES ASSUME TabTypeOK, [DashNext]_allVars PROVE TabTypeOK'
    OBVIOUS
  <2> USE DEF TabTypeOK
  <2>1. ASSUME UNCHANGED tabVars PROVE TabTypeOK'
    BY <2>1 DEF tabVars
  <2>2. ASSUME NEW t \in Tab, Script(t) PROVE TabTypeOK'
    <3>1. Running(t) \in SUBSET Event
      BY WatchesAssumption DEF Running
    <3> QED BY <2>2, <3>1 DEF Script, Load, Display, Poll
  <2>3. ASSUME NEW t \in Tab, NEW e \in Event, PressStart(t, e) PROVE TabTypeOK'
    BY <2>3 DEF PressStart
  <2>4. CASE UNCHANGED allVars
    BY <2>1, <2>4 DEF allVars
  <2> QED BY <2>1, <2>2, <2>3, <2>4 DEF DashNext
<1> QED BY <1>1, <1>2, PTL DEF DashSpec
=============================================================================
