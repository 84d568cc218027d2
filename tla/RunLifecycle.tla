---------------------------- MODULE RunLifecycle ----------------------------
(***************************************************************************)
(* What the job registry promises to the pages, per event and without any  *)
(* threads: an event is idle, has one run in progress, or has one finished *)
(* run whose summary is waiting or has been shown.  A run begins only when *)
(* none is in progress, and a summary is shown once.                       *)
(***************************************************************************)
CONSTANT Event

VARIABLE phase

Phase == {"idle", "running", "finished", "shown"}

TypeOK == phase \in [Event -> Phase]

Init == phase = [e \in Event |-> "idle"]

Begin(e) ==
  /\ phase[e] # "running"
  /\ phase' = [phase EXCEPT ![e] = "running"]

Finish(e) ==
  /\ phase[e] = "running"
  /\ phase' = [phase EXCEPT ![e] = "finished"]

(* One page shows every summary it takes at once (the dashboard), or that  *)
(* of one event.                                                           *)
Show(E) ==
  /\ \A e \in E : phase[e] = "finished"
  /\ phase' = [e \in Event |-> IF e \in E THEN "shown" ELSE phase[e]]

Next ==
  \/ \E e \in Event : Begin(e) \/ Finish(e)
  \/ \E E \in SUBSET Event : Show(E)

Spec == Init /\ [][Next]_phase

(* A run that began ends: nobody has to press anything for that.           *)
FairSpec == Spec /\ \A e \in Event : WF_phase(Finish(e))
=============================================================================
