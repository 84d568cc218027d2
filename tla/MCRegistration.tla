--------------------------- MODULE MCRegistration ---------------------------
(* An event of two LEDs, exported with both and with either, and a second  *)
(* event whose folder may get the file or the GUID of the first.           *)
EXTENDS Reports, TLC

CONSTANTS e1, e2, inner, outer, g1, g2, g3, f1, t1, t2, p1, p2, w, c1, c2, v

MCLed == {inner, outer}
MCEventOf == [l \in MCLed |-> e1]
MCRank == inner :> 1 @@ outer :> 2
MCFile(e, g, ls) == [event |-> e, guid |-> g, leds |-> ls, place |-> e, sound |-> TRUE]
First == MCFile(e1, g1, MCLed)
Outer == MCFile(e1, g2, {outer})
Again == MCFile(e1, g3, MCLed)
Own == MCFile(e2, g2, {})
Copied == Outer                        \* in the folder of e2 by mistake
Edited == [Outer EXCEPT !.place = e2]  \* and made to look as if it belonged there
Broken == [Own EXCEPT !.sound = FALSE]
MCConfig == {First, Outer, Again, Own, Edited, Broken}

MCRequests(a, b, p, q, x) ==
  t1 :> a @@ t2 :> b @@ p1 :> p @@ p2 :> q @@ w :> x @@ c1 :> x @@ c2 :> x @@ v :> x

MCScenario(other, left0, n, files, s) ==
  [cloud |-> e1 :> First @@ e2 :> other,
   left |-> left0,
   atOnce |-> n, exports |-> files, starts |-> s]

MCScenarios ==
  {MCScenario(Copied, MCRequests(5, 0, 2, 0, 0), 1, {Outer, Again}, 0), \* LEDs leave and return
   MCScenario(Own, MCRequests(2, 2, 0, 0, 0), 2, {Outer, Again}, 0),    \* two tabs register at once
   MCScenario(Own, MCRequests(1, 0, 1, 1, 0), 2, {}, 0),                \* two pages of one event
   MCScenario(Broken, MCRequests(3, 0, 1, 0, 0), 2, {Outer, Own}, 0),   \* a page while its event changes
   MCScenario(Edited, MCRequests(3, 0, 1, 0, 0), 1, {Outer}, 1),        \* a restart in between
   MCScenario(Broken, MCRequests(3, 0, 0, 0, 1), 1, {Outer}, 0)} \* checks while an event changes
=============================================================================
