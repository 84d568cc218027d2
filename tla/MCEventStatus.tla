--------------------------- MODULE MCEventStatus ---------------------------
(* A LED with a file, and one of another event that may be given the       *)
(* same folder.                                                            *)
EXTENDS EventStatus, TLC

CONSTANTS inner, outer, e1, e2, f1, f2, home

MCLed == {inner, outer}
MCFile == {<<inner, home>>}
MCRank == [f \in MCFile |-> 1]
MCEventOf == inner :> e1 @@ outer :> e2
MCChoices == inner :> {f1, f2} @@ outer :> {f2}
=============================================================================
