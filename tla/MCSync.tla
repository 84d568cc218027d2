------------------------------- MODULE MCSync -------------------------------
(* Two LEDs, of one event or of two, with files of the same name.          *)
EXTENDS Sync, TLC

CONSTANTS inner, outer, e1, e2, f1, f2, f3, home, logo

MCLed == {inner, outer}
MCPair == {<<inner, home>>, <<outer, home>>}
MCFile == MCPair \cup {<<inner, logo>>}
MCRank == [f \in MCFile |-> CASE f = <<inner, home>> -> 1 [] f = <<inner, logo>> -> 2 [] OTHER -> 3]
MCPairRank == [f \in MCPair |-> IF f[1] = inner THEN 1 ELSE 2]
MCOneEvent == [l \in MCLed |-> e1]
MCTwoEvents == inner :> e1 @@ outer :> e2
MCShared == inner :> {f1, f2} @@ outer :> {f2, f3}
MCSwap == [l \in MCLed |-> {f1, f2}]
=============================================================================
