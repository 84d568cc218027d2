----------------------------- MODULE MCDashboard -----------------------------
(* Two events on a dashboard, and one of them on its Change Log page.      *)
EXTENDS Dashboard, TLC

CONSTANTS dash, changeLog, e1, e2

MCEvent == {e1, e2}
MCTab == {dash, changeLog}
MCWatches == dash :> MCEvent @@ changeLog :> {e1}
=============================================================================
