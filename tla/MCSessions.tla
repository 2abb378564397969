----------------------------- MODULE MCSessions -----------------------------
(* Small instances of Sessions for TLC. *)
EXTENDS Sessions, TLC

CONSTANTS t1, t2

MCTabs == {t1, t2}
OneRestored == t1 :> Slots @@ t2 :> {"me"}
==============================================================================
