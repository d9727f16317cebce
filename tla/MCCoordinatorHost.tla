--------------------------- MODULE MCCoordinatorHost ---------------------------
(* TLC instance of CoordinatorHost: two jobs, so that a recovery cycle has a middle; two   *)
(* failures open the breaker, and the clock outlasts its window.                           *)
EXTENDS CoordinatorHost
================================================================================
