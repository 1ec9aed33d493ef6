---------------------------- MODULE MCReplayGuard ----------------------------
(* Instances of ReplayGuard for TLC. *)
EXTENDS ReplayGuard

(* Clocks of vm0 relative to vm1: either way, and ahead. *)
AheadOrBehind == {-1, 0, 2}
Ahead == {1}

================================================================================
