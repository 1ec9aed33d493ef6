----------------------------- MODULE MCLogForward -----------------------------
(* Bounds per source: vm2 writes and reconnects, vm3 is there to be compared. *)
EXTENDS LogForward
MCMaxEntries == [s \in Sources |-> IF s = "vm2" THEN 3 ELSE 1]
MCMaxConns   == [s \in Sources |-> IF s = "vm2" THEN 2 ELSE 1]
================================================================================
