--------------------------- MODULE SessionLifecycle ---------------------------
(***************************************************************************)
(* What vm0 and vm1 together promise about sessions, whatever happens to   *)
(* their messages, timers and processes: vm1 serves one session at a time  *)
(* and each at most once, in the order vm0 authorized them; and the        *)
(* session vm0 takes for the active one is the latest that vm1 has begun.  *)
(***************************************************************************)
EXTENDS Naturals

CONSTANT MaxSessions

VARIABLES
    served,   \* the session vm1 serves, or 0
    begun,    \* the latest session vm1 has begun to serve, or 0
    active    \* the session vm0's commands apply to, or 0

vars == <<served, begun, active>>

Init == served = 0 /\ begun = 0 /\ active = 0

(* A session starts on vm1: a later one than every one before. *)
Begin(s) ==
    /\ served = 0
    /\ begun < s
    /\ served' = s
    /\ begun' = s
    /\ UNCHANGED active

(* vm1 stops serving. *)
Finish ==
    /\ served' = 0
    /\ UNCHANGED <<begun, active>>

(* vm0 learns that the latest session has begun; it may be over already. *)
Activate ==
    /\ active < begun
    /\ active' = begun
    /\ UNCHANGED <<served, begun>>

(* vm0 forgets its session. *)
Forget ==
    /\ active' = 0
    /\ UNCHANGED <<served, begun>>

Next == (\E s \in 1 .. MaxSessions : Begin(s)) \/ Finish \/ Activate \/ Forget

Spec == Init /\ [][Next]_vars
================================================================================
