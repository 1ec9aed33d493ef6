-------------------------- MODULE DualAuthorityProofs --------------------------
(***************************************************************************)
(* Proofs about DualAuthority, for any set of concurrent requests.         *)
(***************************************************************************)
EXTENDS DualAuthority, TLAPS

(* Type correctness of vm4's approval slot and of the handlers' channels. *)
THEOREM TypeCorrect == Spec => []TypeOK
<1>1. Init => TypeOK
  <2> SUFFICES ASSUME Init PROVE TypeOK
    OBVIOUS
  <2>1. loc \in [Handlers -> Locations] /\ chan \in [Handlers -> Channel]
    BY DEF Init, Locations, Channel
  <2>2. /\ answer \in [Handlers -> BOOLEAN]
        /\ reply \in [Handlers -> {"none", "approved", "denied"}]
        /\ locked \in BOOLEAN
    BY DEF Init
  <2> QED
    BY <2>1, <2>2 DEF Init, TypeOK
<1>2. TypeOK /\ [Next]_vars => TypeOK'
  <2> SUFFICES ASSUME TypeOK, [Next]_vars PROVE TypeOK'
    OBVIOUS
  <2> USE DEF TypeOK, Locations, Channel
  <2>1. ASSUME NEW h \in Handlers, Connect(h) PROVE TypeOK'
    BY <2>1 DEF Connect
  <2>2. ASSUME NEW h \in Handlers, ExchangeError(h) PROVE TypeOK'
    BY <2>2 DEF ExchangeError
  <2>3. ASSUME NEW h \in Handlers, NEW p \in BOOLEAN, NEW q \in BOOLEAN,
               Exchange(h, p, q)
        PROVE  TypeOK'
    BY <2>3 DEF Exchange
  <2>4. ASSUME NEW h \in Handlers, Store(h) PROVE TypeOK'
    BY <2>4 DEF Store, Resolve
  <2>5. ASSUME NEW h \in Handlers, Wake(h) PROVE TypeOK'
    BY <2>5 DEF Wake
  <2>6. ASSUME NEW h \in Handlers, Expire(h) PROVE TypeOK'
    BY <2>6 DEF Expire
  <2>7. ASSUME NEW h \in Handlers, Cleanup(h) PROVE TypeOK'
    BY <2>7 DEF Cleanup, Resolve
  <2>8. ASSUME NEW h \in Handlers, NEW d \in BOOLEAN, Reply(h, d) PROVE TypeOK'
    BY <2>8 DEF Reply, Decision
  <2>9. CASE CliAuthenticate
    BY <2>9 DEF CliAuthenticate
  <2>10. CASE CliApprove
    BY <2>10 DEF CliApprove, Resolve
  <2>11. CASE CliFail
    BY <2>11 DEF CliFail, Resolve
  <2>12. CASE CliRevoke
    BY <2>12 DEF CliRevoke, Resolve
  <2>13. CASE UNCHANGED vars
    BY <2>13 DEF vars
  <2> HIDE DEF TypeOK, Locations, Channel
  <2> QED
    BY <2>1, <2>2, <2>3, <2>4, <2>5, <2>6, <2>7, <2>8, <2>9, <2>10, <2>11,
       <2>12, <2>13
    DEF Next, Handler, Cli, Idle
<1> QED
  BY <1>1, <1>2, PTL DEF Spec

--------------------------------------------------------------------------------
(***************************************************************************)
(* The inductive invariant.  The slot holds at most one request; a request *)
(* is in the slot, granted or refused only after it was stored and is in   *)
(* at most one of the three; an open channel belongs to the waiting        *)
(* request in the slot; and TRUE travels from the operator's grant through *)
(* the channel and the handler's local to vm0.                             *)
(***************************************************************************)
Stored(h) == loc[h] \in {"waiting", "cleanup", "deciding", "done"}

SlotInv ==
    /\ \A g, h \in pending : g = h
    /\ \A h \in pending : Stored(h) /\ h \notin granted /\ h \notin refused
    /\ \A h \in granted \cup refused : Stored(h)
    /\ granted \cap refused = {}

OpenInv ==
    \A h \in Handlers : chan[h] = "open" => loc[h] = "waiting" /\ pending = {h}

GrantInv ==
    \A h \in Handlers :
        /\ chan[h] = "true" => h \in granted
        /\ answer[h] => chan[h] = "true"
        /\ reply[h] = "approved" => answer[h] /\ loc[h] = "done"
        /\ loc[h] = "waiting" => ~answer[h]
        /\ ~Stored(h) => chan[h] = "none"

IInv == SlotInv /\ OpenInv /\ GrantInv

(* The operator's commands keep the invariant: each empties the slot and
   puts the request it held into exactly one of granted and refused. *)
LEMMA CliKeepsIInv ==
  ASSUME TypeOK, IInv, CliApprove \/ CliFail \/ CliRevoke
  PROVE  IInv'
<1> USE DEF TypeOK, Locations, Channel, Stored
<1>1. SlotInv'
  BY DEF IInv, SlotInv, CliApprove, CliFail, CliRevoke
<1>2. OpenInv'
  BY DEF IInv, OpenInv, CliApprove, CliFail, CliRevoke, Resolve
<1>3. GrantInv'
  BY DEF IInv, SlotInv, OpenInv, GrantInv, CliApprove, CliFail, CliRevoke, Resolve
<1> QED
  BY <1>1, <1>2, <1>3 DEF IInv

(* Storing a request keeps it: the request it displaces is told so. *)
LEMMA StoreKeepsIInv ==
  ASSUME TypeOK, IInv, NEW h \in Handlers, Store(h)
  PROVE  IInv'
<1> USE DEF TypeOK, Locations, Channel, Stored
<1>1. SlotInv'
  BY DEF IInv, SlotInv, Store
<1>2. OpenInv'
  BY DEF IInv, OpenInv, Store, Resolve
<1>3. GrantInv'
  BY DEF IInv, SlotInv, OpenInv, GrantInv, Store, Resolve
<1> QED
  BY <1>1, <1>2, <1>3 DEF IInv

(* So does the clean-up after a timeout. *)
LEMMA CleanupKeepsIInv ==
  ASSUME TypeOK, IInv, NEW h \in Handlers, Cleanup(h)
  PROVE  IInv'
<1> USE DEF TypeOK, Locations, Channel, Stored
<1>1. SlotInv'
  BY DEF IInv, SlotInv, Cleanup
<1>2. OpenInv'
  BY DEF IInv, OpenInv, Cleanup, Resolve
<1>3. GrantInv'
  BY DEF IInv, SlotInv, OpenInv, GrantInv, Cleanup, Resolve
<1> QED
  BY <1>1, <1>2, <1>3 DEF IInv

(* Every step keeps the invariant. *)
LEMMA IInvHolds == Spec => []IInv
<1>1. Init => IInv
  BY DEF Init, IInv, SlotInv, OpenInv, GrantInv, Stored
<1>2. TypeOK /\ IInv /\ [Next]_vars => IInv'
  <2> SUFFICES ASSUME TypeOK, IInv, [Next]_vars PROVE IInv'
    OBVIOUS
  <2> USE DEF TypeOK, Locations, Channel, Stored, IInv, SlotInv, OpenInv, GrantInv
  <2>1. ASSUME NEW h \in Handlers, Connect(h) PROVE IInv'
    BY <2>1 DEF Connect
  <2>2. ASSUME NEW h \in Handlers, ExchangeError(h) PROVE IInv'
    BY <2>2 DEF ExchangeError
  <2>3. ASSUME NEW h \in Handlers, NEW p \in BOOLEAN, NEW q \in BOOLEAN,
               Exchange(h, p, q)
        PROVE  IInv'
    BY <2>3 DEF Exchange
  <2>4. ASSUME NEW h \in Handlers, Wake(h) PROVE IInv'
    BY <2>4 DEF Wake
  <2>5. ASSUME NEW h \in Handlers, Expire(h) PROVE IInv'
    BY <2>5 DEF Expire
  <2>6. ASSUME NEW h \in Handlers, NEW d \in BOOLEAN, Reply(h, d) PROVE IInv'
    BY <2>6 DEF Reply, Decision
  <2>7. CASE CliAuthenticate
    BY <2>7 DEF CliAuthenticate
  <2>8. CASE UNCHANGED vars
    BY <2>8 DEF vars
  <2> HIDE DEF TypeOK, Locations, Channel, Stored, IInv, SlotInv, OpenInv, GrantInv
  <2> QED
    BY <2>1, <2>2, <2>3, <2>4, <2>5, <2>6, <2>7, <2>8,
       CliKeepsIInv, StoreKeepsIInv, CleanupKeepsIInv
    DEF Next, Handler, Cli, Idle
<1> QED
  BY <1>1, <1>2, TypeCorrect, PTL DEF Spec

--------------------------------------------------------------------------------
(* For any number of overlapping requests, vm0 is told "approved" only for a
   request that operator B authenticated for and did not refuse. *)
THEOREM ApprovalHolds == Spec => []ApprovalIsOperators
<1>1. IInv => ApprovalIsOperators
  BY DEF IInv, SlotInv, GrantInv, ApprovalIsOperators
<1> QED
  BY <1>1, IInvHolds, PTL

(* For any number of overlapping requests, a handler that still waits is the
   one in vm4's slot. *)
THEOREM UndecidedHolds == Spec => []UndecidedIsPending
<1>1. IInv => UndecidedIsPending
  BY DEF IInv, OpenInv, UndecidedIsPending
<1> QED
  BY <1>1, IInvHolds, PTL

(* No step changes a channel that has been decided, closed or given up. *)
THEOREM FinalHolds == Spec => DecisionIsFinal
<1>1. TypeOK /\ IInv /\ [Next]_vars
        => [\A h \in Handlers :
              chan[h] \notin {"none", "open"} => chan'[h] = chan[h]]_vars
  <2> SUFFICES ASSUME TypeOK, IInv, Next,
                      NEW h \in Handlers, chan[h] \notin {"none", "open"}
               PROVE  chan'[h] = chan[h]
    OBVIOUS
  <2>1. ASSUME NEW g \in Handlers, Store(g) PROVE chan'[h] = chan[h]
    <3>1. h # g
      BY <2>1 DEF Store, IInv, GrantInv, Stored
    <3> QED
      BY <2>1, <3>1 DEF Store, Resolve, TypeOK
  <2>2. ASSUME NEW g \in Handlers, Expire(g) PROVE chan'[h] = chan[h]
    BY <2>2 DEF Expire, TypeOK
  <2>3. CASE CliApprove \/ CliFail \/ CliRevoke \/ \E g \in Handlers : Cleanup(g)
    BY <2>3 DEF CliApprove, CliFail, CliRevoke, Cleanup, Resolve, TypeOK
  <2> QED
    BY <2>1, <2>2, <2>3 DEF Next, Handler, Cli, Idle, vars, Connect, ExchangeError,
       Exchange, Wake, Reply, CliAuthenticate
<1> QED
  BY <1>1, TypeCorrect, IInvHolds, PTL DEF Spec, DecisionIsFinal
================================================================================
