--------------------------- MODULE ReplayGuardProofs ---------------------------
(***************************************************************************)
(* Proofs about ReplayGuard, for every value of its constants.             *)
(***************************************************************************)
EXTENDS ReplayGuard, TLAPS

(* Type correctness of the model of verify_initiate and check_and_record. *)
THEOREM TypeCorrect == Spec => []TypeOK
<1> USE WindowAssumption, SkewAssumption, AkAssumption, BoundAssumption
<1>1. Init => TypeOK
  BY DEF Init, TypeOK, Replies
<1>2. TypeOK /\ [Next]_vars => TypeOK'
  <2> SUFFICES ASSUME TypeOK, [Next]_vars PROVE TypeOK'
    OBVIOUS
  <2> USE DEF TypeOK, Replies
  <2>1. ASSUME NEW id \in AuthIds, NEW skew \in Skews, NEW fault \in Faults,
               Issue(id, skew, fault)
        PROVE  TypeOK'
    <3>1. [id |-> id, timestamp |-> now + skew, fault |-> fault] \in InitiatePayload
      BY <2>1 DEF Issue, InitiatePayload
    <3> QED
      BY <2>1, <3>1 DEF Issue
  <2>2. ASSUME NEW m \in issued, VerifyOk(m) PROVE TypeOK'
    BY <2>2 DEF VerifyOk
  <2>3. ASSUME NEW m \in issued, VerifyRejected(m) PROVE TypeOK'
    BY <2>3 DEF VerifyRejected
  <2>4. ASSUME NEW m \in checking, RejectReplay(m) PROVE TypeOK'
    BY <2>4 DEF RejectReplay, prune
  <2>5. ASSUME NEW m \in checking, Accept(m) PROVE TypeOK'
    <3>1. /\ [id |-> m.id, at |-> now] \in CacheEntry
          /\ [id |-> m.id, at |-> now, boot |-> boot] \in Acceptance
      BY DEF CacheEntry, Acceptance, InitiatePayload
    <3> QED
      BY <2>5, <3>1 DEF Accept, prune
  <2>6. CASE Restart
    BY <2>6 DEF Restart
  <2>7. CASE Tick
    BY <2>7 DEF Tick
  <2>8. CASE UNCHANGED vars
    BY <2>8 DEF vars
  <2> QED
    BY <2>1, <2>2, <2>3, <2>4, <2>5, <2>6, <2>7, <2>8 DEF Next
<1> QED
  BY <1>1, <1>2, PTL DEF Spec

--------------------------------------------------------------------------------
(***************************************************************************)
(* The strengthening of ReplaySpacing.  Acceptances are in the past and of *)
(* past incarnations or this one; and one made by this incarnation is      *)
(* still cached unless it is older than the window.                        *)
(***************************************************************************)
AcceptedInPast ==
    \A a \in accepted : a.at <= now /\ a.boot <= boot

Retained ==
    \A a \in accepted :
        a.boot = boot => \/ [id |-> a.id, at |-> a.at] \in seen
                         \/ now - a.at > MaxAge

SpacingInv == AcceptedInPast /\ Retained /\ ReplaySpacing

(* An id that check_and_record finds fresh was last accepted by this
   incarnation more than MaxAge ago. *)
LEMMA FreshMeansOld ==
  ASSUME TypeOK, Retained, NEW m, \A e \in prune(seen, now) : e.id # m.id,
         NEW a \in accepted, a.boot = boot, a.id = m.id
  PROVE  now - a.at > MaxAge
<1>1. a \in Acceptance
  BY DEF TypeOK
<1>2. CASE [id |-> a.id, at |-> a.at] \in seen
  <2>1. [id |-> a.id, at |-> a.at] \notin prune(seen, now)
    OBVIOUS
  <2>2. ~(now - a.at <= MaxAge)
    BY <1>2, <2>1 DEF prune
  <2> QED
    BY <1>1, <2>2, WindowAssumption DEF TypeOK, Acceptance
<1> QED
  BY <1>2 DEF Retained

(* check_and_record keeps the strengthened form. *)
LEMMA SpacingInvariant == Spec => []SpacingInv
<1> USE WindowAssumption, BoundAssumption
<1>1. Init => SpacingInv
  BY DEF Init, SpacingInv, AcceptedInPast, Retained, ReplaySpacing
<1>2. TypeOK /\ SpacingInv /\ [Next]_vars => SpacingInv'
  <2> SUFFICES ASSUME TypeOK, SpacingInv, [Next]_vars PROVE SpacingInv'
    OBVIOUS
  <2>0. accepted \subseteq Acceptance /\ now \in Nat /\ boot \in Nat
    BY DEF TypeOK
  <2>1. ASSUME UNCHANGED <<now, boot, seen, accepted>>
        PROVE  SpacingInv'
    BY <2>1 DEF SpacingInv, AcceptedInPast, Retained, ReplaySpacing
  <2>2. ASSUME NEW m \in checking, RejectReplay(m) PROVE SpacingInv'
    <3>1. Retained'
      BY <2>0, <2>2 DEF RejectReplay, SpacingInv, Retained, prune, Acceptance
    <3> QED
      BY <2>2, <3>1 DEF RejectReplay, SpacingInv, AcceptedInPast, ReplaySpacing
  <2>3. ASSUME NEW m \in checking, Accept(m) PROVE SpacingInv'
    <3> DEFINE new == [id |-> m.id, at |-> now, boot |-> boot]
    <3>1. /\ accepted' = accepted \cup {new}
          /\ UNCHANGED <<now, boot>>
          /\ seen' = prune(seen, now) \cup {[id |-> m.id, at |-> now]}
      BY <2>3 DEF Accept
    <3>2. AcceptedInPast'
      BY <2>0, <3>1 DEF SpacingInv, AcceptedInPast
    <3>3. Retained'
      BY <2>0, <3>1 DEF SpacingInv, Retained, prune, Acceptance
    <3>4. ReplaySpacing'
      <4>1. ASSUME NEW a \in accepted, a.id = m.id, a.boot = boot
            PROVE  now - a.at > MaxAge
        BY <2>3, <4>1, FreshMeansOld DEF Accept, SpacingInv
      <4>2. ASSUME NEW a \in accepted', NEW b \in accepted',
                   a.id = b.id, a.boot = b.boot, a.at < b.at
            PROVE  b.at - a.at > MaxAge
        <5>1. CASE a \in accepted /\ b \in accepted
          BY <5>1, <4>2 DEF SpacingInv, ReplaySpacing
        <5>2. CASE a \in accepted /\ b = new
          BY <5>2, <4>1, <4>2
        <5>3. CASE a = new
          BY <5>3, <4>2, <3>1, <3>2, <2>0 DEF AcceptedInPast, Acceptance
        <5> QED
          BY <3>1, <4>2, <5>1, <5>2, <5>3
      <4> QED
        BY <4>2 DEF ReplaySpacing
    <3> QED
      BY <3>2, <3>3, <3>4 DEF SpacingInv
  <2>4. CASE Restart
    <3>1. UNCHANGED <<now, accepted>> /\ boot' = boot + 1
      BY <2>4 DEF Restart
    <3>2. \A a \in accepted : a.boot \in Nat /\ a.boot <= boot
      BY <2>0 DEF SpacingInv, AcceptedInPast, Acceptance
    <3> QED
      BY <2>0, <3>1, <3>2 DEF SpacingInv, AcceptedInPast, Retained, ReplaySpacing
  <2>5. CASE Tick
    <3>1. UNCHANGED <<boot, seen, accepted>> /\ now' = now + 1
      BY <2>5 DEF Tick
    <3> QED
      BY <2>0, <3>1 DEF SpacingInv, AcceptedInPast, Retained, ReplaySpacing, Acceptance
  <2> QED
    BY <2>1, <2>2, <2>3, <2>4, <2>5
    DEF Next, Issue, VerifyOk, VerifyRejected, vars
<1> QED
  BY <1>1, <1>2, TypeCorrect, PTL DEF Spec

(* While vm1 runs, two acceptances of one authorization_id by
   check_and_record are more than INITIATE_MAX_AGE_SECS apart, for every
   window, every clock skew and every verification delay. *)
THEOREM SpacingHolds == Spec => []ReplaySpacing
<1>1. SpacingInv => ReplaySpacing
  BY DEF SpacingInv
<1> QED
  BY <1>1, SpacingInvariant, PTL

--------------------------------------------------------------------------------
(***************************************************************************)
(* The strengthening of AcceptanceWindow: what verify_initiate established *)
(* about the payload being checked still holds, up to the time that has    *)
(* passed since it read the clock.                                         *)
(***************************************************************************)
CheckingInv ==
    \A m \in checking :
        /\ m \in issued
        /\ m.timestamp - MaxSkew <= checkedAt
        /\ checkedAt <= m.timestamp + MaxAge
        /\ checkedAt <= now
        /\ now <= checkedAt + MaxVerifyTicks

WindowInv == CheckingInv /\ AcceptanceWindow

(* verify_initiate and check_and_record keep the strengthened form. *)
LEMMA WindowInvariant == Spec => []WindowInv
<1> USE WindowAssumption, BoundAssumption
<1>1. Init => WindowInv
  BY DEF Init, WindowInv, CheckingInv, AcceptanceWindow
<1>2. TypeOK /\ WindowInv /\ [Next]_vars => WindowInv'
  <2> SUFFICES ASSUME TypeOK, WindowInv, [Next]_vars PROVE WindowInv'
    OBVIOUS
  <2>0. /\ issued \subseteq InitiatePayload /\ checking \subseteq InitiatePayload
        /\ accepted \subseteq Acceptance
        /\ now \in Nat /\ checkedAt \in Nat
    BY DEF TypeOK
  <2>1. ASSUME NEW id \in AuthIds, NEW skew \in Skews, NEW fault \in Faults,
               Issue(id, skew, fault)
        PROVE  WindowInv'
    BY <2>1 DEF Issue, WindowInv, CheckingInv, AcceptanceWindow
  <2>2. ASSUME NEW m \in issued, VerifyOk(m) PROVE WindowInv'
    <3>1. CheckingInv'
      BY <2>0, <2>2 DEF VerifyOk, verify_initiate, CheckingInv, InitiatePayload
    <3> QED
      BY <2>2, <3>1 DEF VerifyOk, WindowInv, AcceptanceWindow
  <2>3. ASSUME NEW m \in issued, VerifyRejected(m) PROVE WindowInv'
    BY <2>3 DEF VerifyRejected, WindowInv, CheckingInv, AcceptanceWindow
  <2>4. ASSUME NEW m \in checking, RejectReplay(m) PROVE WindowInv'
    BY <2>4 DEF RejectReplay, WindowInv, CheckingInv, AcceptanceWindow
  <2>5. ASSUME NEW m \in checking, Accept(m) PROVE WindowInv'
    <3>1. /\ checking' = {} /\ issued' = issued
          /\ accepted' = accepted \cup {[id |-> m.id, at |-> now, boot |-> boot]}
      BY <2>5 DEF Accept
    <3>2. /\ m \in issued
          /\ m.timestamp - MaxSkew <= now
          /\ now <= m.timestamp + MaxAge + MaxVerifyTicks
      BY <2>0 DEF WindowInv, CheckingInv, InitiatePayload
    <3>3. ASSUME NEW a \in accepted'
          PROVE  \E n \in issued' :
                    /\ n.id = a.id
                    /\ n.timestamp - MaxSkew <= a.at
                    /\ a.at <= n.timestamp + MaxAge + MaxVerifyTicks
      <4>1. CASE a \in accepted
        BY <4>1, <3>1 DEF WindowInv, AcceptanceWindow
      <4>2. CASE a = [id |-> m.id, at |-> now, boot |-> boot]
        BY <4>2, <3>1, <3>2
      <4> QED
        BY <3>1, <3>3, <4>1, <4>2
    <3> QED
      BY <3>1, <3>3 DEF WindowInv, CheckingInv, AcceptanceWindow
  <2>6. CASE Restart
    BY <2>6 DEF Restart, WindowInv, CheckingInv, AcceptanceWindow
  <2>7. CASE Tick
    <3>1. CheckingInv'
      BY <2>0, <2>7 DEF Tick, WindowInv, CheckingInv, InitiatePayload
    <3> QED
      BY <2>7, <3>1 DEF Tick, WindowInv, AcceptanceWindow
  <2>8. CASE UNCHANGED vars
    BY <2>8 DEF vars, WindowInv, CheckingInv, AcceptanceWindow
  <2> QED
    BY <2>1, <2>2, <2>3, <2>4, <2>5, <2>6, <2>7, <2>8 DEF Next
<1> QED
  BY <1>1, <1>2, TypeCorrect, PTL DEF Spec

(* Whenever vm1 accepts an INITIATE, the time lies within the window around
   the timestamp vm0 put on it that verify_initiate allows, stretched by the
   time the verification takes. *)
THEOREM WindowHolds == Spec => []AcceptanceWindow
<1>1. WindowInv => AcceptanceWindow
  BY DEF WindowInv
<1> QED
  BY <1>1, WindowInvariant, PTL

--------------------------------------------------------------------------------
(***************************************************************************)
(* At most one acceptance, when vm0's clock is never ahead of vm1's and    *)
(* verification takes no time.  Both conditions are needed: each extends   *)
(* the life of the payload beyond the life of its cache entry.             *)
(***************************************************************************)
IssuedOnce == \A m, n \in issued : m.id = n.id => m = n

StampedInPast == \A m \in issued : m.timestamp <= now

AcceptedAfterStamp ==
    \A a \in accepted, m \in issued : a.id = m.id => m.timestamp <= a.at

OnceInv == IssuedOnce /\ StampedInPast /\ AcceptedAfterStamp /\ AtMostOnce

(* With vm0's clock not ahead and an instantaneous verification, the cache
   of check_and_record outlives every payload it holds, so an incarnation of
   vm1 never accepts an authorization_id twice. *)
THEOREM OnceWhenInSync ==
  ASSUME \A s \in Skews : s <= 0, MaxVerifyTicks = 0
  PROVE  Spec => []AtMostOnce
<1> USE WindowAssumption, BoundAssumption
<1>1. Init => OnceInv
  BY DEF Init, OnceInv, IssuedOnce, StampedInPast, AcceptedAfterStamp, AtMostOnce
<1>2. TypeOK /\ SpacingInv /\ WindowInv /\ OnceInv /\ [Next]_vars => OnceInv'
  <2> SUFFICES ASSUME TypeOK, SpacingInv, WindowInv, OnceInv, [Next]_vars
               PROVE  OnceInv'
    OBVIOUS
  <2>0. /\ issued \subseteq InitiatePayload
        /\ accepted \subseteq Acceptance
        /\ now \in Nat /\ checkedAt \in Nat
    BY DEF TypeOK
  <2>1. ASSUME UNCHANGED <<issued, now, accepted>> PROVE OnceInv'
    BY <2>1 DEF OnceInv, IssuedOnce, StampedInPast, AcceptedAfterStamp, AtMostOnce
  <2>2. ASSUME NEW id \in AuthIds, NEW skew \in Skews, NEW fault \in Faults,
               Issue(id, skew, fault)
        PROVE  OnceInv'
    <3> DEFINE new == [id |-> id, timestamp |-> now + skew, fault |-> fault]
    <3>1. /\ issued' = issued \cup {new} /\ UNCHANGED <<now, accepted>>
          /\ \A m \in issued : m.id # id
      BY <2>2 DEF Issue
    <3>2. IssuedOnce'
      BY <3>1 DEF OnceInv, IssuedOnce
    <3>3. StampedInPast'
      BY <2>0, <3>1, SkewAssumption DEF OnceInv, StampedInPast
    <3>4. \A a \in accepted : a.id # id
      BY <3>1 DEF WindowInv, AcceptanceWindow
    <3>5. AcceptedAfterStamp'
      BY <3>1, <3>4 DEF OnceInv, AcceptedAfterStamp
    <3> QED
      BY <3>1, <3>2, <3>3, <3>5 DEF OnceInv, AtMostOnce
  <2>3. ASSUME NEW m \in checking, Accept(m) PROVE OnceInv'
    <3> DEFINE new == [id |-> m.id, at |-> now, boot |-> boot]
    <3>1. /\ accepted' = accepted \cup {new} /\ UNCHANGED <<now, issued>>
      BY <2>3 DEF Accept
    <3>2. /\ m \in issued /\ m \in InitiatePayload
          /\ m.timestamp <= now /\ now <= m.timestamp + MaxAge
      BY <2>0 DEF WindowInv, CheckingInv, OnceInv, StampedInPast, InitiatePayload
    <3>3. ASSUME NEW a \in accepted, a.id = m.id, a.boot = boot
          PROVE  FALSE
      <4>1. now - a.at > MaxAge
        BY <2>3, <3>3, FreshMeansOld DEF Accept, SpacingInv
      <4>2. m.timestamp <= a.at
        BY <3>2, <3>3 DEF OnceInv, AcceptedAfterStamp
      <4> QED
        BY <2>0, <3>2, <4>1, <4>2 DEF Acceptance, InitiatePayload
    <3>4. AtMostOnce'
      BY <3>1, <3>3 DEF OnceInv, AtMostOnce
    <3>5. AcceptedAfterStamp'
      <4>1. ASSUME NEW n \in issued, n.id = m.id PROVE n.timestamp <= now
        BY <4>1 DEF OnceInv, StampedInPast
      <4> QED
        BY <3>1, <4>1 DEF OnceInv, AcceptedAfterStamp
    <3> QED
      BY <3>1, <3>4, <3>5 DEF OnceInv, IssuedOnce, StampedInPast
  <2>4. CASE Tick
    <3>1. UNCHANGED <<issued, accepted>> /\ now' = now + 1
      BY <2>4 DEF Tick
    <3> QED
      BY <2>0, <3>1 DEF OnceInv, IssuedOnce, StampedInPast, AcceptedAfterStamp,
                        AtMostOnce, InitiatePayload
  <2> QED
    BY <2>1, <2>2, <2>3, <2>4
    DEF Next, VerifyOk, VerifyRejected, RejectReplay, Restart, vars
<1>3. OnceInv => AtMostOnce
  BY DEF OnceInv
<1> QED
  BY <1>1, <1>2, <1>3, TypeCorrect, SpacingInvariant, WindowInvariant, PTL DEF Spec
================================================================================
