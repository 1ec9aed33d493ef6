------------------------------ MODULE ReplayGuard ------------------------------
(***************************************************************************)
(* How vm1 decides whether a signed INITIATE may start a session: the      *)
(* checks of verify_initiate (version, timestamp window, the remaining     *)
(* fields, the signature) followed by ReplayCache::check_and_record.       *)
(*                                                                         *)
(* The two functions read the wall clock separately, with an RSA           *)
(* verification between the reads, so they are two actions here and the    *)
(* clock may advance between them.  The same signed INITIATE may reach vm1 *)
(* any number of times (issued payloads are never removed), and vm1 may be *)
(* restarted, which empties its in-memory cache.                           *)
(*                                                                         *)
(* Time is counted in abstract ticks of vm1's clock, which is assumed not  *)
(* to be set back while the process runs.  vm0's clock differs from it by  *)
(* one of Skews at the moment a payload is built.                          *)
(***************************************************************************)
EXTENDS Integers

CONSTANTS
    AuthIds,         \* the authorization_ids vm0 may draw
    MaxAge,          \* INITIATE_MAX_AGE_SECS
    MaxSkew,         \* how far in the future a timestamp may lie (10 s)
    Skews,           \* vm0's clock minus vm1's clock when a payload is built
    AkConfigured,    \* run_client found an expected vm0 AK public key
    MaxVerifyTicks,  \* bound: ticks between the two clock reads
    MaxTime,         \* bound: the last value of the clock
    MaxRestarts      \* bound: restarts of vm1

ASSUME WindowAssumption == MaxAge \in Nat /\ MaxSkew \in Nat
ASSUME SkewAssumption == Skews \subseteq Int
ASSUME AkAssumption == AkConfigured \in BOOLEAN
ASSUME BoundAssumption ==
    MaxVerifyTicks \in Nat /\ MaxTime \in Nat /\ MaxRestarts \in Nat

(***************************************************************************)
(* What is wrong with a payload besides its age: nothing, an AK that is    *)
(* not the expected one, or anything else (version, session TTL, field     *)
(* sizes, signature).                                                      *)
(***************************************************************************)
Faults == {"none", "ak", "other"}

InitiatePayload == [id : AuthIds, timestamp : Nat, fault : Faults]

(* vm1's last answer. *)
Replies == {"none", "InitiateAck", "InitiateRejected"}

CacheEntry == [id : AuthIds, at : Nat]
Acceptance == [id : AuthIds, at : Nat, boot : Nat]

VARIABLES
    now,        \* vm1's wall clock
    issued,     \* the INITIATE payloads vm0 signed and sent
    checking,   \* the verified INITIATE not yet looked up in the cache
    checkedAt,  \* when verify_initiate read the clock for it
    seen,       \* ReplayCache.seen
    reply,      \* vm1's last answer to an INITIATE
    boot,       \* how often vm1 has been restarted
    accepted    \* history: every acceptance of an INITIATE by vm1

vars == <<now, issued, checking, checkedAt, seen, reply, boot, accepted>>

TypeOK ==
    /\ now \in Nat
    /\ issued \subseteq InitiatePayload
    /\ checking \subseteq InitiatePayload
    /\ checkedAt \in Nat
    /\ seen \subseteq CacheEntry
    /\ reply \in Replies
    /\ boot \in Nat
    /\ accepted \subseteq Acceptance

Init ==
    /\ now = 0
    /\ issued = {}
    /\ checking = {}
    /\ checkedAt = 0
    /\ seen = {}
    /\ reply = "none"
    /\ boot = 0
    /\ accepted = {}

--------------------------------------------------------------------------------
(* verify_initiate lets payload p through when it reads the clock as t: a
   timestamp at most MaxSkew ahead of and at most MaxAge behind the clock,
   and no fault, where the AK counts only if vm1 knows which to expect. *)
verify_initiate(p, t) ==
    /\ p.timestamp <= t + MaxSkew
    /\ t <= p.timestamp + MaxAge
    /\ p.fault = "none" \/ (p.fault = "ak" /\ ~AkConfigured)

(* ReplayCache::prune: the entries kept when the clock reads t. *)
prune(entries, t) == {e \in entries : t - e.at <= MaxAge}

--------------------------------------------------------------------------------
(* Seeded fault: a clock behind the epoch is not noticed. *)
Issue_underflow(id, skew, fault) ==
    /\ \A m \in issued : m.id # id
    /\ issued' = issued \cup {[id |-> id, timestamp |-> now + skew, fault |-> fault]}
    /\ UNCHANGED <<now, checking, checkedAt, seen, reply, boot, accepted>>

(* vm0 builds, signs and sends a payload: a fresh authorization_id and its
   own clock.  A faulty one comes from a peer of another version, from
   another TPM, or was damaged. *)
Issue(id, skew, fault) ==
    /\ \A m \in issued : m.id # id
    /\ now + skew >= 0
    /\ issued' = issued \cup {[id |-> id, timestamp |-> now + skew, fault |-> fault]}
    /\ UNCHANGED <<now, checking, checkedAt, seen, reply, boot, accepted>>

(* An INITIATE reaches vm1, which serves one connection at a time, and
   verify_initiate lets it through. *)
VerifyOk(m) ==
    /\ checking = {}
    /\ verify_initiate(m, now)
    /\ checking' = {m}
    /\ checkedAt' = now
    /\ UNCHANGED <<now, issued, seen, reply, boot, accepted>>

(* verify_initiate rejects it: InitiateRejected is sent and the connection
   dropped; the cache is not touched. *)
VerifyRejected(m) ==
    /\ checking = {}
    /\ ~verify_initiate(m, now)
    /\ reply' = "InitiateRejected"
    /\ UNCHANGED <<now, issued, checking, checkedAt, seen, boot, accepted>>

(* check_and_record: prune with a new reading of the clock, then reject an
   id that is still cached ... *)
RejectReplay(m) ==
    /\ checking = {m}
    /\ \E e \in prune(seen, now) : e.id = m.id
    /\ seen' = prune(seen, now)
    /\ checking' = {}
    /\ reply' = "InitiateRejected"
    /\ UNCHANGED <<now, issued, checkedAt, boot, accepted>>

(* Seeded fault: the cache is filled but never consulted. *)
Accept_unchecked(m) ==
    /\ checking = {m}
    /\ seen' = prune(seen, now) \cup {[id |-> m.id, at |-> now]}
    /\ checking' = {}
    /\ reply' = "InitiateAck"
    /\ accepted' = accepted \cup {[id |-> m.id, at |-> now, boot |-> boot]}
    /\ UNCHANGED <<now, issued, checkedAt, boot>>

(* ... or record it, acknowledge it and go on to build the chain. *)
Accept(m) ==
    /\ checking = {m}
    /\ \A e \in prune(seen, now) : e.id # m.id
    /\ seen' = prune(seen, now) \cup {[id |-> m.id, at |-> now]}
    /\ checking' = {}
    /\ reply' = "InitiateAck"
    /\ accepted' = accepted \cup {[id |-> m.id, at |-> now, boot |-> boot]}
    /\ UNCHANGED <<now, issued, checkedAt, boot>>

(* The vm1 process is restarted: run_client starts from an empty cache. *)
Restart ==
    /\ boot < MaxRestarts
    /\ boot' = boot + 1
    /\ seen' = {}
    /\ checking' = {}
    /\ reply' = "none"
    /\ UNCHANGED <<now, issued, checkedAt, accepted>>

(* Time passes; verifying one INITIATE takes at most MaxVerifyTicks. *)
Tick ==
    /\ now < MaxTime
    /\ checking # {} => now < checkedAt + MaxVerifyTicks
    /\ now' = now + 1
    /\ UNCHANGED <<issued, checking, checkedAt, seen, reply, boot, accepted>>

Next ==
    \/ \E id \in AuthIds, skew \in Skews, fault \in Faults : Issue(id, skew, fault)
    \/ \E m \in issued : VerifyOk(m) \/ VerifyRejected(m)
    \/ \E m \in checking : RejectReplay(m) \/ Accept(m)
    \/ Restart
    \/ Tick

Spec == Init /\ [][Next]_vars

--------------------------------------------------------------------------------
(* The cache does its job for the length of the window it keeps: while vm1
   is not restarted, two acceptances of one authorization_id are more than
   INITIATE_MAX_AGE_SECS apart, whatever the clocks and delays do. *)
ReplaySpacing ==
    \A a, b \in accepted :
        (a.id = b.id /\ a.boot = b.boot /\ a.at < b.at) => b.at - a.at > MaxAge

(* An INITIATE starts a session only near the time vm0 stamped on it: not
   more than MaxSkew before, and not more than MaxAge plus the time the
   verification took after. *)
AcceptanceWindow ==
    \A a \in accepted : \E m \in issued :
        /\ m.id = a.id
        /\ m.timestamp - MaxSkew <= a.at
        /\ a.at <= m.timestamp + MaxAge + MaxVerifyTicks

(* One authorization, one session: an incarnation of vm1 accepts an
   authorization_id at most once ("Prevents replay of captured INITIATE
   payloads", orchestrator/mod.rs:198). *)
AtMostOnce ==
    \A a, b \in accepted : (a.id = b.id /\ a.boot = b.boot) => a = b
================================================================================
