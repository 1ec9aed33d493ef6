---------------------------- MODULE OperatorSession ----------------------------
(***************************************************************************)
(* A session between the orchestrator vm0 and the verified client vm1:     *)
(* vm0's CLI loop (run_orchestrator, handle_authenticate), the heartbeat   *)
(* driver it spawns for every session (run_heartbeat_driver), and vm1's    *)
(* accept loop with its session loop (run_client,                          *)
(* handle_initiate_connection), joined by one TCP connection per session.  *)
(*                                                                         *)
(* Both loops are sequential: vm0 answers no CLI command while it          *)
(* authenticates, vm1 accepts no connection while it serves one.  The      *)
(* drivers run beside the CLI loop and share four atomics with it.         *)
(*                                                                         *)
(* Time is counted in ticks by count-down timers.  A timer that has run    *)
(* out is served before the next tick; a message may be delayed at will.   *)
(* The clocks of the two machines advance together.                        *)
(*                                                                         *)
(* Session number s is the s-th authorization_id vm0 draws.  Key exchange  *)
(* is part of accepting the connection.  What vm4 decides, whether vm1     *)
(* accepts the INITIATE (ReplayGuard) and how the chain of proxies and     *)
(* verifiers answers are inputs.                                           *)
(***************************************************************************)
EXTENDS Naturals, Sequences

CONSTANTS
    MaxSessions,    \* bound: Authenticate commands that get past the first check
    Ttls,           \* the session TTLs operators ask for, in ticks
    MinTtl, MaxTtl, \* the range of TTLs vm0 lets through (60 s, 1200 s)
    PingInterval,   \* ticks between heartbeats (60 s)
    ReplyTimeout,   \* ticks the driver waits for a HeartbeatResult (30 s)
    MaxCrashes      \* bound: crashes of vm0 and vm1 together

ASSUME TimerAssumption ==
    /\ PingInterval \in Nat \ {0}
    /\ ReplyTimeout \in Nat \ {0}
    /\ ReplyTimeout < PingInterval
ASSUME TtlAssumption == Ttls \subseteq Nat /\ MinTtl \in Nat \ {0} /\ MaxTtl \in Nat
ASSUME BoundAssumption == MaxSessions \in Nat /\ MaxCrashes \in Nat

Sessions == 1 .. MaxSessions
None == 0

VARIABLES
    auth,      \* handle_authenticate: where it is and for which session
    state,     \* session_state: the session that is Active, or None
    ttl,       \* session_ttl_secs of each session
    expiresIn, \* session_expiry minus the clock, stopping at 0
    flags,     \* the atomics shared with the driver of each session
    drv,       \* run_heartbeat_driver of each session
    conn,      \* the connection of each session
    vm1,       \* vm1's accept loop and the connection it serves
    begun,     \* history: the last session vm1 began to serve
    age,       \* history: ticks since three events, while the driver lives
    crashes    \* how many crashes have happened

vars == <<auth, state, ttl, expiresIn, flags, drv, conn, vm1, begun, age, crashes>>

ToVm1 == [type : {"AttestationRequest", "Initiate", "Revoke"}]
         \cup [type : {"HeartbeatPing"}, seq : Nat]
ToVm0 == [type : {"AttestationResponse", "InitiateAck", "InitiateRejected",
                  "SessionToken", "ChainFailed", "SessionEnded"}]
         \cup [type : {"HeartbeatResult"}, seq : Nat, ok : BOOLEAN]

Alive(s) == drv[s].loc \in {"top", "select", "await"}

TypeOK ==
    /\ auth \in [loc : {"idle", "vm4", "attest", "ack", "token"}, s : 0 .. MaxSessions]
    /\ state \in 0 .. MaxSessions
    /\ ttl \in [Sessions -> Nat]
    /\ expiresIn \in [Sessions -> Nat]
    /\ flags \in [Sessions -> [revoke : BOOLEAN, ended : BOOLEAN,
                               hbSeq : Nat, hbOk : BOOLEAN]]
    /\ drv \in [Sessions -> [loc : {"none", "top", "select", "await", "exited"},
                             left : Nat, ping : Nat, reply : Nat, seq : Nat]]
    /\ conn \in [Sessions -> [queued : BOOLEAN, open0 : BOOLEAN, open1 : BOOLEAN,
                              toVm1 : Seq(ToVm1), toVm0 : Seq(ToVm0)]]
    /\ vm1 \in [loc : {"accept", "attest", "initiate", "chain", "session", "heartbeat"},
                s : 0 .. MaxSessions, left : Nat, seq : Nat]
    /\ begun \in 0 .. MaxSessions
    /\ age \in [Sessions -> [start : Nat, revoke : Nat, ended : Nat]]
    /\ crashes \in Nat

Init ==
    /\ auth = [loc |-> "idle", s |-> None]
    /\ state = None
    /\ ttl = [s \in Sessions |-> 0]
    /\ expiresIn = [s \in Sessions |-> 0]
    /\ flags = [s \in Sessions |-> [revoke |-> FALSE, ended |-> FALSE,
                                    hbSeq |-> 0, hbOk |-> TRUE]]
    /\ drv = [s \in Sessions |-> [loc |-> "none", left |-> 0, ping |-> 0,
                                  reply |-> 0, seq |-> 0]]
    /\ conn = [s \in Sessions |-> [queued |-> FALSE, open0 |-> FALSE, open1 |-> FALSE,
                                   toVm1 |-> <<>>, toVm0 |-> <<>>]]
    /\ vm1 = [loc |-> "accept", s |-> None, left |-> 0, seq |-> 0]
    /\ begun = None
    /\ age = [s \in Sessions |-> [start |-> 0, revoke |-> 0, ended |-> 0]]
    /\ crashes = 0

--------------------------------------------------------------------------------
(* Connections.  An end that is dropped discards what it has not read; what
   the peer sent before it dropped can still be read. *)

Head1(s) == conn[s].toVm1 # <<>> /\ conn[s].open1
Head0(s) == conn[s].toVm0 # <<>> /\ conn[s].open0

(* recv_orch_message returns an error: everything is read and the peer is gone
   (a connection vm1 has not accepted yet is not gone). *)
Gone0(s) == conn[s].toVm1 = <<>> /\ ~conn[s].open0
Gone1(s) == conn[s].toVm0 = <<>> /\ ~conn[s].open1 /\ ~conn[s].queued

Send1(c, m) == IF c.open1 \/ c.queued THEN [c EXCEPT !.toVm1 = Append(@, m)] ELSE c
Send0(c, m) == IF c.open0 THEN [c EXCEPT !.toVm0 = Append(@, m)] ELSE c
Recv1(c) == [c EXCEPT !.toVm1 = Tail(@)]
Recv0(c) == [c EXCEPT !.toVm0 = Tail(@)]
Close0(c) == [c EXCEPT !.open0 = FALSE, !.toVm0 = <<>>]
Close1(c) == [c EXCEPT !.open1 = FALSE, !.toVm1 = <<>>]

--------------------------------------------------------------------------------
(* vm0: the CLI loop.  Commands that are refused, and Status, change nothing. *)

(* build_status_response: what Status reports as `active`. *)
StatusActive ==
    /\ state # None
    /\ ~flags[state].ended
    /\ expiresIn[state] > 0

(* Authenticate is let through: no session counts as active, the passphrases
   are right and the TTL is in range.  Operator B is asked next. *)
Authenticate(t) ==
    /\ auth.loc = "idle"
    /\ auth.s < MaxSessions
    /\ ~StatusActive
    /\ t \in MinTtl .. MaxTtl
    /\ auth' = [loc |-> "vm4", s |-> auth.s + 1]
    /\ ttl' = [ttl EXCEPT ![auth.s + 1] = t]
    /\ UNCHANGED <<state, expiresIn, flags, drv, conn, vm1, begun, age, crashes>>

(* handle_authenticate returns Denied and drops its connection. *)
Deny ==
    /\ auth' = [auth EXCEPT !.loc = "idle"]
    /\ UNCHANGED <<state, ttl, expiresIn, flags, drv, vm1, begun, age, crashes>>

(* vm4 refuses or cannot be reached. *)
Vm4Denies ==
    /\ auth.loc = "vm4"
    /\ Deny
    /\ UNCHANGED conn

(* vm4 agrees (or none is configured): connect to vm1 and ask for its
   attestation. *)
Vm4Approves ==
    /\ auth.loc = "vm4"
    /\ auth' = [auth EXCEPT !.loc = "attest"]
    /\ conn' = [conn EXCEPT ![auth.s] =
                  [queued |-> TRUE, open0 |-> TRUE, open1 |-> FALSE, toVm0 |-> <<>>,
                   toVm1 |-> <<[type |-> "AttestationRequest"]>>]]
    /\ UNCHANGED <<state, ttl, expiresIn, flags, drv, vm1, begun, age, crashes>>

(* vm1's attestation arrives and passes: sign and send the INITIATE. *)
RecvAttestation ==
    LET s == auth.s IN
    /\ auth.loc = "attest"
    /\ Head0(s)
    /\ Head(conn[s].toVm0).type = "AttestationResponse"
    /\ auth' = [auth EXCEPT !.loc = "ack"]
    /\ conn' = [conn EXCEPT ![s] = Send1(Recv0(@), [type |-> "Initiate"])]
    /\ UNCHANGED <<state, ttl, expiresIn, flags, drv, vm1, begun, age, crashes>>

(* Seeded fault: the session counts as active once the INITIATE is accepted. *)
RecvAck_activates ==
    LET s == auth.s IN
    /\ auth.loc = "ack"
    /\ Head0(s)
    /\ Head(conn[s].toVm0).type = "InitiateAck"
    /\ auth' = [auth EXCEPT !.loc = "token"]
    /\ state' = s
    /\ conn' = [conn EXCEPT ![s] = Recv0(@)]
    /\ UNCHANGED <<ttl, expiresIn, flags, drv, vm1, begun, age, crashes>>

RecvAck ==
    LET s == auth.s IN
    /\ auth.loc = "ack"
    /\ Head0(s)
    /\ Head(conn[s].toVm0).type = "InitiateAck"
    /\ auth' = [auth EXCEPT !.loc = "token"]
    /\ conn' = [conn EXCEPT ![s] = Recv0(@)]
    /\ UNCHANGED <<state, ttl, expiresIn, flags, drv, vm1, begun, age, crashes>>

(* The session token arrives: the session becomes the Active one, with fresh
   atomics, and its driver is spawned. *)
RecvToken ==
    LET s == auth.s IN
    /\ auth.loc = "token"
    /\ Head0(s)
    /\ Head(conn[s].toVm0).type = "SessionToken"
    /\ auth' = [auth EXCEPT !.loc = "idle"]
    /\ state' = s
    /\ flags' = [flags EXCEPT ![s] = [revoke |-> FALSE, ended |-> FALSE,
                                      hbSeq |-> 0, hbOk |-> TRUE]]
    /\ drv' = [drv EXCEPT ![s] = [loc |-> "top", left |-> ttl[s],
                                  ping |-> PingInterval, reply |-> 0, seq |-> 0]]
    /\ conn' = [conn EXCEPT ![s] = Recv0(@)]
    /\ UNCHANGED <<ttl, expiresIn, vm1, begun, age, crashes>>

(* A step fails: vm1's attestation does not pass, it rejects the INITIATE or
   its chain fails, or the connection is gone. *)
RecvDenied ==
    LET s == auth.s IN
    /\ auth.loc \in {"attest", "ack", "token"}
    /\ \/ Gone1(s)
       \/ /\ Head0(s)
          /\ Head(conn[s].toVm0).type
                \in (IF auth.loc = "attest" THEN {"AttestationResponse"}
                     ELSE {"InitiateRejected", "ChainFailed"})
    /\ Deny
    /\ conn' = [conn EXCEPT ![s] = Close0(@)]

(* Seeded fault: the session is forgotten while its driver still runs. *)
Revoke_forgets ==
    /\ auth.loc = "idle"
    /\ state # None
    /\ flags' = [flags EXCEPT ![state].revoke = TRUE]
    /\ state' = None
    /\ UNCHANGED <<auth, ttl, expiresIn, drv, conn, vm1, begun, age, crashes>>

(* Revoke of a session whose driver has ended forgets the session; otherwise
   it only raises the flag.  Either way the CLI answers "not active". *)
Revoke ==
    /\ auth.loc = "idle"
    /\ state # None
    /\ IF flags[state].ended
       THEN state' = None /\ UNCHANGED flags
       ELSE flags' = [flags EXCEPT ![state].revoke = TRUE] /\ UNCHANGED state
    /\ UNCHANGED <<auth, ttl, expiresIn, drv, conn, vm1, begun, age, crashes>>

--------------------------------------------------------------------------------
(* vm0: run_heartbeat_driver.  Its exit raises session_ended and drops the
   connection. *)
DriverExit(s, c) ==
    /\ drv' = [drv EXCEPT ![s] = [@ EXCEPT !.loc = "exited", !.left = 0,
                                           !.ping = 0, !.reply = 0]]
    /\ conn' = [conn EXCEPT ![s] = Close0(c)]
    /\ age' = [age EXCEPT ![s] = [start |-> 0, revoke |-> 0, ended |-> 0]]
    /\ UNCHANGED <<auth, state, ttl, expiresIn, vm1, begun, crashes>>

EndFlag(s) == flags' = [flags EXCEPT ![s].ended = TRUE]

(* Seeded fault: the early exit does not raise session_ended. *)
DriverRevoke_silent(s) ==
    /\ drv[s].loc = "top"
    /\ flags[s].revoke
    /\ DriverExit(s, Send1(conn[s], [type |-> "Revoke"]))
    /\ UNCHANGED flags

(* Top of the loop: a raised flag sends Revoke and ends the driver. *)
DriverRevoke(s) ==
    /\ drv[s].loc = "top"
    /\ flags[s].revoke
    /\ EndFlag(s)
    /\ DriverExit(s, Send1(conn[s], [type |-> "Revoke"]))

DriverSelect(s) ==
    /\ drv[s].loc = "top"
    /\ ~flags[s].revoke
    /\ drv' = [drv EXCEPT ![s].loc = "select"]
    /\ UNCHANGED <<auth, state, ttl, expiresIn, flags, conn, vm1, begun, age, crashes>>

(* The session's time is up. *)
DriverTtl(s) ==
    /\ drv[s].loc = "select"
    /\ drv[s].left = 0
    /\ EndFlag(s)
    /\ DriverExit(s, conn[s])

(* The ping timer ticks: send the next HeartbeatPing and wait for its result. *)
DriverPing(s) ==
    /\ drv[s].loc = "select"
    /\ drv[s].ping = 0
    /\ drv' = [drv EXCEPT ![s] = [@ EXCEPT !.loc = "await", !.seq = drv[s].seq + 1,
                                           !.ping = PingInterval,
                                           !.reply = ReplyTimeout]]
    /\ conn' = [conn EXCEPT ![s] =
                  Send1(@, [type |-> "HeartbeatPing", seq |-> drv[s].seq + 1])]
    /\ UNCHANGED <<auth, state, ttl, expiresIn, flags, vm1, begun, age, crashes>>

(* The ping cannot be sent. *)
DriverSendError(s) ==
    /\ drv[s].loc = "select"
    /\ drv[s].ping = 0
    /\ ~conn[s].open1
    /\ EndFlag(s)
    /\ DriverExit(s, conn[s])

(* Seeded fault: the flag is checked once, before the loop. *)
DriverResult_skipsFlag(s) ==
    LET m == Head(conn[s].toVm0) IN
    /\ drv[s].loc = "await"
    /\ Head0(s)
    /\ m.type = "HeartbeatResult"
    /\ m.ok
    /\ flags' = [flags EXCEPT ![s] = [@ EXCEPT !.hbSeq = m.seq, !.hbOk = TRUE]]
    /\ drv' = [drv EXCEPT ![s] = [@ EXCEPT !.loc = "select", !.reply = 0]]
    /\ conn' = [conn EXCEPT ![s] = Recv0(@)]
    /\ UNCHANGED <<auth, state, ttl, expiresIn, vm1, begun, age, crashes>>

(* A HeartbeatResult: publish it; go on if the chain was fine. *)
DriverResult(s) ==
    LET m == Head(conn[s].toVm0) IN
    /\ drv[s].loc = "await"
    /\ Head0(s)
    /\ m.type = "HeartbeatResult"
    /\ m.ok
    /\ flags' = [flags EXCEPT ![s] = [@ EXCEPT !.hbSeq = m.seq, !.hbOk = TRUE]]
    /\ drv' = [drv EXCEPT ![s] = [@ EXCEPT !.loc = "top", !.reply = 0]]
    /\ conn' = [conn EXCEPT ![s] = Recv0(@)]
    /\ UNCHANGED <<auth, state, ttl, expiresIn, vm1, begun, age, crashes>>

DriverFailure(s) ==
    LET m == Head(conn[s].toVm0) IN
    /\ drv[s].loc = "await"
    /\ Head0(s)
    /\ m.type = "HeartbeatResult"
    /\ ~m.ok
    /\ flags' = [flags EXCEPT ![s] = [@ EXCEPT !.hbSeq = m.seq, !.hbOk = FALSE,
                                               !.ended = TRUE]]
    /\ DriverExit(s, conn[s])

(* Seeded fault: after a timeout the driver goes on with the next ping. *)
DriverLost_retries(s) ==
    /\ drv[s].loc = "await"
    /\ drv[s].reply = 0
    /\ drv' = [drv EXCEPT ![s].loc = "top"]
    /\ UNCHANGED <<auth, state, ttl, expiresIn, flags, conn, vm1, begun, age, crashes>>

(* SessionEnded, a closed connection, or no answer in time. *)
DriverLost(s) ==
    /\ drv[s].loc = "await"
    /\ \/ Head0(s) /\ Head(conn[s].toVm0).type = "SessionEnded"
       \/ Gone1(s)
       \/ drv[s].reply = 0
    /\ EndFlag(s)
    /\ DriverExit(s, conn[s])

Driver(s) ==
    \/ DriverRevoke(s) \/ DriverSelect(s) \/ DriverTtl(s) \/ DriverPing(s)
    \/ DriverSendError(s) \/ DriverResult(s) \/ DriverFailure(s) \/ DriverLost(s)

--------------------------------------------------------------------------------
(* vm1: run_client and handle_initiate_connection *)

(* Back to accept, dropping connection c of the session just served. *)
Vm1Return(c) ==
    /\ vm1' = [loc |-> "accept", s |-> None, left |-> 0, seq |-> 0]
    /\ conn' = [conn EXCEPT ![vm1.s] = Close1(c)]
    /\ UNCHANGED <<auth, state, ttl, flags, drv, begun, age, crashes>>

(* Connections are accepted in the order they were made. *)
Vm1Accept(s) ==
    /\ vm1.loc = "accept"
    /\ conn[s].queued
    /\ \A r \in Sessions : conn[r].queued => s <= r
    /\ vm1' = [vm1 EXCEPT !.loc = "attest", !.s = s]
    /\ conn' = [conn EXCEPT ![s] = [@ EXCEPT !.queued = FALSE, !.open1 = TRUE]]
    /\ UNCHANGED <<auth, state, ttl, expiresIn, flags, drv, begun, age, crashes>>

Vm1Attest ==
    /\ vm1.loc = "attest"
    /\ Head1(vm1.s)
    /\ Head(conn[vm1.s].toVm1).type = "AttestationRequest"
    /\ vm1' = [vm1 EXCEPT !.loc = "initiate"]
    /\ conn' = [conn EXCEPT ![vm1.s] = Send0(Recv1(@), [type |-> "AttestationResponse"])]
    /\ UNCHANGED <<auth, state, ttl, expiresIn, flags, drv, begun, age, crashes>>

(* The INITIATE is accepted.  session_expiry is fixed here, before the chain
   is built. *)
Vm1Accepts ==
    /\ vm1.loc = "initiate"
    /\ Head1(vm1.s)
    /\ Head(conn[vm1.s].toVm1).type = "Initiate"
    /\ vm1' = [vm1 EXCEPT !.loc = "chain"]
    /\ expiresIn' = [expiresIn EXCEPT ![vm1.s] = ttl[vm1.s]]
    /\ conn' = [conn EXCEPT ![vm1.s] = Send0(Recv1(@), [type |-> "InitiateAck"])]
    /\ UNCHANGED <<auth, state, ttl, flags, drv, begun, age, crashes>>

Vm1Rejects ==
    /\ vm1.loc = "initiate"
    /\ Head1(vm1.s)
    /\ Head(conn[vm1.s].toVm1).type = "Initiate"
    /\ Vm1Return(Send0(conn[vm1.s], [type |-> "InitiateRejected"]))
    /\ UNCHANGED expiresIn

(* The handshake breaks off. *)
Vm1HandshakeError ==
    /\ vm1.loc \in {"attest", "initiate"}
    /\ Gone0(vm1.s)
    /\ Vm1Return(conn[vm1.s])
    /\ UNCHANGED expiresIn

(* The chain is established and authorized: the token goes to vm0 and vm1
   starts its own TTL timer. *)
Vm1ChainOk ==
    /\ vm1.loc = "chain"
    /\ vm1' = [vm1 EXCEPT !.loc = "session", !.left = ttl[vm1.s]]
    /\ conn' = [conn EXCEPT ![vm1.s] = Send0(@, [type |-> "SessionToken"])]
    /\ begun' = vm1.s
    /\ UNCHANGED <<auth, state, ttl, expiresIn, flags, drv, age, crashes>>

(* Seeded fault: the failure is not reported and the connection stays open. *)
Vm1ChainFails_silent ==
    /\ vm1.loc = "chain"
    /\ vm1' = [loc |-> "accept", s |-> None, left |-> 0, seq |-> 0]
    /\ UNCHANGED <<auth, state, ttl, expiresIn, flags, drv, conn, begun, age, crashes>>

(* The chain fails or is not authorized (a token that cannot be sent ends the
   connection the same way). *)
Vm1ChainFails ==
    /\ vm1.loc = "chain"
    /\ Vm1Return(Send0(conn[vm1.s], [type |-> "ChainFailed"]))
    /\ UNCHANGED expiresIn

(* Seeded fault: the tear-down waits until vm0 takes SessionEnded. *)
Vm1SessionEnds_waits ==
    /\ conn[vm1.s].open0
    /\ Vm1Return(Send0(conn[vm1.s], [type |-> "SessionEnded"]))
    /\ UNCHANGED expiresIn

(* The session loop is left: SessionEnded is sent if vm0 still listens. *)
Vm1SessionEnds ==
    /\ Vm1Return(Send0(conn[vm1.s], [type |-> "SessionEnded"]))
    /\ UNCHANGED expiresIn

Vm1Ttl ==
    /\ vm1.loc = "session"
    /\ vm1.left = 0
    /\ Vm1SessionEnds

(* A HeartbeatPing starts a round through the chain; the loop watches neither
   the TTL nor the connection until it is over. *)
Vm1Ping ==
    /\ vm1.loc = "session"
    /\ Head1(vm1.s)
    /\ Head(conn[vm1.s].toVm1).type = "HeartbeatPing"
    /\ vm1' = [vm1 EXCEPT !.loc = "heartbeat", !.seq = Head(conn[vm1.s].toVm1).seq]
    /\ conn' = [conn EXCEPT ![vm1.s] = Recv1(@)]
    /\ UNCHANGED <<auth, state, ttl, expiresIn, flags, drv, begun, age, crashes>>

Result(ok) == [type |-> "HeartbeatResult", seq |-> vm1.seq, ok |-> ok]

Vm1HeartbeatOk ==
    /\ vm1.loc = "heartbeat"
    /\ vm1' = [vm1 EXCEPT !.loc = "session", !.seq = 0]
    /\ conn' = [conn EXCEPT ![vm1.s] = Send0(@, Result(TRUE))]
    /\ UNCHANGED <<auth, state, ttl, expiresIn, flags, drv, begun, age, crashes>>

(* The chain reports a failure or breaks: tell vm0 and end the session (as
   when the result cannot be sent). *)
Vm1HeartbeatFails ==
    /\ vm1.loc = "heartbeat"
    /\ Vm1Return(Send0(Send0(conn[vm1.s], Result(FALSE)), [type |-> "SessionEnded"]))
    /\ UNCHANGED expiresIn

Vm1Revoked ==
    /\ vm1.loc = "session"
    /\ Head1(vm1.s)
    /\ Head(conn[vm1.s].toVm1).type = "Revoke"
    /\ Vm1SessionEnds

Vm1Disconnected ==
    /\ vm1.loc = "session"
    /\ Gone0(vm1.s)
    /\ Vm1SessionEnds

(* What vm1 does without waiting for the chain. *)
Vm1Local ==
    \/ \E s \in Sessions : Vm1Accept(s)
    \/ Vm1Attest \/ Vm1Accepts \/ Vm1Rejects \/ Vm1HandshakeError
    \/ Vm1Ttl \/ Vm1Ping \/ Vm1Revoked \/ Vm1Disconnected

(* What waits for the chain. *)
Vm1Chain == Vm1ChainOk \/ Vm1ChainFails \/ Vm1HeartbeatOk \/ Vm1HeartbeatFails

--------------------------------------------------------------------------------
(* Crashes: the process is gone, its connections close, it starts afresh. *)
Vm0Crash ==
    /\ crashes < MaxCrashes
    /\ crashes' = crashes + 1
    /\ auth' = [auth EXCEPT !.loc = "idle"]
    /\ state' = None
    /\ flags' = [s \in Sessions |-> IF Alive(s) THEN [flags[s] EXCEPT !.ended = TRUE]
                                    ELSE flags[s]]
    /\ drv' = [s \in Sessions |->
                 IF Alive(s) THEN [drv[s] EXCEPT !.loc = "exited", !.left = 0,
                                                 !.ping = 0, !.reply = 0]
                 ELSE drv[s]]
    /\ conn' = [s \in Sessions |-> Close0(conn[s])]
    /\ age' = [s \in Sessions |-> [start |-> 0, revoke |-> 0, ended |-> 0]]
    /\ UNCHANGED <<ttl, expiresIn, vm1, begun>>

(* The connections in vm1's backlog are lost too. *)
Vm1Crash ==
    /\ crashes < MaxCrashes
    /\ crashes' = crashes + 1
    /\ vm1' = [loc |-> "accept", s |-> None, left |-> 0, seq |-> 0]
    /\ conn' = [s \in Sessions |->
                  IF s = vm1.s \/ conn[s].queued
                  THEN Close1([conn[s] EXCEPT !.queued = FALSE])
                  ELSE conn[s]]
    /\ UNCHANGED <<auth, state, ttl, expiresIn, flags, drv, begun, age>>

--------------------------------------------------------------------------------
(* Time.  A tick waits for every step that is due now. *)
(* Seeded fault: the remaining time is not cut off at zero. *)
Down_wraps(n) == n - 1

Down(n) == IF n = 0 THEN 0 ELSE n - 1

Prompt ==
    /\ \A s \in Sessions :
        /\ drv[s].loc # "top"
        /\ drv[s].loc = "select" => drv[s].left > 0 /\ drv[s].ping > 0
        /\ drv[s].loc = "await" => drv[s].reply > 0
    /\ vm1.loc = "session" => vm1.left > 0

Tick ==
    /\ Prompt
    /\ expiresIn' = [s \in Sessions |-> Down(expiresIn[s])]
    /\ drv' = [s \in Sessions |-> [drv[s] EXCEPT !.left = Down(@), !.ping = Down(@),
                                                 !.reply = Down(@)]]
    /\ vm1' = [vm1 EXCEPT !.left = Down(@)]
    /\ age' = [s \in Sessions |->
                 IF Alive(s)
                 THEN [start  |-> age[s].start + 1,
                       revoke |-> IF flags[s].revoke THEN age[s].revoke + 1 ELSE 0,
                       ended  |-> IF vm1.s # s THEN age[s].ended + 1 ELSE 0]
                 ELSE age[s]]
    /\ UNCHANGED <<auth, state, ttl, flags, conn, begun, crashes>>

Vm0Auth == RecvAttestation \/ RecvAck \/ RecvToken \/ RecvDenied

Next ==
    \/ \E t \in Ttls : Authenticate(t)
    \/ Vm4Denies \/ Vm4Approves \/ Vm0Auth \/ Revoke
    \/ \E s \in Sessions : Driver(s)
    \/ Vm1Local \/ Vm1Chain
    \/ Vm0Crash \/ Vm1Crash
    \/ Tick

Spec == Init /\ [][Next]_vars

(* Runnable tasks run, due timers fire, TCP delivers or fails, and time goes
   on.  Nothing is assumed of the operators, of vm4 or of the chain. *)
Fairness ==
    /\ WF_vars(Tick)
    /\ WF_vars(Vm0Auth)
    /\ WF_vars(Vm1Local)
    /\ \A s \in Sessions : WF_vars(Driver(s))

FairSpec == Spec /\ Fairness

--------------------------------------------------------------------------------
ServedBy(s) == vm1.s = s /\ vm1.loc \in {"session", "heartbeat"}

(* The operator never loses control of a session: while vm1 serves it and its
   driver runs, it is the one Revoke applies to whenever vm0's command loop is
   free to take it, even though vm0 allows the next Authenticate as soon as
   session_expiry, fixed before the chain was built, has passed. *)
ServedIsRevocable ==
    \A s \in Sessions : ServedBy(s) /\ Alive(s) => state = s

(* A driver reads its flag and its connection only between heartbeats.  Still
   it notices a revocation, and that vm1 has ended the session, within one ping
   interval and one reply timeout, and it outlives its TTL by no more than the
   heartbeat that is under way when the TTL runs out. *)
DriverBounded ==
    \A s \in Sessions :
        /\ age[s].revoke <= PingInterval + ReplyTimeout
        /\ age[s].ended <= PingInterval + ReplyTimeout
        /\ Alive(s) => age[s].start <= ttl[s] + ReplyTimeout

(* The result the driver published last belongs to the ping it sent last,
   though it never compares the sequence numbers: no late result of an earlier
   ping is taken for the answer to a later one.  Once a failure is published,
   neither side carries the session on. *)
PublishedResult ==
    \A s \in Sessions :
        /\ drv[s].loc \in {"top", "select"} => flags[s].hbSeq = drv[s].seq
        /\ ~flags[s].hbOk => ~Alive(s) /\ vm1.s # s

--------------------------------------------------------------------------------
ChainBusy == vm1.loc \in {"chain", "heartbeat"}

(* A revoked session's driver ends, whatever vm1 and the chain do, and Status
   does not report the session as active any more. *)
RevokeEnds ==
    \A s \in Sessions :
        flags[s].revoke ~> flags[s].ended /\ ~(state = s /\ StatusActive)

(* If the chain always answers or fails eventually, vm1 stops serving a
   session whose driver has ended or whose vm0 has crashed. *)
ClientFollows ==
    ([]<>~ChainBusy) =>
        \A s \in Sessions : drv[s].loc = "exited" ~> vm1.s # s

(* Under the same condition an Authenticate that has got past vm4 returns, so
   that the CLI loop can take the next command. *)
AuthenticateReturns ==
    ([]<>~ChainBusy) =>
        (auth.loc \in {"attest", "ack", "token"} ~> auth.loc = "idle")

--------------------------------------------------------------------------------
(* The two machines implement the life cycle of SessionLifecycle. *)
Served == IF vm1.loc \in {"session", "heartbeat"} THEN vm1.s ELSE None

Lifecycle == INSTANCE SessionLifecycle WITH served <- Served, active <- state

(* vm1 never serves two sessions at once, never resumes a finished one, and
   vm0's Active session is always the latest that vm1 began. *)
ImplementsLifecycle == Lifecycle!Spec
================================================================================
