------------------------- MODULE OperatorSessionProofs -------------------------
(******************************************************************************)
(* Proofs about OperatorSession: for any number of sessions, any ttls and any *)
(* timeouts, the driver is bounded, a published result is current, the        *)
(* operator keeps control of what vm1 serves, and the two machines together   *)
(* implement SessionLifecycle.                                                *)
(*                                                                            *)
(* The invariant ties the five places a session is in (the command loop, the  *)
(* driver, the two directions of the connection, vm1) to each other: which    *)
(* end is open (Ends), that one heartbeat is under way at a time and carries  *)
(* one number (Lockstep), and how the ages that DriverBounded bounds are      *)
(* weighed against the driver's countdowns, which is what makes the bounds    *)
(* inductive (the timers).                                                    *)
(******************************************************************************)
EXTENDS OperatorSession, SequenceTheorems, TLAPS

(* Messages of a queue. *)
Free(q, type) == \A i \in 1 .. Len(q) : q[i].type # type

(* At most one message of a type is under way. *)
Once(q, type) == \A i, j \in 1 .. Len(q) : q[i].type = type /\ q[j].type = type => i = j

(* The messages of a type all carry one sequence number. *)
Numbered(q, type, n) == \A i \in 1 .. Len(q) : q[i].type = type => q[i].seq = n

(* No failed heartbeat result is under way. *)
NoFailure(q) == \A i \in 1 .. Len(q) : q[i].type = "HeartbeatResult" => q[i].ok

(* The two messages of a heartbeat. *)
Ping == "HeartbeatPing"
Answer == "HeartbeatResult"

(* vm1 runs the chain for a ping of session s. *)
InHeartbeat(s) == vm1.s = s /\ vm1.loc = "heartbeat"

(* vm0's authenticate command holds the connection of session s. *)
Connecting(s) == s = auth.s /\ auth.loc \in {"attest", "ack", "token"}

(* Which machine is where. *)
Places ==
    /\ vm1.loc = "accept" <=> vm1.s = 0
    /\ vm1.s <= auth.s /\ begun <= auth.s
    /\ vm1.loc \in {"attest", "initiate", "chain"} => begun < vm1.s
    /\ vm1.loc \in {"session", "heartbeat"} => begun = vm1.s
    /\ auth.loc # "idle" => auth.s # 0
    /\ auth.loc = "vm4" => begun < auth.s /\ vm1.s < auth.s
    /\ state # 0 => drv[state].loc # "none"

(* The two ends of a connection, and how far its session has got. *)
Ends(s) ==
    /\ conn[s].open1 <=> vm1.s = s
    /\ conn[s].open0 <=> Connecting(s) \/ Alive(s)
    /\ conn[s].queued => /\ begun < s /\ vm1.s < s /\ s <= auth.s
                         /\ s = auth.s => auth.loc # "vm4"
    /\ drv[s].loc # "none" => s <= begun /\ (s = auth.s => auth.loc = "idle")
    /\ flags[s].ended => drv[s].loc = "exited"
    /\ ~Free(conn[s].toVm0, "SessionToken") => s <= begun

(* One heartbeat at a time. *)
Lockstep(s) ==
    /\ drv[s].loc \in {"none", "top", "select"} =>
         /\ Free(conn[s].toVm1, Ping) /\ Free(conn[s].toVm0, Answer) /\ ~InHeartbeat(s)
    /\ drv[s].loc = "await" =>
         /\ Once(conn[s].toVm1, Ping) /\ Once(conn[s].toVm0, Answer)
         /\ ~Free(conn[s].toVm1, Ping) => Free(conn[s].toVm0, Answer) /\ ~InHeartbeat(s)
         /\ ~Free(conn[s].toVm0, Answer) => ~InHeartbeat(s)
         /\ Numbered(conn[s].toVm1, Ping, drv[s].seq)
         /\ Numbered(conn[s].toVm0, Answer, drv[s].seq)
         /\ InHeartbeat(s) => vm1.seq = drv[s].seq
    /\ drv[s].loc \in {"top", "select"} => flags[s].hbSeq = drv[s].seq
    /\ ~flags[s].hbOk => drv[s].loc = "exited"
    /\ ~flags[s].hbOk \/ ~NoFailure(conn[s].toVm0) => vm1.s # s /\ ~conn[s].queued

(* The ages of a session that vm0's driver does not serve. *)
Zero == [start |-> 0, revoke |-> 0, ended |-> 0]

(* The driver's two countdowns, and how far apart they are while it waits for
   a result. *)
Timers(s) ==
    /\ drv[s].ping <= PingInterval /\ drv[s].reply <= ReplyTimeout
    /\ drv[s].loc = "await" => drv[s].ping + ReplyTimeout = drv[s].reply + PingInterval
    /\ ~Alive(s) => age[s] = Zero

(* How old a revocation can be where the driver stands. *)
RevokeTimer(s) ==
    Alive(s) =>
        /\ ~flags[s].revoke => age[s].revoke = 0
        /\ drv[s].loc = "top" => age[s].revoke <= PingInterval + ReplyTimeout
        /\ drv[s].loc = "select" /\ flags[s].revoke => age[s].revoke + drv[s].ping <= PingInterval
        /\ drv[s].loc = "await" => age[s].revoke + drv[s].reply <= PingInterval + ReplyTimeout

(* How long ago vm1 can have left the session where the driver stands. *)
EndTimer(s) ==
    Alive(s) =>
        /\ vm1.s = s => age[s].ended = 0
        /\ drv[s].loc \in {"top", "select"} => age[s].ended + drv[s].ping <= PingInterval
        /\ drv[s].loc = "await" =>
             /\ age[s].ended + drv[s].reply <= PingInterval + ReplyTimeout
             /\ ~Free(conn[s].toVm0, Answer) => age[s].ended + drv[s].ping <= PingInterval

(* The session's age and what is left of its ttl: exact until the ttl runs out
   while the driver waits for a result. *)
TtlTimer(s) ==
    Alive(s) =>
        \/ age[s].start + drv[s].left = ttl[s]
        \/ /\ drv[s].left = 0 /\ drv[s].loc = "await"
           /\ age[s].start + drv[s].reply <= ttl[s] + ReplyTimeout
        \/ /\ drv[s].left = 0 /\ drv[s].loc \in {"top", "select"}
           /\ drv[s].ping > 0 /\ age[s].start <= ttl[s] + ReplyTimeout

(* The inductive invariant. *)
IInv ==
    /\ TypeOK
    /\ Places
    /\ \A s \in Sessions : /\ Ends(s) /\ Lockstep(s)
                           /\ Timers(s) /\ RevokeTimer(s) /\ EndTimer(s) /\ TtlTimer(s)

--------------------------------------------------------------------------------
(* Nothing is under way on an empty queue. *)
LEMMA EmptyQueue ==
    ASSUME NEW t, NEW n
    PROVE  Free(<<>>, t) /\ Once(<<>>, t) /\ Numbered(<<>>, t, n) /\ NoFailure(<<>>)
  BY DEF Free, Once, Numbered, NoFailure

(* What holds of the messages of a type that is not under way. *)
LEMMA FreeQueue ==
    ASSUME NEW q, NEW t, NEW n, Free(q, t)
    PROVE  Once(q, t) /\ Numbered(q, t, n)
  BY DEF Free, Once, Numbered

(* Without a result there is no failed one. *)
LEMMA NoAnswerNoFailure ==
    ASSUME NEW q, Free(q, Answer)
    PROVE  NoFailure(q)
  BY DEF Free, NoFailure, Answer

(* What sending a message does to the messages under way. *)
LEMMA AppendQueue ==
    ASSUME NEW M, NEW q \in Seq(M), NEW m \in M, NEW t
    PROVE  /\ Append(q, m) \in Seq(M) /\ Append(q, m) # <<>>
           /\ Free(Append(q, m), t) <=> Free(q, t) /\ m.type # t
           /\ Free(q, t) => Once(Append(q, m), t)
           /\ Once(q, t) /\ m.type # t => Once(Append(q, m), t)
           /\ \A n : Numbered(q, t, n) /\ (m.type = t => m.seq = n) => Numbered(Append(q, m), t, n)
<1> DEFINE r == Append(q, m)
<1>1. /\ r \in Seq(M) /\ r # <<>> /\ Len(r) = Len(q) + 1 /\ Len(q) \in Nat
      /\ r[Len(q) + 1] = m
      /\ \A i \in 1 .. Len(q) : r[i] = q[i] /\ i \in 1 .. Len(r)
  BY AppendProperties, LenProperties
<1>2. \A i \in 1 .. Len(r) : i \in 1 .. Len(q) \/ i = Len(q) + 1
  BY <1>1
<1>3. Len(q) + 1 \in 1 .. Len(r)
  BY <1>1
<1> HIDE DEF r
<1>4. Free(r, t) <=> Free(q, t) /\ m.type # t
  BY <1>1, <1>2, <1>3 DEF Free
<1>5. Free(q, t) => Once(r, t)
  BY <1>1, <1>2 DEF Free, Once
<1>6. Once(q, t) /\ m.type # t => Once(r, t)
  BY <1>1, <1>2 DEF Once
<1>7. ASSUME NEW n PROVE Numbered(q, t, n) /\ (m.type = t => m.seq = n) => Numbered(r, t, n)
  BY <1>1, <1>2 DEF Numbered
<1> QED BY <1>1, <1>4, <1>5, <1>6, <1>7 DEF r

(* Sending anything but a failed result adds no failure. *)
LEMMA AppendNoFailure ==
    ASSUME NEW M, NEW q \in Seq(M), NEW m \in M, NoFailure(q),
           m.type = Answer => m.ok
    PROVE  NoFailure(Append(q, m))
<1> DEFINE r == Append(q, m)
<1>1. /\ Len(r) = Len(q) + 1 /\ Len(q) \in Nat /\ r[Len(q) + 1] = m
      /\ \A i \in 1 .. Len(q) : r[i] = q[i]
  BY AppendProperties, LenProperties
<1>2. \A i \in 1 .. Len(r) : i \in 1 .. Len(q) \/ i = Len(q) + 1
  BY <1>1
<1> HIDE DEF r
<1>3. NoFailure(r)
  BY <1>1, <1>2 DEF NoFailure, Answer
<1> QED BY <1>3 DEF r

(* What receiving a message says of it, and of those still under way. *)
LEMMA TailQueue ==
    ASSUME NEW M, NEW q \in Seq(M), q # <<>>, NEW t
    PROVE  /\ Tail(q) \in Seq(M) /\ Head(q) \in M
           /\ Free(q, t) => Free(Tail(q), t) /\ Head(q).type # t
           /\ Once(q, t) => Once(Tail(q), t)
           /\ Once(q, t) /\ Head(q).type = t => Free(Tail(q), t)
           /\ \A n : Numbered(q, t, n) => Numbered(Tail(q), t, n) /\ (Head(q).type = t => Head(q).seq = n)
           /\ NoFailure(q) => NoFailure(Tail(q)) /\ (Head(q).type = "HeartbeatResult" => Head(q).ok)
           /\ Head(q).type = t => ~Free(q, t)
<1> DEFINE r == Tail(q)
           h == Head(q)
<1>1. /\ r \in Seq(M) /\ h \in M /\ Len(r) = Len(q) - 1 /\ Len(q) \in Nat /\ h = q[1]
      /\ \A i \in 1 .. Len(r) : r[i] = q[i + 1]
  BY HeadTailProperties, LenProperties
<1>2. 1 \in 1 .. Len(q) /\ \A i \in 1 .. Len(r) : i + 1 \in 1 .. Len(q) /\ i + 1 # 1
  BY <1>1, EmptySeq
<1>3. \A i, j \in 1 .. Len(r) : i + 1 = j + 1 => i = j
  BY <1>1
<1> HIDE DEF r, h
<1>4. Free(q, t) => Free(r, t) /\ h.type # t
  BY <1>1, <1>2 DEF Free
<1>5. Once(q, t) => Once(r, t)
  BY <1>1, <1>2, <1>3 DEF Once
<1>6. Once(q, t) /\ h.type = t => Free(r, t)
  BY <1>1, <1>2 DEF Once, Free
<1>7. ASSUME NEW n PROVE Numbered(q, t, n) => Numbered(r, t, n) /\ (h.type = t => h.seq = n)
  BY <1>1, <1>2 DEF Numbered
<1>8. NoFailure(q) => NoFailure(r) /\ (h.type = "HeartbeatResult" => h.ok)
  BY <1>1, <1>2 DEF NoFailure
<1>9. h.type = t => ~Free(q, t)
  BY <1>1, <1>2 DEF Free
<1> QED BY <1>1, <1>4, <1>5, <1>6, <1>7, <1>8, <1>9 DEF r, h

--------------------------------------------------------------------------------
(* The records of the state, by name. *)
Conns == [queued : BOOLEAN, open0 : BOOLEAN, open1 : BOOLEAN,
          toVm1 : Seq(ToVm1), toVm0 : Seq(ToVm0)]

Flags == [revoke : BOOLEAN, ended : BOOLEAN, hbSeq : Nat, hbOk : BOOLEAN]
Drivers == [loc : {"none", "top", "select", "await", "exited"},
            left : Nat, ping : Nat, reply : Nat, seq : Nat]

(* What vm0 does to a session's flags, field by field. *)
LEMMA FlagUpdates ==
    ASSUME NEW f \in Flags, NEW n \in Nat
    PROVE  /\ LET g == [f EXCEPT !.revoke = TRUE] IN
              g \in Flags /\ g.ended = f.ended /\ g.hbSeq = f.hbSeq /\ g.hbOk = f.hbOk
              /\ g.revoke
           /\ LET g == [f EXCEPT !.ended = TRUE] IN
              g \in Flags /\ g.ended /\ g.hbOk = f.hbOk /\ g.hbSeq = f.hbSeq
           /\ LET g == [f EXCEPT !.hbSeq = n, !.hbOk = FALSE, !.ended = TRUE] IN
              g \in Flags /\ g.ended
           /\ LET g == [f EXCEPT !.hbSeq = n, !.hbOk = TRUE] IN
              g \in Flags /\ g.ended = f.ended /\ g.revoke = f.revoke /\ g.hbSeq = n /\ g.hbOk
  BY DEF Flags

(* vm0 sends: the message is under way if vm1's end takes it, and nothing else
   changes. *)
LEMMA SendToVm1 ==
    ASSUME NEW c \in Conns, NEW m \in ToVm1
    PROVE  LET d == Send1(c, m) IN
           /\ d \in Conns
           /\ d.queued = c.queued /\ d.open0 = c.open0 /\ d.open1 = c.open1
           /\ d.toVm0 = c.toVm0
           /\ d.toVm1 = IF c.open1 \/ c.queued THEN Append(c.toVm1, m) ELSE c.toVm1
  BY AppendProperties DEF Conns, Send1

(* vm1 sends: the message is under way if vm0's end takes it, and nothing else
   changes. *)
LEMMA SendToVm0 ==
    ASSUME NEW c \in Conns, NEW m \in ToVm0
    PROVE  LET d == Send0(c, m) IN
           /\ d \in Conns
           /\ d.queued = c.queued /\ d.open0 = c.open0 /\ d.open1 = c.open1
           /\ d.toVm1 = c.toVm1
           /\ d.toVm0 = IF c.open0 THEN Append(c.toVm0, m) ELSE c.toVm0
  BY AppendProperties DEF Conns, Send0

(* vm1 receives the first message of its queue. *)
LEMMA ReceiveFromVm0 ==
    ASSUME NEW c \in Conns, c.toVm1 # <<>>
    PROVE  LET d == Recv1(c) IN
           /\ d \in Conns
           /\ d.queued = c.queued /\ d.open0 = c.open0 /\ d.open1 = c.open1
           /\ d.toVm0 = c.toVm0 /\ d.toVm1 = Tail(c.toVm1)
  BY HeadTailProperties DEF Conns, Recv1

(* vm0 receives the first message of its queue. *)
LEMMA ReceiveFromVm1 ==
    ASSUME NEW c \in Conns, c.toVm0 # <<>>
    PROVE  LET d == Recv0(c) IN
           /\ d \in Conns
           /\ d.queued = c.queued /\ d.open0 = c.open0 /\ d.open1 = c.open1
           /\ d.toVm1 = c.toVm1 /\ d.toVm0 = Tail(c.toVm0)
  BY HeadTailProperties DEF Conns, Recv0

(* Either side closes its end: what was under way to it is gone, and the other
   end is as it was. *)
LEMMA CloseEnds ==
    ASSUME NEW c \in Conns
    PROVE  LET d == Close0(c)
               e == Close1(c)
           IN  /\ d \in Conns /\ ~d.open0 /\ d.toVm0 = <<>>
               /\ d.queued = c.queued /\ d.open1 = c.open1 /\ d.toVm1 = c.toVm1
               /\ e \in Conns /\ ~e.open1 /\ e.toVm1 = <<>>
               /\ e.queued = c.queued /\ e.open0 = c.open0 /\ e.toVm0 = c.toVm0
  BY EmptySeq DEF Conns, Close0, Close1

(* Every message the two machines send is of its type. *)
LEMMA Messages ==
    /\ [type |-> "AttestationRequest"] \in ToVm1
    /\ [type |-> "Initiate"] \in ToVm1
    /\ [type |-> "Revoke"] \in ToVm1
    /\ \A n \in Nat : [type |-> "HeartbeatPing", seq |-> n] \in ToVm1
    /\ [type |-> "AttestationResponse"] \in ToVm0
    /\ [type |-> "InitiateAck"] \in ToVm0
    /\ [type |-> "InitiateRejected"] \in ToVm0
    /\ [type |-> "SessionToken"] \in ToVm0
    /\ [type |-> "ChainFailed"] \in ToVm0
    /\ [type |-> "SessionEnded"] \in ToVm0
    /\ \A n \in Nat, ok \in BOOLEAN :
         [type |-> "HeartbeatResult", seq |-> n, ok |-> ok] \in ToVm0
  BY DEF ToVm1, ToVm0

(* The fields of the two messages of a heartbeat. *)
LEMMA MessageFields ==
    /\ \A m \in ToVm1 : m.type = Ping => m.seq \in Nat
    /\ \A m \in ToVm0 : m.type = Answer => m.seq \in Nat /\ m.ok \in BOOLEAN
  BY DEF ToVm1, ToVm0, Ping, Answer

(* Where the timers of a session are concerned, a step that leaves its driver,
   its flags and its ages alone is harmless. *)
LEMMA QuietTimers ==
    ASSUME IInv, NEW s \in Sessions,
           drv'[s] = drv[s], age'[s] = age[s], flags'[s] = flags[s],
           Alive(s) => ttl'[s] = ttl[s],
           Alive(s) /\ vm1'.s = s => vm1.s = s,
           Alive(s) /\ ~Free(conn'[s].toVm0, Answer) =>
               ~Free(conn[s].toVm0, Answer) \/ vm1.s = s
    PROVE  Timers(s)' /\ RevokeTimer(s)' /\ EndTimer(s)' /\ TtlTimer(s)'
<1>1. Timers(s) /\ RevokeTimer(s) /\ EndTimer(s) /\ TtlTimer(s)
  BY DEF IInv
<1>2. /\ drv[s].ping \in Nat /\ age[s].ended \in Nat
      /\ drv[s].ping <= PingInterval /\ PingInterval \in Nat
  BY TimerAssumption DEF IInv, TypeOK, Timers
<1>3. Timers(s)' /\ RevokeTimer(s)' /\ TtlTimer(s)'
  BY <1>1 DEF Timers, RevokeTimer, TtlTimer, Alive
<1>4. EndTimer(s)'
  BY <1>1, <1>2 DEF EndTimer, Alive
<1> QED BY <1>3, <1>4

(* A step that touches neither the connection nor the driver of a session
   leaves its heartbeats in lockstep, if vm1 does not turn to it. *)
LEMMA QuietLockstep ==
    ASSUME IInv, NEW s \in Sessions,
           drv'[s] = drv[s], conn'[s] = conn[s], 
           flags'[s].hbSeq = flags[s].hbSeq, flags'[s].hbOk = flags[s].hbOk,
           vm1' = vm1 \/ (vm1.s # s /\ vm1'.s # s)
    PROVE  Lockstep(s)'
  BY DEF IInv, Lockstep, InHeartbeat

--------------------------------------------------------------------------------
(* No session, no connection, nothing under way. *)
LEMMA InitIInv == Init => IInv
<1> SUFFICES ASSUME Init PROVE IInv
  OBVIOUS
<1>1. TypeOK
  <2>1. /\ auth \in [loc : {"idle", "vm4", "attest", "ack", "token"}, s : 0 .. MaxSessions]
        /\ state \in 0 .. MaxSessions /\ begun \in 0 .. MaxSessions /\ crashes \in Nat
        /\ vm1 \in [loc : {"accept", "attest", "initiate", "chain", "session", "heartbeat"},
                    s : 0 .. MaxSessions, left : Nat, seq : Nat]
    BY BoundAssumption DEF Init, None
  <2>2. /\ ttl \in [Sessions -> Nat] /\ expiresIn \in [Sessions -> Nat]
        /\ age \in [Sessions -> [start : Nat, revoke : Nat, ended : Nat]]
        /\ drv \in [Sessions -> [loc : {"none", "top", "select", "await", "exited"},
                                 left : Nat, ping : Nat, reply : Nat, seq : Nat]]
    BY DEF Init
  <2>3. flags \in [Sessions -> [revoke : BOOLEAN, ended : BOOLEAN, hbSeq : Nat, hbOk : BOOLEAN]]
    BY DEF Init
  <2>4. conn \in [Sessions -> Conns]
    BY EmptySeq DEF Init, Conns
  <2> QED BY <2>1, <2>2, <2>3, <2>4 DEF TypeOK, Conns
<1>2. Places
  BY DEF Init, Places, None
<1>3. ASSUME NEW s \in Sessions
      PROVE  Ends(s) /\ Lockstep(s) /\ Timers(s) /\ RevokeTimer(s) /\ EndTimer(s) /\ TtlTimer(s)
  <2>1. /\ ~Alive(s) /\ drv[s].loc = "none" /\ ~InHeartbeat(s) /\ ~Connecting(s) /\ vm1.s # s
        /\ conn[s].toVm0 = <<>> /\ conn[s].toVm1 = <<>> /\ ~conn[s].queued
        /\ ~conn[s].open0 /\ ~conn[s].open1
        /\ ~flags[s].ended /\ flags[s].hbOk
    BY DEF Init, Alive, InHeartbeat, Connecting, Sessions, None
  <2>2. Ends(s)
    BY <2>1, EmptyQueue DEF Ends
  <2>3. Lockstep(s)
    BY <2>1, EmptyQueue DEF Lockstep
  <2>4. Timers(s) /\ RevokeTimer(s) /\ EndTimer(s) /\ TtlTimer(s)
    BY <2>1, TimerAssumption DEF Init, Timers, RevokeTimer, EndTimer, TtlTimer, Zero
  <2> QED BY <2>2, <2>3, <2>4
<1> QED BY <1>1, <1>2, <1>3 DEF IInv

(* Sessions are numbers, and so is what is compared with them. *)
LEMMA SessionNumbers ==
    ASSUME IInv
    PROVE  /\ begun \in Nat /\ auth.s \in Nat /\ vm1.s \in Nat
           /\ \A s \in Sessions : s \in Nat
  BY BoundAssumption DEF IInv, TypeOK, Sessions

(* The authenticate command takes the next session number, which nothing knows
   of yet. *)
LEMMA AuthenticateKeepsIInv ==
    ASSUME IInv, NEW t \in Ttls, Authenticate(t)
    PROVE  IInv'
<1>1. TypeOK'
  <2>1. auth.s + 1 \in 0 .. MaxSessions /\ t \in Nat
    BY TtlAssumption, BoundAssumption DEF IInv, TypeOK, Authenticate
  <2>2. ttl' \in [Sessions -> Nat]
    BY <2>1 DEF IInv, TypeOK, Authenticate
  <2>3. auth' \in [loc : {"idle", "vm4", "attest", "ack", "token"}, s : 0 .. MaxSessions]
    BY <2>1 DEF Authenticate
  <2> QED BY <2>2, <2>3 DEF IInv, TypeOK, Authenticate
<1>2. Places'
  BY BoundAssumption DEF IInv, TypeOK, Places, Authenticate
<1>3. ASSUME NEW s \in Sessions
      PROVE  Ends(s)' /\ Lockstep(s)' /\ Timers(s)' /\ RevokeTimer(s)' /\ EndTimer(s)' /\ TtlTimer(s)'
  <2>1. /\ drv' = drv /\ age' = age /\ flags' = flags /\ conn' = conn /\ vm1' = vm1
    BY DEF Authenticate
  <2>2. ~Connecting(s) /\ ~Connecting(s)'
    BY DEF Authenticate, Connecting
  <2>3. Ends(s)'
    BY <2>1, <2>2 DEF IInv, TypeOK, Places, Ends, Authenticate, Alive, Sessions
  <2>4. Alive(s) => ttl'[s] = ttl[s]
    BY DEF IInv, TypeOK, Places, Ends, Authenticate, Alive, Sessions
  <2> QED BY <2>1, <2>3, <2>4, QuietLockstep, QuietTimers
<1> QED BY <1>1, <1>2, <1>3 DEF IInv

(* vm4 denies, or does not answer: vm0 is idle again and has connected
   nowhere. *)
LEMMA Vm4DeniesKeepsIInv ==
    ASSUME IInv, Vm4Denies
    PROVE  IInv'
<1> USE DEF Vm4Denies, Deny
<1>1. TypeOK'
  BY DEF IInv, TypeOK
<1>2. Places'
  BY DEF IInv, TypeOK, Places
<1>3. ASSUME NEW s \in Sessions
      PROVE  Ends(s)' /\ Lockstep(s)' /\ Timers(s)' /\ RevokeTimer(s)' /\ EndTimer(s)' /\ TtlTimer(s)'
  <2>1. ~Connecting(s) /\ ~Connecting(s)' /\ auth'.s = auth.s
    BY DEF Connecting, IInv, TypeOK
  <2>2. Ends(s)'
    BY <2>1 DEF IInv, TypeOK, Places, Ends, Alive
  <2> QED BY <2>2, QuietLockstep, QuietTimers
<1> QED BY <1>1, <1>2, <1>3 DEF IInv

(* vm4 approves: the new connection is in vm1's accept queue with the first
   message. *)
LEMMA Vm4ApprovesKeepsIInv ==
    ASSUME IInv, Vm4Approves
    PROVE  IInv'
<1>0. auth.s \in Sessions /\ auth.s # 0
  BY BoundAssumption DEF IInv, TypeOK, Places, Vm4Approves, Sessions
<1>1. TypeOK'
  <2>1. <<[type |-> "AttestationRequest"]>> \in Seq(ToVm1) /\ <<>> \in Seq(ToVm0)
    BY Messages, EmptySeq
  <2> QED BY <2>1, <1>0 DEF IInv, TypeOK, Vm4Approves
<1>2. Places'
  BY DEF IInv, TypeOK, Places, Vm4Approves
<1>3. ASSUME NEW s \in Sessions
      PROVE  Ends(s)' /\ Lockstep(s)' /\ Timers(s)' /\ RevokeTimer(s)' /\ EndTimer(s)' /\ TtlTimer(s)'
  <2>1. /\ drv' = drv /\ age' = age /\ flags' = flags /\ vm1' = vm1 /\ ttl' = ttl /\ begun' = begun
        /\ auth'.s = auth.s /\ auth'.loc = "attest"
    BY DEF IInv, TypeOK, Vm4Approves
  <2>2. CASE s = auth.s
    <3>0. begun \in Nat /\ vm1.s \in Nat /\ s \in Nat
      BY SessionNumbers
    <3>1. vm1.s # s /\ vm1.s < s /\ begun < s
      BY <2>2, <3>0 DEF IInv, Places, Vm4Approves
    <3>a. drv[s].loc = "none"
      BY <3>0, <3>1 DEF IInv, Ends
    <3>2. /\ conn'[s].queued /\ conn'[s].open0 /\ ~conn'[s].open1
          /\ conn'[s].toVm0 = <<>> /\ conn'[s].toVm1 = <<[type |-> "AttestationRequest"]>>
      BY <2>2 DEF IInv, TypeOK, Vm4Approves
    <3>3. Free(conn'[s].toVm0, Answer) /\ Free(conn'[s].toVm0, "SessionToken") /\ NoFailure(conn'[s].toVm0)
      BY <3>2, EmptyQueue
    <3>4. Free(conn'[s].toVm1, Ping)
      BY <3>2 DEF Free, Ping
    <3>b. flags[s].ended => drv[s].loc = "exited"
      BY DEF IInv, Ends
    <3>5. Ends(s)'
      BY <2>1, <2>2, <3>0, <3>1, <3>a, <3>b, <3>2, <3>3 DEF Ends, Connecting, Alive
    <3>6. Lockstep(s)'
      BY <2>1, <2>2, <3>1, <3>a, <3>2, <3>3, <3>4 DEF IInv, Lockstep, InHeartbeat
    <3> QED BY <2>1, <3>a, <3>5, <3>6, QuietTimers DEF Alive
  <2>3. CASE s # auth.s
    <3>1. conn'[s] = conn[s]
      BY <2>3 DEF IInv, TypeOK, Vm4Approves
    <3>2. Ends(s)'
      BY <2>1, <2>3, <3>1 DEF IInv, Ends, Connecting, Alive
    <3> QED BY <2>1, <3>1, <3>2, QuietLockstep, QuietTimers
  <2> QED BY <2>2, <2>3
<1> QED BY <1>1, <1>2, <1>3 DEF IInv

(* The session vm0 is connecting has no driver and no heartbeat yet. *)
LEMMA ConnectingSession ==
    ASSUME IInv, auth.loc \in {"attest", "ack", "token"}
    PROVE  /\ auth.s \in Sessions /\ auth.s \in Nat /\ conn[auth.s] \in Conns
           /\ drv[auth.s].loc = "none"
           /\ conn[auth.s].open0 /\ Connecting(auth.s)
           /\ Free(conn[auth.s].toVm1, Ping) /\ Free(conn[auth.s].toVm0, Answer)
<1>1. auth.s \in Sessions /\ auth.s \in Nat
  BY BoundAssumption DEF IInv, TypeOK, Places, Sessions
<1>2. conn[auth.s] \in Conns
  BY <1>1 DEF IInv, TypeOK, Conns
<1>3. drv[auth.s].loc = "none" /\ conn[auth.s].open0 /\ Connecting(auth.s)
  BY <1>1 DEF IInv, TypeOK, Ends, Connecting
<1>4. Lockstep(auth.s)
  BY <1>1 DEF IInv
<1> QED BY <1>1, <1>2, <1>3, <1>4 DEF Lockstep

(* vm0 reads an answer of vm1 while it connects, and may send the next
   message.  Nothing else happens but that handle_authenticate goes on. *)
LEMMA ConnectingStep ==
    ASSUME IInv, auth.loc \in {"attest", "ack"}, Head0(auth.s),
           NEW loc \in {"ack", "token"}, auth' = [auth EXCEPT !.loc = loc],
           NEW c \in Conns, conn' = [conn EXCEPT ![auth.s] = c],
           c.queued = conn[auth.s].queued, c.open0 = conn[auth.s].open0,
           c.open1 = conn[auth.s].open1, c.toVm0 = Tail(conn[auth.s].toVm0),
           Free(c.toVm1, Ping),
           UNCHANGED <<state, ttl, expiresIn, flags, drv, vm1, begun, age, crashes>>
    PROVE  IInv'
<1>0. /\ auth.s \in Sessions /\ conn[auth.s] \in Conns /\ drv[auth.s].loc = "none"
      /\ Free(conn[auth.s].toVm0, Answer)
  BY ConnectingSession
<1>1. TypeOK'
  BY <1>0 DEF IInv, TypeOK, Conns
<1>2. Places'
  BY DEF IInv, TypeOK, Places
<1>3. ASSUME NEW s \in Sessions
      PROVE  Ends(s)' /\ Lockstep(s)' /\ Timers(s)' /\ RevokeTimer(s)' /\ EndTimer(s)' /\ TtlTimer(s)'
  <2>1. auth'.s = auth.s /\ auth'.loc = loc /\ Alive(s)' = Alive(s) /\ Connecting(s)' = Connecting(s)
    BY DEF IInv, TypeOK, Alive, Connecting
  <2>2. CASE s = auth.s
    <3>1. conn'[s] = c
      BY <2>2 DEF IInv, TypeOK
    <3>2. /\ Free(c.toVm0, Answer)
          /\ Free(conn[s].toVm0, "SessionToken") => Free(c.toVm0, "SessionToken")
      <4>1. conn[s].toVm0 \in Seq(ToVm0) /\ conn[s].toVm0 # <<>> /\ c.toVm0 = Tail(conn[s].toVm0)
        BY <1>0, <2>2 DEF Head0, Conns
      <4> QED BY <1>0, <2>2, <4>1, TailQueue
    <3>3. Ends(s)'
      BY <2>1, <2>2, <3>1, <3>2 DEF IInv, Ends
    <3>4. NoFailure(c.toVm0)
      BY <3>2, NoAnswerNoFailure
    <3>5. Lockstep(s)'
      BY <1>0, <2>2, <3>1, <3>2, <3>4 DEF IInv, Lockstep, InHeartbeat
    <3> QED BY <1>0, <2>2, <3>3, <3>5, QuietTimers DEF Alive
  <2>3. CASE s # auth.s
    <3>1. conn'[s] = conn[s]
      BY <2>3 DEF IInv, TypeOK
    <3>2. Ends(s)'
      BY <2>1, <2>3, <3>1 DEF IInv, Ends
    <3> QED BY <2>1, <3>1, <3>2, QuietLockstep, QuietTimers
  <2> QED BY <2>2, <2>3
<1> QED BY <1>1, <1>2, <1>3 DEF IInv

(* The attestation arrives and vm0 sends INITIATE. *)
LEMMA RecvAttestationKeepsIInv ==
    ASSUME IInv, RecvAttestation
    PROVE  IInv'
<1> DEFINE s == auth.s
           m == [type |-> "Initiate"]
           b == Recv0(conn[s])
           c == Send1(b, m)
<1>1. auth.loc = "attest" /\ Head0(s) /\ auth' = [auth EXCEPT !.loc = "ack"]
      /\ UNCHANGED <<state, ttl, expiresIn, flags, drv, vm1, begun, age, crashes>>
  BY DEF RecvAttestation
<1>2. s \in Sessions /\ conn[s] \in Conns /\ Free(conn[s].toVm1, Ping)
  BY <1>1, ConnectingSession
<1>3. conn' = [conn EXCEPT ![s] = c]
  BY <1>2 DEF RecvAttestation, IInv, TypeOK
<1>4. /\ b \in Conns /\ b.queued = conn[s].queued /\ b.open0 = conn[s].open0
      /\ b.open1 = conn[s].open1 /\ b.toVm1 = conn[s].toVm1 /\ b.toVm0 = Tail(conn[s].toVm0)
  BY <1>1, <1>2, ReceiveFromVm1 DEF Head0
<1>5. m \in ToVm1 /\ m.type # Ping
  BY Messages DEF Ping
<1> HIDE DEF b, m
<1>6. /\ c \in Conns /\ c.queued = b.queued /\ c.open0 = b.open0 /\ c.open1 = b.open1
      /\ c.toVm0 = b.toVm0
      /\ c.toVm1 = IF b.open1 \/ b.queued THEN Append(b.toVm1, m) ELSE b.toVm1
  BY <1>4, <1>5, SendToVm1
<1> HIDE DEF c
<1>7. Free(c.toVm1, Ping)
  <2>1. b.toVm1 \in Seq(ToVm1)
    BY <1>4 DEF Conns
  <2> QED BY <1>2, <1>4, <1>5, <1>6, <2>1, AppendQueue
<1> QED BY <1>1, <1>3, <1>4, <1>6, <1>7, ConnectingStep

(* The acknowledgement arrives and vm0 waits for the token. *)
LEMMA RecvAckKeepsIInv ==
    ASSUME IInv, RecvAck
    PROVE  IInv'
<1> DEFINE s == auth.s
           c == Recv0(conn[s])
<1>1. auth.loc = "ack" /\ Head0(s) /\ auth' = [auth EXCEPT !.loc = "token"]
      /\ UNCHANGED <<state, ttl, expiresIn, flags, drv, vm1, begun, age, crashes>>
  BY DEF RecvAck
<1>2. s \in Sessions /\ conn[s] \in Conns /\ Free(conn[s].toVm1, Ping)
  BY <1>1, ConnectingSession
<1>3. conn' = [conn EXCEPT ![s] = c]
  BY <1>2 DEF RecvAck, IInv, TypeOK
<1>4. /\ c \in Conns /\ c.queued = conn[s].queued /\ c.open0 = conn[s].open0
      /\ c.open1 = conn[s].open1 /\ c.toVm1 = conn[s].toVm1 /\ c.toVm0 = Tail(conn[s].toVm0)
  BY <1>1, <1>2, ReceiveFromVm1 DEF Head0
<1> HIDE DEF c
<1> QED BY <1>1, <1>2, <1>3, <1>4, ConnectingStep

(* vm0 gives up on the connection: an attestation it does not accept, a refusal
   of vm1, a lost connection. *)
LEMMA RecvDeniedKeepsIInv ==
    ASSUME IInv, RecvDenied
    PROVE  IInv'
<1> DEFINE p == auth.s
           c == Close0(conn[p])
<1>0. /\ auth.loc \in {"attest", "ack", "token"} /\ auth' = [auth EXCEPT !.loc = "idle"]
      /\ UNCHANGED <<state, ttl, expiresIn, flags, drv, vm1, begun, age, crashes>>
  BY DEF RecvDenied, Deny
<1>1. /\ p \in Sessions /\ p \in Nat /\ conn[p] \in Conns /\ drv[p].loc = "none"
      /\ Free(conn[p].toVm1, Ping)
  BY <1>0, ConnectingSession
<1>2. conn' = [conn EXCEPT ![p] = c]
  BY <1>1 DEF RecvDenied, IInv, TypeOK
<1>3. /\ c \in Conns /\ ~c.open0 /\ c.toVm0 = <<>>
      /\ c.queued = conn[p].queued /\ c.open1 = conn[p].open1 /\ c.toVm1 = conn[p].toVm1
  BY <1>1, CloseEnds
<1> HIDE DEF c
<1>4. TypeOK'
  BY <1>0, <1>1, <1>2, <1>3 DEF IInv, TypeOK, Conns
<1>5. Places'
  BY <1>0 DEF IInv, TypeOK, Places
<1>6. ASSUME NEW s \in Sessions
      PROVE  Ends(s)' /\ Lockstep(s)' /\ Timers(s)' /\ RevokeTimer(s)' /\ EndTimer(s)' /\ TtlTimer(s)'
  <2>1. auth'.s = auth.s /\ auth'.loc = "idle" /\ Alive(s)' = Alive(s) /\ ~Connecting(s)'
    BY <1>0 DEF IInv, TypeOK, Alive, Connecting
  <2>2. CASE s = p
    <3>1. conn'[s] = c
      BY <1>2, <2>2 DEF IInv, TypeOK
    <3>2. Free(c.toVm0, Answer) /\ Free(c.toVm0, "SessionToken") /\ NoFailure(c.toVm0)
      BY <1>3, EmptyQueue
    <3>3. Ends(s)'
      BY <1>0, <1>1, <1>3, <2>1, <2>2, <3>1, <3>2 DEF IInv, Ends, Alive
    <3>4. Lockstep(s)'
      BY <1>0, <1>1, <1>3, <2>2, <3>1, <3>2 DEF IInv, Lockstep, InHeartbeat
    <3> QED BY <1>0, <1>1, <2>2, <3>3, <3>4, QuietTimers DEF Alive
  <2>3. CASE s # p
    <3>1. conn'[s] = conn[s] /\ ~Connecting(s)
      BY <1>2, <2>3 DEF IInv, TypeOK, Connecting
    <3>2. Ends(s)'
      BY <1>0, <2>1, <2>3, <3>1 DEF IInv, Ends
    <3> QED BY <1>0, <3>1, <3>2, QuietLockstep, QuietTimers
  <2> QED BY <2>2, <2>3
<1> QED BY <1>4, <1>5, <1>6 DEF IInv

(* The token arrives: vm0 starts a driver, and the session is the last one vm1
   began. *)
LEMMA RecvTokenKeepsIInv ==
    ASSUME IInv, RecvToken
    PROVE  IInv' /\ begun = auth.s
<1> DEFINE p == auth.s
           c == Recv0(conn[p])
           d == [loc |-> "top", left |-> ttl[p], ping |-> PingInterval, reply |-> 0, seq |-> 0]
           f == [revoke |-> FALSE, ended |-> FALSE, hbSeq |-> 0, hbOk |-> TRUE]
<1>0. /\ auth.loc = "token" /\ Head0(p) /\ Head(conn[p].toVm0).type = "SessionToken"
      /\ auth' = [auth EXCEPT !.loc = "idle"] /\ state' = p
      /\ flags' = [flags EXCEPT ![p] = f] /\ drv' = [drv EXCEPT ![p] = d]
      /\ UNCHANGED <<ttl, expiresIn, vm1, begun, age, crashes>>
  BY DEF RecvToken
<1>1. /\ p \in Sessions /\ p \in Nat /\ conn[p] \in Conns /\ drv[p].loc = "none"
      /\ conn[p].open0
      /\ Free(conn[p].toVm1, Ping) /\ Free(conn[p].toVm0, Answer)
  BY <1>0, ConnectingSession
<1>2. conn' = [conn EXCEPT ![p] = c]
  BY <1>1 DEF RecvToken, IInv, TypeOK
<1>3. /\ c \in Conns /\ c.queued = conn[p].queued /\ c.open0 = conn[p].open0
      /\ c.open1 = conn[p].open1 /\ c.toVm1 = conn[p].toVm1 /\ c.toVm0 = Tail(conn[p].toVm0)
  BY <1>0, <1>1, ReceiveFromVm1 DEF Head0
<1> HIDE DEF c
<1>4. TypeOK'
  <2>1. d \in [loc : {"none", "top", "select", "await", "exited"},
               left : Nat, ping : Nat, reply : Nat, seq : Nat]
    BY <1>1, TimerAssumption DEF IInv, TypeOK
  <2>2. f \in [revoke : BOOLEAN, ended : BOOLEAN, hbSeq : Nat, hbOk : BOOLEAN]
    OBVIOUS
  <2> HIDE DEF d, f
  <2> QED BY <1>0, <1>1, <1>2, <1>3, <2>1, <2>2 DEF IInv, TypeOK, Conns
<1>q. conn[p].toVm0 \in Seq(ToVm0) /\ conn[p].toVm0 # <<>>
  BY <1>0, <1>1 DEF Head0, Conns
<1>5. begun = p
  <2>1. ~Free(conn[p].toVm0, "SessionToken")
    BY <1>0, <1>q, TailQueue
  <2> QED BY <1>1, <2>1 DEF IInv, TypeOK, Ends, Places
<1>6. auth'.s = auth.s /\ auth'.loc = "idle"
  BY <1>0 DEF IInv, TypeOK
<1>7. /\ drv'[p] = d /\ conn'[p] = c /\ flags'[p] = f
      /\ \A s \in Sessions : s # p =>
           drv'[s] = drv[s] /\ conn'[s] = conn[s] /\ flags'[s] = flags[s]
  BY <1>0, <1>1, <1>2 DEF IInv, TypeOK
<1>8. Places'
  BY <1>0, <1>1, <1>6, <1>7 DEF IInv, TypeOK, Places
<1>9. ASSUME NEW s \in Sessions
      PROVE  Ends(s)' /\ Lockstep(s)' /\ Timers(s)' /\ RevokeTimer(s)' /\ EndTimer(s)' /\ TtlTimer(s)'
  <2>1. ~Connecting(s)'
    BY <1>6 DEF Connecting
  <2>2. CASE s = p
    <3>1. Free(c.toVm0, Answer) /\ Free(c.toVm1, Ping) /\ NoFailure(c.toVm0)
      BY <1>1, <1>3, <1>q, TailQueue, NoAnswerNoFailure
    <3>2. Alive(s)' /\ ~Alive(s)
      BY <1>1, <1>7, <2>2 DEF Alive
    <3>3. Ends(s)'
      <4>1. (conn[s].open1 <=> vm1.s = s) /\ ~conn[s].queued
        BY <1>1, <1>5, <2>2 DEF IInv, Ends
      <4>2. /\ vm1' = vm1 /\ begun' = p /\ ~flags'[s].ended
            /\ conn'[s].open1 = conn[s].open1 /\ ~conn'[s].queued /\ conn'[s].open0
        <5>1. ~flags'[s].ended
          BY <1>7, <2>2
        <5>2. c.open0 = TRUE /\ c.queued = FALSE
          BY <1>1, <1>3, <2>2, <4>1 DEF Conns
        <5> HIDE DEF f, d
        <5> QED BY <1>0, <1>3, <1>5, <1>7, <2>2, <5>1, <5>2
      <4> QED BY <1>1, <1>6, <2>1, <2>2, <3>2, <4>1, <4>2 DEF Ends
    <3>4. Lockstep(s)'
      BY <1>0, <1>1, <1>7, <2>2, <3>1 DEF IInv, Lockstep, InHeartbeat
    <3>5. age'[s] = Zero
      BY <1>0, <3>2 DEF IInv, Timers
    <3>6. Timers(s)' /\ RevokeTimer(s)' /\ EndTimer(s)'
      BY <1>7, <2>2, <3>2, <3>5, TimerAssumption DEF Timers, RevokeTimer, EndTimer, Zero
    <3>7. TtlTimer(s)'
      BY <1>0, <1>1, <1>7, <2>2, <3>5 DEF IInv, TypeOK, TtlTimer, Zero
    <3> QED BY <3>3, <3>4, <3>6, <3>7
  <2>3. CASE s # p
    <3>1. ~Connecting(s) /\ Alive(s)' = Alive(s)
      BY <1>7, <2>3 DEF Connecting, Alive
    <3>2. Ends(s)'
      BY <1>0, <1>6, <1>7, <2>1, <2>3, <3>1 DEF IInv, Ends
    <3> QED BY <1>0, <1>7, <2>3, <3>2, QuietLockstep, QuietTimers
  <2> QED BY <2>2, <2>3
<1> QED BY <1>4, <1>5, <1>8, <1>9 DEF IInv

(* The revoke command raises the flag of a session that runs, and drops from
   state one that has ended. *)
LEMMA RevokeKeepsIInv ==
    ASSUME IInv, Revoke
    PROVE  IInv'
<1>0. /\ state # 0 /\ state \in Sessions
      /\ UNCHANGED <<auth, ttl, expiresIn, drv, conn, vm1, begun, age, crashes>>
  BY BoundAssumption DEF IInv, TypeOK, Revoke, Sessions, None
<1>1. CASE flags[state].ended
  <2>1. state' = 0 /\ flags' = flags
    BY <1>1 DEF Revoke, None
  <2>2. TypeOK'
    <3>1. state' \in 0 .. MaxSessions
      BY <2>1, BoundAssumption
    <3> QED BY <1>0, <2>1, <3>1 DEF IInv, TypeOK
  <2>3. Places'
    BY <1>0, <2>1 DEF IInv, Places
  <2>4. ASSUME NEW s \in Sessions
        PROVE  Ends(s)' /\ Lockstep(s)' /\ Timers(s)' /\ RevokeTimer(s)' /\ EndTimer(s)' /\ TtlTimer(s)'
    <3>1. Ends(s)'
      BY <1>0, <2>1 DEF IInv, Ends, Connecting, Alive
    <3> QED BY <1>0, <2>1, <3>1, QuietLockstep, QuietTimers
  <2> QED BY <2>2, <2>3, <2>4 DEF IInv
<1>2. CASE ~flags[state].ended
  <2> DEFINE g == [flags[state] EXCEPT !.revoke = TRUE]
  <2>0. /\ g \in Flags /\ g.ended = flags[state].ended /\ g.hbSeq = flags[state].hbSeq
        /\ g.hbOk = flags[state].hbOk /\ g.revoke
    <3>1. flags[state] \in Flags
      BY <1>0 DEF IInv, TypeOK, Flags
    <3> QED BY <3>1, FlagUpdates
  <2>1. state' = state /\ flags' = [flags EXCEPT ![state] = g]
    BY <1>0, <1>2 DEF Revoke, IInv, TypeOK
  <2> HIDE DEF g
  <2>2. TypeOK'
    <3>1. flags' \in [Sessions -> Flags]
      BY <1>0, <2>0, <2>1 DEF IInv, TypeOK, Flags
    <3> QED BY <1>0, <2>1, <3>1 DEF IInv, TypeOK, Flags
  <2>3. Places'
    BY <1>0, <2>1 DEF IInv, Places
  <2>4. ASSUME NEW s \in Sessions
        PROVE  Ends(s)' /\ Lockstep(s)' /\ Timers(s)' /\ RevokeTimer(s)' /\ EndTimer(s)' /\ TtlTimer(s)'
    <3>0. flags'[s] = IF s = state THEN g ELSE flags[s]
      BY <1>0, <2>1 DEF IInv, TypeOK
    <3>1. /\ flags'[s].ended = flags[s].ended /\ flags'[s].hbSeq = flags[s].hbSeq
          /\ flags'[s].hbOk = flags[s].hbOk
      BY <2>0, <3>0
    <3>2. Ends(s)'
      BY <1>0, <3>1 DEF IInv, Ends, Connecting, Alive
    <3>3. Lockstep(s)'
      BY <1>0, <3>1, QuietLockstep
    <3>4. Timers(s)' /\ EndTimer(s)' /\ TtlTimer(s)'
      BY <1>0 DEF IInv, Timers, EndTimer, TtlTimer, Alive
    <3>5. /\ drv[s].ping \in Nat /\ drv[s].ping <= PingInterval /\ PingInterval \in Nat
          /\ age[s].revoke \in Nat
      BY TimerAssumption DEF IInv, TypeOK, Timers
    <3>6. RevokeTimer(s)'
      <4>1. flags[s].revoke => flags'[s].revoke
        BY <2>0, <3>0
      <4>2. RevokeTimer(s)
        BY DEF IInv
      <4> QED BY <1>0, <3>5, <4>1, <4>2 DEF RevokeTimer, Alive
    <3> QED BY <3>2, <3>3, <3>4, <3>6
  <2> QED BY <2>2, <2>3, <2>4 DEF IInv
<1> QED BY <1>1, <1>2

--------------------------------------------------------------------------------

(* What a step of one driver leaves alone. *)
LEMMA OtherSessions ==
    ASSUME IInv, NEW p \in Sessions, NEW s \in Sessions, s # p,
           UNCHANGED <<auth, ttl, vm1, begun>>,
           drv'[s] = drv[s], conn'[s] = conn[s], flags'[s] = flags[s], age'[s] = age[s]
    PROVE  Ends(s)' /\ Lockstep(s)' /\ Timers(s)' /\ RevokeTimer(s)' /\ EndTimer(s)' /\ TtlTimer(s)'
<1>1. Ends(s)'
  BY DEF IInv, Ends, Connecting, Alive
<1> QED BY <1>1, QuietLockstep, QuietTimers

(* Whatever ends a driver: session_ended is raised and the connection is
   dropped.  A failure is published only if vm1 has reported one. *)
LEMMA DriverExitKeepsIInv ==
    ASSUME IInv, NEW p \in Sessions, Alive(p),
           NEW c \in Conns, c.queued = conn[p].queued, c.open1 = conn[p].open1,
           DriverExit(p, c),
           NEW f \in Flags, flags' = [flags EXCEPT ![p] = f], f.ended,
           ~f.hbOk => ~flags[p].hbOk \/ ~NoFailure(conn[p].toVm0)
    PROVE  IInv'
<1> DEFINE e == Close0(c)
           d == [drv[p] EXCEPT !.loc = "exited", !.left = 0, !.ping = 0, !.reply = 0]
<1>0. /\ drv[p] \in Drivers /\ conn[p] \in Conns /\ flags[p] \in Flags
  BY DEF IInv, TypeOK, Drivers, Conns, Flags
<1>1. /\ d \in Drivers /\ d.loc = "exited" /\ d.ping = 0 /\ d.reply = 0
  BY <1>0 DEF Drivers
<1>2. /\ e \in Conns /\ ~e.open0 /\ e.toVm0 = <<>>
      /\ e.queued = conn[p].queued /\ e.open1 = conn[p].open1
  BY CloseEnds
<1>3. /\ drv' = [drv EXCEPT ![p] = d] /\ conn' = [conn EXCEPT ![p] = e]
      /\ age' = [age EXCEPT ![p] = Zero]
      /\ UNCHANGED <<auth, state, ttl, expiresIn, vm1, begun, crashes>>
  BY DEF DriverExit, Zero, IInv, TypeOK
<1> HIDE DEF d, e
<1>4. /\ drv'[p] = d /\ conn'[p] = e /\ flags'[p] = f /\ age'[p] = Zero
      /\ \A s \in Sessions : s # p =>
           /\ drv'[s] = drv[s] /\ conn'[s] = conn[s] /\ flags'[s] = flags[s] /\ age'[s] = age[s]
  BY <1>3 DEF IInv, TypeOK
<1>5. TypeOK'
  <2>1. Zero \in [start : Nat, revoke : Nat, ended : Nat]
    BY DEF Zero
  <2>2. /\ drv' \in [Sessions -> Drivers] /\ conn' \in [Sessions -> Conns]
        /\ flags' \in [Sessions -> Flags]
        /\ age' \in [Sessions -> [start : Nat, revoke : Nat, ended : Nat]]
    BY <1>1, <1>2, <1>3, <2>1 DEF IInv, TypeOK, Drivers, Conns, Flags
  <2> QED BY <1>3, <2>2 DEF IInv, TypeOK, Drivers, Conns, Flags
<1>6. Places'
  BY <1>1, <1>3, <1>4 DEF IInv, TypeOK, Places
<1>7. Ends(p)'
  <2>1. ~Connecting(p) /\ ~Connecting(p)' /\ ~Alive(p)'
    BY <1>1, <1>3, <1>4 DEF IInv, Ends, Connecting, Alive
  <2>2. Free(e.toVm0, "SessionToken")
    BY <1>2, EmptyQueue
  <2>3. p <= begun /\ (p = auth.s => auth.loc = "idle")
    BY DEF IInv, Ends, Alive
  <2> QED BY <1>1, <1>2, <1>3, <1>4, <2>1, <2>2, <2>3 DEF IInv, Ends
<1>8. Lockstep(p)'
  <2>1. NoFailure(e.toVm0)
    BY <1>2, EmptyQueue
  <2>2. ~flags[p].hbOk \/ ~NoFailure(conn[p].toVm0) => vm1.s # p /\ ~conn[p].queued
    BY DEF IInv, Lockstep
  <2> QED BY <1>1, <1>2, <1>3, <1>4, <2>1, <2>2 DEF Lockstep
<1>9. Timers(p)' /\ RevokeTimer(p)' /\ EndTimer(p)' /\ TtlTimer(p)'
  BY <1>1, <1>4, TimerAssumption DEF Timers, RevokeTimer, EndTimer, TtlTimer, Alive
<1>10. ASSUME NEW s \in Sessions
       PROVE  Ends(s)' /\ Lockstep(s)' /\ Timers(s)' /\ RevokeTimer(s)' /\ EndTimer(s)' /\ TtlTimer(s)'
  BY <1>3, <1>4, <1>7, <1>8, <1>9, OtherSessions
<1> QED BY <1>5, <1>6, <1>10 DEF IInv

(* What a driver that ends does to the flags when no result failed. *)
LEMMA RaisedFlag ==
    ASSUME IInv, NEW p \in Sessions, EndFlag(p)
    PROVE  \E f \in Flags : /\ flags' = [flags EXCEPT ![p] = f] /\ f.ended
                            /\ f.hbOk = flags[p].hbOk
<1> DEFINE f == [flags[p] EXCEPT !.ended = TRUE]
<1>0. flags[p] \in Flags
  BY DEF IInv, TypeOK, Flags
<1>1. f \in Flags /\ f.ended /\ f.hbOk = flags[p].hbOk
  BY <1>0, FlagUpdates
<1>2. flags' = [flags EXCEPT ![p] = f]
  BY DEF EndFlag, IInv, TypeOK
<1> QED BY <1>1, <1>2

(* The driver ends by revocation, by ttl, by a failed send or by a lost
   connection. *)
LEMMA DriverEndsKeepsIInv ==
    ASSUME IInv, NEW p \in Sessions,
           DriverRevoke(p) \/ DriverTtl(p) \/ DriverSendError(p) \/ DriverLost(p)
    PROVE  IInv'
<1>0. conn[p] \in Conns
  BY DEF IInv, TypeOK, Conns
<1>1. EndFlag(p) /\ Alive(p)
  BY DEF DriverRevoke, DriverTtl, DriverSendError, DriverLost, Alive
<1>2. PICK f \in Flags : /\ flags' = [flags EXCEPT ![p] = f] /\ f.ended
                         /\ f.hbOk = flags[p].hbOk
  BY <1>1, RaisedFlag
<1>3. \E c \in Conns : /\ c.queued = conn[p].queued /\ c.open1 = conn[p].open1
                       /\ DriverExit(p, c)
  <2>1. CASE DriverRevoke(p)
    <3> DEFINE c == Send1(conn[p], [type |-> "Revoke"])
    <3>1. DriverExit(p, c)
      BY <2>1 DEF DriverRevoke
    <3>2. c \in Conns /\ c.queued = conn[p].queued /\ c.open1 = conn[p].open1
      BY <1>0, Messages, SendToVm1
    <3> QED BY <3>1, <3>2
  <2>2. CASE ~DriverRevoke(p)
    BY <1>0, <2>2 DEF DriverTtl, DriverSendError, DriverLost
  <2> QED BY <2>1, <2>2
<1> QED BY <1>1, <1>2, <1>3, DriverExitKeepsIInv

(* The driver ends on a failed result, which vm1 sent as it left the session. *)
LEMMA DriverFailureKeepsIInv ==
    ASSUME IInv, NEW p \in Sessions, DriverFailure(p)
    PROVE  IInv'
<1> DEFINE q == conn[p].toVm0
           m == Head(q)
           f == [flags[p] EXCEPT !.hbSeq = m.seq, !.hbOk = FALSE, !.ended = TRUE]
<1>1. /\ conn[p] \in Conns /\ q \in Seq(ToVm0) /\ q # <<>> /\ Alive(p)
      /\ m.type = Answer /\ ~m.ok /\ DriverExit(p, conn[p])
  BY DEF IInv, TypeOK, Conns, DriverFailure, Head0, Alive, Answer
<1>2. m \in ToVm0 /\ ~NoFailure(q)
  BY <1>1, TailQueue DEF Answer
<1>3. m.seq \in Nat
  BY <1>1, <1>2, MessageFields
<1>4. flags' = [flags EXCEPT ![p] = f]
  BY DEF DriverFailure, IInv, TypeOK
<1> HIDE DEF m
<1>5. f \in Flags /\ f.ended
  <2>1. flags[p] \in Flags
    BY DEF IInv, TypeOK, Flags
  <2> QED BY <1>3, <2>1, FlagUpdates
<1> HIDE DEF f
<1> QED BY <1>1, <1>2, <1>4, <1>5, DriverExitKeepsIInv

(* The driver starts to wait: the ping countdown starts. *)
LEMMA DriverSelectKeepsIInv ==
    ASSUME IInv, NEW p \in Sessions, DriverSelect(p)
    PROVE  IInv'
<1> DEFINE d == [drv[p] EXCEPT !.loc = "select"]
<1>0. drv[p] \in Drivers /\ drv[p].loc = "top" /\ ~flags[p].revoke
  BY DEF IInv, TypeOK, Drivers, DriverSelect
<1>1. /\ d \in Drivers /\ d.loc = "select" /\ d.left = drv[p].left /\ d.ping = drv[p].ping
      /\ d.reply = drv[p].reply /\ d.seq = drv[p].seq
  BY <1>0 DEF Drivers
<1>2. /\ drv' = [drv EXCEPT ![p] = d]
      /\ UNCHANGED <<auth, state, ttl, expiresIn, flags, conn, vm1, begun, age, crashes>>
  BY DEF DriverSelect, IInv, TypeOK
<1> HIDE DEF d
<1>3. drv'[p] = d /\ \A s \in Sessions : s # p => drv'[s] = drv[s]
  BY <1>2 DEF IInv, TypeOK
<1>4. TypeOK'
  BY <1>1, <1>2 DEF IInv, TypeOK, Drivers
<1>5. Places'
  BY <1>1, <1>2, <1>3 DEF IInv, TypeOK, Places
<1>6. Ends(p)' /\ Lockstep(p)'
  BY <1>0, <1>1, <1>2, <1>3 DEF IInv, Ends, Lockstep, Connecting, InHeartbeat, Alive
<1>7. Timers(p)' /\ RevokeTimer(p)' /\ EndTimer(p)' /\ TtlTimer(p)'
  <2>1. Timers(p) /\ RevokeTimer(p) /\ EndTimer(p) /\ TtlTimer(p)
    BY DEF IInv
  <2> QED BY <1>0, <1>1, <1>2, <1>3, <2>1 DEF Timers, RevokeTimer, EndTimer, TtlTimer, Alive
<1>8. ASSUME NEW s \in Sessions
      PROVE  Ends(s)' /\ Lockstep(s)' /\ Timers(s)' /\ RevokeTimer(s)' /\ EndTimer(s)' /\ TtlTimer(s)'
  BY <1>2, <1>3, <1>6, <1>7, OtherSessions
<1> QED BY <1>4, <1>5, <1>8 DEF IInv

(* The driver sends a ping, the only one under way, and the reply countdown
   starts. *)
LEMMA DriverPingKeepsIInv ==
    ASSUME IInv, NEW p \in Sessions, DriverPing(p)
    PROVE  IInv'
<1> DEFINE n == drv[p].seq + 1
           m == [type |-> "HeartbeatPing", seq |-> n]
           d == [drv[p] EXCEPT !.loc = "await", !.seq = n,
                               !.ping = PingInterval, !.reply = ReplyTimeout]
           c == Send1(conn[p], m)
<1>0. /\ drv[p] \in Drivers /\ drv[p].loc = "select" /\ drv[p].ping = 0 /\ conn[p] \in Conns
      /\ n \in Nat
  <2>1. drv[p] \in Drivers /\ conn[p] \in Conns
    BY DEF IInv, TypeOK, Drivers, Conns
  <2>2. n \in Nat
    BY <2>1 DEF Drivers
  <2> QED BY <2>1, <2>2 DEF DriverPing
<1>3. /\ drv' = [drv EXCEPT ![p] = d] /\ conn' = [conn EXCEPT ![p] = c]
      /\ UNCHANGED <<auth, state, ttl, expiresIn, flags, vm1, begun, age, crashes>>
  BY DEF DriverPing, IInv, TypeOK
<1> HIDE DEF n
<1>1. /\ d \in Drivers /\ d.loc = "await" /\ d.left = drv[p].left /\ d.ping = PingInterval
      /\ d.reply = ReplyTimeout /\ d.seq = n
  BY <1>0, TimerAssumption DEF Drivers
<1>2. m \in ToVm1 /\ m.type = Ping /\ m.seq = d.seq
  BY <1>0, <1>1, Messages DEF Ping
<1> HIDE DEF d, m
<1>4. /\ c \in Conns /\ c.queued = conn[p].queued /\ c.open0 = conn[p].open0
      /\ c.open1 = conn[p].open1 /\ c.toVm0 = conn[p].toVm0
      /\ c.toVm1 = IF conn[p].open1 \/ conn[p].queued
                   THEN Append(conn[p].toVm1, m) ELSE conn[p].toVm1
  BY <1>0, <1>2, SendToVm1
<1> HIDE DEF c
<1>5. /\ drv'[p] = d /\ conn'[p] = c
      /\ \A s \in Sessions : s # p => drv'[s] = drv[s] /\ conn'[s] = conn[s]
  BY <1>3 DEF IInv, TypeOK
<1>6. TypeOK'
  BY <1>1, <1>3, <1>4 DEF IInv, TypeOK, Drivers, Conns
<1>7. Places'
  BY <1>1, <1>3, <1>5 DEF IInv, TypeOK, Places
<1>8. Ends(p)'
  BY <1>0, <1>1, <1>3, <1>4, <1>5 DEF IInv, Ends, Connecting, Alive
<1>9. Lockstep(p)'
  <2>1. Lockstep(p)
    BY DEF IInv
  <2>2. /\ Free(conn[p].toVm1, Ping) /\ Free(conn[p].toVm0, Answer) /\ ~InHeartbeat(p)
        /\ flags[p].hbOk /\ (~NoFailure(conn[p].toVm0) => vm1.s # p /\ ~conn[p].queued)
    BY <1>0, <2>1 DEF Lockstep
  <2>3. Once(c.toVm1, Ping) /\ Numbered(c.toVm1, Ping, d.seq)
    <3>1. conn[p].toVm1 \in Seq(ToVm1)
      BY <1>0 DEF Conns
    <3> QED BY <1>2, <1>4, <2>2, <3>1, AppendQueue, FreeQueue
  <2>4. Once(c.toVm0, Answer) /\ Numbered(c.toVm0, Answer, d.seq)
    BY <1>4, <2>2, FreeQueue
  <2>5. ~InHeartbeat(p)'
    BY <1>3, <2>2 DEF InHeartbeat
  <2> QED BY <1>1, <1>3, <1>4, <1>5, <2>2, <2>3, <2>4, <2>5 DEF Lockstep
<1>10. Timers(p)' /\ RevokeTimer(p)' /\ EndTimer(p)' /\ TtlTimer(p)'
  <2>1. /\ Timers(p) /\ RevokeTimer(p) /\ EndTimer(p) /\ TtlTimer(p)
        /\ age[p].revoke \in Nat /\ age[p].ended \in Nat /\ age[p].start \in Nat
        /\ Free(conn[p].toVm0, Answer)
    BY <1>0 DEF IInv, TypeOK, Lockstep
  <2>2. Timers(p)' /\ RevokeTimer(p)'
    BY <1>0, <1>1, <1>3, <1>5, <2>1, TimerAssumption DEF Timers, RevokeTimer, Alive
  <2>3. EndTimer(p)'
    BY <1>0, <1>1, <1>3, <1>4, <1>5, <2>1, TimerAssumption DEF EndTimer, Alive
  <2>4. TtlTimer(p)'
    BY <1>0, <1>1, <1>3, <1>5, <2>1 DEF TtlTimer, Alive
  <2> QED BY <2>2, <2>3, <2>4
<1>11. ASSUME NEW s \in Sessions
       PROVE  Ends(s)' /\ Lockstep(s)' /\ Timers(s)' /\ RevokeTimer(s)' /\ EndTimer(s)' /\ TtlTimer(s)'
  BY <1>3, <1>5, <1>8, <1>9, <1>10, OtherSessions
<1> QED BY <1>6, <1>7, <1>11 DEF IInv

(* A good result arrives; it is the answer to the last ping, and none is left
   under way. *)
LEMMA DriverResultKeepsIInv ==
    ASSUME IInv, NEW p \in Sessions, DriverResult(p)
    PROVE  IInv'
<1> DEFINE q == conn[p].toVm0
           m == Head(q)
           f == [flags[p] EXCEPT !.hbSeq = m.seq, !.hbOk = TRUE]
           d == [drv[p] EXCEPT !.loc = "top", !.reply = 0]
           c == Recv0(conn[p])
<1>0. /\ drv[p] \in Drivers /\ drv[p].loc = "await" /\ conn[p] \in Conns /\ flags[p] \in Flags
      /\ q \in Seq(ToVm0) /\ q # <<>> /\ m.type = Answer
  BY DEF IInv, TypeOK, Drivers, Conns, Flags, DriverResult, Head0, Answer
<1>1. /\ d \in Drivers /\ d.loc = "top" /\ d.left = drv[p].left /\ d.ping = drv[p].ping
      /\ d.reply = 0 /\ d.seq = drv[p].seq
  BY <1>0 DEF Drivers
<1>2. /\ drv' = [drv EXCEPT ![p] = d] /\ conn' = [conn EXCEPT ![p] = c]
      /\ flags' = [flags EXCEPT ![p] = f]
      /\ UNCHANGED <<auth, state, ttl, expiresIn, vm1, begun, age, crashes>>
  BY DEF DriverResult, IInv, TypeOK
<1>3. Lockstep(p)
  BY DEF IInv
<1>4. /\ m.seq \in Nat /\ m.seq = drv[p].seq /\ Free(Tail(q), Answer) /\ ~Free(q, Answer)
  <2>1. Once(q, Answer) /\ Numbered(q, Answer, drv[p].seq)
    BY <1>0, <1>3 DEF Lockstep
  <2>2. m \in ToVm0 /\ m.seq = drv[p].seq /\ Free(Tail(q), Answer) /\ ~Free(q, Answer)
    BY <1>0, <2>1, TailQueue
  <2> QED BY <1>0, <2>2, MessageFields
<1>5. /\ c \in Conns /\ c.queued = conn[p].queued /\ c.open0 = conn[p].open0
      /\ c.open1 = conn[p].open1 /\ c.toVm1 = conn[p].toVm1 /\ c.toVm0 = Tail(q)
  BY <1>0, ReceiveFromVm1
<1> HIDE DEF c, d, m
<1>6. /\ f \in Flags /\ f.ended = flags[p].ended /\ f.revoke = flags[p].revoke
      /\ f.hbSeq = m.seq /\ f.hbOk
  BY <1>0, <1>4, FlagUpdates
<1> HIDE DEF f
<1>7. /\ drv'[p] = d /\ conn'[p] = c /\ flags'[p] = f
      /\ \A s \in Sessions : s # p =>
           drv'[s] = drv[s] /\ conn'[s] = conn[s] /\ flags'[s] = flags[s]
  BY <1>2 DEF IInv, TypeOK
<1>8. TypeOK'
  BY <1>1, <1>2, <1>5, <1>6 DEF IInv, TypeOK, Drivers, Conns, Flags
<1>9. Places'
  BY <1>1, <1>2, <1>7 DEF IInv, TypeOK, Places
<1>10. Ends(p)'
  <2>1. Free(q, "SessionToken") => Free(Tail(q), "SessionToken")
    BY <1>0, TailQueue
  <2> QED BY <1>0, <1>1, <1>2, <1>5, <1>6, <1>7, <2>1 DEF IInv, Ends, Connecting, Alive
<1>11. Lockstep(p)'
  <2>1. Free(conn[p].toVm1, Ping) /\ ~InHeartbeat(p)
    BY <1>0, <1>3, <1>4 DEF Lockstep
  <2>2. NoFailure(c.toVm0)
    BY <1>4, <1>5, NoAnswerNoFailure
  <2>3. ~InHeartbeat(p)'
    BY <1>2, <2>1 DEF InHeartbeat
  <2> QED BY <1>1, <1>4, <1>5, <1>6, <1>7, <2>1, <2>2, <2>3 DEF Lockstep
<1>12. Timers(p)' /\ RevokeTimer(p)' /\ EndTimer(p)' /\ TtlTimer(p)'
  <2>1. /\ Timers(p) /\ RevokeTimer(p) /\ EndTimer(p) /\ TtlTimer(p)
        /\ age[p].revoke \in Nat /\ age[p].ended \in Nat /\ age[p].start \in Nat
        /\ drv[p].ping \in Nat /\ drv[p].reply \in Nat /\ ttl[p] \in Nat
    BY <1>0 DEF IInv, TypeOK, Drivers
  <2>2. Timers(p)' /\ RevokeTimer(p)'
    BY <1>0, <1>1, <1>2, <1>6, <1>7, <2>1, TimerAssumption DEF Timers, RevokeTimer, Alive
  <2>3. EndTimer(p)'
    BY <1>0, <1>1, <1>2, <1>4, <1>7, <2>1, TimerAssumption DEF EndTimer, Alive
  <2>4. TtlTimer(p)'
    BY <1>0, <1>1, <1>2, <1>7, <2>1, TimerAssumption DEF TtlTimer, Alive, Timers
  <2> QED BY <2>2, <2>3, <2>4
<1>13. ASSUME NEW s \in Sessions
       PROVE  Ends(s)' /\ Lockstep(s)' /\ Timers(s)' /\ RevokeTimer(s)' /\ EndTimer(s)' /\ TtlTimer(s)'
  BY <1>2, <1>7, <1>10, <1>11, <1>12, OtherSessions
<1> QED BY <1>8, <1>9, <1>13 DEF IInv
--------------------------------------------------------------------------------
(* vm1's records, by name. *)
Clients == [loc : {"accept", "attest", "initiate", "chain", "session", "heartbeat"},
            s : 0 .. MaxSessions, left : Nat, seq : Nat]

(* The session vm1 has accepted: its end is open and nothing of it has failed. *)
LEMMA ServedSession ==
    ASSUME IInv, vm1.loc # "accept"
    PROVE  /\ vm1.s \in Sessions /\ vm1.s \in Nat /\ vm1 \in Clients
           /\ conn[vm1.s] \in Conns /\ conn[vm1.s].open1 /\ ~conn[vm1.s].queued
           /\ conn[vm1.s].toVm1 \in Seq(ToVm1) /\ conn[vm1.s].toVm0 \in Seq(ToVm0)
           /\ drv[vm1.s] \in Drivers /\ flags[vm1.s].hbOk /\ NoFailure(conn[vm1.s].toVm0)
           /\ Ends(vm1.s) /\ Lockstep(vm1.s)
<1>1. vm1.s \in Sessions /\ vm1.s \in Nat /\ vm1 \in Clients
  BY BoundAssumption DEF IInv, TypeOK, Places, Sessions, Clients
<1>2. conn[vm1.s] \in Conns /\ drv[vm1.s] \in Drivers /\ Ends(vm1.s) /\ Lockstep(vm1.s)
  BY <1>1 DEF IInv, TypeOK, Conns, Drivers
<1>3. conn[vm1.s].open1 /\ ~conn[vm1.s].queued
  BY <1>1, <1>2 DEF Ends
<1>4. flags[vm1.s].hbOk /\ NoFailure(conn[vm1.s].toVm0)
  BY <1>2 DEF Lockstep
<1>5. conn[vm1.s].toVm1 \in Seq(ToVm1) /\ conn[vm1.s].toVm0 \in Seq(ToVm0)
  BY <1>2 DEF Conns
<1> QED BY <1>1, <1>2, <1>3, <1>4, <1>5

(* The sessions vm1 does not serve. *)
LEMMA UnservedSessions ==
    ASSUME IInv, NEW s \in Sessions, vm1.s # s, vm1'.s # s, begun' = begun,
           conn'[s] = conn[s],
           conn[s].queued => vm1'.s < s,
           UNCHANGED <<auth, ttl, flags, drv, age>>
    PROVE  Ends(s)' /\ Lockstep(s)' /\ Timers(s)' /\ RevokeTimer(s)' /\ EndTimer(s)' /\ TtlTimer(s)'
<1>1. Ends(s)'
  BY DEF IInv, Ends, Connecting, Alive
<1> QED BY <1>1, QuietLockstep, QuietTimers

(* vm1 returns to accept, whatever it has told vm0 before. *)
LEMMA Vm1ReturnKeepsIInv ==
    ASSUME IInv, vm1.loc # "accept",
           NEW c \in Conns, c.queued = conn[vm1.s].queued, c.open0 = conn[vm1.s].open0,
           drv[vm1.s].loc \in {"none", "top", "select"} => Free(c.toVm0, Answer),
           drv[vm1.s].loc = "await" =>
               Once(c.toVm0, Answer) /\ Numbered(c.toVm0, Answer, drv[vm1.s].seq),
           Free(conn[vm1.s].toVm0, "SessionToken") => Free(c.toVm0, "SessionToken"),
           Vm1Return(c), UNCHANGED expiresIn
    PROVE  IInv'
<1>p. PICK p \in Sessions : p = vm1.s
  BY ServedSession
<1> DEFINE e == Close1(c)
<1>0. /\ p \in Sessions /\ p \in Nat /\ conn[p] \in Conns /\ ~conn[p].queued
      /\ drv[p] \in Drivers /\ Ends(p) /\ Lockstep(p)
  BY <1>p, ServedSession
<1>1. /\ e \in Conns /\ ~e.open1 /\ e.toVm1 = <<>>
      /\ ~e.queued /\ e.open0 = conn[p].open0 /\ e.toVm0 = c.toVm0
  BY <1>p, <1>0, CloseEnds
<1>2. /\ vm1' = [loc |-> "accept", s |-> 0, left |-> 0, seq |-> 0]
      /\ conn' = [conn EXCEPT ![p] = e]
      /\ UNCHANGED <<auth, state, ttl, flags, drv, begun, age, crashes>>
  BY <1>p DEF Vm1Return, None
<1> HIDE DEF e
<1>3. /\ conn'[p] = e /\ \A s \in Sessions : s # p => conn'[s] = conn[s]
      /\ vm1'.s = 0 /\ vm1'.loc = "accept" /\ vm1' \in Clients
  BY <1>0, <1>2, BoundAssumption DEF IInv, TypeOK, Clients
<1>4. TypeOK'
  BY <1>0, <1>1, <1>2, <1>3 DEF IInv, TypeOK, Conns, Clients
<1>5. Places'
  BY <1>2, <1>3 DEF IInv, TypeOK, Places
<1>6. Ends(p)'
  BY <1>p, <1>0, <1>1, <1>2, <1>3 DEF Ends, Connecting, Alive, Sessions
<1>7. Lockstep(p)'
  <2>1. Free(e.toVm1, Ping) /\ ~InHeartbeat(p)' /\ vm1'.s # p
    BY <1>0, <1>1, <1>3, EmptyQueue DEF InHeartbeat, Sessions
  <2>2. Once(e.toVm1, Ping) /\ Numbered(e.toVm1, Ping, drv[p].seq)
    BY <2>1, FreeQueue
  <2> QED BY <1>p, <1>0, <1>1, <1>2, <1>3, <2>1, <2>2 DEF Lockstep
<1>8. Timers(p)' /\ RevokeTimer(p)' /\ EndTimer(p)' /\ TtlTimer(p)'
  BY <1>p, <1>0, <1>2, QuietTimers
<1>9. ASSUME NEW s \in Sessions
      PROVE  Ends(s)' /\ Lockstep(s)' /\ Timers(s)' /\ RevokeTimer(s)' /\ EndTimer(s)' /\ TtlTimer(s)'
  <2>1. s # 0 /\ 0 < s
    BY DEF Sessions
  <2>2. CASE s # p
    BY <1>p, <1>2, <1>3, <2>1, <2>2, UnservedSessions
  <2> QED BY <1>6, <1>7, <1>8, <2>2
<1> QED BY <1>4, <1>5, <1>9 DEF IInv

(* A message of vm1 that is neither a result nor the token. *)
LEMMA PlainMessage ==
    ASSUME NEW c \in Conns, NEW m \in ToVm0, m.type # Answer, m.type # "SessionToken"
    PROVE  LET d == Send0(c, m) IN
           /\ d \in Conns
           /\ d.queued = c.queued /\ d.open0 = c.open0 /\ d.open1 = c.open1
           /\ d.toVm1 = c.toVm1
           /\ Free(c.toVm0, Answer) => Free(d.toVm0, Answer)
           /\ Once(c.toVm0, Answer) => Once(d.toVm0, Answer)
           /\ \A n : Numbered(c.toVm0, Answer, n) => Numbered(d.toVm0, Answer, n)
           /\ NoFailure(c.toVm0) => NoFailure(d.toVm0)
           /\ Free(c.toVm0, "SessionToken") => Free(d.toVm0, "SessionToken")
           /\ ~Free(d.toVm0, Answer) => ~Free(c.toVm0, Answer)
<1> DEFINE d == Send0(c, m)
<1>1. /\ d \in Conns
      /\ d.queued = c.queued /\ d.open0 = c.open0 /\ d.open1 = c.open1
      /\ d.toVm1 = c.toVm1
      /\ d.toVm0 = IF c.open0 THEN Append(c.toVm0, m) ELSE c.toVm0
  BY SendToVm0
<1> HIDE DEF d
<1>2. c.toVm0 \in Seq(ToVm0)
  BY DEF Conns
<1>3. /\ Free(c.toVm0, Answer) => Free(d.toVm0, Answer)
      /\ Once(c.toVm0, Answer) => Once(d.toVm0, Answer)
      /\ \A n : Numbered(c.toVm0, Answer, n) => Numbered(d.toVm0, Answer, n)
      /\ NoFailure(c.toVm0) => NoFailure(d.toVm0)
      /\ Free(c.toVm0, "SessionToken") => Free(d.toVm0, "SessionToken")
  <2>1. CASE c.open0
    <3>1. d.toVm0 = Append(c.toVm0, m)
      BY <1>1, <2>1
    <3> QED BY <1>2, <3>1, AppendQueue, AppendNoFailure
  <2>2. CASE ~c.open0
    BY <1>1, <2>2
  <2> QED BY <2>1, <2>2
<1> QED BY <1>1, <1>3 DEF d

(* vm1 leaves the session with a last message other than a result or a token. *)
LEMMA ReturnWithMessage ==
    ASSUME IInv, vm1.loc # "accept", UNCHANGED expiresIn,
           NEW m \in ToVm0, m.type # Answer, m.type # "SessionToken",
           Vm1Return(Send0(conn[vm1.s], m))
    PROVE  IInv'
<1> DEFINE c == Send0(conn[vm1.s], m)
<1>1. conn[vm1.s] \in Conns /\ Lockstep(vm1.s) /\ drv[vm1.s] \in Drivers
  BY ServedSession
<1>2. /\ c \in Conns /\ c.queued = conn[vm1.s].queued /\ c.open0 = conn[vm1.s].open0
      /\ Free(conn[vm1.s].toVm0, Answer) => Free(c.toVm0, Answer)
      /\ Once(conn[vm1.s].toVm0, Answer) => Once(c.toVm0, Answer)
      /\ \A n : Numbered(conn[vm1.s].toVm0, Answer, n) => Numbered(c.toVm0, Answer, n)
      /\ Free(conn[vm1.s].toVm0, "SessionToken") => Free(c.toVm0, "SessionToken")
  BY <1>1, PlainMessage
<1> HIDE DEF c
<1>3. /\ drv[vm1.s].loc \in {"none", "top", "select"} => Free(c.toVm0, Answer)
      /\ drv[vm1.s].loc = "await" =>
           Once(c.toVm0, Answer) /\ Numbered(c.toVm0, Answer, drv[vm1.s].seq)
  BY <1>1, <1>2 DEF Lockstep
<1>4. Vm1Return(c)
  BY DEF c
<1> QED BY <1>2, <1>3, <1>4, Vm1ReturnKeepsIInv

(* vm1 leaves the session: INITIATE refused, chain failed, ttl over, revoked,
   connection lost. *)
LEMMA Vm1EndsKeepsIInv ==
    ASSUME IInv,
           \/ Vm1Rejects \/ Vm1ChainFails
           \/ Vm1Ttl \/ Vm1Revoked \/ Vm1Disconnected
    PROVE  IInv'
<1> DEFINE rejected == [type |-> "InitiateRejected"]
           failed == [type |-> "ChainFailed"]
           over == [type |-> "SessionEnded"]
<1>1. /\ rejected \in ToVm0 /\ failed \in ToVm0 /\ over \in ToVm0
      /\ rejected.type \notin {Answer, "SessionToken"}
      /\ failed.type \notin {Answer, "SessionToken"}
      /\ over.type \notin {Answer, "SessionToken"}
  BY Messages DEF Answer
<1>2. /\ UNCHANGED expiresIn /\ vm1.loc # "accept"
      /\ \/ Vm1Return(Send0(conn[vm1.s], rejected))
         \/ Vm1Return(Send0(conn[vm1.s], failed))
         \/ Vm1Return(Send0(conn[vm1.s], over))
  BY DEF Vm1Rejects, Vm1ChainFails, Vm1Ttl, Vm1Revoked, Vm1Disconnected, Vm1SessionEnds
<1> HIDE DEF rejected, failed, over
<1> QED BY <1>1, <1>2, ReturnWithMessage

(* vm1 leaves a handshake without a word. *)
LEMMA Vm1HandshakeErrorKeepsIInv ==
    ASSUME IInv, Vm1HandshakeError
    PROVE  IInv'
<1>1. vm1.loc # "accept" /\ Vm1Return(conn[vm1.s]) /\ UNCHANGED expiresIn
  BY DEF Vm1HandshakeError
<1>2. conn[vm1.s] \in Conns /\ Lockstep(vm1.s)
  BY <1>1, ServedSession
<1>3. /\ drv[vm1.s].loc \in {"none", "top", "select"} => Free(conn[vm1.s].toVm0, Answer)
      /\ drv[vm1.s].loc = "await" =>
           /\ Once(conn[vm1.s].toVm0, Answer)
           /\ Numbered(conn[vm1.s].toVm0, Answer, drv[vm1.s].seq)
  BY <1>2 DEF Lockstep
<1> QED BY <1>1, <1>2, <1>3, Vm1ReturnKeepsIInv
(* A heartbeat under way on vm1 is the one its driver waits for, if that still
   runs; there is no other trace of it. *)
LEMMA HeartbeatUnderWay ==
    ASSUME IInv, vm1.loc = "heartbeat"
    PROVE  /\ drv[vm1.s].loc \in {"await", "exited"}
           /\ drv[vm1.s].loc = "await" =>
                /\ vm1.seq = drv[vm1.s].seq
                /\ Free(conn[vm1.s].toVm1, Ping) /\ Free(conn[vm1.s].toVm0, Answer)
<1>1. Lockstep(vm1.s) /\ drv[vm1.s] \in Drivers
  BY ServedSession
<1>2. InHeartbeat(vm1.s)
  BY DEF InHeartbeat
<1> QED BY <1>1, <1>2 DEF Lockstep, Drivers

(* The result of a heartbeat on its way to vm0. *)
LEMMA SentResult ==
    ASSUME IInv, vm1.loc = "heartbeat", NEW ok \in BOOLEAN
    PROVE  LET c == Send0(conn[vm1.s], Result(ok)) IN
           /\ c \in Conns /\ c.queued = conn[vm1.s].queued /\ c.open0 = conn[vm1.s].open0
           /\ c.open1 = conn[vm1.s].open1 /\ c.toVm1 = conn[vm1.s].toVm1
           /\ drv[vm1.s].loc = "await" =>
                Once(c.toVm0, Answer) /\ Numbered(c.toVm0, Answer, drv[vm1.s].seq)
           /\ Free(conn[vm1.s].toVm0, "SessionToken") => Free(c.toVm0, "SessionToken")
           /\ ok => NoFailure(c.toVm0)
<1> DEFINE q == conn[vm1.s].toVm0
           m == Result(ok)
           c == Send0(conn[vm1.s], m)
<1>1. conn[vm1.s] \in Conns /\ vm1 \in Clients /\ q \in Seq(ToVm0) /\ NoFailure(q)
  BY ServedSession
<1>2. m \in ToVm0 /\ m.type = Answer /\ m.seq = vm1.seq /\ m.ok = ok
  BY <1>1, Messages DEF Result, Clients, Answer
<1> HIDE DEF m
<1>3. /\ c \in Conns /\ c.queued = conn[vm1.s].queued /\ c.open0 = conn[vm1.s].open0
      /\ c.open1 = conn[vm1.s].open1 /\ c.toVm1 = conn[vm1.s].toVm1
      /\ c.toVm0 = IF conn[vm1.s].open0 THEN Append(q, m) ELSE q
  BY <1>1, <1>2, SendToVm0
<1> HIDE DEF c
<1>4. drv[vm1.s].loc = "await" =>
        Once(c.toVm0, Answer) /\ Numbered(c.toVm0, Answer, drv[vm1.s].seq)
  <2> SUFFICES ASSUME drv[vm1.s].loc = "await"
               PROVE  Once(c.toVm0, Answer) /\ Numbered(c.toVm0, Answer, drv[vm1.s].seq)
    OBVIOUS
  <2>1. vm1.seq = drv[vm1.s].seq /\ Free(q, Answer)
    BY HeartbeatUnderWay
  <2>2. Once(q, Answer) /\ Numbered(q, Answer, drv[vm1.s].seq)
    BY <2>1, FreeQueue
  <2>3. /\ Once(Append(q, m), Answer) /\ Numbered(Append(q, m), Answer, drv[vm1.s].seq)
    BY <1>1, <1>2, <2>1, <2>2, AppendQueue
  <2> QED BY <1>3, <2>2, <2>3
<1>5. Free(q, "SessionToken") => Free(c.toVm0, "SessionToken")
  BY <1>1, <1>2, <1>3, AppendQueue DEF Answer
<1>6. ok => NoFailure(c.toVm0)
  BY <1>1, <1>2, <1>3, AppendNoFailure
<1> QED BY <1>3, <1>4, <1>5, <1>6 DEF c, m

(* A heartbeat fails: vm1 answers with the failure and leaves the session. *)
LEMMA Vm1HeartbeatFailsKeepsIInv ==
    ASSUME IInv, Vm1HeartbeatFails
    PROVE  IInv'
<1> DEFINE b == Send0(conn[vm1.s], Result(FALSE))
           over == [type |-> "SessionEnded"]
           c == Send0(b, over)
<1>1. vm1.loc = "heartbeat" /\ Vm1Return(c) /\ UNCHANGED expiresIn
  BY DEF Vm1HeartbeatFails
<1>2. drv[vm1.s].loc \in {"await", "exited"}
  BY <1>1, HeartbeatUnderWay
<1>3. /\ b \in Conns /\ b.queued = conn[vm1.s].queued /\ b.open0 = conn[vm1.s].open0
      /\ drv[vm1.s].loc = "await" =>
           Once(b.toVm0, Answer) /\ Numbered(b.toVm0, Answer, drv[vm1.s].seq)
      /\ Free(conn[vm1.s].toVm0, "SessionToken") => Free(b.toVm0, "SessionToken")
  BY <1>1, SentResult
<1>4. over \in ToVm0 /\ over.type # Answer /\ over.type # "SessionToken"
  BY Messages DEF Answer
<1> HIDE DEF b, over
<1>5. /\ c \in Conns /\ c.queued = b.queued /\ c.open0 = b.open0
      /\ Once(b.toVm0, Answer) => Once(c.toVm0, Answer)
      /\ \A n : Numbered(b.toVm0, Answer, n) => Numbered(c.toVm0, Answer, n)
      /\ Free(b.toVm0, "SessionToken") => Free(c.toVm0, "SessionToken")
  BY <1>3, <1>4, PlainMessage
<1> HIDE DEF c
<1> QED BY <1>1, <1>2, <1>3, <1>5, Vm1ReturnKeepsIInv

(* A step in which vm1 goes on with the connection it serves. *)
LEMMA ServingStep ==
    ASSUME IInv, vm1.loc # "accept",
           NEW p \in Sessions, p = vm1.s,
           NEW v \in Clients, vm1' = v, v.s = p, v.loc # "accept",
           NEW c \in Conns, conn' = [conn EXCEPT ![p] = c],
           c.queued = conn[p].queued, c.open0 = conn[p].open0, c.open1 = conn[p].open1,
           begun' = begun,
           v.loc \in {"attest", "initiate", "chain"} => begun < p,
           v.loc \in {"session", "heartbeat"} => begun = p,
           Free(conn[p].toVm0, "SessionToken") => Free(c.toVm0, "SessionToken"),
           Lockstep(p)',
           expiresIn' \in [Sessions -> Nat],
           UNCHANGED <<auth, state, ttl, flags, drv, age, crashes>>
    PROVE  IInv'
<1>0. p \in Nat /\ Ends(p)
  BY ServedSession
<1>1. conn'[p] = c /\ \A s \in Sessions : s # p => conn'[s] = conn[s]
  BY DEF IInv, TypeOK
<1>2. TypeOK'
  BY DEF IInv, TypeOK, Conns, Clients
<1>3. Places'
  BY DEF IInv, TypeOK, Places, Clients
<1>4. Ends(p)'
  BY <1>0, <1>1 DEF Ends, Connecting, Alive
<1>5. Timers(p)' /\ RevokeTimer(p)' /\ EndTimer(p)' /\ TtlTimer(p)'
  BY QuietTimers
<1>6. ASSUME NEW s \in Sessions
      PROVE  Ends(s)' /\ Lockstep(s)' /\ Timers(s)' /\ RevokeTimer(s)' /\ EndTimer(s)' /\ TtlTimer(s)'
  <2>1. CASE s # p
    <3>1. conn[s].queued => vm1.s < s
      BY DEF IInv, Ends
    <3> QED BY <1>1, <2>1, <3>1, UnservedSessions
  <2> QED BY <1>4, <1>5, <2>1
<1> QED BY <1>2, <1>3, <1>6 DEF IInv

(* The handshake: vm1 reads a message and answers it. *)
LEMMA HandshakeStep ==
    ASSUME IInv, vm1.loc \in {"attest", "initiate"}, Head1(vm1.s),
           NEW loc \in {"initiate", "chain"}, vm1' = [vm1 EXCEPT !.loc = loc],
           NEW m \in ToVm0, m.type # Answer, m.type # "SessionToken",
           conn' = [conn EXCEPT ![vm1.s] = Send0(Recv1(@), m)],
           expiresIn' \in [Sessions -> Nat],
           UNCHANGED <<auth, state, ttl, flags, drv, begun, age, crashes>>
    PROVE  IInv'
<1>p. PICK p \in Sessions : p = vm1.s
  BY ServedSession
<1> DEFINE q == conn[p].toVm1
           b == Recv1(conn[p])
           c == Send0(b, m)
<1>0. /\ conn[p] \in Conns /\ q \in Seq(ToVm1) /\ q # <<>> /\ Lockstep(p) /\ Ends(p)
      /\ vm1 \in Clients /\ NoFailure(conn[p].toVm0) /\ p \in Nat
  BY <1>p, ServedSession DEF Head1
<1>1. /\ b \in Conns /\ b.queued = conn[p].queued /\ b.open0 = conn[p].open0
      /\ b.open1 = conn[p].open1 /\ b.toVm0 = conn[p].toVm0 /\ b.toVm1 = Tail(q)
  BY <1>0, ReceiveFromVm0
<1> HIDE DEF b
<1>2. /\ c \in Conns /\ c.queued = b.queued /\ c.open0 = b.open0 /\ c.open1 = b.open1
      /\ c.toVm1 = b.toVm1
      /\ Free(b.toVm0, Answer) => Free(c.toVm0, Answer)
      /\ NoFailure(b.toVm0) => NoFailure(c.toVm0)
      /\ Free(b.toVm0, "SessionToken") => Free(c.toVm0, "SessionToken")
  BY <1>1, PlainMessage
<1>3. conn' = [conn EXCEPT ![p] = c]
  BY <1>p DEF b, IInv, TypeOK
<1> HIDE DEF c
<1>4. begun < p
  BY <1>p DEF IInv, Places
<1>5. drv[p].loc = "none"
  <2>1. begun \in Nat /\ p \in Nat
    BY SessionNumbers
  <2> QED BY <1>0, <1>4, <2>1 DEF Ends
<1>6. vm1' \in Clients /\ vm1'.s = p /\ vm1'.loc = loc
  BY <1>p, <1>0 DEF Clients
<1>7. Lockstep(p)'
  <2>1. Free(conn[p].toVm0, Answer) /\ Free(q, Ping) /\ flags[p].hbOk
    BY <1>0, <1>5 DEF Lockstep
  <2>2. Free(c.toVm0, Answer) /\ Free(c.toVm1, Ping) /\ NoFailure(c.toVm0)
    BY <1>0, <1>1, <1>2, <2>1, TailQueue
  <2>3. conn'[p] = c /\ ~InHeartbeat(p)'
    BY <1>3, <1>6 DEF IInv, TypeOK, InHeartbeat
  <2> QED BY <1>5, <2>1, <2>2, <2>3 DEF Lockstep
<1> QED BY <1>p, <1>1, <1>2, <1>3, <1>4, <1>6, <1>7, ServingStep

(* vm1 attests itself. *)
LEMMA Vm1AttestKeepsIInv ==
    ASSUME IInv, Vm1Attest
    PROVE  IInv'
<1> DEFINE m == [type |-> "AttestationResponse"]
<1>1. m \in ToVm0 /\ m.type # Answer /\ m.type # "SessionToken"
  BY Messages DEF Answer
<1>2. /\ vm1.loc = "attest" /\ Head1(vm1.s) /\ vm1' = [vm1 EXCEPT !.loc = "initiate"]
      /\ conn' = [conn EXCEPT ![vm1.s] = Send0(Recv1(@), m)]
      /\ expiresIn' \in [Sessions -> Nat]
      /\ UNCHANGED <<auth, state, ttl, flags, drv, begun, age, crashes>>
  BY DEF Vm1Attest, IInv, TypeOK
<1> HIDE DEF m
<1> QED BY <1>1, <1>2, HandshakeStep

(* vm1 accepts INITIATE and starts the chain. *)
LEMMA Vm1AcceptsKeepsIInv ==
    ASSUME IInv, Vm1Accepts
    PROVE  IInv'
<1> DEFINE m == [type |-> "InitiateAck"]
<1>1. m \in ToVm0 /\ m.type # Answer /\ m.type # "SessionToken"
  BY Messages DEF Answer
<1>2. /\ vm1.loc = "initiate" /\ Head1(vm1.s) /\ vm1' = [vm1 EXCEPT !.loc = "chain"]
      /\ conn' = [conn EXCEPT ![vm1.s] = Send0(Recv1(@), m)]
      /\ UNCHANGED <<auth, state, ttl, flags, drv, begun, age, crashes>>
  BY DEF Vm1Accepts
<1>3. expiresIn' \in [Sessions -> Nat]
  <2>1. vm1.s \in Sessions
    BY <1>2, ServedSession
  <2> QED BY <2>1 DEF Vm1Accepts, IInv, TypeOK
<1> HIDE DEF m
<1> QED BY <1>1, <1>2, <1>3, HandshakeStep

(* vm1 takes the ping, the only one under way, and runs the chain for it. *)
LEMMA Vm1PingKeepsIInv ==
    ASSUME IInv, Vm1Ping
    PROVE  IInv'
<1>p. PICK p \in Sessions : p = vm1.s
  BY ServedSession DEF Vm1Ping
<1> DEFINE q == conn[p].toVm1
           m == Head(q)
           c == Recv1(conn[p])
<1>0. /\ vm1.loc = "session" /\ vm1 \in Clients /\ conn[p] \in Conns /\ drv[p] \in Drivers
      /\ q \in Seq(ToVm1) /\ q # <<>> /\ m.type = Ping
      /\ Lockstep(p) /\ NoFailure(conn[p].toVm0)
  BY <1>p, ServedSession DEF Vm1Ping, Head1, Ping
<1>1. /\ c \in Conns /\ c.queued = conn[p].queued /\ c.open0 = conn[p].open0
      /\ c.open1 = conn[p].open1 /\ c.toVm0 = conn[p].toVm0 /\ c.toVm1 = Tail(q)
  BY <1>0, ReceiveFromVm0
<1>2. /\ vm1' = [vm1 EXCEPT !.loc = "heartbeat", !.seq = m.seq]
      /\ conn' = [conn EXCEPT ![p] = c]
      /\ UNCHANGED <<auth, state, ttl, expiresIn, flags, drv, begun, age, crashes>>
  BY <1>p DEF Vm1Ping, IInv, TypeOK
<1>3. m \in ToVm1 /\ ~Free(q, Ping)
  BY <1>0, TailQueue
<1>4. m.seq \in Nat
  BY <1>0, <1>3, MessageFields
<1> HIDE DEF c, m
<1>5. vm1' \in Clients /\ vm1'.s = p /\ vm1'.loc = "heartbeat" /\ vm1'.seq = m.seq
  BY <1>p, <1>0, <1>2, <1>4 DEF Clients
<1>6. begun = p
  BY <1>p, <1>0 DEF IInv, Places
<1>7. Lockstep(p)'
  <2>1. drv[p].loc \in {"await", "exited"} /\ (~flags[p].hbOk => drv[p].loc = "exited")
        /\ (drv[p].loc = "await" => /\ Once(q, Ping) /\ Numbered(q, Ping, drv[p].seq)
                                    /\ Free(conn[p].toVm0, Answer))
        /\ flags[p].hbOk
    BY <1>p, <1>0, <1>3 DEF Lockstep, Drivers
  <2>2. conn'[p] = c
    BY <1>2 DEF IInv, TypeOK
  <2>3. CASE drv[p].loc = "exited"
    BY <1>0, <1>1, <1>2, <2>1, <2>2, <2>3 DEF Lockstep
  <2>4. CASE drv[p].loc = "await"
    <3>1. Free(Tail(q), Ping) /\ m.seq = drv[p].seq
      BY <1>0, <2>1, <2>4, TailQueue DEF m
    <3>2. /\ Once(Tail(q), Ping) /\ Numbered(Tail(q), Ping, drv[p].seq)
          /\ Once(conn[p].toVm0, Answer) /\ Numbered(conn[p].toVm0, Answer, drv[p].seq)
      BY <2>1, <2>4, <3>1, FreeQueue
    <3> QED BY <1>0, <1>1, <1>2, <1>5, <2>1, <2>2, <2>4, <3>1, <3>2 DEF Lockstep
  <2> QED BY <2>1, <2>3, <2>4
<1>8. expiresIn' \in [Sessions -> Nat]
  BY <1>2 DEF IInv, TypeOK
<1> QED BY <1>p, <1>0, <1>1, <1>2, <1>5, <1>6, <1>7, <1>8, ServingStep

(* A heartbeat succeeds: the answer to the ping is under way and vm1 is back
   in its session loop. *)
LEMMA Vm1HeartbeatOkKeepsIInv ==
    ASSUME IInv, Vm1HeartbeatOk
    PROVE  IInv'
<1>p. PICK p \in Sessions : p = vm1.s
  BY ServedSession DEF Vm1HeartbeatOk
<1> DEFINE c == Send0(conn[p], Result(TRUE))
<1>0. vm1.loc = "heartbeat" /\ vm1 \in Clients /\ Lockstep(p) /\ flags[p].hbOk
  BY <1>p, ServedSession DEF Vm1HeartbeatOk
<1>1. /\ c \in Conns /\ c.queued = conn[p].queued /\ c.open0 = conn[p].open0
      /\ c.open1 = conn[p].open1 /\ c.toVm1 = conn[p].toVm1
      /\ drv[p].loc = "await" => Once(c.toVm0, Answer) /\ Numbered(c.toVm0, Answer, drv[p].seq)
      /\ Free(conn[p].toVm0, "SessionToken") => Free(c.toVm0, "SessionToken")
      /\ NoFailure(c.toVm0)
  BY <1>p, <1>0, SentResult
<1>2. /\ vm1' = [vm1 EXCEPT !.loc = "session", !.seq = 0]
      /\ conn' = [conn EXCEPT ![p] = c]
      /\ UNCHANGED <<auth, state, ttl, expiresIn, flags, drv, begun, age, crashes>>
  BY <1>p DEF Vm1HeartbeatOk, IInv, TypeOK
<1> HIDE DEF c
<1>3. vm1' \in Clients /\ vm1'.s = p /\ vm1'.loc = "session"
  BY <1>p, <1>0, <1>2 DEF Clients
<1>4. begun = p
  BY <1>p, <1>0 DEF IInv, Places
<1>5. Lockstep(p)'
  <2>1. /\ drv[p].loc \in {"await", "exited"}
        /\ drv[p].loc = "await" => Free(conn[p].toVm1, Ping)
    BY <1>p, <1>0, HeartbeatUnderWay
  <2>2. conn'[p] = c /\ ~InHeartbeat(p)'
    BY <1>2, <1>3 DEF IInv, TypeOK, InHeartbeat
  <2>3. drv[p].loc = "await" => Once(c.toVm1, Ping) /\ Numbered(c.toVm1, Ping, drv[p].seq)
    BY <1>1, <2>1, FreeQueue
  <2> QED BY <1>0, <1>1, <1>2, <2>1, <2>2, <2>3 DEF Lockstep
<1>6. expiresIn' \in [Sessions -> Nat]
  BY <1>2 DEF IInv, TypeOK
<1> QED BY <1>p, <1>0, <1>1, <1>2, <1>3, <1>4, <1>5, <1>6, ServingStep

(* The chain verifies: vm1 sends the token and begins the session, the latest
   one. *)
LEMMA Vm1ChainOkKeepsIInv ==
    ASSUME IInv, Vm1ChainOk
    PROVE  IInv'
<1>p. PICK p \in Sessions : p = vm1.s
  BY ServedSession DEF Vm1ChainOk
<1> DEFINE m == [type |-> "SessionToken"]
           q == conn[p].toVm0
           c == Send0(conn[p], m)
<1>0. /\ vm1.loc = "chain" /\ vm1 \in Clients /\ conn[p] \in Conns /\ q \in Seq(ToVm0)
      /\ Lockstep(p) /\ Ends(p) /\ NoFailure(q) /\ p \in Nat
      /\ ~conn[p].queued /\ conn[p].open1
  BY <1>p, ServedSession DEF Vm1ChainOk
<1>1. m \in ToVm0 /\ m.type # Answer
  BY Messages DEF Answer
<1>2. /\ vm1' = [vm1 EXCEPT !.loc = "session", !.left = ttl[p]]
      /\ conn' = [conn EXCEPT ![p] = c] /\ begun' = p
      /\ UNCHANGED <<auth, state, ttl, expiresIn, flags, drv, age, crashes>>
  BY <1>p DEF Vm1ChainOk, IInv, TypeOK
<1> HIDE DEF m
<1>3. /\ c \in Conns /\ c.queued = conn[p].queued /\ c.open0 = conn[p].open0
      /\ c.open1 = conn[p].open1 /\ c.toVm1 = conn[p].toVm1
      /\ c.toVm0 = IF conn[p].open0 THEN Append(q, m) ELSE q
  BY <1>0, <1>1, SendToVm0
<1> HIDE DEF c
<1>4. begun < p /\ p <= auth.s
  BY <1>p, <1>0 DEF IInv, Places
<1>5. drv[p].loc = "none" /\ ~Alive(p)
  BY <1>0, <1>4 DEF Ends, IInv, TypeOK, Alive
<1>6. /\ vm1'.s = p /\ vm1'.loc = "session" /\ vm1' \in Clients
      /\ conn'[p] = c /\ \A s \in Sessions : s # p => conn'[s] = conn[s]
  BY <1>p, <1>0, <1>2 DEF Clients, IInv, TypeOK
<1>7. TypeOK'
  <2>1. begun' \in 0 .. MaxSessions
    BY <1>2, BoundAssumption DEF Sessions
  <2> QED BY <1>2, <1>3, <1>6, <2>1 DEF IInv, TypeOK, Conns, Clients
<1>8. Places'
  BY <1>p, <1>0, <1>2, <1>4, <1>6 DEF IInv, Places, Sessions
<1>9. Ends(p)'
  <2>1. /\ conn'[p].open0 = conn[p].open0 /\ ~conn'[p].queued /\ conn'[p].open1
    BY <1>0, <1>3, <1>6
  <2>2. Connecting(p)' = Connecting(p) /\ Alive(p)' = Alive(p)
    BY <1>2 DEF Connecting, Alive
  <2>3. (conn[p].open0 <=> Connecting(p) \/ Alive(p)) /\ (flags[p].ended => drv[p].loc = "exited")
    BY <1>0 DEF Ends
  <2> QED BY <1>0, <1>2, <1>5, <1>6, <2>1, <2>2, <2>3 DEF Ends
<1>10. Lockstep(p)'
  <2>1. Free(q, Answer) /\ Free(conn[p].toVm1, Ping) /\ flags[p].hbOk
    BY <1>0, <1>5 DEF Lockstep
  <2>2. Free(c.toVm0, Answer) /\ NoFailure(c.toVm0)
    BY <1>0, <1>1, <1>3, <2>1, AppendQueue, AppendNoFailure
  <2>3. ~InHeartbeat(p)'
    BY <1>6 DEF InHeartbeat
  <2> QED BY <1>2, <1>3, <1>5, <1>6, <2>1, <2>2, <2>3 DEF Lockstep
<1>11. Timers(p)' /\ RevokeTimer(p)' /\ EndTimer(p)' /\ TtlTimer(p)'
  BY <1>2, <1>5, QuietTimers
<1>12. ASSUME NEW s \in Sessions, s # p
       PROVE  Ends(s)' /\ Lockstep(s)' /\ Timers(s)' /\ RevokeTimer(s)' /\ EndTimer(s)' /\ TtlTimer(s)'
  <2>0. s \in Nat /\ begun \in Nat
    BY DEF Sessions, IInv, TypeOK
  <2>1. Ends(s)'
    <3>1. Ends(s)
      BY DEF IInv
    <3>2. /\ conn[s].queued => p < s
          /\ drv[s].loc # "none" => s <= p
          /\ ~Free(conn[s].toVm0, "SessionToken") => s <= p
      BY <1>p, <1>0, <1>4, <2>0, <3>1 DEF Ends
    <3> QED BY <1>p, <1>2, <1>6, <1>12, <3>1, <3>2 DEF Ends, Connecting, Alive
  <2> QED BY <1>p, <1>2, <1>6, <1>12, <2>1, QuietLockstep, QuietTimers
<1> QED BY <1>7, <1>8, <1>9, <1>10, <1>11, <1>12 DEF IInv

(* vm1 accepts the oldest connection of its queue. *)
LEMMA Vm1AcceptKeepsIInv ==
    ASSUME IInv, NEW p \in Sessions, Vm1Accept(p)
    PROVE  IInv'
<1> DEFINE c == [conn[p] EXCEPT !.queued = FALSE, !.open1 = TRUE]
<1>0. /\ conn[p] \in Conns /\ conn[p].queued /\ vm1.loc = "accept" /\ vm1.s = 0 /\ vm1 \in Clients
      /\ Ends(p) /\ Lockstep(p) /\ p \in Nat
  BY DEF IInv, TypeOK, Conns, Clients, Places, Vm1Accept, Sessions
<1>1. /\ c \in Conns /\ ~c.queued /\ c.open1 /\ c.open0 = conn[p].open0
      /\ c.toVm1 = conn[p].toVm1 /\ c.toVm0 = conn[p].toVm0
  BY <1>0 DEF Conns
<1>2. /\ vm1' = [vm1 EXCEPT !.loc = "attest", !.s = p]
      /\ conn' = [conn EXCEPT ![p] = c]
      /\ UNCHANGED <<auth, state, ttl, expiresIn, flags, drv, begun, age, crashes>>
  BY DEF Vm1Accept, IInv, TypeOK
<1> HIDE DEF c
<1>3. /\ begun < p /\ p <= auth.s /\ (p = auth.s => auth.loc # "vm4")
  BY <1>0 DEF Ends
<1>4. drv[p].loc = "none" /\ ~Alive(p)
  BY <1>0, <1>3 DEF Ends, IInv, TypeOK, Alive
<1>5. /\ vm1'.s = p /\ vm1'.loc = "attest" /\ vm1' \in Clients
      /\ conn'[p] = c /\ \A s \in Sessions : s # p => conn'[s] = conn[s]
  <2>1. p \in 0 .. MaxSessions
    BY DEF Sessions
  <2> QED BY <1>0, <1>2, <2>1 DEF Clients, IInv, TypeOK
<1>6. TypeOK'
  BY <1>1, <1>2, <1>5 DEF IInv, TypeOK, Conns, Clients
<1>7. Places'
  BY <1>0, <1>2, <1>3, <1>5 DEF IInv, TypeOK, Places, Sessions
<1>8. Ends(p)'
  <2>1. /\ conn'[p].open0 = conn[p].open0 /\ ~conn'[p].queued /\ conn'[p].open1
        /\ conn'[p].toVm0 = conn[p].toVm0
    BY <1>1, <1>5
  <2>2. Connecting(p)' = Connecting(p) /\ Alive(p)' = Alive(p)
    BY <1>2 DEF Connecting, Alive
  <2>3. (conn[p].open0 <=> Connecting(p) \/ Alive(p)) /\ (flags[p].ended => drv[p].loc = "exited")
        /\ (~Free(conn[p].toVm0, "SessionToken") => p <= begun)
    BY <1>0 DEF Ends
  <2> QED BY <1>2, <1>4, <1>5, <2>1, <2>2, <2>3 DEF Ends
<1>9. Lockstep(p)'
  BY <1>0, <1>1, <1>2, <1>4, <1>5 DEF Lockstep, InHeartbeat
<1>10. Timers(p)' /\ RevokeTimer(p)' /\ EndTimer(p)' /\ TtlTimer(p)'
  BY <1>2, <1>4, QuietTimers
<1>11. ASSUME NEW s \in Sessions, s # p
       PROVE  Ends(s)' /\ Lockstep(s)' /\ Timers(s)' /\ RevokeTimer(s)' /\ EndTimer(s)' /\ TtlTimer(s)'
  <2>1. s # 0 /\ (conn[s].queued => p < s)
    BY <1>11 DEF Vm1Accept, Sessions
  <2> QED BY <1>0, <1>2, <1>5, <1>11, <2>1, UnservedSessions
<1> QED BY <1>6, <1>7, <1>8, <1>9, <1>10, <1>11 DEF IInv
--------------------------------------------------------------------------------
(* vm0 stops and starts: no driver is left, and every end of its connections
   is closed. *)
LEMMA Vm0CrashKeepsIInv ==
    ASSUME IInv, Vm0Crash
    PROVE  IInv'
<1>0. /\ auth' = [auth EXCEPT !.loc = "idle"] /\ state' = 0
      /\ age' = [s \in Sessions |-> Zero]
      /\ conn' = [s \in Sessions |-> Close0(conn[s])]
      /\ UNCHANGED <<ttl, expiresIn, vm1, begun>>
      /\ crashes' = crashes + 1
  BY DEF Vm0Crash, None, Zero
<1>1. ASSUME NEW s \in Sessions
      PROVE  /\ conn'[s] \in Conns /\ ~conn'[s].open0 /\ conn'[s].toVm0 = <<>>
             /\ conn'[s].queued = conn[s].queued /\ conn'[s].open1 = conn[s].open1
             /\ conn'[s].toVm1 = conn[s].toVm1
  <2>1. conn[s] \in Conns /\ conn'[s] = Close0(conn[s])
    BY <1>0 DEF IInv, TypeOK, Conns
  <2> QED BY <2>1, CloseEnds
<1>2. ASSUME NEW s \in Sessions
      PROVE  /\ flags'[s] \in Flags /\ flags'[s].hbOk = flags[s].hbOk
             /\ flags'[s].hbSeq = flags[s].hbSeq
             /\ ~Alive(s) => flags'[s] = flags[s]
  <2>1. flags[s] \in Flags
    BY DEF IInv, TypeOK, Flags
  <2>2. flags'[s] = IF Alive(s) THEN [flags[s] EXCEPT !.ended = TRUE] ELSE flags[s]
    BY DEF Vm0Crash
  <2>3. CASE Alive(s)
    <3> DEFINE g == [flags[s] EXCEPT !.ended = TRUE]
    <3>1. g \in Flags /\ g.hbOk = flags[s].hbOk /\ g.hbSeq = flags[s].hbSeq
      BY <2>1, FlagUpdates
    <3> QED BY <2>2, <2>3, <3>1
  <2>4. CASE ~Alive(s)
    <3>1. flags'[s] = flags[s]
      BY <2>2, <2>4
    <3> QED BY <2>1, <2>4, <3>1
  <2> QED BY <2>3, <2>4
<1>3. ASSUME NEW s \in Sessions
      PROVE  /\ drv'[s] \in Drivers
             /\ Alive(s) => drv'[s].loc = "exited" /\ drv'[s].ping = 0 /\ drv'[s].reply = 0
             /\ ~Alive(s) => drv'[s] = drv[s]
  <2>1. drv[s] \in Drivers
    BY DEF IInv, TypeOK, Drivers
  <2>2. drv'[s] = IF Alive(s) THEN [drv[s] EXCEPT !.loc = "exited", !.left = 0,
                                                  !.ping = 0, !.reply = 0]
                  ELSE drv[s]
    BY DEF Vm0Crash
  <2>3. CASE Alive(s)
    <3> DEFINE d == [drv[s] EXCEPT !.loc = "exited", !.left = 0, !.ping = 0, !.reply = 0]
    <3>1. d \in Drivers /\ d.loc = "exited" /\ d.ping = 0 /\ d.reply = 0
      BY <2>1 DEF Drivers
    <3>2. drv'[s] = d
      BY <2>2, <2>3
    <3> HIDE DEF d
    <3> QED BY <2>3, <3>1, <3>2
  <2>4. CASE ~Alive(s)
    BY <2>1, <2>2, <2>4
  <2> QED BY <2>3, <2>4
<1>4. TypeOK'
  <2>1. flags' \in [Sessions -> Flags] /\ drv' \in [Sessions -> Drivers] /\ conn' \in [Sessions -> Conns]
    BY <1>0, <1>1, <1>2, <1>3 DEF Vm0Crash
  <2>2. age' \in [Sessions -> [start : Nat, revoke : Nat, ended : Nat]]
    BY <1>0 DEF Zero
  <2>3. crashes' \in Nat /\ state' \in 0 .. MaxSessions
    BY <1>0, BoundAssumption DEF IInv, TypeOK
  <2>4. auth' \in [loc : {"idle", "vm4", "attest", "ack", "token"}, s : 0 .. MaxSessions]
    BY <1>0 DEF IInv, TypeOK
  <2> QED BY <1>0, <2>1, <2>2, <2>3, <2>4 DEF IInv, TypeOK, Flags, Drivers, Conns
<1>5. auth'.s = auth.s /\ auth'.loc = "idle"
  BY <1>0 DEF IInv, TypeOK
<1>6. Places'
  BY <1>0, <1>5 DEF IInv, Places
<1>7. ASSUME NEW s \in Sessions
      PROVE  Ends(s)' /\ Lockstep(s)' /\ Timers(s)' /\ RevokeTimer(s)' /\ EndTimer(s)' /\ TtlTimer(s)'
  <2>0. drv[s] \in Drivers /\ Ends(s) /\ Lockstep(s) /\ Timers(s)
    BY DEF IInv, TypeOK, Drivers
  <2>1. ~Alive(s)' /\ drv'[s].loc \in {"none", "exited"} /\ (drv'[s].loc = "none" <=> drv[s].loc = "none")
    BY <1>3, <2>0 DEF Alive, Drivers
  <2>2. ~Connecting(s)'
    BY <1>5 DEF Connecting
  <2>3. /\ Free(conn'[s].toVm0, Answer) /\ Free(conn'[s].toVm0, "SessionToken")
        /\ NoFailure(conn'[s].toVm0)
    BY <1>1, EmptyQueue
  <2>4. flags'[s].ended => drv'[s].loc = "exited"
    BY <1>2, <1>3, <2>0 DEF Ends
  <2>5. Ends(s)'
    BY <1>0, <1>1, <1>5, <2>0, <2>1, <2>2, <2>3, <2>4 DEF Ends
  <2>6. Lockstep(s)'
    BY <1>0, <1>1, <1>2, <1>3, <2>0, <2>1, <2>3 DEF Lockstep, InHeartbeat
  <2>7. Timers(s)' /\ RevokeTimer(s)' /\ EndTimer(s)' /\ TtlTimer(s)'
    BY <1>0, <1>3, <2>0, <2>1, TimerAssumption DEF Timers, RevokeTimer, EndTimer, TtlTimer
  <2> QED BY <2>5, <2>6, <2>7
<1> QED BY <1>4, <1>6, <1>7 DEF IInv

(* vm1 stops and starts: its connections are gone, with those not yet
   accepted. *)
LEMMA Vm1CrashKeepsIInv ==
    ASSUME IInv, Vm1Crash
    PROVE  IInv'
<1>0. /\ vm1' = [loc |-> "accept", s |-> 0, left |-> 0, seq |-> 0]
      /\ crashes' = crashes + 1
      /\ UNCHANGED <<auth, state, ttl, expiresIn, flags, drv, begun, age>>
  BY DEF Vm1Crash, None
<1>1. vm1'.s = 0 /\ vm1'.loc = "accept" /\ vm1' \in Clients
  BY <1>0, BoundAssumption DEF Clients
<1>2. ASSUME NEW s \in Sessions
      PROVE  /\ conn'[s] \in Conns /\ ~conn'[s].queued /\ ~conn'[s].open1
             /\ conn'[s].open0 = conn[s].open0 /\ conn'[s].toVm0 = conn[s].toVm0
             /\ conn'[s].toVm1 = <<>> \/ conn'[s].toVm1 = conn[s].toVm1
  <2> DEFINE b == [conn[s] EXCEPT !.queued = FALSE]
  <2>1. conn[s] \in Conns /\ (conn[s].open1 <=> vm1.s = s)
    BY DEF IInv, TypeOK, Conns, Ends
  <2>2. /\ b \in Conns /\ ~b.queued /\ b.open0 = conn[s].open0 /\ b.toVm0 = conn[s].toVm0
    BY <2>1 DEF Conns
  <2>3. conn'[s] = IF s = vm1.s \/ conn[s].queued THEN Close1(b) ELSE conn[s]
    BY DEF Vm1Crash
  <2> HIDE DEF b
  <2> QED BY <2>1, <2>2, <2>3, CloseEnds
<1>3. TypeOK'
  <2>1. conn' \in [Sessions -> Conns]
    BY <1>2 DEF Vm1Crash
  <2>2. crashes' \in Nat
    BY <1>0 DEF IInv, TypeOK
  <2> QED BY <1>0, <1>1, <2>1, <2>2 DEF IInv, TypeOK, Clients, Conns
<1>4. Places'
  BY <1>0, <1>1 DEF IInv, TypeOK, Places
<1>5. ASSUME NEW s \in Sessions
      PROVE  Ends(s)' /\ Lockstep(s)' /\ Timers(s)' /\ RevokeTimer(s)' /\ EndTimer(s)' /\ TtlTimer(s)'
  <2>0. Ends(s) /\ Lockstep(s) /\ vm1'.s # s /\ ~InHeartbeat(s)'
    BY <1>1 DEF IInv, InHeartbeat, Sessions
  <2>1. Ends(s)'
    BY <1>0, <1>2, <2>0 DEF Ends, Connecting, Alive
  <2>2. /\ Free(conn[s].toVm1, Ping) => Free(conn'[s].toVm1, Ping)
        /\ Once(conn[s].toVm1, Ping) => Once(conn'[s].toVm1, Ping)
        /\ \A n : Numbered(conn[s].toVm1, Ping, n) => Numbered(conn'[s].toVm1, Ping, n)
    BY <1>2, EmptyQueue
  <2>3. Lockstep(s)'
    BY <1>0, <1>2, <2>0, <2>2 DEF Lockstep
  <2> QED BY <1>0, <1>2, <2>0, <2>1, <2>3, QuietTimers
<1> QED BY <1>3, <1>4, <1>5 DEF IInv

(* A tick of the clock: no countdown passes zero, and every age grows no
   faster than the countdown it is weighed against. *)
LEMMA TickKeepsIInv ==
    ASSUME IInv, Tick
    PROVE  IInv'
<1>0. UNCHANGED <<auth, state, ttl, flags, conn, begun, crashes>>
  BY DEF Tick
<1>1. \A n \in Nat : Down(n) \in Nat /\ (n > 0 => Down(n) = n - 1) /\ (n = 0 => Down(n) = 0)
  BY DEF Down
<1>2. /\ vm1 \in Clients /\ vm1' \in Clients /\ vm1'.loc = vm1.loc /\ vm1'.s = vm1.s
      /\ vm1'.seq = vm1.seq
  BY <1>1 DEF Tick, IInv, TypeOK, Clients
<1>3. ASSUME NEW s \in Sessions
      PROVE  /\ drv[s] \in Drivers /\ drv'[s] \in Drivers
             /\ drv'[s].loc = drv[s].loc /\ drv'[s].seq = drv[s].seq
             /\ drv'[s].left = Down(drv[s].left) /\ drv'[s].ping = Down(drv[s].ping)
             /\ drv'[s].reply = Down(drv[s].reply)
  <2>1. drv[s] \in Drivers
    BY DEF IInv, TypeOK, Drivers
  <2>2. drv'[s] = [drv[s] EXCEPT !.left = Down(drv[s].left), !.ping = Down(drv[s].ping),
                                 !.reply = Down(drv[s].reply)]
    BY DEF Tick
  <2> QED BY <1>1, <2>1, <2>2 DEF Drivers
<1>4. ASSUME NEW s \in Sessions
      PROVE  /\ age[s] \in [start : Nat, revoke : Nat, ended : Nat]
             /\ age'[s] \in [start : Nat, revoke : Nat, ended : Nat]
             /\ ~Alive(s) => age'[s] = age[s]
             /\ Alive(s) => /\ age'[s].start = age[s].start + 1
                            /\ age'[s].revoke = IF flags[s].revoke THEN age[s].revoke + 1 ELSE 0
                            /\ age'[s].ended = IF vm1.s # s THEN age[s].ended + 1 ELSE 0
  <2>1. age[s] \in [start : Nat, revoke : Nat, ended : Nat]
    BY DEF IInv, TypeOK
  <2>2. age'[s] = IF Alive(s)
                  THEN [start  |-> age[s].start + 1,
                        revoke |-> IF flags[s].revoke THEN age[s].revoke + 1 ELSE 0,
                        ended  |-> IF vm1.s # s THEN age[s].ended + 1 ELSE 0]
                  ELSE age[s]
    BY DEF Tick
  <2> QED BY <2>1, <2>2
<1>5. TypeOK'
  <2>1. drv' \in [Sessions -> Drivers]
    BY <1>3 DEF Tick
  <2>2. age' \in [Sessions -> [start : Nat, revoke : Nat, ended : Nat]]
    BY <1>4 DEF Tick
  <2>3. expiresIn' \in [Sessions -> Nat]
    BY <1>1 DEF Tick, IInv, TypeOK
  <2> QED BY <1>0, <1>2, <2>1, <2>2, <2>3 DEF IInv, TypeOK, Clients, Drivers
<1>6. Places'
  <2>1. state # 0 => drv'[state].loc = drv[state].loc
    BY <1>3, BoundAssumption DEF IInv, TypeOK, Sessions
  <2> QED BY <1>0, <1>2, <2>1 DEF IInv, Places
<1>7. ASSUME NEW s \in Sessions
      PROVE  Ends(s)' /\ Lockstep(s)' /\ Timers(s)' /\ RevokeTimer(s)' /\ EndTimer(s)' /\ TtlTimer(s)'
  <2>0. /\ Ends(s) /\ Lockstep(s) /\ Timers(s) /\ RevokeTimer(s) /\ EndTimer(s) /\ TtlTimer(s)
        /\ ttl[s] \in Nat
    BY DEF IInv, TypeOK
  <2>1. Ends(s)' /\ Lockstep(s)'
    BY <1>0, <1>2, <1>3, <2>0 DEF Ends, Lockstep, InHeartbeat, Connecting, Alive
  <2>2. /\ drv[s].loc # "top"
        /\ drv[s].loc = "select" => drv[s].left > 0 /\ drv[s].ping > 0
        /\ drv[s].loc = "await" => drv[s].reply > 0
    BY DEF Tick, Prompt
  <2>3. /\ drv[s].left \in Nat /\ drv[s].ping \in Nat /\ drv[s].reply \in Nat
        /\ age[s].start \in Nat /\ age[s].revoke \in Nat /\ age[s].ended \in Nat
    BY <1>3, <1>4 DEF Drivers
  <2>4. /\ drv'[s].left \in Nat /\ drv'[s].ping \in Nat /\ drv'[s].reply \in Nat
        /\ drv[s].left > 0 => drv'[s].left = drv[s].left - 1
        /\ drv[s].left = 0 => drv'[s].left = 0
        /\ drv[s].ping > 0 => drv'[s].ping = drv[s].ping - 1
        /\ drv[s].ping = 0 => drv'[s].ping = 0
        /\ drv[s].reply > 0 => drv'[s].reply = drv[s].reply - 1
        /\ drv[s].reply = 0 => drv'[s].reply = 0
    BY <1>1, <1>3, <2>3 DEF Drivers
  <2>5. Alive(s)' = Alive(s)
    BY <1>3 DEF Alive
  <2>6. drv[s].loc = "await" => drv[s].ping > 0
    BY <2>0, <2>2, <2>3, TimerAssumption DEF Timers
  <2>7. Timers(s)'
    BY <1>3, <1>4, <2>0, <2>2, <2>3, <2>4, <2>5, <2>6, TimerAssumption DEF Timers
  <2>8. CASE ~Alive(s)
    BY <2>1, <2>5, <2>7, <2>8 DEF RevokeTimer, EndTimer, TtlTimer
  <2>9. CASE Alive(s)
    <3>0. drv[s].loc \in {"select", "await"}
      BY <2>2, <2>9 DEF Alive
    <3>1. RevokeTimer(s)'
      BY <1>0, <1>3, <1>4, <2>0, <2>2, <2>3, <2>4, <2>9, <3>0, TimerAssumption DEF RevokeTimer
    <3>2. EndTimer(s)'
      BY <1>0, <1>2, <1>3, <1>4, <2>0, <2>2, <2>3, <2>4, <2>6, <2>7, <2>9, <3>0, TimerAssumption
      DEF EndTimer, Timers
    <3>3. TtlTimer(s)'
      BY <1>0, <1>3, <1>4, <2>0, <2>2, <2>3, <2>4, <2>6, <2>9, <3>0, TimerAssumption DEF TtlTimer, Timers
    <3> QED BY <2>1, <2>7, <3>1, <3>2, <3>3
  <2> QED BY <2>8, <2>9
<1> QED BY <1>5, <1>6, <1>7 DEF IInv
--------------------------------------------------------------------------------
(* The invariant is inductive. *)
LEMMA NextKeepsIInv == IInv /\ [Next]_vars => IInv'
<1> SUFFICES ASSUME IInv, [Next]_vars PROVE IInv'
  OBVIOUS
<1>1. ASSUME NEW t \in Ttls, Authenticate(t) PROVE IInv'
  BY <1>1, AuthenticateKeepsIInv
<1>2. CASE Vm4Denies
  BY <1>2, Vm4DeniesKeepsIInv
<1>3. CASE Vm4Approves
  BY <1>3, Vm4ApprovesKeepsIInv
<1>4. CASE Vm0Auth
  BY <1>4, RecvAttestationKeepsIInv, RecvAckKeepsIInv, RecvTokenKeepsIInv,
     RecvDeniedKeepsIInv DEF Vm0Auth
<1>5. CASE Revoke
  BY <1>5, RevokeKeepsIInv
<1>6. ASSUME NEW s \in Sessions, Driver(s) PROVE IInv'
  BY <1>6, DriverEndsKeepsIInv, DriverFailureKeepsIInv, DriverSelectKeepsIInv,
     DriverPingKeepsIInv, DriverResultKeepsIInv DEF Driver
<1>7. CASE Vm1Local
  BY <1>7, Vm1AcceptKeepsIInv, Vm1AttestKeepsIInv, Vm1AcceptsKeepsIInv, Vm1EndsKeepsIInv,
     Vm1HandshakeErrorKeepsIInv, Vm1PingKeepsIInv DEF Vm1Local
<1>8. CASE Vm1Chain
  BY <1>8, Vm1ChainOkKeepsIInv, Vm1EndsKeepsIInv, Vm1HeartbeatOkKeepsIInv,
     Vm1HeartbeatFailsKeepsIInv DEF Vm1Chain
<1>9. CASE Vm0Crash
  BY <1>9, Vm0CrashKeepsIInv
<1>10. CASE Vm1Crash
  BY <1>10, Vm1CrashKeepsIInv
<1>11. CASE Tick
  BY <1>11, TickKeepsIInv
<1>12. CASE UNCHANGED vars
  <2>1. /\ auth' = auth /\ state' = state /\ ttl' = ttl /\ expiresIn' = expiresIn
        /\ flags' = flags /\ drv' = drv /\ conn' = conn /\ vm1' = vm1 /\ begun' = begun
        /\ age' = age /\ crashes' = crashes
    BY <1>12 DEF vars
  <2>2. TypeOK'
    BY <2>1 DEF IInv, TypeOK
  <2>3. Places'
    BY <2>1 DEF IInv, Places
  <2>4. ASSUME NEW s \in Sessions
        PROVE  Ends(s)' /\ Lockstep(s)' /\ Timers(s)' /\ RevokeTimer(s)' /\ EndTimer(s)' /\ TtlTimer(s)'
    <3>1. Ends(s)'
      BY <2>1 DEF IInv, Ends, Connecting, Alive
    <3> QED BY <2>1, <3>1, QuietLockstep, QuietTimers
  <2> QED BY <2>2, <2>3, <2>4 DEF IInv
<1> QED BY <1>1, <1>2, <1>3, <1>4, <1>5, <1>6, <1>7, <1>8, <1>9, <1>10, <1>11, <1>12 DEF Next

(* The invariant holds in every state of every behaviour. *)
THEOREM Inductive == Spec => []IInv
  BY InitIInv, NextKeepsIInv, PTL DEF Spec

(* Every variable keeps its type. *)
THEOREM TypeCorrect == Spec => []TypeOK
<1>1. IInv => TypeOK
  BY DEF IInv
<1> QED BY <1>1, Inductive, PTL

--------------------------------------------------------------------------------
(* The bounds follow from the timers: the driver stands somewhere, and a
   countdown is not negative. *)
LEMMA BoundsHold == IInv => DriverBounded
<1> SUFFICES ASSUME IInv, NEW s \in Sessions
             PROVE  /\ age[s].revoke <= PingInterval + ReplyTimeout
                    /\ age[s].ended <= PingInterval + ReplyTimeout
                    /\ Alive(s) => age[s].start <= ttl[s] + ReplyTimeout
  BY DEF DriverBounded
<1>1. /\ Timers(s) /\ RevokeTimer(s) /\ EndTimer(s) /\ TtlTimer(s)
      /\ age[s].revoke \in Nat /\ age[s].ended \in Nat /\ age[s].start \in Nat /\ ttl[s] \in Nat
      /\ drv[s].left \in Nat /\ drv[s].ping \in Nat /\ drv[s].reply \in Nat
  BY DEF IInv, TypeOK
<1>2. CASE Alive(s)
  <2>1. age[s].revoke <= PingInterval + ReplyTimeout
    BY <1>1, <1>2, TimerAssumption DEF RevokeTimer, Alive
  <2>2. age[s].ended <= PingInterval + ReplyTimeout
    BY <1>1, <1>2, TimerAssumption DEF EndTimer, Alive
  <2>3. age[s].start <= ttl[s] + ReplyTimeout
    BY <1>1, <1>2, TimerAssumption DEF TtlTimer, Alive
  <2> QED BY <2>1, <2>2, <2>3
<1>3. CASE ~Alive(s)
  BY <1>1, <1>3, TimerAssumption DEF Timers, Zero
<1> QED BY <1>2, <1>3

(* A driver notices a revocation, and that vm1 has ended the session, within a
   ping interval and a reply timeout, and outlives its TTL by at most a reply
   timeout. *)
THEOREM DriverIsBounded == Spec => []DriverBounded
  BY BoundsHold, Inductive, PTL

(* The published result is the driver's last one. *)
LEMMA ResultsHold == IInv => PublishedResult
  BY DEF IInv, Lockstep, PublishedResult, Alive

(* The result published last is of the ping sent last, and after a failure
   neither side carries the session on. *)
THEOREM ResultIsCurrent == Spec => []PublishedResult
  BY ResultsHold, Inductive, PTL
--------------------------------------------------------------------------------
(* What a step does to the life cycle of sessions: nothing, or one of the
   abstract steps. *)
Silent == begun' = begun /\ state' = state /\ Served' = Served

(* vm0 takes the token: Activate of the lifecycle. *)
LEMMA ActivateStep ==
    ASSUME IInv, RecvToken
    PROVE  begun' = begun /\ state' = begun /\ state < begun /\ Served' = Served
<1>1. auth.s \in Sessions /\ auth.s \in Nat /\ drv[auth.s].loc = "none" /\ begun = auth.s
  BY ConnectingSession, RecvTokenKeepsIInv DEF RecvToken
<1>2. state # auth.s
  BY <1>1 DEF IInv, Places, Sessions
<1>3. state # 0 => state <= begun
  BY BoundAssumption DEF IInv, TypeOK, Places, Ends, Sessions
<1>4. state < begun
  BY <1>1, <1>2, <1>3 DEF IInv, TypeOK, Sessions
<1> QED BY <1>1, <1>4 DEF RecvToken, Served

(* vm1 sends the token: Begin of the lifecycle. *)
LEMMA BeginStep ==
    ASSUME IInv, Vm1ChainOk
    PROVE  /\ vm1.s \in Sessions /\ Served = 0 /\ begun < vm1.s
           /\ Served' = vm1.s /\ begun' = vm1.s /\ state' = state
<1>1. vm1.s \in Sessions /\ vm1 \in Clients /\ vm1.loc = "chain"
  BY ServedSession DEF Vm1ChainOk
<1>2. vm1'.s = vm1.s /\ vm1'.loc = "session"
  BY <1>1 DEF Vm1ChainOk, Clients
<1> QED BY <1>1, <1>2 DEF Vm1ChainOk, Served, IInv, Places, None

(* vm1 leaving a session, as far as the lifecycle sees it. *)
LEMMA ReturnEffect ==
    ASSUME NEW c, Vm1Return(c)
    PROVE  vm1'.loc = "accept" /\ begun' = begun /\ state' = state /\ drv' = drv
  BY DEF Vm1Return

(* vm1 leaves what it serves, if anything: Finish of the lifecycle, or
   nothing. *)
LEMMA FinishStep ==
    ASSUME \/ Vm1Rejects \/ Vm1ChainFails \/ Vm1HandshakeError \/ Vm1HeartbeatFails
           \/ Vm1Ttl \/ Vm1Revoked \/ Vm1Disconnected \/ Vm1Crash
    PROVE  begun' = begun /\ state' = state /\ Served' = 0 /\ drv' = drv
<1>1. vm1'.loc = "accept" /\ begun' = begun /\ state' = state /\ drv' = drv
  <2>1. CASE Vm1Crash
    BY <2>1 DEF Vm1Crash
  <2>2. CASE ~Vm1Crash
    BY <2>2, ReturnEffect
    DEF Vm1Rejects, Vm1ChainFails, Vm1HandshakeError, Vm1HeartbeatFails, Vm1Ttl,
        Vm1Revoked, Vm1Disconnected, Vm1SessionEnds
  <2> QED BY <2>1, <2>2
<1> QED BY <1>1 DEF Served, None

(* vm0 drops its session, if it has one: Forget of the lifecycle, or nothing. *)
LEMMA ForgetStep ==
    ASSUME Revoke \/ Vm0Crash
    PROVE  \/ Silent
           \/ begun' = begun /\ state' = 0 /\ Served' = Served
  BY DEF Revoke, Vm0Crash, Silent, Served, None

(* The steps of vm0 that the lifecycle does not see. *)
LEMMA SilentVm0 ==
    ASSUME \/ \E t \in Ttls : Authenticate(t)
           \/ Vm4Denies \/ Vm4Approves \/ RecvAttestation \/ RecvAck \/ RecvDenied
           \/ \E s \in Sessions : Driver(s)
    PROVE  Silent
<1>1. begun' = begun /\ state' = state /\ vm1' = vm1
  BY DEF Authenticate, Vm4Denies, Vm4Approves, RecvAttestation, RecvAck, RecvDenied, Deny,
         Driver, DriverRevoke, DriverSelect, DriverTtl, DriverPing, DriverSendError,
         DriverResult, DriverFailure, DriverLost, DriverExit
<1> QED BY <1>1 DEF Silent, Served

(* The steps of vm1 that the lifecycle does not see. *)
LEMMA SilentVm1 ==
    ASSUME IInv,
           \/ \E s \in Sessions : Vm1Accept(s)
           \/ Vm1Attest \/ Vm1Accepts \/ Vm1Ping \/ Vm1HeartbeatOk \/ Tick
    PROVE  Silent
<1>1. begun' = begun /\ state' = state
  BY DEF Vm1Accept, Vm1Attest, Vm1Accepts, Vm1Ping, Vm1HeartbeatOk, Tick
<1>2. vm1 \in Clients
  BY DEF IInv, TypeOK, Clients
<1>3. Served' = Served
  BY <1>2 DEF Vm1Accept, Vm1Attest, Vm1Accepts, Vm1Ping, Vm1HeartbeatOk, Tick, Served, Clients
<1> QED BY <1>1, <1>3 DEF Silent

(* Every step is a step of the lifecycle or leaves it alone. *)
LEMMA LifecycleStep ==
    ASSUME IInv, [Next]_vars
    PROVE  [Lifecycle!Next]_(Lifecycle!vars)
<1> USE DEF Lifecycle!Next, Lifecycle!vars, Lifecycle!Begin, Lifecycle!Finish,
            Lifecycle!Activate, Lifecycle!Forget
<1>1. CASE RecvToken
  BY <1>1, ActivateStep
<1>2. CASE Vm1ChainOk
  BY <1>2, BeginStep DEF Sessions
<1>3. CASE \/ Vm1Rejects \/ Vm1ChainFails \/ Vm1HandshakeError \/ Vm1HeartbeatFails
           \/ Vm1Ttl \/ Vm1Revoked \/ Vm1Disconnected \/ Vm1Crash
  BY <1>3, FinishStep
<1>4. CASE Revoke \/ Vm0Crash
  BY <1>4, ForgetStep DEF Silent
<1>5. CASE Silent
  BY <1>5 DEF Silent
<1>6. CASE UNCHANGED vars
  BY <1>6 DEF vars, Served
<1> QED BY <1>1, <1>2, <1>3, <1>4, <1>5, <1>6, SilentVm0, SilentVm1
       DEF Next, Vm0Auth, Vm1Local, Vm1Chain

(* vm0 and vm1 implement SessionLifecycle: sessions are served one at a time,
   each at most once and in the order they were authorized, and the session
   vm0 takes for Active is the latest vm1 has begun. *)
THEOREM RefinesLifecycle == Spec => ImplementsLifecycle
<1>1. Init => Lifecycle!Init
  BY DEF Init, Lifecycle!Init, Served, None
<1> QED BY <1>1, LifecycleStep, Inductive, PTL
       DEF Spec, ImplementsLifecycle, Lifecycle!Spec

--------------------------------------------------------------------------------
(* The running driver of the latest session is of the session Revoke applies
   to.  It rests on the invariant, and is not part of it. *)
Controlled == \A s \in Sessions : Alive(s) /\ s = begun => state = s

(* No step of vm0 or vm1 takes the running driver's session out of state. *)
LEMMA ControlStays ==
    ASSUME IInv, Controlled, [Next]_vars
    PROVE  Controlled'
<1> SUFFICES ASSUME NEW s \in Sessions, Alive(s)', s = begun'
             PROVE  state' = s
  BY DEF Controlled
<1>1. CASE RecvToken
  BY <1>1, ActivateStep
<1>2. CASE Vm1ChainOk
  <2>1. s = vm1.s /\ begun < s /\ drv' = drv
    BY <1>2, BeginStep DEF Vm1ChainOk
  <2>2. drv[s].loc # "none"
    BY <2>1 DEF Alive
  <2> QED BY <2>1, <2>2 DEF IInv, TypeOK, Ends, Sessions
<1>3. ASSUME begun' = begun, Alive(s) PROVE state = s
  BY <1>3 DEF Controlled
<1>4. CASE Revoke
  <2>1. begun' = begun /\ drv' = drv
    BY <1>4 DEF Revoke
  <2>2. state = s /\ Alive(s)
    BY <2>1, <1>3 DEF Alive
  <2>3. ~flags[s].ended
    BY <2>2 DEF IInv, Ends, Alive
  <2> QED BY <1>4, <2>2, <2>3 DEF Revoke
<1>5. CASE Vm0Crash
  <2>1. drv'[s] = IF Alive(s) THEN [drv[s] EXCEPT !.loc = "exited", !.left = 0,
                                                  !.ping = 0, !.reply = 0]
                  ELSE drv[s]
    BY <1>5 DEF Vm0Crash
  <2>2. drv[s] \in Drivers
    BY DEF IInv, TypeOK, Drivers
  <2> QED BY <2>1, <2>2 DEF Alive, Drivers
<1>6. CASE Silent /\ Alive(s)
  BY <1>3, <1>6 DEF Silent
<1>7. ASSUME NEW p \in Sessions, Driver(p) PROVE Silent /\ Alive(s)
  <2>1. Silent
    BY <1>7, SilentVm0
  <2>2. Alive(p) /\ \A r \in Sessions : r # p => drv'[r] = drv[r]
    BY <1>7 DEF Driver, DriverRevoke, DriverSelect, DriverTtl, DriverPing, DriverSendError,
         DriverResult, DriverFailure, DriverLost, DriverExit, IInv, TypeOK, Alive
  <2> QED BY <2>1, <2>2 DEF Alive
<1>8. CASE Tick
  <2>1. Silent
    BY <1>8, SilentVm1
  <2>2. drv[s] \in Drivers
    BY DEF IInv, TypeOK, Drivers
  <2>3. drv'[s].loc = drv[s].loc
    BY <1>8, <2>2 DEF Tick, Drivers
  <2> QED BY <1>6, <2>1, <2>3 DEF Alive
<1>9. CASE \/ Vm1Rejects \/ Vm1ChainFails \/ Vm1HandshakeError \/ Vm1HeartbeatFails
           \/ Vm1Ttl \/ Vm1Revoked \/ Vm1Disconnected \/ Vm1Crash
  <2>1. begun' = begun /\ state' = state /\ drv' = drv
    BY <1>9, FinishStep
  <2> QED BY <1>3, <2>1 DEF Alive
<1>10. CASE \/ \E t \in Ttls : Authenticate(t)
            \/ Vm4Denies \/ Vm4Approves \/ RecvAttestation \/ RecvAck \/ RecvDenied
            \/ \E p \in Sessions : Vm1Accept(p)
            \/ Vm1Attest \/ Vm1Accepts \/ Vm1Ping \/ Vm1HeartbeatOk \/ UNCHANGED vars
  <2>1. begun' = begun /\ state' = state /\ drv' = drv
    BY <1>10 DEF Authenticate, Vm4Denies, Vm4Approves, RecvAttestation, RecvAck, RecvDenied,
         Deny, Vm1Accept, Vm1Attest, Vm1Accepts, Vm1Ping, Vm1HeartbeatOk, vars
  <2> QED BY <1>3, <2>1 DEF Alive
<1> QED BY <1>1, <1>2, <1>4, <1>5, <1>6, <1>7, <1>8, <1>9, <1>10
       DEF Next, Vm0Auth, Vm1Local, Vm1Chain

(* The operator never loses control of a session: while vm1 serves it and its
   driver runs, Revoke applies to it. *)
THEOREM OperatorKeepsControl == Spec => []ServedIsRevocable
<1>1. Init => Controlled
  BY DEF Init, Controlled, Alive
<1>2. IInv /\ Controlled => ServedIsRevocable
  BY DEF IInv, Places, Controlled, ServedIsRevocable, ServedBy
<1>3. IInv /\ Controlled /\ [Next]_vars => Controlled'
  BY ControlStays
<1> QED BY <1>1, <1>2, <1>3, Inductive, PTL DEF Spec

================================================================================
