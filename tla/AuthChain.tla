------------------------------- MODULE AuthChain -------------------------------
(***************************************************************************)
(* The verification chain.  vm1 builds a telescoping circuit through the   *)
(* proxies of chain 1 to the verifier vm2; for every circuit it serves,    *)
(* vm2 builds one through the proxies of chain 2 to the authority vm3.     *)
(* Then vm1 submits attestations round by round: the first round           *)
(* authorizes the session, the others are its heartbeats.  vm2 verifies    *)
(* chain 1 and passes the round on to vm3, which verifies chain 2, asks    *)
(* vm4 for its quorum, and answers the same way back.                      *)
(*                                                                         *)
(* The machines form a line: 0 is vm1, Z is vm2, D is vm3, D + 1 is vm4    *)
(* and the rest are proxies.  Every one of them is a single loop that      *)
(* serves one circuit at a time and waits without a timeout; connections   *)
(* made meanwhile wait in the backlog of the listener.  Connection         *)
(* <<c, i>> is the one made to machine i for vm1's c-th circuit.           *)
(*                                                                         *)
(* A cell says how many more proxies forward it; the layers of encryption  *)
(* and the keys, which belong to one connection, are left out.  An         *)
(* attestation is a member of BOOLEAN: do all its checks pass?             *)
(***************************************************************************)
EXTENDS Naturals, Sequences

CONSTANTS
    Z, D,         \* places of vm2 and vm3 in the line
    Modes,        \* the configurations to consider
    MaxCircuits,  \* bound: circuits vm1 builds
    MaxRounds,    \* bound: submissions in a circuit
    MaxFaults     \* bound: crashes and TPM errors of all machines together

ASSUME LineAssumption == Z \in Nat \ {0} /\ D \in Nat /\ Z < D
(* No chain2_circuit at vm2; no vm4_address at vm3; both. *)
ASSUME ModeAssumption == Modes \subseteq {"chain1", "chain2", "quorum"}
(* The round that authorizes a session is one of them. *)
ASSUME BoundAssumption ==
    MaxCircuits \in Nat /\ MaxRounds \in Nat \ {0} /\ MaxFaults \in Nat

Vm4 == D + 1
Nodes == 0 .. Vm4
Hops == 1 .. D
Verifiers == {Z, D}
Proxies == Hops \ Verifiers
Bases == {0, Z}                           \* the machines that build circuits
Last(b) == (IF b = 0 THEN Z ELSE D) - b - 1   \* depth of the circuit's endpoint
Circuits == 1 .. MaxCircuits

VARIABLES
    mode,     \* the configuration of vm2 and vm3
    pc,       \* where each machine's loop waits
    circ,     \* the circuit it serves (vm1: builds)
    depth,    \* the hop a base is extending to or waiting for
    round,    \* submissions vm1 has made in its circuit
    count,    \* verification_count, da_verification_count
    active,   \* session_active of vm2
    work,     \* the result a verifier is working on
    quorum,   \* vm3's connection to vm4
    link,     \* the connections
    log,      \* the audit entries of vm2 and vm3, the decisions of vm4
    faults    \* how many crashes and TPM errors have happened

vars == <<mode, pc, circ, depth, round, count, active, work, quorum, link, log, faults>>

Status == {"none", "Provisional", "Authorized", "Denied", "Revoked"}
(* A VerificationResponse or FullAuthorizationResponse: chain_id, verified or
   authorized, session_status, and whether all node results are good. *)
Response == [id : Nat, ok : BOOLEAN, status : Status, clean : BOOLEAN]
Submission(id) == [id |-> id, ok |-> FALSE, status |-> "none", clean |-> TRUE]
Blank == Submission(0)

CellTypes == {"ExtendCircuit", "Extend", "AttestationRequest", "ChainSubmission",
              "Extended", "AttestationResponse", "Result"}
Cell(type, hops, res) == [type |-> type, hops |-> hops, res |-> res]
Cells == [type : CellTypes, hops : Nat, res : Response]

Events == {"HeartbeatOk", "HeartbeatFail", "ChainVerified", "ChainDenied", "SessionEnded"}
Entries == [c : Circuits, n : Nat, id : Nat, event : Events, clean : BOOLEAN]

TypeOK ==
    /\ mode \in Modes
    /\ pc \in [Nodes -> {"down", "accept", "extend", "relay", "connect", "extended",
                         "forward", "round", "session", "quorum"}]
    /\ circ \in [Nodes -> 0 .. MaxCircuits]
    /\ depth \in [Bases -> Nat]
    /\ round \in 0 .. MaxRounds
    /\ count \in [Verifiers -> 0 .. MaxRounds]
    /\ active \in BOOLEAN
    /\ work \in [Verifiers -> Response]
    /\ quorum \in {"none", "asked", "approved", "denied", "lost"}
    /\ link \in [Circuits \X Hops ->
                    [cl : BOOLEAN, sv : {"none", "queued", "open", "closed"},
                     down : Seq(Cells), up : Seq(Cells)]]
    /\ log \in [Verifiers \cup {Vm4} -> Seq(Entries)]
    /\ faults \in 0 .. MaxFaults

Init ==
    /\ mode \in Modes
    /\ pc = [i \in Nodes |-> "accept"]
    /\ circ = [i \in Nodes |-> 0]
    /\ depth = [b \in Bases |-> 0]
    /\ round = 0
    /\ count = [v \in Verifiers |-> 0]
    /\ active = FALSE
    /\ work = [v \in Verifiers |-> Blank]
    /\ quorum = "none"
    /\ link = [x \in Circuits \X Hops |->
                  [cl |-> FALSE, sv |-> "none", down |-> <<>>, up |-> <<>>]]
    /\ log = [v \in Verifiers \cup {Vm4} |-> <<>>]
    /\ faults = 0

--------------------------------------------------------------------------------
(* Connections.  What was sent before an end closed can still be read at the
   other end; an end that closes discards what it has not read. *)

In(i) == <<circ[i], i>>         \* the connection machine i serves
Out(i) == <<circ[i], i + 1>>    \* the connection it made for that circuit

HasCell(i, type) == link[In(i)].down # <<>> /\ Head(link[In(i)].down).type = type
HasReply(i) == link[Out(i)].up # <<>>

(* receive_message returns an error. *)
UpstreamGone(i) == link[In(i)].down = <<>> /\ ~link[In(i)].cl
DownstreamGone(i) == link[Out(i)].up = <<>> /\ link[Out(i)].sv = "closed"

ServerEnd(k) == IF k.sv = "none" THEN k ELSE [k EXCEPT !.sv = "closed", !.down = <<>>]
ClientEnd(k) == [k EXCEPT !.cl = FALSE, !.up = <<>>]

TakeCell(l, i) == [l EXCEPT ![In(i)].down = Tail(@)]
TakeReply(l, i) == [l EXCEPT ![Out(i)].up = Tail(@)]
SendDown(l, i, m) ==
    IF l[Out(i)].sv \in {"queued", "open"}
      THEN [l EXCEPT ![Out(i)].down = Append(@, m)]
      ELSE l
SendUp(l, i, m) ==
    IF l[In(i)].cl THEN [l EXCEPT ![In(i)].up = Append(@, m)] ELSE l

(* The handler of machine i returns: both its connections are dropped. *)
Left(l, i) ==
    [x \in DOMAIN l |-> IF x = In(i) THEN ServerEnd(l[x])
                        ELSE IF x = Out(i) THEN ClientEnd(l[x])
                        ELSE l[x]]

Fault == faults < MaxFaults /\ faults' = faults + 1

Goto(i, where) == pc' = [pc EXCEPT ![i] = where]
Leave(i, l) == link' = Left(l, i) /\ Goto(i, "accept")

--------------------------------------------------------------------------------
(* Building a circuit. *)

(* execute_chain_establishment is called. *)
Establish ==
    /\ pc[0] = "accept"
    /\ circ[0] < MaxCircuits
    /\ circ' = [circ EXCEPT ![0] = @ + 1]
    /\ round' = 0
    /\ Goto(0, "connect")
    /\ UNCHANGED <<mode, depth, count, active, work, quorum, link, log, faults>>

(* network::connect returns, which it does once the next machine listens, and
   the first message goes out: do_extend_direct at a base, EXTEND at a proxy. *)
Connect(i) ==
    /\ pc[i] = "connect"
    /\ pc[i + 1] # "down"
    /\ link' = [link EXCEPT ![Out(i)] =
                  [cl |-> TRUE, sv |-> "queued", up |-> <<>>,
                   down |-> <<Cell("ExtendCircuit", 0, Blank)>>]]
    /\ depth' = [b \in Bases |-> IF b = i THEN 0 ELSE depth[b]]
    /\ Goto(i, "extended")
    /\ UNCHANGED <<mode, circ, round, count, active, work, quorum, log, faults>>

(* Seeded fault: the verifier's counter outlives the circuit. *)
Accept_keepsCount(i, c) ==
    /\ pc[i] = "accept"
    /\ link[<<c, i>>].sv = "queued"
    /\ \A d \in 1 .. c - 1 : link[<<d, i>>].sv # "queued"
    /\ link' = [link EXCEPT ![<<c, i>>].sv = "open"]
    /\ circ' = [circ EXCEPT ![i] = c]
    /\ active' = (active /\ i # Z)
    /\ Goto(i, "extend")
    /\ UNCHANGED <<mode, depth, round, count, work, quorum, log, faults>>

(* run_proxy, run_zts, run_da: the oldest connection of the backlog. *)
Accept(i, c) ==
    /\ pc[i] = "accept"
    /\ link[<<c, i>>].sv = "queued"
    /\ \A d \in 1 .. c - 1 : link[<<d, i>>].sv # "queued"
    /\ link' = [link EXCEPT ![<<c, i>>].sv = "open"]
    /\ circ' = [circ EXCEPT ![i] = c]
    /\ count' = [v \in Verifiers |-> IF v = i THEN 0 ELSE count[v]]
    /\ active' = (active /\ i # Z)
    /\ Goto(i, "extend")
    /\ UNCHANGED <<mode, depth, round, work, quorum, log, faults>>

(* The key exchange; vm2 then builds its own circuit.  The reply is lost, with
   or without an error, if the other end is closed. *)
ServeExtend(i, error) ==
    /\ pc[i] = "extend"
    /\ HasCell(i, "ExtendCircuit")
    /\ error => ~link[In(i)].cl
    /\ IF error
         THEN Leave(i, TakeCell(link, i))
         ELSE /\ link' = SendUp(TakeCell(link, i), i, Cell("Extended", 0, Blank))
              /\ Goto(i, IF i = Z /\ mode # "chain1" THEN "connect" ELSE "relay")
    /\ UNCHANGED <<mode, circ, depth, round, count, active, work, quorum, log, faults>>

(* build_circuit: hop depth[b] has answered, the next one is reached through it. *)
ExtendNext(b) ==
    /\ pc[b] = "extended"
    /\ HasReply(b)
    /\ depth[b] < Last(b)
    /\ link' = SendDown(TakeReply(link, b), b, Cell("Extend", depth[b], Blank))
    /\ depth' = [depth EXCEPT ![b] = @ + 1]
    /\ UNCHANGED <<mode, pc, circ, round, count, active, work, quorum, log, faults>>

--------------------------------------------------------------------------------
(* Rounds.  collect_proxy_attestations asks the proxies one after the other;
   the submission to the endpoint follows. *)

RoundCell(b, k, res) ==
    IF k < Last(b) THEN Cell("AttestationRequest", k, Blank)
                   ELSE Cell("ChainSubmission", k, res)

BeginRound(b, l, res) ==
    /\ link' = SendDown(l, b, RoundCell(b, 0, res))
    /\ depth' = [depth EXCEPT ![b] = 0]
    /\ Goto(b, "round")

(* vm1's circuit is complete: the first round authorizes the session. *)
Chain1Complete ==
    /\ pc[0] = "extended"
    /\ HasReply(0)
    /\ depth[0] = Last(0)
    /\ round' = 1
    /\ BeginRound(0, TakeReply(link, 0), Submission(1))
    /\ UNCHANGED <<mode, circ, count, active, work, quorum, log, faults>>

(* vm2's circuit is complete: it waits for vm1's submission. *)
Chain2Complete ==
    /\ pc[Z] = "extended"
    /\ HasReply(Z)
    /\ depth[Z] = Last(Z)
    /\ link' = TakeReply(link, Z)
    /\ Goto(Z, "relay")
    /\ UNCHANGED <<mode, circ, depth, round, count, active, work, quorum, log, faults>>

(* heartbeat_chain1 *)
Heartbeat ==
    /\ pc[0] = "session"
    /\ round < MaxRounds
    /\ round' = round + 1
    /\ BeginRound(0, link, Submission(round + 1))
    /\ UNCHANGED <<mode, circ, count, active, work, quorum, log, faults>>

(* request_attestation returns at a base. *)
RoundNext(b) ==
    /\ pc[b] = "round"
    /\ HasReply(b)
    /\ depth[b] < Last(b)
    /\ link' = SendDown(TakeReply(link, b), b,
                        RoundCell(b, depth[b] + 1,
                                  IF b = 0 THEN Submission(round) ELSE work[b]))
    /\ depth' = [depth EXCEPT ![b] = @ + 1]
    /\ UNCHANGED <<mode, pc, circ, round, count, active, work, quorum, log, faults>>

(* Seeded fault: any answer keeps a session alive. *)
GoesOn_anyAnswer(res) == round > 1 \/ res.ok

(* vm1 looks at `authorized` the first time and at the status in heartbeats;
   the connection is kept if the session may go on. *)
GoesOn(res) ==
    IF round = 1 THEN res.ok ELSE res.status \in {"Authorized", "Provisional"}

Vm1Result ==
    /\ pc[0] = "round"
    /\ HasReply(0)
    /\ depth[0] = Last(0)
    /\ IF GoesOn(Head(link[Out(0)].up).res)
         THEN link' = TakeReply(link, 0) /\ Goto(0, "session")
         ELSE Leave(0, TakeReply(link, 0))
    /\ UNCHANGED <<mode, circ, depth, round, count, active, work, quorum, log, faults>>

(* The session ends (TTL, revocation, vm0 gone): drop(chain_conn). *)
Drop ==
    /\ pc[0] = "session"
    /\ Leave(0, link)
    /\ UNCHANGED <<mode, circ, depth, round, count, active, work, quorum, log, faults>>

--------------------------------------------------------------------------------
(* The relay loop of a proxy. *)

RelayExtend(i) ==
    /\ pc[i] = "relay"
    /\ HasCell(i, "Extend")
    /\ Head(link[In(i)].down).hops = 0
    /\ link' = TakeCell(link, i)
    /\ Goto(i, "connect")
    /\ UNCHANGED <<mode, circ, depth, round, count, active, work, quorum, log, faults>>

RelayAttest(i) ==
    /\ pc[i] = "relay"
    /\ HasCell(i, "AttestationRequest")
    /\ Head(link[In(i)].down).hops = 0
    /\ link' = SendUp(TakeCell(link, i), i, Cell("AttestationResponse", 0, Blank))
    /\ UNCHANGED <<mode, pc, circ, depth, round, count, active, work, quorum, log, faults>>

(* An inner cell goes to the next machine; without one the handler fails. *)
RelayForward(i) ==
    /\ pc[i] = "relay"
    /\ link[In(i)].down # <<>>
    /\ LET m == Head(link[In(i)].down)
       IN  /\ m.hops > 0
           /\ IF link[Out(i)].sv = "none"
                THEN Leave(i, TakeCell(link, i))
                ELSE /\ link' = SendDown(TakeCell(link, i), i, [m EXCEPT !.hops = @ - 1])
                     /\ Goto(i, "forward")
    /\ UNCHANGED <<mode, circ, depth, round, count, active, work, quorum, log, faults>>

(* The next machine has answered an EXTEND or a forwarded cell. *)
RelayBack(i) ==
    /\ pc[i] \in {"extended", "forward"}
    /\ HasReply(i)
    /\ link' = SendUp(TakeReply(link, i), i, Head(link[Out(i)].up))
    /\ Goto(i, "relay")
    /\ UNCHANGED <<mode, circ, depth, round, count, active, work, quorum, log, faults>>

--------------------------------------------------------------------------------
(* The verifiers. *)

(* verify_chain_against_db: every node is checked and its result reported, and
   none of the results changes all_ok. *)
VerifyChain(id, wasActive, clean) ==
    LET all_ok == TRUE
    IN  [id |-> id, ok |-> all_ok, clean |-> clean,
         status |-> IF all_ok THEN "Provisional"
                    ELSE IF wasActive THEN "Revoked" ELSE "Denied"]

(* verify_full_authorization: likewise for chain 2; vm2's verdict counts. *)
VerifyFull(chain1, clean) ==
    LET all_ok == TRUE
        authorized == all_ok /\ chain1.ok
    IN  [id |-> chain1.id, ok |-> authorized, clean |-> chain1.clean /\ clean,
         status |-> IF authorized THEN "Authorized" ELSE "Denied"]

Event(v, ok) ==
    IF v = Z THEN IF ok THEN "HeartbeatOk" ELSE "HeartbeatFail"
             ELSE IF ok THEN "ChainVerified" ELSE "ChainDenied"

Entry(v, n, res, event) ==
    [c |-> circ[v], n |-> n, id |-> res.id, event |-> event, clean |-> res.clean]

(* The n-th result is logged, then sent; sending fails, or the message is lost
   unnoticed, if the other end is closed. *)
Answer(v, l, n, res, error) ==
    /\ error => ~link[In(v)].cl
    /\ log' = [log EXCEPT ![v] = Append(@, Entry(v, n, res, Event(v, res.ok)))]
    /\ IF error THEN Leave(v, l)
       ELSE link' = SendUp(l, v, Cell("Result", 0, res)) /\ Goto(v, "relay")

(* Seeded fault: in heartbeats vm2 submits the chain 1 result it has. *)
Vm2Submission_stale(clean, error) ==
    LET res == IF active THEN work[Z]
               ELSE VerifyChain(Head(link[In(Z)].down).res.id, active, clean)
    IN  /\ pc[Z] = "relay"
        /\ HasCell(Z, "ChainSubmission")
        /\ ~error
        /\ mode # "chain1"
        /\ count' = [count EXCEPT ![Z] = @ + 1]
        /\ BeginRound(Z, TakeCell(link, Z), res)
        /\ work' = [work EXCEPT ![Z] = res]
        /\ UNCHANGED <<mode, circ, round, active, quorum, log, faults>>

(* handle_zts_circuit gets a ChainSubmission: chain 1 is verified, then either
   chain 2 is asked or the result goes straight back. *)
Vm2Submission(clean, error) ==
    LET res == VerifyChain(Head(link[In(Z)].down).res.id, active, clean)
        l == TakeCell(link, Z)
    IN  /\ pc[Z] = "relay"
        /\ HasCell(Z, "ChainSubmission")
        /\ count' = [count EXCEPT ![Z] = @ + 1]
        /\ IF res.ok /\ mode # "chain1"
             THEN /\ ~error
                  /\ BeginRound(Z, l, res)
                  /\ work' = [work EXCEPT ![Z] = res]
                  /\ UNCHANGED <<active, log>>
             ELSE /\ Answer(Z, l, count[Z] + 1, res, error)
                  /\ active' = (active \/ res.ok)
                  /\ UNCHANGED <<depth, work>>
        /\ UNCHANGED <<mode, circ, round, quorum, faults>>

(* Seeded fault: vm2 logs its own verdict instead of vm3's. *)
Vm2Result_ownVerdict(error) ==
    LET res == Head(link[Out(Z)].up).res
        l == TakeReply(link, Z)
    IN  /\ pc[Z] = "round"
        /\ HasReply(Z)
        /\ depth[Z] = Last(Z)
        /\ ~error
        /\ active' = (active \/ res.ok)
        /\ log' = [log EXCEPT ![Z] =
                     Append(@, Entry(Z, count[Z], res, Event(Z, work[Z].ok)))]
        /\ link' = SendUp(l, Z, Cell("Result", 0, res))
        /\ Goto(Z, "relay")
        /\ UNCHANGED <<mode, circ, depth, round, count, work, quorum, faults>>

(* vm3's result is back at vm2. *)
Vm2Result(error) ==
    LET res == Head(link[Out(Z)].up).res
    IN  /\ pc[Z] = "round"
        /\ HasReply(Z)
        /\ depth[Z] = Last(Z)
        /\ active' = (active \/ res.ok)
        /\ Answer(Z, TakeReply(link, Z), count[Z], res, error)
        /\ UNCHANGED <<mode, circ, depth, round, count, work, quorum, faults>>

(* handle_da_circuit gets a Chain2Submission. *)
Vm3Submission(clean, error) ==
    LET res == VerifyFull(Head(link[In(D)].down).res, clean)
    IN  /\ pc[D] = "relay"
        /\ HasCell(D, "ChainSubmission")
        /\ count' = [count EXCEPT ![D] = @ + 1]
        /\ IF mode = "quorum"
             THEN /\ ~error
                  /\ work' = [work EXCEPT ![D] = res]
                  /\ link' = TakeCell(link, D)
                  /\ Goto(D, "quorum")
                  /\ UNCHANGED log
             ELSE /\ Answer(D, TakeCell(link, D), count[D] + 1, res, error)
                  /\ UNCHANGED work
        /\ UNCHANGED <<mode, circ, depth, round, active, quorum, faults>>

(* vm3_forward_to_vm4: connect, again without end, and send the chain result
   with vm3's own attestation, which may fail. *)
AskVm4(error) ==
    /\ pc[D] = "quorum"
    /\ quorum = "none"
    /\ pc[Vm4] # "down"
    /\ quorum' = IF error THEN "lost" ELSE "asked"
    /\ IF error THEN Fault ELSE UNCHANGED faults
    /\ UNCHANGED <<mode, pc, circ, depth, round, count, active, work, link, log>>

(* handle_vm3_result: vm4 checks vm3's attestation itself, takes the chains as
   passed, and looks at vm3's verdict. *)
Vm4Decides(vm3_ok) ==
    LET chain1_ok == TRUE
        chain2_ok == TRUE
        approved == vm3_ok /\ chain1_ok /\ chain2_ok /\ work[D].ok
    IN  /\ quorum = "asked"
        /\ quorum' = IF approved THEN "approved" ELSE "denied"
        /\ log' = [log EXCEPT ![Vm4] =
                     Append(@, Entry(D, count[D], work[D], Event(D, approved)))]
        /\ UNCHANGED <<mode, pc, circ, depth, round, count, active, work, link, faults>>

(* Seeded fault: vm3's result stands if vm4 does not answer. *)
Vm3Quorum_failsOpen(error) ==
    LET res == IF quorum # "denied" THEN work[D]
               ELSE [work[D] EXCEPT !.ok = FALSE, !.status = "Denied"]
    IN  /\ pc[D] = "quorum"
        /\ quorum \in {"approved", "denied", "lost"}
        /\ quorum' = "none"
        /\ Answer(D, link, count[D], res, error)
        /\ UNCHANGED <<mode, circ, depth, round, count, active, work, faults>>

(* Anything but an approval turns vm3's result into a denial. *)
Vm3Quorum(error) ==
    LET res == IF quorum = "approved" THEN work[D]
               ELSE [work[D] EXCEPT !.ok = FALSE, !.status = "Denied"]
    IN  /\ pc[D] = "quorum"
        /\ quorum \in {"approved", "denied", "lost"}
        /\ quorum' = "none"
        /\ Answer(D, link, count[D], res, error)
        /\ UNCHANGED <<mode, circ, depth, round, count, active, work, faults>>

--------------------------------------------------------------------------------
(* Ends of circuits. *)

(* Seeded fault: a session of one verification is not worth an entry. *)
UpstreamLost_offByOne(i) ==
    /\ pc[i] \in {"extend", "relay"}
    /\ UpstreamGone(i)
    /\ Leave(i, link)
    /\ log' = IF i \in Verifiers /\ pc[i] = "relay" /\ count[i] > 1
                THEN [log EXCEPT ![i] = Append(@, Entry(i, count[i], Blank, "SessionEnded"))]
                ELSE log
    /\ UNCHANGED <<mode, circ, depth, round, count, active, work, quorum, faults>>

(* Seeded fault: a proxy goes on reading from a closed connection. *)
UpstreamLost_goesOn(i) ==
    /\ i \in Verifiers
    /\ pc[i] \in {"extend", "relay"}
    /\ UpstreamGone(i)
    /\ Leave(i, link)
    /\ UNCHANGED <<mode, circ, depth, round, count, active, work, quorum, log, faults>>

(* The upstream connection is closed: the loop ends, and a verifier that has
   verified something logs the end of the session. *)
UpstreamLost(i) ==
    /\ pc[i] \in {"extend", "relay"}
    /\ UpstreamGone(i)
    /\ Leave(i, link)
    /\ log' = IF i \in Verifiers /\ pc[i] = "relay" /\ count[i] > 0
                THEN [log EXCEPT ![i] = Append(@, Entry(i, count[i], Blank, "SessionEnded"))]
                ELSE log
    /\ UNCHANGED <<mode, circ, depth, round, count, active, work, quorum, faults>>

(* Seeded fault: a proxy that has forwarded a cell waits for ever. *)
DownstreamLost_ignored(i) ==
    /\ pc[i] \in {"extended", "round"}
    /\ DownstreamGone(i)
    /\ Leave(i, link)
    /\ UNCHANGED <<mode, circ, depth, round, count, active, work, quorum, log, faults>>

(* The downstream connection is closed while its answer is awaited: the handler
   returns an error at once (`?`). *)
DownstreamLost(i) ==
    /\ pc[i] \in {"extended", "forward", "round"}
    /\ DownstreamGone(i)
    /\ Leave(i, link)
    /\ UNCHANGED <<mode, circ, depth, round, count, active, work, quorum, log, faults>>

(* The next thing machine i does is to ask its TPM for a quote: vm1 before a
   round, a proxy that is asked for its attestation, a verifier that is given a
   submission, vm2 again for its own submission. *)
Quoting(i) ==
    \/ i = 0 /\ pc[i] = "extended" /\ HasReply(i) /\ depth[i] = Last(i)
    \/ i = 0 /\ pc[i] = "session" /\ round < MaxRounds
    \/ i \in Proxies /\ pc[i] = "relay" /\ HasCell(i, "AttestationRequest")
          /\ Head(link[In(i)].down).hops = 0
    \/ i \in Verifiers /\ pc[i] = "relay" /\ HasCell(i, "ChainSubmission")
    \/ i = Z /\ pc[i] = "round" /\ HasReply(i) /\ depth[i] + 1 = Last(i)

(* generate_quote fails: the handler returns the error at once.  At vm1 a failed
   heartbeat ends the session. *)
QuoteFails(i) ==
    /\ Quoting(i)
    /\ Fault
    /\ Leave(i, link)
    /\ UNCHANGED <<mode, circ, depth, round, count, active, work, quorum, log>>

(* A process ends; the system closes its connections and its listener. *)
Crash(i) ==
    /\ pc[i] # "down"
    /\ Fault
    /\ Goto(i, "down")
    /\ link' = [x \in DOMAIN link |-> IF x[2] = i THEN ServerEnd(link[x])
                                      ELSE IF x[2] = i + 1 THEN ClientEnd(link[x])
                                      ELSE link[x]]
    /\ quorum' = IF i = D THEN "none"
                 ELSE IF i = Vm4 /\ quorum = "asked" THEN "lost"
                 ELSE quorum
    /\ UNCHANGED <<mode, circ, depth, round, count, active, work, log>>

Restart(i) ==
    /\ pc[i] = "down"
    /\ Goto(i, "accept")
    /\ UNCHANGED <<mode, circ, depth, round, count, active, work, quorum, link, log, faults>>

--------------------------------------------------------------------------------
Vm1 == Chain1Complete \/ Vm1Result \/ ExtendNext(0) \/ RoundNext(0)

Proxy(i) == RelayExtend(i) \/ RelayAttest(i) \/ RelayForward(i) \/ RelayBack(i)

Vm2 ==
    \/ Chain2Complete \/ ExtendNext(Z) \/ RoundNext(Z)
    \/ \E clean, error \in BOOLEAN : Vm2Submission(clean, error)
    \/ \E error \in BOOLEAN : Vm2Result(error)

Vm3 ==
    \/ AskVm4(FALSE)
    \/ \E clean, error \in BOOLEAN : Vm3Submission(clean, error)
    \/ \E error \in BOOLEAN : Vm3Quorum(error)

(* What machine i does by itself once it is given something to do. *)
Serve(i) ==
    \/ \E c \in Circuits : Accept(i, c)
    \/ \E error \in BOOLEAN : ServeExtend(i, error)
    \/ UpstreamLost(i)

Program ==
    \/ Vm1 \/ Vm2 \/ Vm3
    \/ \E ok \in BOOLEAN : Vm4Decides(ok)
    \/ \E i \in Proxies : Proxy(i)
    \/ \E i \in Hops : Serve(i)
    \/ \E i \in 0 .. D - 1 : Connect(i) \/ DownstreamLost(i)

Next ==
    \/ Establish \/ Heartbeat \/ Drop
    \/ Program
    \/ AskVm4(TRUE)
    \/ \E i \in 0 .. D : QuoteFails(i)
    \/ \E i \in Nodes : Crash(i) \/ Restart(i)

Spec == Init /\ [][Next]_vars

(* Every machine that can take a step takes one: the loops never sleep.  When
   vm1 starts and ends sessions, and faults, are left open. *)
FairSpec ==
    /\ Spec
    /\ WF_vars(Vm1) /\ WF_vars(Vm2) /\ WF_vars(Vm3)
    /\ WF_vars(\E ok \in BOOLEAN : Vm4Decides(ok))
    /\ \A i \in Proxies : WF_vars(Proxy(i))
    /\ \A i \in Hops : WF_vars(Serve(i))
    /\ \A i \in 0 .. D - 1 : WF_vars(Connect(i) \/ DownstreamLost(i))

(* Besides, every machine that went down is started again. *)
LiveSpec == FairSpec /\ \A i \in Nodes : WF_vars(Restart(i))

--------------------------------------------------------------------------------
(* Properties. *)

EntriesOf(v) == {log[v][j] : j \in DOMAIN log[v]}
Positive == {"HeartbeatOk", "ChainVerified"}
OnCircuit(c) == circ[0] = c /\ pc[0] \notin {"accept", "down"}

(* A connection carries one message at a time, a request or its answer, and a
   result on its way to vm1 answers the submission vm1 is waiting for.  The
   relay loops rely on it, for they take the next thing they read as the answer
   (main.rs:782), and neither heartbeat_chain1 nor vm2 compares the chain_id. *)
AnswersTheQuestion ==
    /\ \A x \in DOMAIN link : Len(link[x].down) + Len(link[x].up) <= 1
    /\ pc[0] = "round" =>
          \A i \in Hops : \A j \in DOMAIN link[<<circ[0], i>>].up :
              LET m == link[<<circ[0], i>>].up[j]
              IN  m.type = "Result" => m.res.id = round

(* While vm1 holds a session, its latest round is in vm2's log as passed, in
   vm3's log as verified if there is a second chain, and vm4 has approved it if
   vm3 has a vm4 to ask: no machine was skipped, whatever crashed meanwhile. *)
SessionIsWitnessed ==
    pc[0] = "session" =>
        \A v \in {Z} \cup (IF mode = "chain1" THEN {} ELSE {D})
                     \cup (IF mode = "quorum" THEN {Vm4} ELSE {}) :
            \E e \in EntriesOf(v) :
                e.c = circ[0] /\ e.id = round /\ e.event \in Positive

(* The two logs can be compared by heartbeat number, as the monitor does: the
   n-th entry of a circuit is about the n-th submission in both, and vm2 never
   records a verdict or node results that vm3 has not recorded before. *)
LogsAgree ==
    \A e \in EntriesOf(Z) :
        e.event # "SessionEnded" =>
            /\ e.n = e.id
            /\ mode # "chain1" =>
                  \E f \in EntriesOf(D) :
                      /\ f.c = e.c /\ f.n = e.n /\ f.id = e.id /\ f.clean = e.clean
                      /\ (f.event \in Positive) = (e.event \in Positive)

(* SESSION_ENDED is the last a verifier logs of a circuit.  Without crashes and
   TPM errors, vm1 has given the circuit up by then, and a verifier that logged
   something about a circuit and no longer serves it has logged its end: the
   error returns, which log nothing, are all consequences of one of the two. *)
EndIsTheEnd ==
    \A v \in Verifiers :
        /\ \A j, k \in DOMAIN log[v] :
              log[v][j].event = "SessionEnded" /\ k > j => log[v][k].c > log[v][j].c
        /\ faults = 0 => \A e \in EntriesOf(v) :
              /\ e.event = "SessionEnded" => ~OnCircuit(e.c)
              /\ ~(circ[v] = e.c /\ pc[v] # "accept") =>
                    \E f \in EntriesOf(v) : f.c = e.c /\ f.event = "SessionEnded"

(* What vm1 does in its circuit, as ChainVerdict sees it. *)
Client ==
    CASE pc[0] \in {"accept", "down"} -> "idle"
      [] pc[0] = "session"           -> "session"
      [] OTHER                       -> "asking"

Consent == INSTANCE ChainVerdict WITH
    Vm2 <- Z, Vm3 <- D, circuit <- circ[0], client <- Client

(* The chain implements ChainVerdict: every verdict in a log is about a
   submission vm1 has made, is logged once and in order, agrees with what the
   machines further down have logged before, and vm1 holds a session only on
   the consent of all of them. *)
ImplementsVerdict == Consent!Spec

(* vm1 never waits for ever: every circuit it builds and every round it starts
   comes to an end, also when machines of the chain fail, or crash and come back. *)
RoundEnds ==
    pc[0] \in {"connect", "extended", "round"} ~> pc[0] \in {"session", "accept", "down"}

(* Giving a circuit up frees the whole line, machine by machine, though none of
   them watches its upstream connection while it waits downstream. *)
TeardownReaches ==
    \A c \in Circuits :
        (circ[0] = c /\ pc[0] = "accept") ~>
            (\A i \in Hops : ~(circ[i] = c /\ pc[i] \notin {"accept", "down"}))

(* "vm4 unreachable: {} - denying" (main.rs:1317): vm3 answers the round although
   vm4 cannot be reached. *)
UnreachableIsDenied == pc[D] = "quorum" ~> pc[D] # "quorum"
================================================================================
