---------------------------- MODULE AuthChainProofs ----------------------------
(******************************************************************************)
(* Proofs about AuthChain: the logs of the verifiers back every session and   *)
(* agree with each other, a reply is always about the question asked last, an *)
(* end that is logged is the end, and the chain implements ChainVerdict, for  *)
(* chains of any length and any number of circuits, rounds and faults.        *)
(*                                                                            *)
(* A machine takes the next reply for the answer to its latest request:       *)
(* nobody compares the chain_id of a result with that of the submission. What *)
(* makes that right is that a circuit passes one turn along. Single says so   *)
(* for each of its two parts (vm1 to vm2, vm2 to vm3), and holds while        *)
(* machines crash or leave in the middle only because a connection breaks     *)
(* with either of its ends (Wire) and a machine serves one circuit at a time. *)
(* Phase ties the turn to what the base of the part waits for, Ids and Counts *)
(* tie its number to the round of the base and to what the verifier at the    *)
(* end has counted, and Notes says that a result is in the logs before it     *)
(* travels back: that is what a session is granted on. Fresh and Sane are     *)
(* what a part still under construction needs.                                *)
(*                                                                            *)
(* The steps of the machines come down to seven moves of the turn (UpMove,    *)
(* DownMove, Absorb, Hold, Accepted, Connected, Established) and to leaving   *)
(* (Depart); each is shown to keep Circuit once, and each action to be such a *)
(* move.                                                                      *)
(*                                                                            *)
(* A second invariant, EInv, is proved on top of the first. Net says that the *)
(* machines take the circuits in order (Backlog), that a connection stays     *)
(* open as long as somebody at either end has something to expect from it     *)
(* (Joined, Aimed), that without a fault nothing breaks before vm1 gives the  *)
(* circuit up (Calm), and that nobody is ahead of vm1 (Begun). Books says     *)
(* what that makes of the logs: they are in order (Orderly), complete         *)
(* (Counting) and, without a fault, closed (Concluded). A step logs nothing   *)
(* (Silent), a verdict (Judges) or an end (Closing); with EInv each of the    *)
(* three is a step of ChainVerdict, or none.                                  *)
(******************************************************************************)
EXTENDS AuthChain, SequenceTheorems, TLAPS

(* Machine i serves (vm1: builds or uses) circuit c. *)
On(c, i) == circ[i] = c /\ pc[i] \notin {"accept", "down"}

(* The machine at the end of the circuit that base b builds, and its links. *)
End(b) == IF b = 0 THEN Z ELSE D

(* The hops of the part of the circuit that base b builds. *)
Seg(b) == b + 1 .. End(b)

(* The round a base is in. *)
Asked(b) == IF b = 0 THEN round ELSE count[Z]

(* Machine i owes its upstream nothing. *)
Idle(i) == pc[i] = "relay" \/ (i = Z /\ pc[i] \in {"connect", "extended"})

(* Machine i has taken a cell and has passed nothing on yet. *)
Holding(i) == pc[i] \in {"round", "quorum"} \/ (pc[i] = "connect" /\ i # Z)

(* The turn is at link j or at its machine. *)
Busy(c, j) ==
    \/ link[<<c, j>>].down # <<>>
    \/ link[<<c, j>>].up # <<>>
    \/ On(c, j) /\ Holding(j)

(* The cell on its way down link j, and the reply on its way up. *)
Cell1(c, j) == Head(link[<<c, j>>].down)
Reply1(c, j) == Head(link[<<c, j>>].up)

(* The machine of link j has taken the connection. *)
Reached(c, j) == link[<<c, j>>].sv \in {"open", "closed"}

(* What travels towards the end of the line, and what travels back. *)
DownTypes == {"ExtendCircuit", "Extend", "AttestationRequest", "ChainSubmission"}
UpTypes == {"Extended", "AttestationResponse", "Result"}

(* Where the loop of machine i can be. *)
Places(i) ==
    {"down", "accept"} \cup
    IF i = 0 THEN {"connect", "extended", "round", "session"}
    ELSE IF i = Z THEN {"extend", "connect", "extended", "relay", "round"}
    ELSE IF i = D THEN {"extend", "relay", "quorum"}
    ELSE IF i = Vm4 THEN {}
    ELSE {"extend", "connect", "extended", "relay", "forward"}

(* Every machine is somewhere its loop can be, and one that works has a
   circuit. *)
Machines ==
    /\ \A i \in Nodes : pc[i] \in Places(i)
    /\ \A i \in Nodes : pc[i] \notin {"down", "accept"} => circ[i] # 0

(* The two ends of a connection. *)
Wire(c, j) ==
    /\ link[<<c, j>>].sv = "open" <=> On(c, j)
    /\ link[<<c, j>>].down # <<>> =>
         /\ Tail(link[<<c, j>>].down) = <<>> /\ link[<<c, j>>].up = <<>>
         /\ link[<<c, j>>].sv \in {"queued", "open"}
         /\ On(c, j) => Idle(j) \/ pc[j] = "extend"
    /\ link[<<c, j>>].up # <<>> =>
         /\ Tail(link[<<c, j>>].up) = <<>> /\ link[<<c, j>>].cl /\ link[<<c, j>>].sv # "queued"
         /\ On(c, j) => Idle(j)
    /\ link[<<c, j>>].cl =>
         /\ On(c, j - 1) /\ link[<<c, j>>].sv # "none"
         /\ pc[j - 1] \in {"extended", "forward", "round", "relay", "session"}
         /\ pc[j - 1] \in {"relay", "session"} =>
              /\ link[<<c, j>>].down = <<>> /\ link[<<c, j>>].up = <<>>
              /\ link[<<c, j>>].sv # "queued"
              /\ On(c, j) => Idle(j)
    /\ On(c, j - 1) /\ pc[j - 1] \in {"relay", "session"} /\ link[<<c, j>>].sv # "none" =>
         link[<<c, j>>].cl

(* What is not reached yet. *)
Fresh(c) ==
    /\ c > circ[0] => \A j \in Hops : link[<<c, j>>].sv = "none"
    /\ \A i \in 0 .. D, j \in Hops : i < j /\ On(c, i) /\ pc[i] \in {"extend", "connect"} =>
         link[<<c, j>>].sv = "none"
    /\ \A i, j \in Hops : i < j /\ ~ Reached(c, i) => link[<<c, j>>].sv = "none"

(* What a cell says. *)
Sane(c, j) ==
    /\ link[<<c, j>>].down # <<>> =>
         /\ Cell1(c, j).type \in DownTypes
         /\ Cell1(c, j).type = "Extend" =>
              /\ j <= Z => j + Cell1(c, j).hops < Z
              /\ j + Cell1(c, j).hops < D
              /\ \A k \in Hops : k > j + Cell1(c, j).hops => link[<<c, k>>].sv = "none"
    /\ link[<<c, j>>].up # <<>> => Reply1(c, j).type \in UpTypes

(* One turn in each part of the circuit. *)
Single(c) ==
    \A b \in Bases :
        /\ \A i, j \in Seg(b) : Busy(c, i) /\ Busy(c, j) => i = j
        /\ On(c, b) /\ pc[b] \notin {"extended", "round"} => \A j \in Seg(b) : ~ Busy(c, j)

(* What base b sends, or waits for, at this point of its loop. *)
Expected(b) ==
    IF pc[b] = "extended" THEN {"ExtendCircuit", "Extend", "Extended"}
    ELSE IF depth[b] < Last(b) THEN {"AttestationRequest", "AttestationResponse"}
    ELSE {"ChainSubmission", "Result"}

(* What base b waits for is what is under way. *)
Kind(c, b, j) ==
    /\ link[<<c, j>>].down # <<>> => Cell1(c, j).type \in Expected(b)
    /\ link[<<c, j>>].up # <<>> => Reply1(c, j).type \in Expected(b)
    /\ On(c, j) /\ Holding(j) =>
         IF pc[j] = "connect" THEN pc[b] = "extended" /\ j = b + depth[b]
                              ELSE pc[b] = "round" /\ depth[b] = Last(b)

(* How far the circuit of base b is built. *)
Built(c, b, j) ==
    /\ j > b + 1 + depth[b] => link[<<c, j>>].sv = "none"
    /\ link[<<c, j>>].down # <<>> /\ Cell1(c, j).type = "Extend" =>
         j + Cell1(c, j).hops = b + depth[b]
    /\ link[<<c, j>>].down # <<>> /\ Cell1(c, j).type = "ExtendCircuit" =>
         j = b + 1 + depth[b]
    /\ link[<<c, j>>].up # <<>> => Reached(c, b + 1 + depth[b])

(* A base that waits is somewhere between its first hop and its last, and what
   is under way in its part of the circuit fits. *)
Phase(c, b) ==
    On(c, b) /\ pc[b] \in {"extended", "round"} =>
        /\ depth[b] \in 0 .. Last(b)
        /\ \A j \in Seg(b) : Kind(c, b, j) /\ (pc[b] = "extended" => Built(c, b, j))

(* The machine at the end has counted n submissions of base b. *)
Counted(c, b, n) == Reached(c, End(b)) /\ (On(c, End(b)) => count[End(b)] = n)

(* How the round of base b and the number of submissions that the machine at
   the end has counted go together, at every point of the loop of b. *)
Tally(c, b) ==
    On(c, b) =>
        /\ pc[b] \in {"extend", "connect", "extended"} =>
             /\ On(c, End(b)) => count[End(b)] = 0
             /\ b = Z => count[Z] = 0
        /\ pc[b] = "round" =>
             /\ Asked(b) # 0
             /\ b = Z => work[Z].id = count[Z]
             /\ depth[b] < Last(b) => Counted(c, b, Asked(b) - 1)
        /\ b = 0 /\ pc[b] = "session" => Counted(c, b, Asked(b))
        /\ b = Z /\ pc[b] = "relay" /\ mode # "chain1" => Counted(c, b, Asked(b))

(* A submission under way is the next the machine at the end counts; a result
   is about the last it counted. *)
Numbered(c, b, j) ==
    /\ link[<<c, j>>].down # <<>> /\ Cell1(c, j).type = "ChainSubmission" =>
         /\ Cell1(c, j).res.id \in 1 .. MaxRounds
         /\ Counted(c, b, Cell1(c, j).res.id - 1)
    /\ link[<<c, j>>].up # <<>> /\ Reply1(c, j).type = "Result" =>
         Counted(c, b, Reply1(c, j).res.id)

(* The numbers of base b's part of the circuit. *)
Counts(c, b) == Tally(c, b) /\ \A j \in Seg(b) : Numbered(c, b, j)

(* A submission or a result is at link j or its machine. *)
Data(c, j) ==
    \/ link[<<c, j>>].down # <<>> /\ Cell1(c, j).type = "ChainSubmission"
    \/ link[<<c, j>>].up # <<>> /\ Reply1(c, j).type = "Result"
    \/ On(c, j) /\ pc[j] \in {"round", "quorum"}

(* It is number n. *)
DataIs(c, j, n) ==
    /\ link[<<c, j>>].down # <<>> /\ Cell1(c, j).type = "ChainSubmission" => Cell1(c, j).res.id = n
    /\ link[<<c, j>>].up # <<>> /\ Reply1(c, j).type = "Result" => Reply1(c, j).res.id = n
    /\ On(c, j) /\ j \in Verifiers /\ pc[j] \in {"round", "quorum"} => work[j].id = n

(* Whatever is under way is about the round of its base; after vm2 is gone,
   what is left in chain 2 is still about the round vm1 waits for. *)
Ids(c) ==
    /\ \A b \in Bases : On(c, b) => \A j \in Seg(b) : DataIs(c, j, Asked(b))
    /\ On(c, 0) /\ ~ On(c, Z) => \A j \in Seg(Z) : Data(c, j) =>
         /\ DataIs(c, j, round) /\ pc[0] = "round"
         /\ \A i \in Seg(0) : ~ Busy(c, i)

(* The log of v has an entry on circuit c that says what res says. *)
Noted(c, v, res) ==
    \E k \in DOMAIN log[v] :
        /\ log[v][k].c = c /\ log[v][k].id = res.id
        /\ log[v][k].event # "SessionEnded" /\ (log[v][k].event \in Positive <=> res.ok)
        /\ v = D => log[v][k].n = res.id /\ log[v][k].clean = res.clean

(* vm3 has logged the verdict res, and vm4 the approval it needs. *)
Backed(c, res) ==
    /\ Noted(c, D, res)
    /\ mode = "quorum" /\ res.ok => Noted(c, Vm4, res)

(* A result is in the logs of the machines it comes from before it travels
   back. *)
Notes(c, j) ==
    link[<<c, j>>].up # <<>> =>
        IF Reply1(c, j).type = "Result"
        THEN /\ Reply1(c, j).res.status \in {"Authorized", "Provisional"} => Reply1(c, j).res.ok
             /\ j > Z \/ mode # "chain1" => Backed(c, Reply1(c, j).res)
             /\ j <= Z => Noted(c, Z, Reply1(c, j).res)
        ELSE Reply1(c, j).res = Blank

(* vm3's conversation with vm4: an answer is there only while vm3 waits, and
   an approval is about the submission vm3 holds and is in vm4's log. *)
Talk ==
    /\ quorum # "none" => pc[D] = "quorum"
    /\ pc[D] = "quorum" => work[D].id = count[D]
    /\ quorum = "approved" => work[D].ok /\ \E k \in DOMAIN log[Vm4] :
         /\ log[Vm4][k].c = circ[D] /\ log[Vm4][k].id = work[D].id
         /\ log[Vm4][k].event = "ChainVerified"

(* What is true of each circuit. *)
Circuit(c) ==
    /\ \A j \in Hops : Wire(c, j) /\ Sane(c, j) /\ Notes(c, j)
    /\ Fresh(c) /\ Single(c) /\ Ids(c)
    /\ \A b \in Bases : Phase(c, b) /\ Counts(c, b)

(* The inductive invariant. *)
IInv ==
    /\ TypeOK /\ Machines /\ Talk
    /\ \A c \in Circuits : Circuit(c)
    /\ LogsAgree /\ SessionIsWitnessed
--------------------------------------------------------------------------------
(* The values of one link. *)
Linked == [cl : BOOLEAN, sv : {"none", "queued", "open", "closed"},
           down : Seq(Cells), up : Seq(Cells)]

(* The entries there are stay where they are. *)
Grows(v) ==
    \A k \in DOMAIN log[v] : k \in DOMAIN log'[v] /\ log'[v][k] = log[v][k]

(* No log loses anything. *)
Growing == \A v \in Verifiers \cup {Vm4} : Grows(v)

(* A step of other circuits. *)
Aside(d) ==
    /\ \A j \in Hops : link'[<<d, j>>] = link[<<d, j>>]
    /\ \A i \in 0 .. D : /\ On(d, i)' <=> On(d, i)
                         /\ On(d, i) => pc'[i] = pc[i]
    /\ \A v \in Verifiers : On(d, v) => count'[v] = count[v] /\ work'[v] = work[v]
    /\ \A b \in Bases : On(d, b) => depth'[b] = depth[b]
    /\ On(d, 0) => round' = round
    /\ d > circ'[0] => d > circ[0]
    /\ mode' = mode
    /\ Growing

(* The places on the line, which machine is at which end of which part. *)
LEMMA Line ==
    /\ Z \in Nat /\ D \in Nat /\ Z >= 1 /\ Z < D
    /\ \A j \in Hops : j \in Nat /\ j >= 1 /\ j <= D /\ j - 1 \in 0 .. D
    /\ \A b \in Bases : /\ b \in 0 .. D /\ b \in Nat /\ b < End(b) /\ End(b) \in Hops /\ End(b) \in Verifiers
                        /\ End(b) \in Seg(b) /\ b + 1 \in Seg(b)
                        /\ Last(b) \in Nat /\ b + 1 + Last(b) = End(b)
    /\ \A b \in Bases : \A j \in Seg(b) : j \in Hops /\ b < j /\ j <= End(b)
    /\ \A j \in Hops : j \in Seg(0) <=> j <= Z
    /\ \A j \in Hops : j \in Seg(Z) <=> j > Z
    /\ 0 \in Bases /\ Z \in Bases /\ Z \in Hops /\ D \in Hops /\ Z # 0
    /\ \A b \in Bases : \A j \in Seg(b) : j # End(b) => j \in Proxies
    /\ \A j \in Proxies : j \in Hops /\ j # Z /\ j # D /\ j + 1 \in Hops /\ (j < Z => j + 1 <= Z)
    /\ Vm4 \notin Verifiers /\ Vm4 \notin Hops /\ 0 \notin Hops
BY LineAssumption DEF Hops, Bases, End, Seg, Last, Verifiers, Proxies, Vm4

(* A hop and the one before it are machines of the line. *)
LEMMA HopNode == \A j \in Hops : j \in Nat /\ j \in 0 .. D /\ j - 1 \in 0 .. D /\ j \in Nodes
BY LineAssumption DEF Hops, Nodes, Vm4

(* The machines of the line are machines. *)
LEMMA LineNodes == \A k \in 0 .. D : k \in Nodes
BY LineAssumption DEF Nodes, Vm4

(* The hops of a part are hops. *)
LEMMA SegHop == \A b \in Bases : \A j \in Seg(b) : j \in Hops
BY Line

(* A hop whose part does not go on at the next hop is vm2. *)
LEMMA SegBreak ==
    \A b \in Bases : \A j \in Seg(b) :
        j + 1 \in Hops /\ j + 1 \notin Seg(b) => j \notin Proxies /\ j = Z /\ b = 0
BY LineAssumption DEF Hops, Bases, End, Seg, Verifiers, Proxies

(* The machine at the end of a part is a verifier and in that part. *)
LEMMA EndIs == \A b \in Bases : End(b) \in Seg(b) /\ End(b) \in Verifiers /\ End(b) \in Hops /\ End(b) \in 0 .. D
BY Line, HopNode

(* A base is a machine of the line. *)
LEMMA BaseNode == \A b \in Bases : b \in 0 .. D /\ b \in Nat
BY Line

(* A machine that is neither vm1 nor vm2 and has a next hop is a proxy, in one
   part of the circuit with its next hop. *)
LEMMA Between ==
    ASSUME NEW i \in 0 .. D, i # 0, i # Z, i + 1 \in Hops
    PROVE  /\ i \in Proxies /\ i \in Hops
           /\ i < Z => i \in Seg(0) /\ i + 1 \in Seg(0)
           /\ i > Z => i \in Seg(Z) /\ i + 1 \in Seg(Z) /\ i \notin Seg(0) /\ i + 1 \notin Seg(0)
BY LineAssumption DEF Hops, Proxies, Verifiers, Seg, End

(* The first cell of a queue is a cell. *)
LEMMA HeadCell ==
    ASSUME NEW q \in Seq(Cells), q # <<>>
    PROVE  Head(q) \in Cells /\ Tail(q) \in Seq(Cells)
BY HeadTailProperties

(* Where vm1, vm2, vm3 and vm4 are. *)
LEMMA Fixed ==
    /\ 0 \in 0 .. D /\ Z \in 0 .. D /\ D \in 0 .. D
    /\ 0 \in Nodes /\ Z \in Nodes /\ D \in Nodes /\ Vm4 \in Nodes
    /\ 0 \in Bases /\ Z \in Bases /\ Z \in Verifiers /\ D \in Verifiers
    /\ Z \in Hops /\ D \in Hops /\ Z + 1 \in Hops /\ 0 + 1 \in Hops /\ 0 \notin Hops /\ D + 1 \notin Hops
    /\ Z # 0 /\ D # 0 /\ Z # D /\ Vm4 \notin 0 .. D /\ Vm4 # Z /\ Vm4 # D
BY LineAssumption DEF Nodes, Vm4, Bases, Verifiers, Hops

(* What a log says stays said. *)
LEMMA NotedStays ==
    ASSUME NEW c, NEW v \in Verifiers \cup {Vm4}, NEW res, Grows(v), Noted(c, v, res)
    PROVE  Noted(c, v, res)'
BY DEF Grows, Noted

(* What is backed stays backed. *)
LEMMA BackedStays ==
    ASSUME NEW c, NEW res, Growing, mode' = mode, Backed(c, res)
    PROVE  Backed(c, res)'
BY NotedStays DEF Growing, Backed, Verifiers

(* A step that reaches no new machine keeps the rest unreached. *)
LEMMA FreshStays ==
    ASSUME NEW d, Fresh(d),
           d > circ'[0] => d > circ[0],
           \A k \in 0 .. D : On(d, k)' /\ pc'[k] \in {"extend", "connect"} =>
              On(d, k) /\ pc[k] \in {"extend", "connect"},
           \A j \in Hops : /\ link[<<d, j>>].sv = "none" => link'[<<d, j>>].sv = "none"
                           /\ Reached(d, j) => Reached(d, j)'
    PROVE  Fresh(d)'
<1>1. d > circ'[0] => \A j \in Hops : link'[<<d, j>>].sv = "none"
  BY DEF Fresh
<1>2. \A k \in 0 .. D, j \in Hops : k < j /\ On(d, k)' /\ pc'[k] \in {"extend", "connect"} =>
        link'[<<d, j>>].sv = "none"
  BY DEF Fresh
<1>3. \A k, j \in Hops : k < j /\ ~ Reached(d, k)' => link'[<<d, j>>].sv = "none"
  BY DEF Fresh
<1> QED BY <1>1, <1>2, <1>3 DEF Fresh

(* A step of another circuit keeps all that is true of this one. *)
LEMMA Frame ==
    ASSUME NEW d, Circuit(d), Aside(d)
    PROVE  Circuit(d)'
<1>a. /\ \A j \in Hops : /\ link'[<<d, j>>] = link[<<d, j>>]
                         /\ On(d, j)' <=> On(d, j)
                         /\ On(d, j) => pc'[j] = pc[j]
                         /\ On(d, j - 1)' <=> On(d, j - 1)
                         /\ On(d, j - 1) => pc'[j - 1] = pc[j - 1]
      /\ \A b \in Bases : (On(d, b)' <=> On(d, b)) /\ (On(d, b) => pc'[b] = pc[b])
  BY HopNode, BaseNode DEF Aside
<1>b. \A j \in Hops : Busy(d, j)' <=> Busy(d, j)
  <2> SUFFICES ASSUME NEW j \in Hops PROVE Busy(d, j)' <=> Busy(d, j)
    OBVIOUS
  <2>1. On(d, j) => (Holding(j)' <=> Holding(j))
    BY <1>a DEF Holding
  <2> QED BY <1>a, <2>1 DEF Busy
<1>1. ASSUME NEW j \in Hops PROVE Wire(d, j)'
  <2>1. Wire(d, j)
    BY DEF Circuit
  <2>3. On(d, j) => (Idle(j)' <=> Idle(j))
    BY <1>a DEF Idle
  <2> QED BY <1>a, <2>1, <2>3 DEF Wire
<1>2. ASSUME NEW j \in Hops PROVE Sane(d, j)'
  BY DEF Circuit, Aside, Sane, Cell1, Reply1
<1>3. ASSUME NEW j \in Hops PROVE Notes(d, j)'
  <2>1. Notes(d, j) /\ link'[<<d, j>>] = link[<<d, j>>] /\ mode' = mode /\ Growing
    BY DEF Circuit, Aside
  <2> QED BY <2>1, BackedStays, NotedStays DEF Notes, Reply1, Growing, Verifiers
<1>4. Fresh(d)'
  <2>1. Fresh(d) /\ (d > circ'[0] => d > circ[0])
    BY DEF Circuit, Aside
  <2>2. \A k \in 0 .. D : On(d, k)' /\ pc'[k] \in {"extend", "connect"} =>
           On(d, k) /\ pc[k] \in {"extend", "connect"}
    BY DEF Aside
  <2>3. \A j \in Hops : /\ link[<<d, j>>].sv = "none" => link'[<<d, j>>].sv = "none"
                        /\ Reached(d, j) => Reached(d, j)'
    BY <1>a DEF Reached
  <2> QED BY <2>1, <2>2, <2>3, FreshStays
<1>5. Single(d)'
  <2>1. Single(d) BY DEF Circuit
  <2> QED BY <1>a, <1>b, <2>1, Line DEF Single
<1>6. \A b \in Bases : On(d, b) => Asked(b)' = Asked(b)
  BY DEF Aside, Asked, Bases, Verifiers
<1>7. \A n : \A j \in Hops : DataIs(d, j, n) => DataIs(d, j, n)'
  <2> SUFFICES ASSUME NEW j \in Hops, NEW n, DataIs(d, j, n) PROVE DataIs(d, j, n)'
    OBVIOUS
  <2>2. j \in Verifiers /\ On(d, j) => work'[j] = work[j]
    BY DEF Aside
  <2> QED BY <1>a, <2>2 DEF DataIs, Cell1, Reply1
<1>8. \A j \in Hops : Data(d, j)' <=> Data(d, j)
  BY <1>a DEF Data, Cell1, Reply1
<1>9. Ids(d)'
  <2>1. Ids(d) /\ (On(d, 0) => round' = round) BY DEF Circuit, Aside
  <2>2. ASSUME NEW b \in Bases, On(d, b)', NEW j \in Seg(b)
        PROVE  DataIs(d, j, Asked(b))'
    <3>1. On(d, b) /\ Asked(b)' = Asked(b) /\ j \in Hops
      BY <1>a, <1>6, <2>2, Line
    <3>2. DataIs(d, j, Asked(b))
      BY <2>1, <3>1 DEF Ids
    <3> DEFINE n == Asked(b)
    <3>3. DataIs(d, j, n)'
      BY <1>7, <3>1, <3>2
    <3> QED BY <3>1, <3>3
  <2>3. ASSUME On(d, 0)', ~ On(d, Z)', NEW j \in Seg(Z), Data(d, j)'
        PROVE  /\ DataIs(d, j, round)' /\ pc'[0] = "round"
               /\ \A i \in Seg(0) : ~ Busy(d, i)'
    <3>1. On(d, 0) /\ ~ On(d, Z) /\ Data(d, j) /\ j \in Hops
      BY <1>a, <1>8, <2>3, Line
    <3>2. /\ DataIs(d, j, round) /\ pc[0] = "round"
          /\ \A i \in Seg(0) : ~ Busy(d, i)
      BY <2>1, <3>1 DEF Ids
    <3>3. DataIs(d, j, round)'
      BY <1>7, <2>1, <3>1, <3>2
    <3> QED BY <1>a, <1>b, <3>1, <3>2, <3>3, Line
  <2> QED BY <2>2, <2>3 DEF Ids
<1>10. ASSUME NEW b \in Bases PROVE Phase(d, b)'
  <2>1. Phase(d, b) /\ (On(d, b) => depth'[b] = depth[b])
    BY DEF Circuit, Aside
  <2>2. On(d, b) => Expected(b)' = Expected(b)
    BY <1>a, <2>1 DEF Expected
  <2>3. \A j \in Hops : On(d, j) => (Holding(j)' <=> Holding(j))
    BY <1>a DEF Holding
  <2>4. ASSUME On(d, b), pc[b] \in {"extended", "round"}, NEW j \in Seg(b), Kind(d, b, j)
        PROVE  Kind(d, b, j)'
    <3>1. /\ j \in Hops /\ link'[<<d, j>>] = link[<<d, j>>]
          /\ On(d, j)' <=> On(d, j)
          /\ On(d, j) => pc'[j] = pc[j] /\ (Holding(j)' <=> Holding(j))
      BY <1>a, <2>3, Line
    <3>2. pc'[b] = pc[b] /\ depth'[b] = depth[b] /\ Expected(b)' = Expected(b)
      BY <1>a, <2>1, <2>2, <2>4
    <3> QED BY <2>4, <3>1, <3>2 DEF Kind, Cell1, Reply1
  <2>5. ASSUME On(d, b), depth[b] \in 0 .. Last(b), NEW j \in Seg(b), Built(d, b, j)
        PROVE  Built(d, b, j)'
    <3>1. b + 1 + depth[b] \in Hops
      BY <2>5, Line DEF Hops
    <3> QED BY <1>a, <2>1, <2>5, <3>1, Line DEF Built, Cell1, Reached
  <2> QED BY <1>a, <2>1, <2>4, <2>5 DEF Phase
<1>11. ASSUME NEW b \in Bases PROVE Counts(d, b)'
  <2>1. /\ Counts(d, b) /\ (On(d, b) => depth'[b] = depth[b]) /\ mode' = mode
        /\ \A v \in Verifiers : On(d, v) => count'[v] = count[v] /\ work'[v] = work[v]
    BY DEF Circuit, Aside
  <2>2. \A n : Counted(d, b, n) => Counted(d, b, n)'
    BY <1>a, <2>1, Line DEF Counted, Reached
  <2>3. Tally(d, b)'
    <3>1. Tally(d, b) BY <2>1 DEF Counts
    <3>2. On(d, b)' => On(d, b) /\ pc'[b] = pc[b] /\ Asked(b)' = Asked(b) /\ depth'[b] = depth[b]
      BY <1>a, <1>6, <2>1
    <3>3. On(d, b)' /\ b = Z => count'[Z] = count[Z] /\ work'[Z] = work[Z]
      BY <3>2, <2>1 DEF Verifiers
    <3>4. On(d, End(b))' => On(d, End(b)) /\ count'[End(b)] = count[End(b)]
      BY <1>a, <2>1, Line
    <3> QED BY <2>1, <2>2, <3>1, <3>2, <3>3, <3>4 DEF Tally
  <2>4. ASSUME NEW j \in Seg(b) PROVE Numbered(d, b, j)'
    <3>1. j \in Hops /\ link'[<<d, j>>] = link[<<d, j>>] /\ Numbered(d, b, j)
      BY <1>a, <2>1, Line DEF Counts
    <3> QED BY <2>2, <3>1 DEF Numbered, Cell1, Reply1
  <2> QED BY <2>3, <2>4 DEF Counts
<1> QED BY <1>1, <1>2, <1>3, <1>4, <1>5, <1>9, <1>10, <1>11 DEF Circuit

(* While vm2 is in a round, the turn of chain 1 is with it, and the submission
   in chain 2 is vm1's. *)
LEMMA BothRounds ==
    ASSUME NEW c, Circuit(c), On(c, Z), NEW j \in Seg(Z), Data(c, j)
    PROVE  /\ pc[Z] = "round" /\ Busy(c, Z) /\ Busy(c, j)
           /\ \A i \in Seg(0) : i # Z => ~ Busy(c, i)
           /\ link[<<c, Z>>].down = <<>> /\ link[<<c, Z>>].up = <<>>
           /\ On(c, 0) => pc[0] = "round" /\ count[Z] = round
<1>1. /\ Wire(c, Z) /\ Single(c) /\ Ids(c)
      /\ \A b \in Bases : Phase(c, b) /\ Tally(c, b)
  BY Line DEF Circuit, Counts
<1>2. Busy(c, j)
  BY DEF Data, Busy, Holding
<1>3. pc[Z] \in {"extended", "round"}
  BY <1>1, <1>2, Line DEF Single
<1>4. Kind(c, Z, j)
  BY <1>1, <1>3, Line DEF Phase
<1>5. pc[Z] = "round"
  BY <1>3, <1>4 DEF Kind, Data, Expected, Holding
<1>6. Busy(c, Z)
  BY <1>5 DEF Busy, Holding
<1>7. \A i \in Seg(0) : i # Z => ~ Busy(c, i)
  BY <1>1, <1>6, Line DEF Single
<1>8. link[<<c, Z>>].down = <<>> /\ link[<<c, Z>>].up = <<>>
  BY <1>1, <1>5 DEF Wire, Idle
<1>9. ASSUME On(c, 0) PROVE pc[0] = "round" /\ count[Z] = round
  <2>1. pc[0] \in {"extended", "round"}
    BY <1>1, <1>6, <1>9, Line DEF Single
  <2>2. Kind(c, 0, Z)
    BY <1>1, <1>9, <2>1, Line DEF Phase
  <2>3. pc[0] = "round"
    BY <1>5, <2>2 DEF Kind, Holding
  <2>4. work[Z].id = count[Z]
    BY <1>1, <1>5, Line DEF Tally
  <2>5. DataIs(c, Z, Asked(0))
    BY <1>1, <1>9, Line DEF Ids
  <2>6. work[Z].id = round
    BY <1>5, <2>5 DEF DataIs, Asked, Verifiers
  <2> QED BY <2>3, <2>4, <2>6
<1> QED BY <1>2, <1>5, <1>6, <1>7, <1>8, <1>9

(* Machine i closes its ends of the connections of circuit d. *)
Severed(d, i) ==
    \A j \in Hops :
        /\ link'[<<d, j>>].sv = IF j = i /\ link[<<d, j>>].sv # "none" THEN "closed"
                                ELSE link[<<d, j>>].sv
        /\ link'[<<d, j>>].cl = IF j = i + 1 THEN FALSE ELSE link[<<d, j>>].cl
        /\ link'[<<d, j>>].down = IF j = i /\ link[<<d, j>>].sv # "none" THEN <<>>
                                  ELSE link[<<d, j>>].down
        /\ link'[<<d, j>>].up = IF j = i + 1 THEN <<>> ELSE link[<<d, j>>].up

(* Machine i is through with circuit d. *)
Departed(d, i) ==
    /\ Severed(d, i)
    /\ ~ On(d, i)'
    /\ \A k \in 0 .. D : k # i => /\ On(d, k)' <=> On(d, k)
                                  /\ On(d, k) => pc'[k] = pc[k]
    /\ \A v \in Verifiers : On(d, v)' => count'[v] = count[v] /\ work'[v] = work[v]
    /\ \A b \in Bases : On(d, b)' => depth'[b] = depth[b]
    /\ On(d, 0)' => round' = round
    /\ circ'[0] = circ[0] /\ mode' = mode
    /\ Growing

(* So does a machine that leaves the circuit: its two connections break, and
   what was under way on them is gone. *)
LEMMA Depart ==
    ASSUME NEW d, NEW i \in Nodes, Circuit(d), Departed(d, i)
    PROVE  Circuit(d)'
<1>a. /\ \A k \in 0 .. D : On(d, k)' => k # i /\ On(d, k) /\ pc'[k] = pc[k]
      /\ \A k \in 0 .. D : On(d, k) /\ k # i => On(d, k)'
  BY DEF Departed
<1>l. \A j \in Hops :
        /\ link'[<<d, j>>].sv = IF j = i /\ link[<<d, j>>].sv # "none" THEN "closed"
                                ELSE link[<<d, j>>].sv
        /\ link'[<<d, j>>].cl = IF j = i + 1 THEN FALSE ELSE link[<<d, j>>].cl
        /\ link'[<<d, j>>].down = IF j = i /\ link[<<d, j>>].sv # "none" THEN <<>>
                                  ELSE link[<<d, j>>].down
        /\ link'[<<d, j>>].up = IF j = i + 1 THEN <<>> ELSE link[<<d, j>>].up
  BY DEF Departed, Severed
<1>b. \A j \in Hops : Busy(d, j)' => Busy(d, j)
  <2> SUFFICES ASSUME NEW j \in Hops, Busy(d, j)' PROVE Busy(d, j)
    OBVIOUS
  <2>1. On(d, j)' => On(d, j) /\ (Holding(j)' <=> Holding(j))
    BY <1>a, HopNode, SegHop DEF Holding
  <2> QED BY <1>l, <2>1 DEF Busy
<1>1. ASSUME NEW j \in Hops PROVE Wire(d, j)'
  <2>1. Wire(d, j)
    BY DEF Circuit
  <2>2. On(d, j)' => On(d, j) /\ pc'[j] = pc[j] /\ (Idle(j)' <=> Idle(j))
    BY <1>a, HopNode DEF Idle
  <2>3. On(d, j - 1)' => On(d, j - 1) /\ pc'[j - 1] = pc[j - 1]
    BY <1>a, Line
  <2>4. On(d, j) /\ j # i => On(d, j)'
    BY <1>a, HopNode
  <2>5. On(d, j - 1) /\ j # i + 1 => On(d, j - 1)'
    BY <1>a, Line DEF Nodes, Vm4
  <2>6. (j = i => ~ On(d, j)') /\ (j = i + 1 => ~ On(d, j - 1)')
    BY Line DEF Departed, Nodes, Vm4
  <2>7. link[<<d, j>>].sv # "open" <=> ~ On(d, j)
    BY <2>1 DEF Wire
  <2>8. link'[<<d, j>>].sv = "open" <=> On(d, j)'
    BY <1>l, <2>2, <2>4, <2>6, <2>7
  <2> QED BY <1>l, <2>1, <2>2, <2>3, <2>4, <2>5, <2>6, <2>8 DEF Wire
<1>n. \A j \in Hops : /\ link'[<<d, j>>].sv = "none" <=> link[<<d, j>>].sv = "none"
                      /\ Reached(d, j) => Reached(d, j)'
                      /\ link'[<<d, j>>].down # <<>> => link'[<<d, j>>].down = link[<<d, j>>].down
                      /\ link'[<<d, j>>].up # <<>> => link'[<<d, j>>].up = link[<<d, j>>].up
  BY <1>l DEF Reached
<1>2. ASSUME NEW j \in Hops PROVE Sane(d, j)'
  <2>1. Sane(d, j)
    BY DEF Circuit
  <2> QED BY <1>n, <2>1 DEF Sane, Cell1, Reply1
<1>3. ASSUME NEW j \in Hops PROVE Notes(d, j)'
  <2>1. Notes(d, j) /\ mode' = mode /\ Growing
    BY DEF Circuit, Departed
  <2> QED BY <1>n, <2>1, BackedStays, NotedStays DEF Notes, Reply1, Growing, Verifiers
<1>4. Fresh(d)'
  <2>1. Fresh(d) /\ circ'[0] = circ[0]
    BY DEF Circuit, Departed
  <2>2. \A k \in 0 .. D : On(d, k)' /\ pc'[k] \in {"extend", "connect"} =>
           On(d, k) /\ pc[k] \in {"extend", "connect"}
    BY <1>a
  <2> QED BY <1>n, <2>1, <2>2, FreshStays
<1>5. Single(d)'
  <2>1. Single(d) BY DEF Circuit
  <2> QED BY <1>a, <1>b, <2>1, Line DEF Single
<1>6. \A b \in Bases : On(d, b)' => Asked(b)' = Asked(b)
  BY DEF Departed, Asked, Bases, Verifiers
<1>7. \A n : \A j \in Hops : DataIs(d, j, n) => DataIs(d, j, n)'
  <2> SUFFICES ASSUME NEW j \in Hops, NEW n, DataIs(d, j, n) PROVE DataIs(d, j, n)'
    OBVIOUS
  <2>1. On(d, j)' => On(d, j) /\ pc'[j] = pc[j]
    BY <1>a, HopNode
  <2>2. j \in Verifiers /\ On(d, j)' => work'[j] = work[j]
    BY DEF Departed
  <2> QED BY <1>n, <2>1, <2>2 DEF DataIs, Cell1, Reply1
<1>8. \A j \in Hops : Data(d, j)' => Data(d, j)
  <2> SUFFICES ASSUME NEW j \in Hops, Data(d, j)' PROVE Data(d, j)
    OBVIOUS
  <2>1. On(d, j)' => On(d, j) /\ pc'[j] = pc[j]
    BY <1>a, HopNode
  <2> QED BY <1>n, <2>1 DEF Data, Cell1, Reply1
<1>9. Ids(d)'
  <2>1. Ids(d) /\ (On(d, 0)' => round' = round) BY DEF Circuit, Departed
  <2>2. ASSUME NEW b \in Bases, On(d, b)', NEW j \in Seg(b)
        PROVE  DataIs(d, j, Asked(b))'
    <3>1. On(d, b) /\ Asked(b)' = Asked(b) /\ j \in Hops
      BY <1>a, <1>6, <2>2, Line
    <3>2. DataIs(d, j, Asked(b))
      BY <2>1, <3>1 DEF Ids
    <3> DEFINE n == Asked(b)
    <3>3. DataIs(d, j, n)'
      BY <1>7, <3>1, <3>2
    <3> QED BY <3>1, <3>3
  <2>3. ASSUME On(d, 0)', ~ On(d, Z)', NEW j \in Seg(Z), Data(d, j)'
        PROVE  /\ DataIs(d, j, round)' /\ pc'[0] = "round"
               /\ \A k \in Seg(0) : ~ Busy(d, k)'
    <3>1. On(d, 0) /\ Data(d, j) /\ j \in Hops /\ pc'[0] = pc[0] /\ round' = round
      BY <1>a, <1>8, <2>1, <2>3, Line
    <3>2. CASE ~ On(d, Z)
      <4>1. /\ DataIs(d, j, round) /\ pc[0] = "round"
            /\ \A k \in Seg(0) : ~ Busy(d, k)
        BY <2>1, <3>1, <3>2 DEF Ids
      <4>2. DataIs(d, j, round)'
        BY <1>7, <3>1, <4>1
      <4> QED BY <1>b, <3>1, <4>1, <4>2, Line
    <3>3. CASE On(d, Z)
      <4>1. i = Z
        BY <1>a, <2>3, <3>3, Line
      <4>2. /\ pc[0] = "round" /\ count[Z] = round
            /\ \A k \in Seg(0) : k # Z => ~ Busy(d, k)
            /\ link[<<d, Z>>].down = <<>> /\ link[<<d, Z>>].up = <<>>
        BY <3>1, <3>3, BothRounds
      <4>3. ~ Busy(d, Z)'
        BY <1>n, <2>3, <4>2, Line DEF Busy
      <4>4. DataIs(d, j, round)
        BY <2>1, <3>3, <4>2, Line DEF Ids, Asked
      <4>5. DataIs(d, j, round)'
        BY <1>7, <3>1, <4>4
      <4> QED BY <1>b, <3>1, <4>2, <4>3, <4>5, Line
    <3> QED BY <3>2, <3>3
  <2> QED BY <2>2, <2>3 DEF Ids
<1>10. ASSUME NEW b \in Bases PROVE Phase(d, b)'
  <2> SUFFICES ASSUME On(d, b)', pc'[b] \in {"extended", "round"}
               PROVE  /\ depth'[b] \in 0 .. Last(b)
                      /\ \A j \in Seg(b) : Kind(d, b, j)' /\ (pc'[b] = "extended" => Built(d, b, j)')
    BY DEF Phase
  <2>1. /\ On(d, b) /\ pc'[b] = pc[b] /\ depth'[b] = depth[b] /\ Phase(d, b)
        /\ Expected(b)' = Expected(b)
    BY <1>a, Line DEF Circuit, Departed, Expected
  <2>2. /\ depth[b] \in 0 .. Last(b)
        /\ \A j \in Seg(b) : Kind(d, b, j) /\ (pc[b] = "extended" => Built(d, b, j))
    BY <2>1 DEF Phase
  <2>4. ASSUME NEW j \in Seg(b) PROVE  Kind(d, b, j)'
    <3>1. j \in Hops /\ (On(d, j)' => On(d, j) /\ pc'[j] = pc[j] /\ (Holding(j)' <=> Holding(j)))
      BY <1>a, HopNode, SegHop DEF Holding
    <3> QED BY <1>n, <2>1, <2>2, <3>1 DEF Kind, Cell1, Reply1
  <2>5. ASSUME NEW j \in Seg(b), Built(d, b, j) PROVE  Built(d, b, j)'
    <3>1. j \in Hops /\ b + 1 + depth[b] \in Hops
      <4>1. b \in Nat /\ End(b) \in 1 .. D /\ b + 1 + Last(b) = End(b) /\ Last(b) \in Nat
        BY Line DEF Hops
      <4> QED BY <2>2, <4>1, SegHop, LineAssumption DEF Hops
    <3> QED BY <1>n, <2>1, <2>5, <3>1 DEF Built, Cell1
  <2> QED BY <2>1, <2>2, <2>4, <2>5
<1>11. ASSUME NEW b \in Bases PROVE Counts(d, b)'
  <2>1. /\ Counts(d, b) /\ mode' = mode /\ Reached(d, End(b)) => Reached(d, End(b))'
    BY <1>n, Line DEF Circuit, Departed
  <2>4. On(d, End(b))' => On(d, End(b)) /\ count'[End(b)] = count[End(b)]
    BY <1>a, Line DEF Departed
  <2>2. \A n : Counted(d, b, n) => Counted(d, b, n)'
    BY <1>n, <2>4, Line DEF Counted
  <2>3. Tally(d, b)'
    <3>1. Tally(d, b) /\ mode' = mode BY DEF Circuit, Counts, Departed
    <3>2. On(d, b)' => On(d, b) /\ pc'[b] = pc[b] /\ Asked(b)' = Asked(b) /\ depth'[b] = depth[b]
      BY <1>a, <1>6, Line DEF Departed
    <3>3. On(d, b)' /\ b = Z => count'[Z] = count[Z] /\ work'[Z] = work[Z]
      BY DEF Verifiers, Departed
    <3> QED BY <2>2, <2>4, <3>1, <3>2, <3>3 DEF Tally
  <2>5. ASSUME NEW j \in Seg(b) PROVE Numbered(d, b, j)'
    <3>1. j \in Hops /\ Numbered(d, b, j)
      BY Line DEF Counts, Circuit
    <3> QED BY <1>n, <2>2, <3>1 DEF Numbered, Cell1, Reply1
  <2> QED BY <2>3, <2>5 DEF Counts
<1> QED BY <1>1, <1>2, <1>3, <1>4, <1>5, <1>9, <1>10, <1>11 DEF Circuit
--------------------------------------------------------------------------------
(* Steps of one machine. *)
Acts(i) ==
    /\ circ' = circ /\ mode' = mode /\ Growing
    /\ \A k \in Nodes : k # i => pc'[k] = pc[k]
    /\ \A v \in Verifiers : v # i => count'[v] = count[v] /\ work'[v] = work[v]
    /\ \A b \in Bases : b # i => depth'[b] = depth[b]
    /\ i # 0 => round' = round
    /\ \A d \in Circuits, j \in Hops :
         d # circ[i] \/ j \notin {i, i + 1} => link'[<<d, j>>] = link[<<d, j>>]

(* Queue q holds m and nothing else. *)
Holds(q, m) == q # <<>> /\ Head(q) = m /\ Tail(q) = <<>>

(* Link j is left alone. *)
Kept(c, j) == link'[<<c, j>>] = link[<<c, j>>]

(* A reply is taken from link j. *)
Taken(c, j) ==
    /\ link'[<<c, j>>].sv = link[<<c, j>>].sv /\ (link'[<<c, j>>].cl <=> link[<<c, j>>].cl)
    /\ link[<<c, j>>].up # <<>> /\ link'[<<c, j>>].up = <<>>
    /\ link'[<<c, j>>].down = link[<<c, j>>].down

(* The machine of link j answers m. *)
Replied(c, j, m) ==
    /\ link'[<<c, j>>].sv = link[<<c, j>>].sv /\ (link'[<<c, j>>].cl <=> link[<<c, j>>].cl)
    /\ link'[<<c, j>>].down = <<>>
    /\ link[<<c, j>>].cl => Holds(link'[<<c, j>>].up, m)
    /\ ~ link[<<c, j>>].cl => link'[<<c, j>>].up = <<>>

(* m is sent on link j; what was there has been read. *)
Passed(c, j, m) ==
    /\ link'[<<c, j>>].sv = link[<<c, j>>].sv /\ (link'[<<c, j>>].cl <=> link[<<c, j>>].cl)
    /\ link'[<<c, j>>].up = <<>>
    /\ link[<<c, j>>].sv \in {"queued", "open"} => Holds(link'[<<c, j>>].down, m)
    /\ link[<<c, j>>].sv \notin {"queued", "open"} => link'[<<c, j>>].down = <<>>

(* The step of a machine is a step of its own circuit only. *)
LEMMA Elsewhere ==
    ASSUME NEW i \in Nodes, Acts(i), NEW d \in Circuits, d # circ[i], Circuit(d)
    PROVE  Circuit(d)'
<1>1. \A k \in 0 .. D : k \in Nodes
  BY Line DEF Nodes, Vm4
<1>2. \A k \in 0 .. D : (On(d, k)' <=> On(d, k)) /\ (On(d, k) => pc'[k] = pc[k])
  BY <1>1 DEF Acts, On
<1>3. ~ On(d, i)
  BY DEF On
<1>4. Aside(d)
  <2>1. \A v \in Verifiers : On(d, v) => count'[v] = count[v] /\ work'[v] = work[v]
    BY <1>3 DEF Acts
  <2>2. \A b \in Bases : On(d, b) => depth'[b] = depth[b]
    BY <1>3 DEF Acts
  <2>3. On(d, 0) => round' = round
    BY <1>3 DEF Acts
  <2> QED BY <1>2, <2>1, <2>2, <2>3 DEF Aside, Acts
<1> QED BY <1>4, Frame

(* Idle and Holding exclude each other. *)
LEMMA IdleHolding == \A i : ~ (Idle(i) /\ Holding(i))
BY DEF Idle, Holding

(* Machine i answers its upstream. *)
LEMMA UpMove ==
    ASSUME NEW c \in Circuits, NEW i \in Hops, c = circ[i], Circuit(c), Acts(i), On(c, i), On(c, i)',
           NEW m, Replied(c, i, m),
           pc'[i] = "relay" \/ (i = Z /\ pc'[i] = "connect" /\ pc[i] = "extend"),
           link[<<c, i>>].down # <<>> \/ ~ Idle(i),
           link[<<c, i>>].up = <<>>,
           i + 1 \in Hops => Kept(c, i + 1) \/ Taken(c, i + 1),
           Busy(c, i) \/ (i \in Proxies /\ Taken(c, i + 1)),
           i \in {Z} => pc[i] \in {"extend", "relay"} \/ Taken(c, i + 1),
           i \in Proxies /\ Kept(c, i + 1) => pc[i] \in {"extend", "relay"},
           m.type \in UpTypes,
           link[<<c, i>>].cl => Notes(c, i)',
           \A b \in Bases : i \in Seg(b) /\ On(c, b) /\ pc[b] \in {"extended", "round"} =>
               m.type \in Expected(b) /\ (pc[b] = "extended" => Reached(c, b + 1 + depth[b])),
           m.type = "Result" => \A b \in Bases : i \in Seg(b) =>
               /\ Counted(c, b, m.res.id)'
               /\ On(c, b) => m.res.id = Asked(b)
               /\ Data(c, i) \/ (i \in Proxies /\ Data(c, i + 1)),
           m.type = "Result" /\ i > Z /\ On(c, 0) /\ ~ On(c, Z) => m.res.id = round,
           \A b \in Bases : Tally(c, b)'
    PROVE  Circuit(c)'
<1>0. /\ i \in Nodes /\ i \in 0 .. D /\ i \in Nat /\ i - 1 \in 0 .. D
      /\ \A k \in 0 .. D : k \in Nodes
  BY HopNode, LineNodes
<1>a. /\ \A k \in 0 .. D : On(c, k)' <=> On(c, k)
      /\ \A k \in 0 .. D : k # i => pc'[k] = pc[k]
  <2>1. \A k \in 0 .. D : k # i => pc'[k] = pc[k] /\ circ'[k] = circ[k]
    BY <1>0 DEF Acts
  <2> QED BY <2>1 DEF On
<1>l. \A j \in Hops : j # i /\ j # i + 1 => Kept(c, j)
  BY DEF Acts, Kept
<1>n. \A j \in Hops : /\ link'[<<c, j>>].sv = link[<<c, j>>].sv
                      /\ link'[<<c, j>>].cl <=> link[<<c, j>>].cl
                      /\ Reached(c, j)' <=> Reached(c, j)
                      /\ j # i => link'[<<c, j>>].down = link[<<c, j>>].down
                      /\ j # i => link'[<<c, j>>].up = link[<<c, j>>].up \/ link'[<<c, j>>].up = <<>>
  <2> SUFFICES ASSUME NEW j \in Hops
               PROVE  /\ link'[<<c, j>>].sv = link[<<c, j>>].sv
                      /\ link'[<<c, j>>].cl <=> link[<<c, j>>].cl
                      /\ Reached(c, j)' <=> Reached(c, j)
                      /\ j # i => link'[<<c, j>>].down = link[<<c, j>>].down
                      /\ j # i => link'[<<c, j>>].up = link[<<c, j>>].up \/ link'[<<c, j>>].up = <<>>
    OBVIOUS
  <2>1. CASE j = i
    BY <2>1 DEF Replied, Reached
  <2>2. CASE j = i + 1
    BY <2>2 DEF Kept, Taken, Reached
  <2>3. CASE j # i /\ j # i + 1
    BY <1>l, <2>3 DEF Kept, Reached
  <2> QED BY <2>1, <2>2, <2>3
<1>h. ~ Holding(i)'
  BY DEF Holding
<1>b. \A j \in Hops : j # i /\ Busy(c, j)' => Busy(c, j)
  <2> SUFFICES ASSUME NEW j \in Hops, j # i, Busy(c, j)' PROVE Busy(c, j)
    OBVIOUS
  <2>1. On(c, j)' => On(c, j) /\ (Holding(j)' <=> Holding(j))
    BY <1>a, HopNode DEF Holding
  <2> QED BY <1>n, <2>1 DEF Busy
<1>t. ASSUME NEW b \in Bases, i \in Seg(b)
      PROVE  /\ \A j \in Seg(b) : j # i => ~ Busy(c, j)'
             /\ On(c, b) => pc[b] \in {"extended", "round"}
  <2>1. Single(c)
    BY DEF Circuit
  <2>2. CASE Busy(c, i)
    BY <1>b, <1>t, <2>1, <2>2, SegHop DEF Single
  <2>3. CASE i \in Proxies /\ Taken(c, i + 1)
    <3>1. i + 1 \in Seg(b) /\ i + 1 \in Hops /\ Busy(c, i + 1)
      BY <1>t, <2>3, Line DEF Busy, Taken, Proxies, Seg, Bases, End
    <3>2. Wire(c, i + 1)
      BY <3>1 DEF Circuit
    <3>3. ~ Busy(c, i + 1)'
      <4>1. link'[<<c, i + 1>>].down = <<>> /\ link'[<<c, i + 1>>].up = <<>>
        BY <2>3, <3>2 DEF Wire, Taken
      <4>2. On(c, i + 1)' => ~ Holding(i + 1)'
        <5>1. i + 1 # i /\ i + 1 \in 0 .. D
          BY <1>0, <3>1, HopNode
        <5>2. On(c, i + 1)' => Idle(i + 1) /\ pc'[i + 1] = pc[i + 1]
          BY <1>a, <5>1, <2>3, <3>2 DEF Wire, Taken
        <5> QED BY <5>2 DEF Idle, Holding
      <4> QED BY <4>1, <4>2 DEF Busy
    <3> QED BY <1>b, <1>t, <2>1, <3>1, <3>3, SegHop DEF Single
  <2> QED BY <2>2, <2>3
<1>q. ASSUME NEW b \in Bases, i \in Seg(b), NEW j \in Seg(b), j # i
      PROVE  /\ j \in Hops /\ link'[<<c, j>>].down = <<>> /\ link'[<<c, j>>].up = <<>>
             /\ ~ (On(c, j)' /\ Holding(j)')
  BY <1>t, <1>q, SegHop DEF Busy
<1>1. ASSUME NEW j \in Hops PROVE Wire(c, j)'
  <2>1. Wire(c, j)
    BY DEF Circuit
  <2>2. j \in 0 .. D /\ j - 1 \in 0 .. D /\ j - 1 # j /\ (j - 1 = i <=> j = i + 1)
    BY <1>0, HopNode
  <2>3. CASE j = i
    <3>1. pc'[j - 1] = pc[j - 1] /\ (On(c, j - 1)' <=> On(c, j - 1)) /\ Idle(j)'
      BY <1>a, <2>2, <2>3 DEF Idle
    <3>2. ~ (link[<<c, j>>].cl /\ pc[j - 1] \in {"relay", "session"})
      BY <2>1, <2>3 DEF Wire
    <3>3. /\ link'[<<c, j>>].sv = link[<<c, j>>].sv
          /\ link'[<<c, j>>].cl <=> link[<<c, j>>].cl
          /\ link'[<<c, j>>].down = <<>>
          /\ link'[<<c, j>>].up # <<>> => Tail(link'[<<c, j>>].up) = <<>> /\ link[<<c, j>>].cl
          /\ link[<<c, j>>].sv = "open"
      BY <2>1, <2>3 DEF Replied, Holds, Wire
    <3>4. On(c, j)' /\ On(c, j)
      BY <2>3
    <3> QED BY <2>1, <3>1, <3>2, <3>3, <3>4 DEF Wire
  <2>4. CASE j = i + 1
    <3>1. pc'[j] = pc[j] /\ (On(c, j)' <=> On(c, j)) /\ (Idle(j)' <=> Idle(j))
      BY <1>a, <2>2, <2>4 DEF Idle
    <3>2. On(c, j - 1)' /\ On(c, j - 1)
      BY <2>2, <2>4
    <3>3. CASE Taken(c, j)
      <4>1. pc'[j - 1] = "relay"
        BY <2>1, <2>2, <2>4, <3>3 DEF Wire, Taken
      <4> QED BY <2>1, <3>1, <3>2, <3>3, <4>1 DEF Wire, Taken
    <3>4. CASE Kept(c, j) /\ ~ Taken(c, j)
      <4>1. pc[j - 1] \in {"extend", "relay"}
        BY <2>2, <2>4, <3>4, Line DEF Proxies, Verifiers
      <4>2. pc[j - 1] = "extend" => link[<<c, j>>].sv = "none"
        <5>1. Fresh(c) BY DEF Circuit
        <5> QED BY <1>0, <2>2, <2>4, <3>2, <5>1 DEF Fresh
      <4>3. pc[j - 1] = "relay" => pc'[j - 1] = "relay"
        BY <2>2, <2>4
      <4>4. link'[<<c, j>>] = link[<<c, j>>]
        BY <3>4 DEF Kept
      <4>5. CASE pc[j - 1] = "relay"
        BY <2>1, <3>1, <3>2, <4>3, <4>4, <4>5 DEF Wire
      <4>6. CASE pc[j - 1] = "extend"
        BY <2>1, <3>1, <3>2, <4>2, <4>4, <4>6 DEF Wire
      <4> QED BY <4>1, <4>5, <4>6
    <3> QED BY <2>4, <3>3, <3>4
  <2>5. CASE j # i /\ j # i + 1
    <3>1. /\ pc'[j] = pc[j] /\ (On(c, j)' <=> On(c, j)) /\ (Idle(j)' <=> Idle(j))
          /\ pc'[j - 1] = pc[j - 1] /\ (On(c, j - 1)' <=> On(c, j - 1))
          /\ link'[<<c, j>>] = link[<<c, j>>]
      BY <1>a, <1>l, <2>2, <2>5 DEF Idle, Kept
    <3> QED BY <2>1, <3>1 DEF Wire
  <2> QED BY <2>3, <2>4, <2>5
<1>2. ASSUME NEW j \in Hops PROVE Sane(c, j)'
  <2>1. Sane(c, j)
    BY DEF Circuit
  <2>2. CASE j = i
    <3>1. link'[<<c, j>>].down = <<>> /\ (link'[<<c, j>>].up # <<>> => Head(link'[<<c, j>>].up) = m)
      BY <2>2 DEF Replied, Holds
    <3> QED BY <3>1 DEF Sane, Reply1
  <2>3. CASE j # i
    BY <1>n, <2>1, <2>3 DEF Sane, Cell1, Reply1
  <2> QED BY <2>2, <2>3
<1>3. ASSUME NEW j \in Hops PROVE Notes(c, j)'
  <2>1. Notes(c, j) /\ mode' = mode /\ Growing
    BY DEF Circuit, Acts
  <2>2. CASE j = i
    BY <2>2 DEF Replied, Notes
  <2>3. CASE j # i
    BY <1>n, <2>1, <2>3, BackedStays, NotedStays DEF Notes, Reply1, Growing, Verifiers
  <2> QED BY <2>2, <2>3
<1>4. Fresh(c)'
  <2>1. Fresh(c) /\ circ'[0] = circ[0]
    BY DEF Circuit, Acts
  <2>2. \A k \in 0 .. D : On(c, k)' /\ pc'[k] \in {"extend", "connect"} =>
           On(c, k) /\ pc[k] \in {"extend", "connect"}
    BY <1>a
  <2> QED BY <1>n, <2>1, <2>2, FreshStays
<1>5. Single(c)'
  <2>1. Single(c) BY DEF Circuit
  <2>2. ASSUME NEW b \in Bases
        PROVE  /\ \A j, k \in Seg(b) : Busy(c, j)' /\ Busy(c, k)' => j = k
               /\ On(c, b)' /\ pc'[b] \notin {"extended", "round"} => \A j \in Seg(b) : ~ Busy(c, j)'
    <3>1. CASE i \in Seg(b)
      <4>1. b # i /\ b \in 0 .. D
        BY <3>1, Line
      <4> QED BY <1>a, <1>t, <3>1, <4>1
    <3>2. CASE i \notin Seg(b)
      <4>1. \A j \in Seg(b) : Busy(c, j)' => Busy(c, j)
        BY <1>b, <3>2, SegHop
      <4>2. CASE b # i
        BY <1>a, <2>1, <4>1, <4>2, BaseNode DEF Single
      <4>3. CASE b = i
        <5>1. b = Z /\ i + 1 \in Seg(b) /\ i + 1 \in Hops
          BY <4>3, Line DEF Bases
        <5>2. CASE pc[i] \in {"extend", "relay"}
          BY <2>1, <4>1, <4>3, <5>2 DEF Single
        <5>3. CASE Taken(c, i + 1)
          <6>1. Busy(c, i + 1) /\ Wire(c, i + 1)
            BY <5>1, <5>3 DEF Busy, Taken, Circuit
          <6>2. link'[<<c, i + 1>>].down = <<>> /\ link'[<<c, i + 1>>].up = <<>>
            BY <5>3, <6>1 DEF Wire, Taken
          <6>3. On(c, i + 1)' => ~ Holding(i + 1)'
            <7>1. i + 1 # i /\ i + 1 \in 0 .. D
              BY <1>0, <5>1, HopNode
            <7>2. On(c, i + 1)' => Idle(i + 1) /\ pc'[i + 1] = pc[i + 1]
              BY <1>a, <7>1, <5>3, <6>1 DEF Wire, Taken
            <7> QED BY <7>2 DEF Idle, Holding
          <6>4. ~ Busy(c, i + 1)'
            BY <6>2, <6>3 DEF Busy
          <6> QED BY <2>1, <4>1, <5>1, <6>1, <6>4 DEF Single
        <5> QED BY <5>1, <4>3, <5>2, <5>3
      <4> QED BY <4>2, <4>3
    <3> QED BY <3>1, <3>2
  <2> QED BY <2>2 DEF Single
<1>6. \A b \in Bases : i \in Seg(b) => Asked(b)' = Asked(b)
  <2> SUFFICES ASSUME NEW b \in Bases, i \in Seg(b) PROVE Asked(b)' = Asked(b)
    OBVIOUS
  <2>1. b # i /\ (b = Z => Z \in Verifiers) /\ 0 # i
    BY Line DEF Verifiers
  <2> QED BY <2>1 DEF Acts, Asked, Bases
<1>7. ASSUME NEW b \in Bases, i \in Seg(b), On(c, b), NEW j \in Seg(b)
      PROVE  DataIs(c, j, Asked(b))'
  <2>1. CASE j = i
    <3>1. /\ link'[<<c, j>>].down = <<>>
          /\ link'[<<c, j>>].up # <<>> => Head(link'[<<c, j>>].up) = m
      BY <2>1 DEF Replied, Holds
    <3>2. m.type = "Result" => m.res.id = Asked(b)'
      BY <1>6, <1>7
    <3>3. pc'[j] \notin {"round", "quorum"}
      BY <2>1
    <3> QED BY <3>1, <3>2, <3>3 DEF DataIs, Reply1
  <2>2. CASE j # i
    BY <1>q, <1>7, <2>2 DEF DataIs, Holding
  <2> QED BY <2>1, <2>2
<1>8. \A j \in Hops : j # i /\ Data(c, j)' => Data(c, j)
  <2> SUFFICES ASSUME NEW j \in Hops, j # i, Data(c, j)' PROVE Data(c, j)
    OBVIOUS
  <2>1. On(c, j)' => On(c, j) /\ pc'[j] = pc[j]
    BY <1>a, HopNode
  <2> QED BY <1>n, <2>1 DEF Data, Cell1, Reply1
<1>r. \A n : \A j \in Hops : j # i /\ DataIs(c, j, n) => DataIs(c, j, n)'
  <2> SUFFICES ASSUME NEW j \in Hops, NEW n, j # i, DataIs(c, j, n) PROVE DataIs(c, j, n)'
    OBVIOUS
  <2>1. On(c, j)' => On(c, j) /\ pc'[j] = pc[j]
    BY <1>a, HopNode
  <2>2. j \in Verifiers => work'[j] = work[j]
    BY DEF Acts
  <2> QED BY <1>n, <2>1, <2>2 DEF DataIs, Cell1, Reply1
<1>9. Ids(c)'
  <2>1. Ids(c) BY DEF Circuit
  <2>2. ASSUME NEW b \in Bases, On(c, b)', NEW j \in Seg(b)
        PROVE  DataIs(c, j, Asked(b))'
    <3>1. On(c, b) /\ j \in Hops
      BY <1>a, <2>2, BaseNode, SegHop
    <3>2. CASE i \in Seg(b)
      BY <1>7, <3>1, <3>2
    <3>3. CASE i \notin Seg(b) /\ b # i
      <4>1. Asked(b)' = Asked(b)
        <5>1. b = Z \/ i # 0
          BY Line DEF Bases
        <5> QED BY <3>3, Line DEF Acts, Asked, Bases, Verifiers
      <4>2. DataIs(c, j, Asked(b))
        BY <2>1, <3>1 DEF Ids
      <4> DEFINE n == Asked(b)
      <4>3. DataIs(c, j, n)'
        BY <1>r, <2>2, <3>1, <3>3, <4>1, <4>2
      <4> QED BY <4>1, <4>3
    <3>4. CASE i = b
      <4>1. pc'[b] \notin {"extended", "round"}
        BY <3>4
      <4>2. ~ Busy(c, j)'
        BY <1>5, <2>2, <4>1 DEF Single
      <4> QED BY <4>2 DEF Busy, DataIs, Holding
    <3> QED BY <3>2, <3>3, <3>4
  <2>3. ASSUME On(c, 0)', ~ On(c, Z)', NEW j \in Seg(Z), Data(c, j)'
        PROVE  /\ DataIs(c, j, round)' /\ pc'[0] = "round"
               /\ \A k \in Seg(0) : ~ Busy(c, k)'
    <3>1. /\ On(c, 0) /\ ~ On(c, Z) /\ j \in Hops /\ pc'[0] = pc[0] /\ round' = round /\ i # Z
      BY <1>a, <2>3, Line DEF Acts
    <3>2. \E k \in Seg(Z) : Data(c, k)
      <4>1. CASE j # i
        BY <1>8, <2>3, <3>1, <4>1
      <4>2. CASE j = i
        <5>1. m.type = "Result"
          <6>1. link'[<<c, i>>].down = <<>> /\ pc'[i] \notin {"round", "quorum"}
            BY DEF Replied
          <6>2. Reply1(c, i)'.type = "Result" /\ link'[<<c, i>>].up # <<>>
            BY <2>3, <4>2, <6>1 DEF Data
          <6> QED BY <6>2 DEF Replied, Holds, Reply1
        <5>2. Data(c, i) \/ (i \in Proxies /\ Data(c, i + 1))
          BY <2>3, <4>2, <5>1, Line
        <5>3. i \in Proxies => i + 1 \in Seg(Z)
          BY <2>3, <4>2, Line
        <5> QED BY <2>3, <4>2, <5>2, <5>3
      <4> QED BY <4>1, <4>2
    <3>3. /\ \A k \in Seg(Z) : Data(c, k) => DataIs(c, k, round)
          /\ pc[0] = "round"
          /\ \A k \in Seg(0) : ~ Busy(c, k)
      BY <2>1, <3>1, <3>2 DEF Ids
    <3>4. i \notin Seg(0)
      <4>1. SUFFICES ASSUME i \in Seg(0) PROVE FALSE
        OBVIOUS
      <4>2. ~ Busy(c, i)
        BY <3>3, <4>1
      <4>3. i \in Proxies /\ Taken(c, i + 1) /\ i + 1 \in Seg(0)
        BY <4>1, <4>2, <3>1, Line
      <4> QED BY <3>3, <4>3 DEF Busy, Taken
    <3>5. \A k \in Seg(0) : ~ Busy(c, k)'
      BY <1>b, <3>3, <3>4, SegHop, Line
    <3>6. DataIs(c, j, round)'
      <4>1. CASE j # i
        BY <1>8, <1>r, <2>3, <3>1, <3>3, <4>1
      <4>2. CASE j = i
        <5>1. m.type = "Result" => m.res.id = round
          BY <2>3, <3>1, <4>2, Line
        <5>2. /\ link'[<<c, j>>].down = <<>>
              /\ link'[<<c, j>>].up # <<>> => Head(link'[<<c, j>>].up) = m
          BY <4>2 DEF Replied, Holds
        <5>3. pc'[j] \notin {"round", "quorum"}
          BY <4>2
        <5> QED BY <3>1, <5>1, <5>2, <5>3 DEF DataIs, Reply1
      <4> QED BY <4>1, <4>2
    <3> QED BY <3>1, <3>3, <3>5, <3>6
  <2> QED BY <2>2, <2>3 DEF Ids
<1>10. ASSUME NEW b \in Bases PROVE Phase(c, b)'
  <2> SUFFICES ASSUME On(c, b)', pc'[b] \in {"extended", "round"}
               PROVE  /\ depth'[b] \in 0 .. Last(b)
                      /\ \A j \in Seg(b) : Kind(c, b, j)' /\ (pc'[b] = "extended" => Built(c, b, j)')
    BY DEF Phase
  <2>0. b # i
    OBVIOUS
  <2>1. /\ On(c, b) /\ pc'[b] = pc[b] /\ depth'[b] = depth[b] /\ Phase(c, b)
        /\ Expected(b)' = Expected(b)
    BY <1>a, <2>0, BaseNode DEF Circuit, Acts, Expected
  <2>2. /\ depth[b] \in 0 .. Last(b)
        /\ \A j \in Seg(b) : Kind(c, b, j) /\ (pc[b] = "extended" => Built(c, b, j))
    BY <2>1 DEF Phase
  <2>3. b + 1 + depth[b] \in Hops
    <3>1. b \in Nat /\ End(b) \in 1 .. D /\ b + 1 + Last(b) = End(b) /\ Last(b) \in Nat
      BY Line DEF Hops
    <3> QED BY <2>2, <3>1, SegHop, LineAssumption DEF Hops
  <2>4. ASSUME NEW j \in Seg(b), j # i PROVE  Kind(c, b, j)'
    <3>1. j \in Hops /\ (On(c, j)' => On(c, j) /\ pc'[j] = pc[j] /\ (Holding(j)' <=> Holding(j)))
      BY <1>a, <2>4, HopNode, SegHop DEF Holding
    <3> QED BY <1>n, <2>1, <2>2, <2>4, <3>1 DEF Kind, Cell1, Reply1
  <2>5. ASSUME NEW j \in Seg(b), j # i, Built(c, b, j) PROVE  Built(c, b, j)'
    BY <1>n, <2>1, <2>3, <2>5, SegHop DEF Built, Cell1
  <2>6. ASSUME i \in Seg(b) PROVE Kind(c, b, i)'
    <3>1. m.type \in Expected(b)
      BY <2>1, <2>6
    <3> QED BY <1>h, <2>1, <3>1 DEF Kind, Reply1, Replied, Holds
  <2>7. ASSUME i \in Seg(b), pc[b] = "extended", Built(c, b, i) PROVE Built(c, b, i)'
    <3>1. Reached(c, b + 1 + depth[b])'
      BY <1>n, <2>1, <2>3, <2>7
    <3> QED BY <1>n, <2>1, <2>7, <3>1 DEF Built, Replied
  <2> QED BY <2>1, <2>2, <2>4, <2>5, <2>6, <2>7
<1>11. ASSUME NEW b \in Bases PROVE Counts(c, b)'
  <2>1. ASSUME NEW j \in Seg(b) PROVE Numbered(c, b, j)'
    <3>1. j \in Hops /\ Numbered(c, b, j)
      BY Line DEF Counts, Circuit
    <3>2. CASE i \in Seg(b) /\ j = i
      <4>1. /\ link'[<<c, j>>].down = <<>>
            /\ link'[<<c, j>>].up # <<>> => Head(link'[<<c, j>>].up) = m
        BY <3>2 DEF Replied, Holds
      <4>2. m.type = "Result" => Counted(c, b, m.res.id)'
        BY <3>2
      <4> QED BY <4>1, <4>2 DEF Numbered, Reply1
    <3>3. CASE i \in Seg(b) /\ j # i
      BY <1>q, <3>3 DEF Numbered
    <3>4. CASE i \notin Seg(b)
      <4>1. i # End(b) /\ j # i /\ End(b) \in Verifiers /\ End(b) \in Hops
        BY <3>4, EndIs
      <4>2. \A n : Counted(c, b, n) => Counted(c, b, n)'
        <5>1. count'[End(b)] = count[End(b)]
          BY <4>1 DEF Acts
        <5>2. On(c, End(b))' => On(c, End(b))
          BY <1>a, EndIs
        <5> QED BY <1>n, <4>1, <5>1, <5>2 DEF Counted
      <4> QED BY <1>n, <3>1, <4>1, <4>2 DEF Numbered, Cell1, Reply1
    <3> QED BY <3>2, <3>3, <3>4
  <2> QED BY <2>1 DEF Counts
<1> QED BY <1>1, <1>2, <1>3, <1>4, <1>5, <1>9, <1>10, <1>11 DEF Circuit

(* A cell is taken from link j. *)
Cleared(c, j) ==
    /\ link'[<<c, j>>].sv = link[<<c, j>>].sv /\ (link'[<<c, j>>].cl <=> link[<<c, j>>].cl)
    /\ link[<<c, j>>].down # <<>> /\ link'[<<c, j>>].down = <<>>
    /\ link'[<<c, j>>].up = link[<<c, j>>].up

(* Machine i sends a cell to the next one. *)
LEMMA DownMove ==
    ASSUME NEW c \in Circuits, NEW i \in 0 .. D, i + 1 \in Hops, c = circ[i], Circuit(c), Acts(i),
           On(c, i), On(c, i)', NEW m, Passed(c, i + 1, m),
           \/ i \in Proxies /\ pc[i] = "relay" /\ pc'[i] = "forward" /\ Cleared(c, i)
           \/ i = Z /\ pc[i] = "relay" /\ pc'[i] = "round" /\ Cleared(c, i)
           \/ i = Z /\ pc[i] \in {"extended", "round"} /\ pc'[i] = pc[i] /\ Kept(c, i)
           \/ i = 0 /\ pc'[i] \in {"extended", "round"},
           link[<<c, i + 1>>].up # <<>> \/ pc[i] \in {"relay", "session"},
           m.type \in DownTypes,
           m.type = "Extend" =>
              /\ i + 1 <= Z => i + 1 + m.hops < Z
              /\ i + 1 + m.hops < D
              /\ \A k \in Hops : k > i + 1 + m.hops => link[<<c, k>>].sv = "none",
           \A b \in Bases : i + 1 \in Seg(b) /\ On(c, b) /\ pc'[b] \in {"extended", "round"} =>
               /\ m.type \in Expected(b)' /\ depth'[b] \in 0 .. Last(b)
               /\ pc'[b] = "extended" =>
                    /\ m.type = "Extend" /\ i + 1 + m.hops = b + depth'[b]
                    /\ \A j \in Seg(b) : j > b + 1 + depth'[b] => link[<<c, j>>].sv = "none",
           m.type = "ChainSubmission" => \A b \in Bases : i + 1 \in Seg(b) =>
               /\ Counted(c, b, m.res.id - 1)' /\ m.res.id \in 1 .. MaxRounds
               /\ On(c, b) => m.res.id = Asked(b)',
           m.type = "ChainSubmission" /\ i \in Proxies =>
               Cell1(c, i).type = "ChainSubmission" /\ m.res.id = Cell1(c, i).res.id,
           i = Z /\ pc[i] = "relay" =>
               /\ Cell1(c, i).type = "ChainSubmission" /\ work'[i].id = Cell1(c, i).res.id
               /\ On(c, 0) => pc[0] = "round" /\ depth[0] = Last(0),
           i = Z /\ pc[i] # "relay" => count'[i] = count[i] /\ work'[i] = work[i],
           \A b \in Bases : Tally(c, b)'
    PROVE  Circuit(c)'
<1>0. /\ i \in Nodes /\ i \in Nat /\ i + 1 # i
      /\ \A k \in 0 .. D : k \in Nodes
  BY LineNodes
<1>a. /\ \A k \in 0 .. D : On(c, k)' <=> On(c, k)
      /\ \A k \in 0 .. D : k # i => pc'[k] = pc[k]
  <2>1. \A k \in 0 .. D : k # i => pc'[k] = pc[k] /\ circ'[k] = circ[k]
    BY <1>0 DEF Acts
  <2> QED BY <2>1 DEF On
<1>l. \A j \in Hops : j # i /\ j # i + 1 => link'[<<c, j>>] = link[<<c, j>>]
  BY DEF Acts
<1>i. i \in Hops => Cleared(c, i) \/ (Kept(c, i) /\ i = Z /\ pc'[i] = pc[i])
  BY Line
<1>n. \A j \in Hops : /\ link'[<<c, j>>].sv = link[<<c, j>>].sv
                      /\ link'[<<c, j>>].cl <=> link[<<c, j>>].cl
                      /\ Reached(c, j)' <=> Reached(c, j)
                      /\ link'[<<c, j>>].up = link[<<c, j>>].up \/ link'[<<c, j>>].up = <<>>
                      /\ j # i + 1 => link'[<<c, j>>].up = link[<<c, j>>].up
                      /\ j # i + 1 => link'[<<c, j>>].down = link[<<c, j>>].down \/ link'[<<c, j>>].down = <<>>
  <2> SUFFICES ASSUME NEW j \in Hops
               PROVE  /\ link'[<<c, j>>].sv = link[<<c, j>>].sv
                      /\ link'[<<c, j>>].cl <=> link[<<c, j>>].cl
                      /\ Reached(c, j)' <=> Reached(c, j)
                      /\ link'[<<c, j>>].up = link[<<c, j>>].up \/ link'[<<c, j>>].up = <<>>
                      /\ j # i + 1 => link'[<<c, j>>].up = link[<<c, j>>].up
                      /\ j # i + 1 => link'[<<c, j>>].down = link[<<c, j>>].down \/ link'[<<c, j>>].down = <<>>
    OBVIOUS
  <2>1. CASE j = i
    BY <1>i, <2>1 DEF Cleared, Kept, Reached
  <2>2. CASE j = i + 1
    BY <2>2 DEF Passed, Reached
  <2>3. CASE j # i /\ j # i + 1
    BY <1>l, <2>3 DEF Reached
  <2> QED BY <2>1, <2>2, <2>3
<1>w. Wire(c, i + 1)
  BY DEF Circuit
<1>p. i + 1 \in 0 .. D /\ i + 1 - 1 = i
  BY <1>0, HopNode
<1>e. On(c, i + 1) => Idle(i + 1)
  <2>1. CASE link[<<c, i + 1>>].up # <<>>
    BY <1>w, <2>1 DEF Wire
  <2>2. CASE pc[i] \in {"relay", "session"}
    BY <1>p, <1>w, <2>2 DEF Wire
  <2> QED BY <2>1, <2>2
<1>g. ~ (On(c, i + 1)' /\ Holding(i + 1)')
  BY <1>0, <1>a, <1>e, <1>p DEF Idle, Holding
<1>b. \A j \in Hops : j # i + 1 /\ Busy(c, j)' => Busy(c, j)
  <2> SUFFICES ASSUME NEW j \in Hops, j # i + 1, Busy(c, j)' PROVE Busy(c, j)
    OBVIOUS
  <2>1. CASE j # i
    <3>1. On(c, j)' => On(c, j) /\ (Holding(j)' <=> Holding(j))
      BY <1>a, <2>1, HopNode DEF Holding
    <3> QED BY <1>n, <3>1 DEF Busy
  <2>2. CASE j = i /\ Cleared(c, i)
    BY <2>2 DEF Busy, Cleared
  <2>3. CASE j = i /\ Kept(c, i) /\ pc'[i] = pc[i]
    BY <2>3 DEF Busy, Kept, Holding
  <2> QED BY <1>i, <2>1, <2>2, <2>3
<1>t. ASSUME NEW b \in Bases, i + 1 \in Seg(b)
      PROVE  /\ \A j \in Seg(b) : j # i + 1 => ~ Busy(c, j)'
             /\ On(c, b) /\ b # i => pc[b] \in {"extended", "round"}
  <2>1. Single(c)
    BY DEF Circuit
  <2>2. CASE b = i
    <3>1. CASE link[<<c, i + 1>>].up # <<>>
      <4>1. Busy(c, i + 1)
        BY <3>1 DEF Busy
      <4> QED BY <1>b, <1>t, <2>1, <2>2, <4>1, SegHop DEF Single
    <3>2. CASE pc[i] \in {"relay", "session"}
      <4>1. \A j \in Seg(b) : ~ Busy(c, j)
        BY <2>1, <2>2, <3>2 DEF Single
      <4> QED BY <1>b, <2>2, <4>1, SegHop
    <3> QED BY <3>1, <3>2
  <2>3. CASE b # i
    <3>1. i \in Seg(b) /\ i \in Proxies
      BY <1>t, <2>3, Line DEF Seg, Bases, End
    <3>2. Cleared(c, i) /\ pc'[i] = "forward"
      BY <3>1, Line
    <3>3. Busy(c, i) /\ Wire(c, i) /\ i \in Hops
      BY <3>1, <3>2, SegHop DEF Busy, Cleared, Circuit
    <3>4. ~ Busy(c, i)'
      BY <3>2, <3>3 DEF Busy, Cleared, Wire, Holding
    <3> QED BY <1>b, <1>t, <2>1, <3>1, <3>3, <3>4, SegHop DEF Single
  <2> QED BY <2>2, <2>3
<1>q. ASSUME NEW b \in Bases, i + 1 \in Seg(b), NEW j \in Seg(b), j # i + 1
      PROVE  /\ j \in Hops /\ link'[<<c, j>>].down = <<>> /\ link'[<<c, j>>].up = <<>>
             /\ ~ (On(c, j)' /\ Holding(j)')
  BY <1>t, <1>q, SegHop DEF Busy
<1>1. ASSUME NEW j \in Hops PROVE Wire(c, j)'
  <2>1. Wire(c, j)
    BY DEF Circuit
  <2>2. j \in 0 .. D /\ j - 1 \in 0 .. D /\ j - 1 # j /\ (j - 1 = i <=> j = i + 1)
    BY <1>0, HopNode
  <2>3. CASE j = i
    <3>1. pc'[j - 1] = pc[j - 1] /\ (On(c, j - 1)' <=> On(c, j - 1)) /\ On(c, j)' /\ On(c, j)
      BY <1>a, <2>2, <2>3
    <3>2. CASE Cleared(c, i)
      <4>1. ~ (link[<<c, j>>].cl /\ pc[j - 1] \in {"relay", "session"})
        BY <2>1, <2>3, <3>2 DEF Wire, Cleared
      <4>2. link'[<<c, j>>].up = <<>> /\ link'[<<c, j>>].down = <<>>
        BY <2>1, <2>3, <3>2 DEF Wire, Cleared
      <4> QED BY <1>n, <2>1, <3>1, <4>1, <4>2 DEF Wire
    <3>3. CASE Kept(c, i) /\ pc'[i] = pc[i]
      <4>1. (Idle(j)' <=> Idle(j)) /\ link'[<<c, j>>] = link[<<c, j>>] /\ pc'[j] = pc[j]
        BY <2>3, <3>3 DEF Idle, Kept
      <4> QED BY <2>1, <3>1, <4>1 DEF Wire
    <3> QED BY <1>i, <2>3, <3>2, <3>3
  <2>4. CASE j = i + 1
    <3>1. pc'[j] = pc[j] /\ (On(c, j)' <=> On(c, j)) /\ (Idle(j)' <=> Idle(j))
      BY <1>a, <2>2, <2>4 DEF Idle
    <3>2. On(c, j - 1)' /\ On(c, j - 1) /\ pc'[j - 1] \in {"extended", "forward", "round"}
      BY <2>2, <2>4
    <3>3. /\ link'[<<c, j>>].up = <<>>
          /\ link'[<<c, j>>].down # <<>> =>
               link[<<c, j>>].sv \in {"queued", "open"} /\ Tail(link'[<<c, j>>].down) = <<>>
          /\ On(c, j) => Idle(j)
      BY <1>e, <2>4 DEF Passed, Holds
    <3> QED BY <1>n, <2>1, <3>1, <3>2, <3>3 DEF Wire
  <2>5. CASE j # i /\ j # i + 1
    <3>1. /\ pc'[j] = pc[j] /\ (On(c, j)' <=> On(c, j)) /\ (Idle(j)' <=> Idle(j))
          /\ pc'[j - 1] = pc[j - 1] /\ (On(c, j - 1)' <=> On(c, j - 1))
          /\ link'[<<c, j>>] = link[<<c, j>>]
      BY <1>a, <1>l, <2>2, <2>5 DEF Idle
    <3> QED BY <2>1, <3>1 DEF Wire
  <2> QED BY <2>3, <2>4, <2>5
<1>c. link'[<<c, i + 1>>].down # <<>> => Cell1(c, i + 1)' = m
  BY DEF Passed, Holds, Cell1
<1>2. ASSUME NEW j \in Hops PROVE Sane(c, j)'
  <2>1. Sane(c, j)
    BY DEF Circuit
  <2>2. CASE j = i + 1
    <3>1. link'[<<c, j>>].up = <<>> /\ (link'[<<c, j>>].down # <<>> => Cell1(c, j)' = m)
      BY <1>c, <2>2 DEF Passed
    <3> QED BY <1>n, <2>2, <3>1 DEF Sane
  <2>3. CASE j # i + 1
    BY <1>n, <2>1, <2>3 DEF Sane, Cell1, Reply1
  <2> QED BY <2>2, <2>3
<1>3. ASSUME NEW j \in Hops PROVE Notes(c, j)'
  <2>1. Notes(c, j) /\ mode' = mode /\ Growing
    BY DEF Circuit, Acts
  <2> QED BY <1>n, <2>1, BackedStays, NotedStays DEF Notes, Reply1, Growing, Verifiers
<1>4. Fresh(c)'
  <2>1. Fresh(c) /\ circ'[0] = circ[0]
    BY DEF Circuit, Acts
  <2>2. \A k \in 0 .. D : On(c, k)' /\ pc'[k] \in {"extend", "connect"} =>
           On(c, k) /\ pc[k] \in {"extend", "connect"}
    BY <1>a
  <2>3. \A j \in Hops : link'[<<c, j>>].sv = link[<<c, j>>].sv /\ (Reached(c, j)' <=> Reached(c, j))
    BY <1>n
  <2> QED BY <2>1, <2>2, <2>3, FreshStays
<1>5. Single(c)'
  <2>1. Single(c) BY DEF Circuit
  <2>2. ASSUME NEW b \in Bases
        PROVE  /\ \A j, k \in Seg(b) : Busy(c, j)' /\ Busy(c, k)' => j = k
               /\ On(c, b)' /\ pc'[b] \notin {"extended", "round"} => \A j \in Seg(b) : ~ Busy(c, j)'
    <3>1. CASE i + 1 \in Seg(b)
      <4>1. \A j, k \in Seg(b) : Busy(c, j)' /\ Busy(c, k)' => j = k
        BY <1>t, <3>1
      <4>2. b \in 0 .. D /\ (b = i => pc'[b] \in {"extended", "round"})
        <5>1. b = i => i \notin Proxies
          BY Line DEF Bases
        <5> QED BY <5>1, BaseNode
      <4> QED BY <1>a, <1>t, <3>1, <4>1, <4>2
    <3>2. CASE i + 1 \notin Seg(b)
      <4>1. \A j \in Seg(b) : Busy(c, j)' => Busy(c, j)
        BY <1>b, <3>2, SegHop
      <4>2. b # i
        BY <3>2, Line
      <4> QED BY <1>a, <2>1, <4>1, <4>2, BaseNode DEF Single
    <3> QED BY <3>1, <3>2
  <2> QED BY <2>2 DEF Single
<1>f. \A b \in Bases : b # i => Asked(b)' = Asked(b)
  BY Line DEF Acts, Asked, Bases, Verifiers
<1>d. \A j \in Hops : On(c, j)' /\ j # i => On(c, j) /\ pc'[j] = pc[j]
  BY <1>a, HopNode
<1>8. \A j \in Hops : j # i + 1 /\ j # i /\ Data(c, j)' => Data(c, j)
  <2> SUFFICES ASSUME NEW j \in Hops, j # i + 1, j # i, Data(c, j)' PROVE Data(c, j)
    OBVIOUS
  <2> QED BY <1>d, <1>n DEF Data, Cell1, Reply1
<1>r. \A n : \A j \in Hops : j # i + 1 /\ j # i /\ DataIs(c, j, n) => DataIs(c, j, n)'
  <2> SUFFICES ASSUME NEW j \in Hops, NEW n, j # i + 1, j # i, DataIs(c, j, n) PROVE DataIs(c, j, n)'
    OBVIOUS
  <2>2. j \in Verifiers => work'[j] = work[j]
    BY DEF Acts
  <2> QED BY <1>d, <1>n, <2>2 DEF DataIs, Cell1, Reply1
<1>s. ASSUME NEW n, m.type = "ChainSubmission" => m.res.id = n
      PROVE  DataIs(c, i + 1, n)'
  <2>1. link'[<<c, i + 1>>].up = <<>>
    BY DEF Passed
  <2>2. ~ (On(c, i + 1)' /\ pc'[i + 1] \in {"round", "quorum"})
    BY <1>g DEF Holding
  <2> QED BY <1>c, <1>s, <2>1, <2>2 DEF DataIs
<1>9. Ids(c)'
  <2>1. Ids(c) BY DEF Circuit
  <2>2. ASSUME NEW b \in Bases, On(c, b)', NEW j \in Seg(b)
        PROVE  DataIs(c, j, Asked(b))'
    <3>1. On(c, b) /\ j \in Hops
      BY <1>a, <2>2, BaseNode, SegHop
    <3>2. CASE i + 1 \in Seg(b) /\ j = i + 1
      BY <1>s, <3>1, <3>2
    <3>3. CASE i + 1 \in Seg(b) /\ j # i + 1
      BY <1>q, <3>3 DEF DataIs, Holding
    <3>4. CASE i + 1 \notin Seg(b)
      <4>1. b # i /\ j # i + 1
        BY <3>4, Line
      <4>2. DataIs(c, j, Asked(b)) /\ Asked(b)' = Asked(b)
        BY <1>f, <2>1, <3>1, <4>1 DEF Ids
      <4>3. CASE j # i
        BY <1>r, <3>1, <4>1, <4>2, <4>3
      <4>4. CASE j = i
        <5>1. i \notin Proxies /\ i = Z
          BY <2>2, <3>4, <4>4, SegBreak
        <5>2. CASE pc[i] = "relay"
          <6>1. Cleared(c, i) /\ Wire(c, i)
            BY <3>1, <4>4, <5>1, <5>2, Line DEF Circuit
          <6>2. link'[<<c, i>>].up = <<>> /\ link'[<<c, i>>].down = <<>> /\ link[<<c, i>>].down # <<>>
            BY <6>1 DEF Cleared, Wire
          <6>3. work'[i].id = Asked(b)
            BY <4>2, <4>4, <5>1, <5>2, <6>2 DEF DataIs
          <6> QED BY <4>2, <4>4, <6>2, <6>3 DEF DataIs
        <5>3. CASE pc[i] # "relay"
          <6>1. Kept(c, i) /\ pc'[i] = pc[i] /\ work'[i] = work[i]
            BY <5>1, <5>3, Line
          <6> QED BY <4>2, <4>4, <6>1 DEF DataIs, Kept, Cell1, Reply1
        <5> QED BY <5>2, <5>3
      <4> QED BY <4>3, <4>4
    <3> QED BY <3>2, <3>3, <3>4
  <2>3. ASSUME On(c, 0)', ~ On(c, Z)', NEW j \in Seg(Z), Data(c, j)'
        PROVE  /\ DataIs(c, j, round)' /\ pc'[0] = "round"
               /\ \A k \in Seg(0) : ~ Busy(c, k)'
    <3>1. On(c, 0) /\ ~ On(c, Z) /\ j \in Hops /\ i # Z
      BY <1>a, <2>3, Line
    <3>x. ASSUME NEW k \in Seg(Z), Data(c, k)
          PROVE  DataIs(c, k, round) /\ pc[0] = "round" /\ \A k2 \in Seg(0) : ~ Busy(c, k2)
      BY <2>1, <3>1, <3>x DEF Ids
    <3>2. CASE i > Z
      <4>0. i # 0
        BY <3>2, LineAssumption
      <4>1. i \in Proxies /\ i \in Hops /\ i \in Seg(Z) /\ i # 0 /\ i + 1 \in Seg(Z) /\ i + 1 \notin Seg(0)
        BY <3>1, <3>2, <4>0, Between
      <4>2. Cleared(c, i) /\ pc'[i] = "forward" /\ pc'[0] = pc[0] /\ round' = round
        <5>1. Cleared(c, i) /\ pc'[i] = "forward"
          BY <3>1, <4>1
        <5>2. pc'[0] = pc[0]
          BY <1>a, <4>1, BaseNode DEF Bases
        <5> QED BY <4>1, <5>1, <5>2 DEF Acts
      <4>3. Wire(c, i) BY <4>1 DEF Circuit
      <4>4. link'[<<c, i>>].up = <<>> /\ link'[<<c, i>>].down = <<>> /\ link[<<c, i>>].down # <<>>
        BY <4>2, <4>3 DEF Cleared, Wire
      <4>5. j # i
        BY <2>3, <4>2, <4>4 DEF Data
      <4>6. CASE j # i + 1
        <5>1. Data(c, j)
          BY <1>8, <2>3, <3>1, <4>5, <4>6
        <5>2. DataIs(c, j, round)'
          BY <1>r, <3>x, <3>1, <4>2, <4>5, <4>6, <5>1
        <5> QED BY <1>b, <3>x, <4>1, <4>2, <5>1, <5>2, SegHop, Line
      <4>7. CASE j = i + 1
        <5>1. m.type = "ChainSubmission"
          BY <1>c, <1>g, <2>3, <4>7 DEF Data, Passed, Holding
        <5>2. Data(c, i) /\ Cell1(c, i).res.id = m.res.id
          BY <4>1, <4>4, <5>1 DEF Data
        <5>3. DataIs(c, i, round)
          BY <3>x, <4>1, <5>2
        <5>4. m.res.id = round'
          BY <4>1, <4>2, <4>4, <5>1, <5>2, <5>3 DEF DataIs
        <5>5. DataIs(c, j, round)'
          BY <1>s, <4>7, <5>4
        <5> QED BY <1>b, <3>x, <4>1, <4>2, <5>2, <5>5, SegHop, Line
      <4> QED BY <4>6, <4>7
    <3>3. CASE i < Z
      <4>1. i + 1 \in Seg(0) /\ j # i + 1 /\ j # i
        BY <1>0, <2>3, <3>3, Line DEF Seg, End
      <4>2. Data(c, j)
        BY <1>8, <2>3, <3>1, <4>1
      <4>3. pc[0] = "round" /\ \A k2 \in Seg(0) : ~ Busy(c, k2)
        BY <3>x, <4>2
      <4>4. CASE i = 0
        BY <4>1, <4>3, <4>4 DEF Busy
      <4>5. CASE i # 0
        <5>1. i \in Proxies /\ i \in Seg(0)
          BY <3>1, <3>3, <4>5, Between
        <5>2. Cleared(c, i)
          BY <3>1, <4>5
        <5> QED BY <4>3, <5>1, <5>2 DEF Busy, Cleared
      <4> QED BY <4>4, <4>5
    <3> QED BY <1>0, <3>1, <3>2, <3>3, Line
  <2> QED BY <2>2, <2>3 DEF Ids
<1>10. ASSUME NEW b \in Bases PROVE Phase(c, b)'
  <2> SUFFICES ASSUME On(c, b)', pc'[b] \in {"extended", "round"}
               PROVE  /\ depth'[b] \in 0 .. Last(b)
                      /\ \A j \in Seg(b) : Kind(c, b, j)' /\ (pc'[b] = "extended" => Built(c, b, j)')
    BY DEF Phase
  <2>0. On(c, b)
    BY <1>a, BaseNode
  <2>1. CASE i + 1 \in Seg(b)
    <3>1. /\ m.type \in Expected(b)' /\ depth'[b] \in 0 .. Last(b)
          /\ pc'[b] = "extended" =>
               /\ m.type = "Extend" /\ i + 1 + m.hops = b + depth'[b]
               /\ \A j \in Seg(b) : j > b + 1 + depth'[b] => link[<<c, j>>].sv = "none"
      BY <2>0, <2>1
    <3>2. ASSUME NEW j \in Seg(b), j # i + 1
          PROVE  Kind(c, b, j)' /\ (pc'[b] = "extended" => Built(c, b, j)')
      BY <1>n, <1>q, <2>1, <3>1, <3>2 DEF Kind, Built
    <3>3. Kind(c, b, i + 1)'
      BY <1>c, <1>g, <3>1 DEF Kind, Passed
    <3>4. pc'[b] = "extended" => Built(c, b, i + 1)'
      BY <1>c, <1>n, <2>1, <3>1 DEF Built, Passed
    <3> QED BY <3>1, <3>2, <3>3, <3>4
  <2>2. CASE i + 1 \notin Seg(b)
    <3>0. b # i
      BY <2>2, Line
    <3>1. /\ pc'[b] = pc[b] /\ depth'[b] = depth[b] /\ Phase(c, b)
          /\ Expected(b)' = Expected(b)
      BY <1>a, <3>0, BaseNode DEF Circuit, Acts, Expected
    <3>2. /\ depth[b] \in 0 .. Last(b)
          /\ \A j \in Seg(b) : Kind(c, b, j) /\ (pc[b] = "extended" => Built(c, b, j))
      BY <2>0, <3>1 DEF Phase
    <3>3. b + 1 + depth[b] \in Hops
      <4>1. b \in Nat /\ End(b) \in 1 .. D /\ b + 1 + Last(b) = End(b) /\ Last(b) \in Nat
        BY Line DEF Hops
      <4> QED BY <3>2, <4>1, SegHop, LineAssumption DEF Hops
    <3>4. ASSUME NEW j \in Seg(b) PROVE  Kind(c, b, j)'
      <4>1. j \in Hops /\ j # i + 1
        BY <2>2, SegHop
      <4>2. CASE j # i
        <5>1. On(c, j)' => On(c, j) /\ pc'[j] = pc[j] /\ (Holding(j)' <=> Holding(j))
          BY <1>d, <4>1, <4>2 DEF Holding
        <5> QED BY <1>n, <3>1, <3>2, <4>1, <5>1 DEF Kind, Cell1, Reply1
      <4>3. CASE j = i
        <5>1. i \notin Proxies /\ i = Z /\ b = 0
          BY <2>2, <4>3, SegBreak
        <5>2. CASE pc[i] = "relay"
          <6>1. pc[b] = "round" /\ depth[b] = Last(b) /\ pc'[i] = "round"
            BY <2>0, <5>1, <5>2
          <6> QED BY <1>n, <3>1, <3>2, <4>1, <4>3, <6>1 DEF Kind, Cell1, Reply1
        <5>3. CASE pc[i] # "relay"
          <6>1. pc'[i] = pc[i] /\ (Holding(i)' <=> Holding(i))
            BY <5>1, <5>3, Line DEF Holding
          <6> QED BY <1>n, <3>1, <3>2, <4>1, <4>3, <6>1 DEF Kind, Cell1, Reply1
        <5> QED BY <5>2, <5>3
      <4> QED BY <4>2, <4>3
    <3>5. ASSUME NEW j \in Seg(b), Built(c, b, j) PROVE  Built(c, b, j)'
      <4>1. j \in Hops /\ j # i + 1
        BY <2>2, SegHop
      <4> QED BY <1>n, <3>1, <3>3, <3>5, <4>1 DEF Built, Cell1
    <3> QED BY <3>1, <3>2, <3>4, <3>5
  <2> QED BY <2>1, <2>2
<1>11. ASSUME NEW b \in Bases PROVE Counts(c, b)'
  <2>1. ASSUME NEW j \in Seg(b) PROVE Numbered(c, b, j)'
    <3>1. j \in Hops /\ Numbered(c, b, j)
      BY SegHop DEF Counts, Circuit
    <3>2. CASE i + 1 \in Seg(b) /\ j = i + 1
      BY <1>c, <3>2 DEF Numbered, Passed
    <3>3. CASE i + 1 \in Seg(b) /\ j # i + 1
      BY <1>q, <3>3 DEF Numbered
    <3>4. CASE i + 1 \notin Seg(b) /\ ~ (i = Z /\ b = 0 /\ pc[i] = "relay")
      <4>1. End(b) \in Verifiers /\ End(b) \in Hops /\ j # i + 1
        BY <3>4, EndIs
      <4>2. \A n : Counted(c, b, n) => Counted(c, b, n)'
        <5>1. count'[End(b)] = count[End(b)]
          <6>1. End(b) = i => i = Z /\ b = 0
            BY <3>4, Line DEF Bases, End
          <6>2. CASE End(b) = i
            BY <3>4, <6>1, <6>2
          <6>3. CASE End(b) # i
            BY <4>1, <6>3 DEF Acts
          <6> QED BY <6>2, <6>3
        <5>2. On(c, End(b))' => On(c, End(b))
          BY <1>a, EndIs
        <5> QED BY <1>n, <4>1, <5>1, <5>2 DEF Counted
      <4> QED BY <1>n, <3>1, <4>1, <4>2 DEF Numbered, Cell1, Reply1
    <3>5. CASE i = Z /\ b = 0 /\ pc[i] = "relay"
      <4>1. Cleared(c, i) /\ Wire(c, i) /\ Busy(c, i) /\ i \in Seg(b) /\ Single(c) /\ j # i + 1
        BY <3>5, Line DEF Circuit, Busy, Cleared
      <4>2. link'[<<c, i>>].up = <<>> /\ link'[<<c, i>>].down = <<>>
        BY <4>1 DEF Cleared, Wire
      <4>3. j # i => ~ Busy(c, j)
        BY <4>1 DEF Single
      <4>4. link'[<<c, j>>].up = <<>> /\ link'[<<c, j>>].down = <<>>
        BY <1>n, <3>1, <4>1, <4>2, <4>3 DEF Busy
      <4> QED BY <4>4 DEF Numbered
    <3> QED BY <3>2, <3>3, <3>4, <3>5
  <2> QED BY <2>1 DEF Counts
<1> QED BY <1>1, <1>2, <1>3, <1>4, <1>5, <1>9, <1>10, <1>11 DEF Circuit

(* Base b takes the last answer: its circuit is at rest. *)
LEMMA Absorb ==
    ASSUME NEW c \in Circuits, NEW b \in Bases, c = circ[b], Circuit(c), Acts(b),
           On(c, b), On(c, b)', Taken(c, b + 1),
           \A j \in Hops : j # b + 1 => Kept(c, j),
           pc[b] \in {"extended", "round"}, pc'[b] \in {"relay", "session"},
           b = Z => pc[b] = "extended" /\ pc'[b] = "relay",
           count' = count, work' = work,
           \A k \in Bases : Tally(c, k)'
    PROVE  Circuit(c)'
<1>0. /\ b \in 0 .. D /\ b \in Nat /\ b + 1 \in Seg(b) /\ b + 1 \in Hops /\ b \notin Seg(b)
      /\ b + 1 \in 0 .. D /\ b + 1 # b /\ b + 1 - 1 = b
      /\ \A k \in 0 .. D : k \in Nodes
  BY Line, HopNode, LineNodes
<1>a. /\ \A k \in 0 .. D : On(c, k)' <=> On(c, k)
      /\ \A k \in 0 .. D : k # b => pc'[k] = pc[k]
  <2>1. \A k \in 0 .. D : k # b => pc'[k] = pc[k] /\ circ'[k] = circ[k]
    BY <1>0 DEF Acts
  <2> QED BY <1>0, <2>1 DEF On
<1>n. \A j \in Hops : /\ link'[<<c, j>>].sv = link[<<c, j>>].sv
                      /\ link'[<<c, j>>].cl <=> link[<<c, j>>].cl
                      /\ Reached(c, j)' <=> Reached(c, j)
                      /\ link'[<<c, j>>].down = link[<<c, j>>].down
                      /\ link'[<<c, j>>].up = link[<<c, j>>].up \/ link'[<<c, j>>].up = <<>>
  BY DEF Taken, Kept, Reached
<1>h. \A j \in Hops : On(c, j)' => On(c, j) /\ (Holding(j)' => Holding(j)) /\ (j # b => pc'[j] = pc[j])
  BY <1>a, HopNode DEF Holding
<1>b. \A j \in Hops : Busy(c, j)' => Busy(c, j)
  BY <1>h, <1>n DEF Busy
<1>w. Wire(c, b + 1) /\ Busy(c, b + 1) /\ Single(c)
  BY <1>0 DEF Circuit, Busy, Taken
<1>s. /\ link[<<c, b + 1>>].down = <<>> /\ link'[<<c, b + 1>>].up = <<>>
      /\ link[<<c, b + 1>>].sv # "queued" /\ link[<<c, b + 1>>].cl
      /\ On(c, b + 1) => Idle(b + 1)
  BY <1>w DEF Wire, Taken
<1>t. \A j \in Seg(b) : ~ Busy(c, j)'
  <2>1. ~ Busy(c, b + 1)'
    <3>1. On(c, b + 1)' => Idle(b + 1) /\ pc'[b + 1] = pc[b + 1]
      BY <1>0, <1>a, <1>s
    <3> QED BY <1>n, <1>0, <1>s, <3>1 DEF Busy, Idle, Holding
  <2> QED BY <1>0, <1>b, <1>w, <2>1, SegHop DEF Single
<1>1. ASSUME NEW j \in Hops PROVE Wire(c, j)'
  <2>1. Wire(c, j)
    BY DEF Circuit
  <2>2. j \in 0 .. D /\ j - 1 \in 0 .. D /\ j - 1 # j /\ (j - 1 = b <=> j = b + 1)
    BY <1>0, HopNode
  <2>3. CASE j = b + 1
    <3>1. pc'[j] = pc[j] /\ (On(c, j)' <=> On(c, j)) /\ (Idle(j)' <=> Idle(j))
      BY <1>a, <2>2, <2>3 DEF Idle
    <3>2. On(c, j - 1)' /\ link'[<<c, j>>].up = <<>> /\ link'[<<c, j>>].down = <<>>
      BY <1>n, <1>s, <2>2, <2>3
    <3> QED BY <1>n, <1>s, <2>1, <2>2, <2>3, <3>1, <3>2 DEF Wire
  <2>4. CASE j # b + 1
    <3>1. /\ On(c, j)' <=> On(c, j)
          /\ On(c, j) => (Idle(j)' <=> Idle(j)) /\ (pc'[j] = "extend" <=> pc[j] = "extend")
          /\ pc'[j - 1] = pc[j - 1] /\ (On(c, j - 1)' <=> On(c, j - 1))
          /\ link'[<<c, j>>] = link[<<c, j>>]
      <4>1. CASE j = b
        <5>1. j = Z
          BY <4>1, Line DEF Bases
        <5> QED BY <1>a, <2>2, <2>4, <4>1, <5>1 DEF Idle, Kept
      <4>2. CASE j # b
        BY <1>a, <2>2, <2>4, <4>2 DEF Idle, Kept
      <4> QED BY <4>1, <4>2
    <3> QED BY <2>1, <3>1 DEF Wire
  <2> QED BY <2>3, <2>4
<1>2. ASSUME NEW j \in Hops PROVE Sane(c, j)'
  <2>1. Sane(c, j)
    BY DEF Circuit
  <2> QED BY <1>n, <2>1 DEF Sane, Cell1, Reply1
<1>3. ASSUME NEW j \in Hops PROVE Notes(c, j)'
  <2>1. Notes(c, j) /\ mode' = mode /\ Growing
    BY DEF Circuit, Acts
  <2> QED BY <1>n, <2>1, BackedStays, NotedStays DEF Notes, Reply1, Growing, Verifiers
<1>4. Fresh(c)'
  <2>1. Fresh(c) /\ circ' = circ
    BY DEF Circuit, Acts
  <2>2. \A k \in 0 .. D : On(c, k)' /\ pc'[k] \in {"extend", "connect"} =>
           On(c, k) /\ pc[k] \in {"extend", "connect"}
    BY <1>a
  <2> QED BY <1>n, <2>1, <2>2, FreshStays
<1>5. Single(c)'
  <2>1. ASSUME NEW k \in Bases, k # b
        PROVE  /\ On(c, k)' /\ pc'[k] \notin {"extended", "round"} => \A j \in Seg(k) : ~ Busy(c, j)'
               /\ \A i, j \in Seg(k) : Busy(c, i)' /\ Busy(c, j)' => i = j
    BY <1>a, <1>b, <1>w, <2>1, SegHop, BaseNode DEF Single
  <2> QED BY <1>t, <2>1 DEF Single
<1>8. \A j \in Hops : Data(c, j)' => Data(c, j)
  <2> SUFFICES ASSUME NEW j \in Hops, Data(c, j)' PROVE Data(c, j)
    OBVIOUS
  <2>1. pc'[b] \notin {"round", "quorum"}
    OBVIOUS
  <2> QED BY <1>h, <1>n, <2>1 DEF Data, Cell1, Reply1
<1>r. \A n : \A j \in Hops : DataIs(c, j, n) => DataIs(c, j, n)'
  <2> SUFFICES ASSUME NEW n, NEW j \in Hops, DataIs(c, j, n) PROVE DataIs(c, j, n)'
    OBVIOUS
  <2>1. pc'[b] \notin {"round", "quorum"}
    OBVIOUS
  <2> QED BY <1>h, <1>n, <2>1 DEF DataIs, Cell1, Reply1
<1>9. Ids(c)'
  <2>1. Ids(c) BY DEF Circuit
  <2>2. ASSUME NEW k \in Bases, On(c, k)', NEW j \in Seg(k)
        PROVE  DataIs(c, j, Asked(k))'
    <3>1. On(c, k) /\ j \in Hops
      BY <1>a, <2>2, BaseNode, SegHop
    <3>2. CASE k = b
      BY <1>t, <3>2 DEF Busy, DataIs, Holding
    <3>3. CASE k # b
      <4>1. Asked(k)' = Asked(k)
        BY <3>3 DEF Asked, Acts, Bases
      <4>2. DataIs(c, j, Asked(k))
        BY <2>1, <3>1 DEF Ids
      <4> DEFINE n == Asked(k)
      <4>3. DataIs(c, j, n)'
        BY <1>r, <3>1, <4>2, <4>1
      <4> QED BY <4>1, <4>3
    <3> QED BY <3>2, <3>3
  <2>3. ASSUME On(c, 0)', ~ On(c, Z)', NEW j \in Seg(Z), Data(c, j)'
        PROVE  /\ DataIs(c, j, round)' /\ pc'[0] = "round"
               /\ \A k \in Seg(0) : ~ Busy(c, k)'
    <3>1. On(c, 0) /\ ~ On(c, Z) /\ j \in Hops /\ Data(c, j) /\ b = 0
      BY <1>a, <1>8, <2>3, Line DEF Bases
    <3>2. \A k \in Seg(0) : ~ Busy(c, k)
      BY <2>1, <2>3, <3>1 DEF Ids
    <3> QED BY <1>0, <1>w, <3>1, <3>2
  <2> QED BY <2>2, <2>3 DEF Ids
<1>10. ASSUME NEW k \in Bases PROVE Phase(c, k)'
  <2> SUFFICES ASSUME On(c, k)', pc'[k] \in {"extended", "round"}
               PROVE  /\ depth'[k] \in 0 .. Last(k)
                      /\ \A j \in Seg(k) : Kind(c, k, j)' /\ (pc'[k] = "extended" => Built(c, k, j)')
    BY DEF Phase
  <2>0. k # b
    OBVIOUS
  <2>1. /\ On(c, k) /\ pc'[k] = pc[k] /\ depth'[k] = depth[k] /\ Phase(c, k)
        /\ Expected(k)' = Expected(k)
    BY <1>a, <2>0, BaseNode DEF Circuit, Acts, Expected
  <2>2. /\ depth[k] \in 0 .. Last(k)
        /\ \A j \in Seg(k) : Kind(c, k, j) /\ (pc[k] = "extended" => Built(c, k, j))
    BY <2>1 DEF Phase
  <2>3. k + 1 + depth[k] \in Hops
    <3>1. k \in Nat /\ End(k) \in 1 .. D /\ k + 1 + Last(k) = End(k) /\ Last(k) \in Nat
      BY Line DEF Hops
    <3> QED BY <2>2, <3>1, LineAssumption DEF Hops
  <2>4. ASSUME NEW j \in Seg(k) PROVE  Kind(c, k, j)'
    <3>1. On(c, j)' /\ Holding(j)' => On(c, j) /\ Holding(j) /\ pc'[j] = pc[j]
      BY <1>h, SegHop DEF Holding
    <3> QED BY <1>n, <2>1, <2>2, <3>1, SegHop DEF Kind, Cell1, Reply1
  <2>5. ASSUME NEW j \in Seg(k), Built(c, k, j) PROVE  Built(c, k, j)'
    BY <1>n, <2>1, <2>3, <2>5, SegHop DEF Built, Cell1
  <2> QED BY <2>1, <2>2, <2>4, <2>5
<1>11. ASSUME NEW k \in Bases PROVE Counts(c, k)'
  <2>1. ASSUME NEW j \in Seg(k) PROVE Numbered(c, k, j)'
    <3>1. j \in Hops /\ Numbered(c, k, j)
      BY SegHop DEF Counts, Circuit
    <3>2. \A n : Counted(c, k, n) => Counted(c, k, n)'
      BY <1>a, <1>n, EndIs DEF Counted
    <3> QED BY <1>n, <3>1, <3>2 DEF Numbered, Cell1, Reply1
  <2> QED BY <2>1 DEF Counts
<1> QED BY <1>1, <1>2, <1>3, <1>4, <1>5, <1>9, <1>10, <1>11 DEF Circuit

(* Machine i takes a cell and works on it. *)
LEMMA Hold ==
    ASSUME NEW c \in Circuits, NEW i \in Hops, c = circ[i], Circuit(c), Acts(i),
           On(c, i), On(c, i)', Cleared(c, i), pc[i] = "relay",
           \A j \in Hops : j # i => Kept(c, j),
           \/ /\ i \in Proxies /\ pc'[i] = "connect"
              /\ Cell1(c, i).type = "Extend" /\ Cell1(c, i).hops = 0
           \/ /\ i = D /\ pc'[i] = "quorum"
              /\ Cell1(c, i).type = "ChainSubmission" /\ work'[i].id = Cell1(c, i).res.id,
           \A b \in Bases : Tally(c, b)'
    PROVE  Circuit(c)'
<1>0. /\ i \in 0 .. D /\ i \in Nat /\ i - 1 \in 0 .. D /\ i # 0 /\ i # Z
      /\ \A k \in 0 .. D : k \in Nodes
  BY HopNode, LineNodes, Line
<1>a. /\ \A k \in 0 .. D : On(c, k)' <=> On(c, k)
      /\ \A k \in 0 .. D : k # i => pc'[k] = pc[k]
  <2>1. \A k \in 0 .. D : k # i => pc'[k] = pc[k] /\ circ'[k] = circ[k]
    BY <1>0 DEF Acts
  <2> QED BY <1>0, <2>1 DEF On
<1>w. Wire(c, i) /\ Busy(c, i) /\ Single(c) /\ Sane(c, i)
  BY DEF Circuit, Busy, Cleared
<1>s. /\ link'[<<c, i>>].down = <<>> /\ link'[<<c, i>>].up = <<>> /\ link[<<c, i>>].up = <<>>
      /\ link[<<c, i>>].down # <<>>
  BY <1>w DEF Wire, Cleared
<1>n. \A j \in Hops : /\ link'[<<c, j>>].sv = link[<<c, j>>].sv
                      /\ link'[<<c, j>>].cl <=> link[<<c, j>>].cl
                      /\ Reached(c, j)' <=> Reached(c, j)
                      /\ link'[<<c, j>>].down = link[<<c, j>>].down \/ link'[<<c, j>>].down = <<>>
                      /\ link'[<<c, j>>].up = link[<<c, j>>].up
  BY DEF Cleared, Kept, Reached
<1>h. \A j \in Hops : j # i => (On(c, j)' <=> On(c, j)) /\ pc'[j] = pc[j] /\ (Holding(j)' <=> Holding(j))
  BY <1>a, HopNode DEF Holding
<1>b. \A j \in Hops : Busy(c, j)' => Busy(c, j)
  BY <1>h, <1>n, <1>w DEF Busy
<1>e. pc'[i] = "connect" => \A k \in Hops : k > i => link[<<c, k>>].sv = "none"
  <2> HAVE pc'[i] = "connect"
  <2>1. Cell1(c, i).type = "Extend" /\ Cell1(c, i).hops = 0
    OBVIOUS
  <2>2. \A k \in Hops : k > i + 0 => link[<<c, k>>].sv = "none"
    BY <1>s, <1>w, <2>1 DEF Sane
  <2> QED BY <1>0, <2>2
<1>t. ASSUME NEW b \in Bases, i \in Seg(b)
      PROVE  /\ \A j \in Seg(b) : j # i =>
                   /\ j \in Hops /\ link'[<<c, j>>].down = <<>> /\ link'[<<c, j>>].up = <<>>
                   /\ ~ (On(c, j)' /\ Holding(j)')
             /\ On(c, b) => /\ pc[b] \in {"extended", "round"} /\ depth[b] \in 0 .. Last(b)
                            /\ Kind(c, b, i) /\ (pc[b] = "extended" => Built(c, b, i))
  <2>1. \A j \in Seg(b) : j # i => ~ Busy(c, j)'
    BY <1>b, <1>t, <1>w, SegHop DEF Single
  <2>2. On(c, b) => pc[b] \in {"extended", "round"}
    BY <1>t, <1>w DEF Single
  <2>3. Phase(c, b) BY DEF Circuit
  <2> QED BY <1>t, <2>1, <2>2, <2>3, SegHop DEF Busy, Phase
<1>1. ASSUME NEW j \in Hops PROVE Wire(c, j)'
  <2>1. Wire(c, j)
    BY DEF Circuit
  <2>2. j \in 0 .. D /\ j - 1 \in 0 .. D /\ j - 1 # j /\ (j - 1 = i <=> j = i + 1)
    BY <1>0, HopNode
  <2>3. CASE j = i
    <3>1. pc'[j - 1] = pc[j - 1] /\ (On(c, j - 1)' <=> On(c, j - 1)) /\ (On(c, j)' <=> On(c, j))
      BY <1>a, <2>2, <2>3
    <3>2. ~ (link[<<c, j>>].cl /\ pc[j - 1] \in {"relay", "session"})
      BY <1>s, <2>1, <2>3 DEF Wire
    <3> QED BY <1>n, <1>s, <2>1, <2>3, <3>1, <3>2 DEF Wire
  <2>4. CASE j = i + 1
    <3>1. pc'[i] = "connect" /\ link[<<c, j>>].sv = "none"
      <4>1. i # D
        BY <2>4 DEF Hops
      <4> QED BY <1>0, <1>e, <2>4, <4>1
    <3>2. link'[<<c, j>>] = link[<<c, j>>] /\ (On(c, j)' <=> On(c, j))
      BY <1>a, <1>0, <2>2, <2>4 DEF Kept
    <3> QED BY <2>1, <2>2, <2>4, <3>1, <3>2 DEF Wire
  <2>5. CASE j # i /\ j # i + 1
    <3>1. /\ pc'[j] = pc[j] /\ (On(c, j)' <=> On(c, j)) /\ (Idle(j)' <=> Idle(j))
          /\ pc'[j - 1] = pc[j - 1] /\ (On(c, j - 1)' <=> On(c, j - 1))
          /\ link'[<<c, j>>] = link[<<c, j>>]
      BY <1>a, <2>2, <2>5 DEF Idle, Kept
    <3> QED BY <2>1, <3>1 DEF Wire
  <2> QED BY <2>3, <2>4, <2>5
<1>2. ASSUME NEW j \in Hops PROVE Sane(c, j)'
  <2>1. Sane(c, j)
    BY DEF Circuit
  <2> QED BY <1>n, <2>1 DEF Sane, Cell1, Reply1
<1>3. ASSUME NEW j \in Hops PROVE Notes(c, j)'
  <2>1. Notes(c, j) /\ mode' = mode /\ Growing
    BY DEF Circuit, Acts
  <2> QED BY <1>n, <2>1, BackedStays, NotedStays DEF Notes, Reply1, Growing, Verifiers
<1>4. Fresh(c)'
  <2>1. Fresh(c) /\ circ' = circ
    BY DEF Circuit, Acts
  <2>2. c > circ'[0] => \A j \in Hops : link'[<<c, j>>].sv = "none"
    BY <1>n, <2>1 DEF Fresh
  <2>3. \A k, j \in Hops : k < j /\ ~ Reached(c, k)' => link'[<<c, j>>].sv = "none"
    BY <1>n, <2>1, ZenonT(60) DEF Fresh
  <2>4. ASSUME NEW k \in 0 .. D, NEW j \in Hops, k < j, On(c, k)', pc'[k] \in {"extend", "connect"}
        PROVE  link'[<<c, j>>].sv = "none"
    <3>1. CASE k = i
      BY <1>e, <1>n, <1>0, <2>4, <3>1, HopNode
    <3>2. CASE k # i
      BY <1>a, <1>n, <2>1, <2>4, <3>2 DEF Fresh
    <3> QED BY <3>1, <3>2
  <2> QED BY <2>2, <2>3, <2>4 DEF Fresh
<1>5. Single(c)'
  <2>1. \A k \in Bases : k # i
    BY <1>0 DEF Bases
  <2>2. \A k \in Bases : \A j \in Seg(k) : Busy(c, j)' => Busy(c, j)
    BY <1>b, SegHop
  <2> QED BY <1>a, <1>w, <2>1, <2>2, BaseNode DEF Single
<1>6. \A k \in Bases : Asked(k)' = Asked(k)
  BY <1>0 DEF Asked, Acts, Verifiers
<1>8. \A j \in Hops : Data(c, j)' => Data(c, j)
  <2> SUFFICES ASSUME NEW j \in Hops, Data(c, j)' PROVE Data(c, j)
    OBVIOUS
  <2>1. CASE j = i
    BY <1>s, <2>1 DEF Data
  <2>2. CASE j # i
    BY <1>h, <1>n, <2>2 DEF Data, Cell1, Reply1
  <2> QED BY <2>1, <2>2
<1>r. \A n : \A j \in Hops : DataIs(c, j, n) => DataIs(c, j, n)'
  <2> SUFFICES ASSUME NEW n, NEW j \in Hops, DataIs(c, j, n) PROVE DataIs(c, j, n)'
    OBVIOUS
  <2>1. CASE j = i
    BY <1>s, <2>1 DEF DataIs
  <2>2. CASE j # i
    <3>1. j \in Verifiers => work'[j] = work[j]
      BY <2>2 DEF Acts
    <3> QED BY <1>h, <1>n, <2>2, <3>1 DEF DataIs, Cell1, Reply1
  <2> QED BY <2>1, <2>2
<1>9. Ids(c)'
  <2>1. Ids(c) /\ round' = round BY <1>0 DEF Circuit, Acts
  <2>2. ASSUME NEW k \in Bases, On(c, k)', NEW j \in Seg(k)
        PROVE  DataIs(c, j, Asked(k))'
    <3>1. On(c, k) /\ j \in Hops
      BY <1>a, <2>2, BaseNode, SegHop
    <3>2. DataIs(c, j, Asked(k))
      BY <2>1, <3>1 DEF Ids
    <3> DEFINE n == Asked(k)
    <3>3. DataIs(c, j, n)'
      BY <1>r, <1>6, <3>1, <3>2
    <3> QED BY <1>6, <3>3
  <2>3. ASSUME On(c, 0)', ~ On(c, Z)', NEW j \in Seg(Z), Data(c, j)'
        PROVE  /\ DataIs(c, j, round)' /\ pc'[0] = "round"
               /\ \A k \in Seg(0) : ~ Busy(c, k)'
    <3>1. On(c, 0) /\ ~ On(c, Z) /\ j \in Hops /\ Data(c, j) /\ pc'[0] = pc[0]
      BY <1>0, <1>a, <1>8, <2>3, SegHop, BaseNode DEF Bases
    <3>2. DataIs(c, j, round) /\ pc[0] = "round" /\ \A k \in Seg(0) : ~ Busy(c, k)
      BY <2>1, <2>3, <3>1 DEF Ids
    <3>3. DataIs(c, j, round)'
      BY <1>r, <2>1, <3>1, <3>2
    <3>4. \A k \in Seg(0) : ~ Busy(c, k)'
      BY <1>b, <3>2, SegHop DEF Bases
    <3> QED BY <3>1, <3>2, <3>3, <3>4
  <2> QED BY <2>2, <2>3 DEF Ids
<1>10. ASSUME NEW k \in Bases PROVE Phase(c, k)'
  <2> SUFFICES ASSUME On(c, k)', pc'[k] \in {"extended", "round"}
               PROVE  /\ depth'[k] \in 0 .. Last(k)
                      /\ \A j \in Seg(k) : Kind(c, k, j)' /\ (pc'[k] = "extended" => Built(c, k, j)')
    BY DEF Phase
  <2>0. k # i
    BY <1>0 DEF Bases
  <2>1. /\ On(c, k) /\ pc'[k] = pc[k] /\ depth'[k] = depth[k] /\ Phase(c, k)
        /\ Expected(k)' = Expected(k)
    BY <1>a, <2>0, BaseNode DEF Circuit, Acts, Expected
  <2>2. /\ depth[k] \in 0 .. Last(k)
        /\ \A j \in Seg(k) : Kind(c, k, j) /\ (pc[k] = "extended" => Built(c, k, j))
    BY <2>1 DEF Phase
  <2>3. k + 1 + depth[k] \in Hops
    <3>1. k \in Nat /\ End(k) \in 1 .. D /\ k + 1 + Last(k) = End(k) /\ Last(k) \in Nat
      BY Line DEF Hops
    <3> QED BY <2>2, <3>1, LineAssumption DEF Hops
  <2>4. ASSUME NEW j \in Seg(k) PROVE  Kind(c, k, j)'
    <3>1. CASE j # i
      BY <1>h, <1>n, <2>1, <2>2, <3>1, SegHop, ZenonT(60) DEF Kind, Cell1, Reply1
    <3>2. CASE j = i
      <4>1. Cell1(c, i).type \in Expected(k)
        BY <1>s, <2>2, <3>2 DEF Kind
      <4>2. CASE pc'[i] = "connect"
        <5>1. Cell1(c, i).type = "Extend" /\ Cell1(c, i).hops = 0
          BY <4>2
        <5>2. pc[k] = "extended"
          BY <4>1, <5>1, <2>1 DEF Expected
        <5>3. i + 0 = k + depth[k]
          BY <1>s, <2>2, <3>2, <5>1, <5>2 DEF Built
        <5> QED BY <1>0, <1>s, <2>1, <3>2, <4>2, <5>2, <5>3 DEF Kind
      <4>3. CASE pc'[i] = "quorum"
        <5>1. Cell1(c, i).type = "ChainSubmission"
          BY <4>3
        <5>2. pc[k] = "round" /\ ~ (depth[k] < Last(k))
          BY <4>1, <5>1, <2>1 DEF Expected
        <5>3. depth[k] = Last(k)
          <6>1. Last(k) \in Nat
            BY Line
          <6> QED BY <2>2, <5>2, <6>1
        <5> QED BY <1>s, <2>1, <3>2, <4>3, <5>2, <5>3 DEF Kind
      <4> QED BY <4>2, <4>3
    <3> QED BY <3>1, <3>2
  <2>5. ASSUME NEW j \in Seg(k), Built(c, k, j) PROVE  Built(c, k, j)'
    BY <1>n, <2>1, <2>3, <2>5, SegHop DEF Built, Cell1
  <2> QED BY <2>1, <2>2, <2>4, <2>5
<1>11. ASSUME NEW k \in Bases PROVE Counts(c, k)'
  <2>1. ASSUME NEW j \in Seg(k) PROVE Numbered(c, k, j)'
    <3>1. j \in Hops /\ Numbered(c, k, j)
      BY SegHop DEF Counts, Circuit
    <3>2. CASE i \in Seg(k)
      BY <1>s, <1>t, <3>2 DEF Numbered
    <3>3. CASE i \notin Seg(k)
      <4>1. i # End(k) /\ count'[End(k)] = count[End(k)]
        BY <3>3, EndIs DEF Acts
      <4>2. \A n : Counted(c, k, n) => Counted(c, k, n)'
        BY <1>a, <1>n, <4>1, EndIs DEF Counted
      <4> QED BY <1>n, <3>1, <4>2 DEF Numbered, Cell1, Reply1
    <3> QED BY <3>2, <3>3
  <2> QED BY <2>1 DEF Counts
<1> QED BY <1>1, <1>2, <1>3, <1>4, <1>5, <1>9, <1>10, <1>11 DEF Circuit

(* Machine i takes the connection of circuit c from its backlog. *)
LEMMA Accepted ==
    ASSUME NEW c \in Circuits, NEW i \in Hops, Circuit(c), ~ On(c, i), On(c, i)', pc'[i] = "extend",
           link[<<c, i>>].sv = "queued", link'[<<c, i>>].sv = "open",
           link'[<<c, i>>].cl <=> link[<<c, i>>].cl,
           link'[<<c, i>>].down = link[<<c, i>>].down, link'[<<c, i>>].up = link[<<c, i>>].up,
           \A j \in Hops : j # i => Kept(c, j),
           \A k \in 0 .. D : k # i => pc'[k] = pc[k] /\ circ'[k] = circ[k],
           \A v \in Verifiers : count'[v] = IF v = i THEN 0 ELSE count[v],
           work' = work, depth' = depth, round' = round, mode' = mode, Growing
    PROVE  Circuit(c)'
<1>0. i \in 0 .. D /\ i \in Nat /\ i - 1 \in 0 .. D /\ i # 0
  BY HopNode, Line
<1>a. /\ \A k \in 0 .. D : k # i => (On(c, k)' <=> On(c, k)) /\ pc'[k] = pc[k]
      /\ circ'[0] = circ[0]
  BY <1>0, BaseNode DEF On, Bases
<1>n. \A j \in Hops : /\ link'[<<c, j>>].sv = "none" <=> link[<<c, j>>].sv = "none"
                      /\ j # i => link'[<<c, j>>].sv = link[<<c, j>>].sv
                      /\ link'[<<c, j>>].cl <=> link[<<c, j>>].cl
                      /\ Reached(c, j) => Reached(c, j)'
                      /\ link'[<<c, j>>].down = link[<<c, j>>].down
                      /\ link'[<<c, j>>].up = link[<<c, j>>].up
  BY DEF Kept, Reached
<1>h. \A j \in Hops : On(c, j)' /\ Holding(j)' => j # i /\ On(c, j) /\ Holding(j) /\ pc'[j] = pc[j]
  BY <1>a, HopNode DEF Holding
<1>b. \A j \in Hops : Busy(c, j)' => Busy(c, j)
  BY <1>h, <1>n DEF Busy
<1>f. Fresh(c) /\ Single(c) /\ Ids(c) /\ (\A j \in Hops : Wire(c, j)) /\ ~ Reached(c, i)
  BY DEF Circuit, Reached
<1>e. \A j \in Hops : i < j => link[<<c, j>>].sv = "none"
  BY <1>f DEF Fresh
<1>1. ASSUME NEW j \in Hops PROVE Wire(c, j)'
  <2>1. Wire(c, j)
    BY DEF Circuit
  <2>2. j \in 0 .. D /\ j - 1 \in 0 .. D /\ j - 1 # j /\ (j - 1 = i <=> j = i + 1)
    BY <1>0, HopNode
  <2>3. CASE j = i
    <3>1. pc'[j - 1] = pc[j - 1] /\ (On(c, j - 1)' <=> On(c, j - 1)) /\ On(c, j)' /\ ~ On(c, j)
      BY <1>a, <2>2, <2>3
    <3>2. link[<<c, j>>].sv = "queued" /\ link'[<<c, j>>].sv = "open" /\ pc'[j] = "extend"
      BY <2>3
    <3> QED BY <1>n, <2>1, <3>1, <3>2 DEF Wire
  <2>4. CASE j = i + 1
    <3>1. ~ link[<<c, j>>].cl /\ pc'[j - 1] = "extend"
      BY <2>1, <2>2, <2>4 DEF Wire
    <3>2. pc'[j] = pc[j] /\ (On(c, j)' <=> On(c, j)) /\ (Idle(j)' <=> Idle(j))
      BY <1>a, <1>0, <2>2, <2>4 DEF Idle
    <3>3. link'[<<c, j>>] = link[<<c, j>>]
      BY <1>0, <2>4 DEF Kept
    <3> QED BY <2>1, <3>1, <3>2, <3>3 DEF Wire
  <2>5. CASE j # i /\ j # i + 1
    <3>1. /\ pc'[j] = pc[j] /\ (On(c, j)' <=> On(c, j)) /\ (Idle(j)' <=> Idle(j))
          /\ pc'[j - 1] = pc[j - 1] /\ (On(c, j - 1)' <=> On(c, j - 1))
          /\ link'[<<c, j>>] = link[<<c, j>>]
      BY <1>a, <2>2, <2>5 DEF Idle, Kept
    <3> QED BY <2>1, <3>1 DEF Wire
  <2> QED BY <2>3, <2>4, <2>5
<1>2. ASSUME NEW j \in Hops PROVE Sane(c, j)'
  <2>1. Sane(c, j)
    BY DEF Circuit
  <2> QED BY <1>n, <2>1 DEF Sane, Cell1, Reply1
<1>3. ASSUME NEW j \in Hops PROVE Notes(c, j)'
  <2>1. Notes(c, j)
    BY DEF Circuit
  <2> QED BY <1>n, <2>1, BackedStays, NotedStays DEF Notes, Reply1, Growing, Verifiers
<1>4. Fresh(c)'
  <2>2. c > circ'[0] => \A j \in Hops : link'[<<c, j>>].sv = "none"
    BY <1>a, <1>f, <1>n DEF Fresh
  <2>3. \A k, j \in Hops : k < j /\ ~ Reached(c, k)' => link'[<<c, j>>].sv = "none"
    BY <1>f, <1>n DEF Fresh
  <2>4. ASSUME NEW k \in 0 .. D, NEW j \in Hops, k < j, On(c, k)', pc'[k] \in {"extend", "connect"}
        PROVE  link'[<<c, j>>].sv = "none"
    <3>1. CASE k = i
      BY <1>e, <1>n, <2>4, <3>1
    <3>2. CASE k # i
      BY <1>a, <1>n, <1>f, <2>4, <3>2 DEF Fresh
    <3> QED BY <3>1, <3>2
  <2> QED BY <2>2, <2>3, <2>4 DEF Fresh

(* Nothing lies behind machine i yet. *)
<1>z. ASSUME i = Z, NEW j \in Seg(Z) PROVE ~ Busy(c, j)
  <2>1. j \in Hops /\ i < j
    BY <1>z, Line
  <2>2. link[<<c, j>>].sv = "none" /\ Wire(c, j)
    BY <1>e, <1>f, <2>1
  <2> QED BY <2>2 DEF Wire, Busy
<1>5. Single(c)'
  <2>1. ASSUME NEW k \in Bases
        PROVE  /\ On(c, k)' /\ pc'[k] \notin {"extended", "round"} => \A j \in Seg(k) : ~ Busy(c, j)'
               /\ \A m, j \in Seg(k) : Busy(c, m)' /\ Busy(c, j)' => m = j
    <3>1. \A j \in Seg(k) : Busy(c, j)' => Busy(c, j)
      BY <1>b, SegHop
    <3>2. CASE k = i
      <4>1. i = Z /\ k = Z
        BY <1>0, <3>2 DEF Bases
      <4> QED BY <1>z, <3>1, <4>1
    <3>3. CASE k # i
      BY <1>a, <1>f, <3>1, <3>3, BaseNode DEF Single
    <3> QED BY <3>2, <3>3
  <2> QED BY <2>1 DEF Single
<1>8. \A j \in Hops : Data(c, j)' => Data(c, j)
  <2> SUFFICES ASSUME NEW j \in Hops, Data(c, j)' PROVE Data(c, j)
    OBVIOUS
  <2>1. On(c, j)' /\ pc'[j] \in {"round", "quorum"} => On(c, j) /\ pc[j] \in {"round", "quorum"}
    BY <1>h DEF Holding
  <2> QED BY <1>n, <2>1 DEF Data, Cell1, Reply1
<1>r. \A n : \A j \in Hops : DataIs(c, j, n) => DataIs(c, j, n)'
  <2> SUFFICES ASSUME NEW n, NEW j \in Hops, DataIs(c, j, n) PROVE DataIs(c, j, n)'
    OBVIOUS
  <2>1. On(c, j)' /\ pc'[j] \in {"round", "quorum"} => On(c, j) /\ pc[j] \in {"round", "quorum"}
    BY <1>h DEF Holding
  <2> QED BY <1>n, <2>1 DEF DataIs, Cell1, Reply1
<1>9. Ids(c)'
  <2>2. ASSUME NEW k \in Bases, On(c, k)', NEW j \in Seg(k)
        PROVE  DataIs(c, j, Asked(k))'
    <3>1. CASE k = i
      <4>1. i = Z /\ k = Z
        BY <1>0, <3>1 DEF Bases
      <4>2. ~ Busy(c, j)'
        BY <1>b, <1>z, <4>1, SegHop
      <4> QED BY <4>2 DEF Busy, DataIs, Holding
    <3>2. CASE k # i
      <4>1. On(c, k) /\ Asked(k)' = Asked(k) /\ j \in Hops
        BY <1>a, <2>2, <3>2, BaseNode, SegHop DEF Asked, Bases, Verifiers
      <4>2. DataIs(c, j, Asked(k))
        BY <1>f, <4>1 DEF Ids
      <4> DEFINE n == Asked(k)
      <4>3. DataIs(c, j, n)'
        BY <1>r, <4>1, <4>2
      <4> QED BY <4>1, <4>3
    <3> QED BY <3>1, <3>2
  <2>3. ASSUME On(c, 0)', ~ On(c, Z)', NEW j \in Seg(Z), Data(c, j)'
        PROVE  /\ DataIs(c, j, round)' /\ pc'[0] = "round"
               /\ \A k \in Seg(0) : ~ Busy(c, k)'
    <3>1. On(c, 0) /\ ~ On(c, Z) /\ j \in Hops /\ Data(c, j) /\ pc'[0] = pc[0]
      BY <1>0, <1>a, <1>8, <2>3, SegHop, BaseNode DEF Bases
    <3>2. DataIs(c, j, round) /\ pc[0] = "round" /\ \A k \in Seg(0) : ~ Busy(c, k)
      BY <1>f, <2>3, <3>1 DEF Ids
    <3>3. DataIs(c, j, round)'
      BY <1>r, <3>1, <3>2
    <3>4. \A k \in Seg(0) : ~ Busy(c, k)'
      BY <1>b, <3>2, SegHop DEF Bases
    <3> QED BY <3>1, <3>2, <3>3, <3>4
  <2> QED BY <2>2, <2>3 DEF Ids
<1>10. ASSUME NEW k \in Bases PROVE Phase(c, k)'
  <2> SUFFICES ASSUME On(c, k)', pc'[k] \in {"extended", "round"}
               PROVE  /\ depth'[k] \in 0 .. Last(k)
                      /\ \A j \in Seg(k) : Kind(c, k, j)' /\ (pc'[k] = "extended" => Built(c, k, j)')
    BY DEF Phase
  <2>0. k # i
    OBVIOUS
  <2>1. /\ On(c, k) /\ pc'[k] = pc[k] /\ depth'[k] = depth[k] /\ Phase(c, k)
        /\ Expected(k)' = Expected(k)
    BY <1>a, <2>0, BaseNode DEF Circuit, Expected
  <2>2. /\ depth[k] \in 0 .. Last(k)
        /\ \A j \in Seg(k) : Kind(c, k, j) /\ (pc[k] = "extended" => Built(c, k, j))
    BY <2>1 DEF Phase
  <2>3. k + 1 + depth[k] \in Hops
    <3>1. k \in Nat /\ End(k) \in 1 .. D /\ k + 1 + Last(k) = End(k) /\ Last(k) \in Nat
      BY Line DEF Hops
    <3> QED BY <2>2, <3>1, LineAssumption DEF Hops
  <2>4. ASSUME NEW j \in Seg(k) PROVE  Kind(c, k, j)'
    BY <1>h, <1>n, <2>1, <2>2, SegHop DEF Kind, Cell1, Reply1
  <2>5. ASSUME NEW j \in Seg(k), Built(c, k, j) PROVE  Built(c, k, j)'
    BY <1>n, <2>1, <2>3, <2>5, SegHop DEF Built, Cell1
  <2> QED BY <2>1, <2>2, <2>4, <2>5
<1>11. ASSUME NEW k \in Bases PROVE Counts(c, k)'
  <2>0. Counts(c, k)
    BY DEF Circuit
  <2>1. \A n : Counted(c, k, n) => Counted(c, k, n)'
    <3>1. CASE i = End(k)
      BY <1>f, <3>1 DEF Counted
    <3>2. CASE i # End(k)
      BY <1>a, <1>n, <3>2, EndIs DEF Counted
    <3> QED BY <3>1, <3>2
  <2>2. ASSUME NEW j \in Seg(k) PROVE Numbered(c, k, j)'
    <3>1. j \in Hops /\ Numbered(c, k, j)
      BY <2>0, SegHop DEF Counts
    <3> QED BY <1>n, <2>1, <3>1 DEF Numbered, Cell1, Reply1
  <2>3. Tally(c, k)'
    <3>1. Tally(c, k)
      BY <2>0 DEF Counts
    <3>2. CASE k = i
      <4>1. i = Z /\ k = Z /\ i \in Verifiers
        BY <1>0, <3>2 DEF Bases, Verifiers
      <4>2. ~ On(c, End(k))'
        <5>1. End(k) \in Hops /\ i < End(k) /\ End(k) # i /\ End(k) \in 0 .. D
          BY <4>1, Line, HopNode
        <5>2. link[<<c, End(k)>>].sv = "none"
          BY <1>e, <5>1
        <5>3. ~ On(c, End(k))
          BY <1>f, <5>1, <5>2 DEF Wire
        <5> QED BY <1>a, <5>1, <5>3
      <4> QED BY <3>2, <4>1, <4>2 DEF Tally
    <3>3. CASE k # i
      <4>1. /\ On(c, k)' <=> On(c, k)
            /\ pc'[k] = pc[k] /\ Asked(k)' = Asked(k)
        BY <1>a, <3>3, BaseNode DEF Asked, Bases, Verifiers
      <4>2. On(c, End(k))' => count'[End(k)] = 0 \/ (On(c, End(k)) /\ count'[End(k)] = count[End(k)])
        BY <1>a, EndIs
      <4>3. k = Z => count'[Z] = count[Z] /\ work'[Z] = work[Z]
        BY <3>3 DEF Verifiers
      <4> QED BY <2>1, <3>1, <4>1, <4>2, <4>3 DEF Tally
    <3> QED BY <3>2, <3>3
  <2> QED BY <2>2, <2>3 DEF Counts
<1> QED BY <1>1, <1>2, <1>3, <1>4, <1>5, <1>9, <1>10, <1>11 DEF Circuit

(* Machine i connects to the next one. *)
LEMMA Connected ==
    ASSUME NEW c \in Circuits, NEW i \in 0 .. D, i + 1 \in Hops, c = circ[i], Circuit(c), Acts(i),
           On(c, i), On(c, i)', pc[i] = "connect", pc'[i] = "extended",
           NEW m, m.type = "ExtendCircuit",
           link'[<<c, i + 1>>].sv = "queued", link'[<<c, i + 1>>].cl,
           link'[<<c, i + 1>>].up = <<>>, Holds(link'[<<c, i + 1>>].down, m),
           \A j \in Hops : j # i + 1 => Kept(c, j),
           i \in Bases => depth'[i] = 0,
           count' = count, work' = work, round' = round,
           \A j \in Hops : link[<<c, j>>] \in Linked
    PROVE  Circuit(c)'
<1>0. /\ i \in Nat /\ i + 1 # i /\ i + 1 \in 0 .. D /\ i + 1 - 1 = i
      /\ \A k \in 0 .. D : k \in Nodes
  BY HopNode, LineNodes
<1>a. /\ \A k \in 0 .. D : On(c, k)' <=> On(c, k)
      /\ \A k \in 0 .. D : k # i => pc'[k] = pc[k]
  <2>1. \A k \in 0 .. D : k # i => pc'[k] = pc[k] /\ circ'[k] = circ[k]
    BY <1>0 DEF Acts
  <2> QED BY <2>1 DEF On
<1>f. /\ Fresh(c) /\ Single(c) /\ Ids(c) /\ circ' = circ
      /\ \A j \in Hops : Wire(c, j) /\ Sane(c, j) /\ Notes(c, j)
  BY DEF Circuit, Acts
<1>e. \A j \in Hops : i < j => link[<<c, j>>].sv = "none"
  BY <1>f DEF Fresh
<1>l. \A j \in Hops : j # i + 1 => link'[<<c, j>>] = link[<<c, j>>]
  BY DEF Kept

(* Machine i has been reached, and nothing is behind it. *)
<1>o. i \in Hops => link[<<c, i>>].sv = "open"
  BY <1>f DEF Wire
<1>x. ASSUME NEW j \in Hops, i < j
      PROVE  /\ link[<<c, j>>].sv = "none" /\ ~ Busy(c, j) /\ ~ On(c, j) /\ ~ link[<<c, j>>].cl
             /\ link[<<c, j>>].down = <<>> /\ link[<<c, j>>].up = <<>>
  <2>1. link[<<c, j>>].sv = "none" /\ Wire(c, j)
    BY <1>e, <1>f, <1>x
  <2> QED BY <2>1 DEF Wire, Busy
<1>y. link[<<c, i + 1>>].sv = "none" /\ ~ Busy(c, i + 1) /\ ~ On(c, i + 1) /\ ~ On(c, i + 1)'
  BY <1>0, <1>a, <1>x

(* vm2 is at rest in chain 1, a proxy has the turn. *)
<1>i. i \in Hops /\ i # Z => Busy(c, i) /\ link[<<c, i>>].down = <<>> /\ link[<<c, i>>].up = <<>>
  <2> HAVE i \in Hops /\ i # Z
  <2>1. Wire(c, i)
    BY <1>f
  <2> QED BY <2>1 DEF Busy, Holding, Wire, Idle
<1>h. \A j \in Hops : On(c, j)' /\ Holding(j)' => On(c, j) /\ Holding(j) /\ j # i /\ pc'[j] = pc[j]
  BY <1>a, HopNode DEF Holding
<1>b. \A j \in Hops : j # i + 1 /\ Busy(c, j)' => Busy(c, j) /\ (j # i \/ i = Z)
  <2> SUFFICES ASSUME NEW j \in Hops, j # i + 1, Busy(c, j)' PROVE Busy(c, j) /\ (j # i \/ i = Z)
    OBVIOUS
  <2> QED BY <1>h, <1>i, <1>l DEF Busy
<1>n. \A j \in Hops : /\ Reached(c, j)' <=> Reached(c, j)
                      /\ j # i + 1 => link'[<<c, j>>].sv = link[<<c, j>>].sv
  BY <1>l, <1>y DEF Reached
<1>1. ASSUME NEW j \in Hops PROVE Wire(c, j)'
  <2>1. Wire(c, j)
    BY <1>f
  <2>2. j \in 0 .. D /\ j - 1 \in 0 .. D /\ j - 1 # j /\ (j - 1 = i <=> j = i + 1)
    BY <1>0, HopNode
  <2>3. CASE j = i + 1
    <3>1. On(c, j - 1)' /\ pc'[j - 1] = "extended" /\ ~ On(c, j)'
      BY <1>y, <2>2, <2>3
    <3> QED BY <2>3, <3>1 DEF Wire, Holds
  <2>4. CASE j # i + 1
    <3>1. /\ On(c, j)' <=> On(c, j)
          /\ (Idle(j)' <=> Idle(j)) /\ (pc'[j] = "extend" <=> pc[j] = "extend")
          /\ pc'[j - 1] = pc[j - 1] /\ (On(c, j - 1)' <=> On(c, j - 1))
          /\ link'[<<c, j>>] = link[<<c, j>>]
      BY <1>a, <1>l, <2>2, <2>4 DEF Idle
    <3> QED BY <2>1, <3>1 DEF Wire
  <2> QED BY <2>3, <2>4
<1>2. ASSUME NEW j \in Hops PROVE Sane(c, j)'
  <2>1. Sane(c, j)
    BY <1>f
  <2>2. CASE j = i + 1
    BY <2>2 DEF Sane, Cell1, Holds, DownTypes
  <2>3. CASE j # i + 1 /\ (link[<<c, j>>].down = <<>> \/ Cell1(c, j).type # "Extend")
    BY <1>l, <2>1, <2>3 DEF Sane, Cell1, Reply1
  <2>4. ASSUME j # i + 1, link[<<c, j>>].down # <<>>, Cell1(c, j).type = "Extend" PROVE Sane(c, j)'
    <3> DEFINE h == Cell1(c, j).hops
    <3>1. /\ j <= Z => j + h < Z
          /\ \A k \in Hops : k > j + h => link[<<c, k>>].sv = "none"
      BY <2>1, <2>4 DEF Sane
    <3>2. ~ (i + 1 > j + h)
      <4> SUFFICES ASSUME i + 1 > j + h PROVE FALSE
        OBVIOUS
      <4>1. h \in Nat
        <5>1. link[<<c, j>>].down \in Seq(Cells) /\ link[<<c, j>>].down # <<>>
          BY <2>4 DEF Linked
        <5>2. Head(link[<<c, j>>].down) \in Cells
          BY <5>1, HeadCell
        <5> QED BY <5>2 DEF Cell1, Cells
      <4>2. j <= i
        BY <1>x, <2>4, HopNode
      <4>3. i \in Hops /\ i = j + h
        <5>1. j \in 1 .. D /\ i \in Hops
          BY <4>2 DEF Hops
        <5>2. ~ (i > j + h)
          BY <1>o, <3>1, <5>1
        <5> QED BY <4>1, <5>1, <5>2
      <4>4. i # Z /\ \E b \in Bases : i \in Seg(b) /\ j \in Seg(b)
        <5>1. /\ Z \in Nat /\ j \in Nat /\ i \in Nat /\ 0 \in Bases /\ Z \in Bases
              /\ \A k \in Hops : (k \in Seg(0) <=> k <= Z) /\ (k \in Seg(Z) <=> k > Z)
          BY <4>3, Line
        <5>2. CASE j <= Z
          <6>0. j + h < Z
            BY <3>1, <5>2
          <6>1. i < Z
            BY <4>3, <6>0
          <6>2. i # Z /\ i <= Z
            BY <5>1, <6>1
          <6> QED BY <4>3, <5>1, <5>2, <6>2
        <5>3. CASE j > Z
          <6>1. i # Z /\ i > Z
            BY <4>2, <5>1, <5>3
          <6> QED BY <4>3, <5>1, <5>3, <6>1
        <5> QED BY <5>1, <5>2, <5>3
      <4>5. Busy(c, i) /\ Busy(c, j)
        BY <1>i, <2>4, <4>3, <4>4 DEF Busy
      <4>6. i = j
        BY <1>f, <4>4, <4>5 DEF Single
      <4> QED BY <1>i, <2>4, <4>3, <4>4, <4>6
    <3> QED BY <1>l, <2>1, <2>4, <3>2 DEF Sane, Cell1, Reply1
  <2> QED BY <2>2, <2>3, <2>4
<1>3. ASSUME NEW j \in Hops PROVE Notes(c, j)'
  <2>1. Notes(c, j) /\ mode' = mode /\ Growing
    BY <1>f DEF Acts
  <2>2. CASE j = i + 1
    BY <2>2 DEF Notes
  <2>3. CASE j # i + 1
    BY <1>l, <2>1, <2>3, BackedStays, NotedStays DEF Notes, Reply1, Growing, Verifiers
  <2> QED BY <2>2, <2>3
<1>4. Fresh(c)'
  <2>0. \A k \in Hops : k < i => Reached(c, k)
    <3> SUFFICES ASSUME NEW k \in Hops, k < i, ~ Reached(c, k) PROVE FALSE
      OBVIOUS
    <3>1. i \in Hops
      BY DEF Hops
    <3> QED BY <1>f, <1>o, <3>1 DEF Fresh
  <2>1. ~ (c > circ'[0])
    <3>1. CASE i = 0
      <4>1. circ'[0] = c /\ c \in Nat
        BY <1>f, <3>1 DEF Circuits
      <4> QED BY <4>1
    <3>2. CASE i # 0
      <4>1. i \in Hops
        BY <3>2 DEF Hops
      <4> QED BY <1>f, <1>o, <4>1 DEF Fresh
    <3> QED BY <3>1, <3>2
  <2>2. ASSUME NEW k \in Hops, NEW j \in Hops, k < j, ~ Reached(c, k)'
        PROVE  link'[<<c, j>>].sv = "none"
    <3>1. ~ Reached(c, k)
      BY <1>n, <2>2
    <3>2. ~ (k < i) /\ k # i
      BY <1>o, <2>0, <3>1 DEF Reached
    <3>3. i < j /\ j # i + 1
      BY <1>0, <2>2, <3>2, HopNode
    <3> QED BY <1>e, <1>l, <3>3
  <2>3. ASSUME NEW k \in 0 .. D, NEW j \in Hops, k < j, On(c, k)', pc'[k] \in {"extend", "connect"}
        PROVE  link'[<<c, j>>].sv = "none"
    <3>1. k # i /\ On(c, k) /\ pc[k] \in {"extend", "connect"}
      BY <1>a, <2>3
    <3>2. \A n \in Hops : k < n => link[<<c, n>>].sv = "none"
      BY <1>f, <3>1 DEF Fresh
    <3>3. ~ (k < i)
      <4> SUFFICES ASSUME k < i PROVE FALSE
        OBVIOUS
      <4>1. i \in Hops
        BY DEF Hops
      <4> QED BY <1>o, <3>2, <4>1
    <3>4. j # i + 1
      BY <1>0, <2>3, <3>1, <3>3
    <3> QED BY <1>l, <2>3, <3>2, <3>4
  <2> QED BY <2>1, <2>2, <2>3 DEF Fresh
<1>t. ASSUME NEW b \in Bases, i + 1 \in Seg(b)
      PROVE  /\ \A j \in Seg(b) : j # i + 1 =>
                   /\ j \in Hops /\ link'[<<c, j>>].down = <<>> /\ link'[<<c, j>>].up = <<>>
                   /\ ~ Busy(c, j)' /\ ~ (On(c, j)' /\ Holding(j)')
             /\ On(c, b) => pc'[b] = "extended" /\ i = b + depth'[b] /\ depth'[b] \in 0 .. Last(b)
  <2>1. CASE b = i
    <3>1. \A j \in Seg(b) : ~ Busy(c, j)
      BY <1>f, <2>1 DEF Single
    <3>2. \A j \in Seg(b) : j # i + 1 => ~ Busy(c, j)'
      BY <1>b, <3>1, SegHop
    <3>3. Last(b) \in Nat
      BY Line
    <3> QED BY <1>0, <2>1, <3>2, <3>3, SegHop DEF Busy
  <2>2. CASE b # i
    <3>1. i # 0 /\ i # Z
      BY <1>t, <2>2, LineAssumption DEF Bases, Seg, End
    <3>2. i \in Hops /\ i \in Seg(b)
      BY <1>t, <2>2, <3>1, LineAssumption DEF Bases, Seg, End, Hops
    <3>3. Busy(c, i)
      BY <1>i, <3>1, <3>2
    <3>4. \A j \in Seg(b) : j # i + 1 => ~ Busy(c, j)'
      BY <1>b, <1>f, <3>1, <3>2, <3>3, SegHop DEF Single
    <3>5. ASSUME On(c, b) PROVE pc'[b] = "extended" /\ i = b + depth'[b] /\ depth'[b] \in 0 .. Last(b)
      <4>1. pc[b] \in {"extended", "round"} /\ Phase(c, b)
        BY <1>f, <3>2, <3>3, <3>5 DEF Single, Circuit
      <4>2. Kind(c, b, i) /\ depth[b] \in 0 .. Last(b)
        BY <3>2, <3>5, <4>1 DEF Phase
      <4>3. pc[b] = "extended" /\ i = b + depth[b]
        BY <3>1, <4>2 DEF Kind, Holding
      <4> QED BY <1>a, <2>2, <4>2, <4>3, BaseNode DEF Acts
    <3> QED BY <3>4, <3>5, SegHop DEF Busy
  <2> QED BY <2>1, <2>2
<1>5. Single(c)'
  <2>1. ASSUME NEW k \in Bases
        PROVE  /\ On(c, k)' /\ pc'[k] \notin {"extended", "round"} => \A j \in Seg(k) : ~ Busy(c, j)'
               /\ \A n, j \in Seg(k) : Busy(c, n)' /\ Busy(c, j)' => n = j
    <3>1. CASE i + 1 \in Seg(k)
      BY <1>a, <1>t, <3>1, BaseNode
    <3>2. CASE i + 1 \notin Seg(k)
      <4>1. \A j \in Seg(k) : Busy(c, j)' => Busy(c, j)
        BY <1>b, <3>2, SegHop
      <4>2. k # i
        BY <3>2, Line
      <4> QED BY <1>a, <1>f, <4>1, <4>2, BaseNode DEF Single
    <3> QED BY <3>1, <3>2
  <2> QED BY <2>1 DEF Single
<1>c. link'[<<c, i + 1>>].down # <<>> /\ Cell1(c, i + 1)' = m /\ link'[<<c, i + 1>>].up = <<>>
  BY DEF Holds, Cell1
<1>8. \A j \in Hops : Data(c, j)' => Data(c, j) /\ j # i + 1
  <2> SUFFICES ASSUME NEW j \in Hops, Data(c, j)' PROVE Data(c, j) /\ j # i + 1
    OBVIOUS
  <2>1. On(c, j)' /\ pc'[j] \in {"round", "quorum"} => On(c, j) /\ pc[j] \in {"round", "quorum"}
    BY <1>h DEF Holding
  <2>2. j # i + 1
    BY <1>c, <1>y DEF Data
  <2> QED BY <1>l, <2>1, <2>2 DEF Data, Cell1, Reply1
<1>r. \A n : \A j \in Hops : DataIs(c, j, n) => DataIs(c, j, n)'
  <2> SUFFICES ASSUME NEW n, NEW j \in Hops, DataIs(c, j, n) PROVE DataIs(c, j, n)'
    OBVIOUS
  <2>1. On(c, j)' /\ pc'[j] \in {"round", "quorum"} => On(c, j) /\ pc[j] \in {"round", "quorum"}
    BY <1>h DEF Holding
  <2>2. CASE j = i + 1
    BY <1>c, <1>y, <2>2 DEF DataIs
  <2>3. CASE j # i + 1
    BY <1>l, <2>1, <2>3 DEF DataIs, Cell1, Reply1
  <2> QED BY <2>2, <2>3
<1>9. Ids(c)'
  <2>2. ASSUME NEW k \in Bases, On(c, k)', NEW j \in Seg(k)
        PROVE  DataIs(c, j, Asked(k))'
    <3>1. On(c, k) /\ Asked(k)' = Asked(k) /\ j \in Hops
      BY <1>a, <2>2, BaseNode, SegHop DEF Asked
    <3>2. DataIs(c, j, Asked(k))
      BY <1>f, <3>1 DEF Ids
    <3> DEFINE n == Asked(k)
    <3>3. DataIs(c, j, n)'
      BY <1>r, <3>1, <3>2
    <3> QED BY <3>1, <3>3
  <2>3. ASSUME On(c, 0)', ~ On(c, Z)', NEW j \in Seg(Z), Data(c, j)'
        PROVE  /\ DataIs(c, j, round)' /\ pc'[0] = "round"
               /\ \A k \in Seg(0) : ~ Busy(c, k)'
    <3>1. On(c, 0) /\ ~ On(c, Z) /\ j \in Hops /\ Data(c, j)
      BY <1>a, <1>8, <2>3, SegHop, BaseNode DEF Bases
    <3>2. DataIs(c, j, round) /\ pc[0] = "round" /\ \A k \in Seg(0) : ~ Busy(c, k)
      BY <1>f, <2>3, <3>1 DEF Ids
    <3>3. DataIs(c, j, round)'
      BY <1>r, <3>1, <3>2
    <3>4. i >= j /\ i > Z /\ i # 0
      <4>1. ~ (i < j)
        BY <1>x, <3>1 DEF Data
      <4> QED BY <1>0, <3>1, <4>1, Line
    <3>5. \A k \in Seg(0) : ~ Busy(c, k)'
      <4>1. i + 1 \notin Seg(0)
        BY <1>0, <3>4, LineAssumption DEF Seg, End
      <4> QED BY <1>b, <3>2, <4>1, SegHop DEF Bases
    <3> QED BY <1>a, <3>2, <3>3, <3>4, <3>5, BaseNode DEF Bases
  <2> QED BY <2>2, <2>3 DEF Ids
<1>10. ASSUME NEW k \in Bases PROVE Phase(c, k)'
  <2> SUFFICES ASSUME On(c, k)', pc'[k] \in {"extended", "round"}
               PROVE  /\ depth'[k] \in 0 .. Last(k)
                      /\ \A j \in Seg(k) : Kind(c, k, j)' /\ (pc'[k] = "extended" => Built(c, k, j)')
    BY DEF Phase
  <2>0. On(c, k)
    BY <1>a, BaseNode
  <2>1. CASE i + 1 \in Seg(k)
    <3>1. pc'[k] = "extended" /\ i = k + depth'[k] /\ depth'[k] \in 0 .. Last(k)
      BY <1>t, <2>0, <2>1
    <3>2. i + 1 = k + 1 + depth'[k]
      BY <3>1, BaseNode
    <3>3. ASSUME NEW j \in Seg(k), j # i + 1 PROVE Kind(c, k, j)' /\ Built(c, k, j)'
      <4>1. j > i + 1 => link'[<<c, j>>].sv = "none"
        <5>1. j \in Hops /\ j \in Nat
          BY SegHop, HopNode
        <5>2. j > i + 1 => i < j
          BY <1>0, <5>1
        <5> QED BY <1>e, <1>l, <3>3, <5>1, <5>2
      <4> QED BY <1>t, <2>1, <3>2, <3>3, <4>1 DEF Kind, Built
    <3>4. Kind(c, k, i + 1)' /\ Built(c, k, i + 1)'
      <4>1. m.type \in Expected(k)'
        BY <3>1 DEF Expected
      <4>2. ~ (i + 1 > i + 1)
        BY <1>0
      <4> QED BY <1>c, <1>y, <3>2, <4>1, <4>2 DEF Kind, Built
    <3> QED BY <3>1, <3>3, <3>4
  <2>2. CASE i + 1 \notin Seg(k)
    <3>0. k # i
      BY <2>2, Line
    <3>1. /\ pc'[k] = pc[k] /\ depth'[k] = depth[k] /\ Phase(c, k)
          /\ Expected(k)' = Expected(k)
      BY <1>a, <3>0, BaseNode DEF Circuit, Acts, Expected
    <3>2. /\ depth[k] \in 0 .. Last(k)
          /\ \A j \in Seg(k) : Kind(c, k, j) /\ (pc[k] = "extended" => Built(c, k, j))
      BY <2>0, <3>1 DEF Phase
    <3>3. k + 1 + depth[k] \in Hops
      <4>1. k \in Nat /\ End(k) \in 1 .. D /\ k + 1 + Last(k) = End(k) /\ Last(k) \in Nat
        BY Line DEF Hops
      <4> QED BY <3>2, <4>1, LineAssumption DEF Hops
    <3>4. ASSUME NEW j \in Seg(k) PROVE  Kind(c, k, j)'
      <4>1. j \in Hops /\ j # i + 1
        BY <2>2, SegHop
      <4> QED BY <1>h, <1>l, <3>1, <3>2, <4>1 DEF Kind, Cell1, Reply1
    <3>5. ASSUME NEW j \in Seg(k), Built(c, k, j) PROVE  Built(c, k, j)'
      <4>1. j \in Hops /\ j # i + 1
        BY <2>2, SegHop
      <4> QED BY <1>l, <1>n, <3>1, <3>3, <3>5, <4>1 DEF Built, Cell1
    <3> QED BY <3>1, <3>2, <3>4, <3>5
  <2> QED BY <2>1, <2>2
<1>11. ASSUME NEW k \in Bases PROVE Counts(c, k)'
  <2>0. Counts(c, k)
    BY DEF Circuit
  <2>1. \A n : Counted(c, k, n) <=> Counted(c, k, n)'
    BY <1>a, <1>n, EndIs DEF Counted
  <2>2. ASSUME NEW j \in Seg(k) PROVE Numbered(c, k, j)'
    <3>1. j \in Hops /\ Numbered(c, k, j)
      BY <2>0, SegHop DEF Counts
    <3>2. CASE j = i + 1
      BY <1>c, <3>2 DEF Numbered
    <3>3. CASE j # i + 1
      BY <1>l, <2>1, <3>1, <3>3 DEF Numbered, Cell1, Reply1
    <3> QED BY <3>2, <3>3
  <2>3. Tally(c, k)'
    <3>1. Tally(c, k) /\ mode' = mode
      BY <2>0 DEF Counts, Acts
    <3>2. /\ On(c, k)' <=> On(c, k)
          /\ Asked(k)' = Asked(k)
          /\ On(c, End(k))' <=> On(c, End(k))
          /\ pc'[k] = pc[k] \/ (pc[k] = "connect" /\ pc'[k] = "extended")
      BY <1>a, BaseNode, EndIs DEF Asked
    <3>3. pc'[k] = "round" => depth'[k] = depth[k]
      BY DEF Acts
    <3> QED BY <2>1, <3>1, <3>2, <3>3 DEF Tally
  <2> QED BY <2>2, <2>3 DEF Counts
<1> QED BY <1>1, <1>2, <1>3, <1>4, <1>5, <1>9, <1>10, <1>11 DEF Circuit

(* vm1 begins with circuit c, which nothing has touched. *)
LEMMA Established ==
    ASSUME NEW c \in Circuits, Circuit(c), c > circ[0], circ'[0] = c, pc'[0] = "connect",
           \A k \in 0 .. D : k # 0 => pc'[k] = pc[k] /\ circ'[k] = circ[k],
           link' = link
    PROVE  Circuit(c)'
<1>1. Fresh(c) /\ \A j \in Hops : Wire(c, j)
  BY DEF Circuit
<1>2. \A j \in Hops : link'[<<c, j>>].sv = "none"
  BY <1>1 DEF Fresh
<1>3. ASSUME NEW j \in Hops
      PROVE  /\ ~ On(c, j)' /\ ~ link'[<<c, j>>].cl
             /\ link'[<<c, j>>].down = <<>> /\ link'[<<c, j>>].up = <<>>
  <2>1. Wire(c, j) /\ link[<<c, j>>].sv = "none" /\ j # 0 /\ j \in 0 .. D
    BY <1>1, <1>2, HopNode, Line
  <2>2. ~ On(c, j) /\ ~ link[<<c, j>>].cl /\ link[<<c, j>>].down = <<>> /\ link[<<c, j>>].up = <<>>
    BY <2>1 DEF Wire
  <2> QED BY <2>1, <2>2 DEF On
<1>4. \A j \in Hops : (Wire(c, j) /\ Sane(c, j) /\ Notes(c, j))' /\ ~ Busy(c, j)'
  BY <1>2, <1>3 DEF Wire, Sane, Notes, Busy
<1>5. Fresh(c)'
  BY <1>2 DEF Fresh, Circuits
<1>6. Single(c)'
  BY <1>4, SegHop DEF Single
<1>7. Ids(c)'
  <2>1. \A j \in Hops : ~ Data(c, j)'
    BY <1>3 DEF Data
  <2>2. ASSUME NEW b \in Bases, NEW j \in Seg(b) PROVE DataIs(c, j, Asked(b))'
    BY <1>3, SegHop DEF DataIs
  <2>3. \A j \in Seg(Z) : ~ Data(c, j)'
    BY <2>1, SegHop DEF Bases
  <2> QED BY <2>2, <2>3 DEF Ids
<1>8. ASSUME NEW b \in Bases PROVE Phase(c, b)' /\ Counts(c, b)'
  <2>1. b = Z => ~ On(c, b)'
    BY <1>3, Line
  <2>2. b = 0 => pc'[b] = "connect"
    OBVIOUS
  <2>3. Phase(c, b)'
    BY <2>1, <2>2 DEF Phase, Bases
  <2>4. Tally(c, b)'
    BY <1>3, <2>1, <2>2, EndIs DEF Tally, Bases
  <2>5. \A j \in Seg(b) : Numbered(c, b, j)'
    BY <1>3, SegHop DEF Numbered
  <2> QED BY <2>3, <2>4, <2>5 DEF Counts
<1> QED BY <1>4, <1>5, <1>6, <1>7, <1>8 DEF Circuit
--------------------------------------------------------------------------------
(* What the operators on the connections do. *)
Links == [Circuits \X Hops -> Linked]

(* What taking a cell off the connection from upstream leaves. *)
LEMMA TakeCellIs ==
    ASSUME NEW l \in Links, NEW i \in Hops, circ[i] \in Circuits, l[In(i)].down # <<>>
    PROVE  /\ TakeCell(l, i) \in Links
           /\ \A x \in Circuits \X Hops : x # In(i) => TakeCell(l, i)[x] = l[x]
           /\ TakeCell(l, i)[In(i)].cl = l[In(i)].cl /\ TakeCell(l, i)[In(i)].sv = l[In(i)].sv
           /\ TakeCell(l, i)[In(i)].up = l[In(i)].up
           /\ TakeCell(l, i)[In(i)].down = Tail(l[In(i)].down)
<1>1. In(i) \in Circuits \X Hops
  BY DEF In
<1>2. l[In(i)] \in Linked /\ l[In(i)].down \in Seq(Cells) /\ Tail(l[In(i)].down) \in Seq(Cells)
  BY <1>1, HeadCell DEF Links, Linked
<1> QED BY <1>1, <1>2 DEF TakeCell, Links, Linked

(* What taking a reply off the connection to the next hop leaves. *)
LEMMA TakeReplyIs ==
    ASSUME NEW l \in Links, NEW i \in 0 .. D, i + 1 \in Hops, circ[i] \in Circuits, l[Out(i)].up # <<>>
    PROVE  /\ TakeReply(l, i) \in Links
           /\ \A x \in Circuits \X Hops : x # Out(i) => TakeReply(l, i)[x] = l[x]
           /\ TakeReply(l, i)[Out(i)].cl = l[Out(i)].cl /\ TakeReply(l, i)[Out(i)].sv = l[Out(i)].sv
           /\ TakeReply(l, i)[Out(i)].down = l[Out(i)].down
           /\ TakeReply(l, i)[Out(i)].up = Tail(l[Out(i)].up)
<1>1. Out(i) \in Circuits \X Hops
  BY DEF Out
<1>2. l[Out(i)] \in Linked /\ l[Out(i)].up \in Seq(Cells) /\ Tail(l[Out(i)].up) \in Seq(Cells)
  BY <1>1, HeadCell DEF Links, Linked
<1> QED BY <1>1, <1>2 DEF TakeReply, Links, Linked

(* An empty queue with one cell appended holds that cell. *)
LEMMA Append1 ==
    ASSUME NEW m \in Cells
    PROVE  Append(<<>>, m) \in Seq(Cells) /\ Holds(Append(<<>>, m), m)
<1>1. Append(<<>>, m) = <<m>> /\ <<m>> \in Seq(Cells)
  OBVIOUS
<1>2. <<m>> # <<>> /\ Head(<<m>>) = m /\ Tail(<<m>>) = <<>>
  OBVIOUS
<1> QED BY <1>1, <1>2 DEF Holds

(* An empty connection takes m upwards, if there is someone to read it. *)
LEMMA SendUpIs ==
    ASSUME NEW l \in Links, NEW i \in Hops, circ[i] \in Circuits, NEW m \in Cells, l[In(i)].up = <<>>
    PROVE  /\ SendUp(l, i, m) \in Links
           /\ \A x \in Circuits \X Hops : x # In(i) => SendUp(l, i, m)[x] = l[x]
           /\ SendUp(l, i, m)[In(i)].cl = l[In(i)].cl /\ SendUp(l, i, m)[In(i)].sv = l[In(i)].sv
           /\ SendUp(l, i, m)[In(i)].down = l[In(i)].down
           /\ l[In(i)].cl => Holds(SendUp(l, i, m)[In(i)].up, m)
           /\ ~ l[In(i)].cl => SendUp(l, i, m)[In(i)].up = <<>>
<1>1. In(i) \in Circuits \X Hops /\ l[In(i)] \in Linked
  BY DEF In, Links
<1>2. CASE l[In(i)].cl
  <2> DEFINE q == Append(l[In(i)].up, m)
  <2>1. SendUp(l, i, m) = [l EXCEPT ![In(i)].up = q]
    BY <1>2 DEF SendUp
  <2>2. q \in Seq(Cells) /\ Holds(q, m)
    BY Append1
  <2> HIDE DEF q
  <2>3. SendUp(l, i, m) \in Links
    BY <1>1, <2>1, <2>2, ZenonT(60) DEF Links, Linked
  <2>4. \A x \in Circuits \X Hops : x # In(i) => SendUp(l, i, m)[x] = l[x]
    BY <2>1 DEF Links
  <2>5. /\ SendUp(l, i, m)[In(i)].cl = l[In(i)].cl /\ SendUp(l, i, m)[In(i)].sv = l[In(i)].sv
        /\ SendUp(l, i, m)[In(i)].down = l[In(i)].down /\ SendUp(l, i, m)[In(i)].up = q
    BY <1>1, <2>1 DEF Links, Linked
  <2> QED BY <1>2, <2>2, <2>3, <2>4, <2>5
<1>3. CASE ~ l[In(i)].cl
  <2>1. SendUp(l, i, m) = l
    BY <1>3 DEF SendUp
  <2> QED BY <1>3, <2>1
<1> QED BY <1>2, <1>3

(* Likewise downwards. *)
LEMMA SendDownIs ==
    ASSUME NEW l \in Links, NEW i \in 0 .. D, i + 1 \in Hops, circ[i] \in Circuits, NEW m \in Cells,
           l[Out(i)].down = <<>>
    PROVE  /\ SendDown(l, i, m) \in Links
           /\ \A x \in Circuits \X Hops : x # Out(i) => SendDown(l, i, m)[x] = l[x]
           /\ SendDown(l, i, m)[Out(i)].cl = l[Out(i)].cl /\ SendDown(l, i, m)[Out(i)].sv = l[Out(i)].sv
           /\ SendDown(l, i, m)[Out(i)].up = l[Out(i)].up
           /\ l[Out(i)].sv \in {"queued", "open"} => Holds(SendDown(l, i, m)[Out(i)].down, m)
           /\ l[Out(i)].sv \notin {"queued", "open"} => SendDown(l, i, m)[Out(i)].down = <<>>
<1>1. Out(i) \in Circuits \X Hops /\ l[Out(i)] \in Linked
  BY DEF Out, Links
<1>2. CASE l[Out(i)].sv \in {"queued", "open"}
  <2> DEFINE q == Append(l[Out(i)].down, m)
  <2>1. SendDown(l, i, m) = [l EXCEPT ![Out(i)].down = q]
    BY <1>2 DEF SendDown
  <2>2. q \in Seq(Cells) /\ Holds(q, m)
    BY Append1
  <2> HIDE DEF q
  <2>3. SendDown(l, i, m) \in Links
    BY <1>1, <2>1, <2>2 DEF Links, Linked
  <2>4. \A x \in Circuits \X Hops : x # Out(i) => SendDown(l, i, m)[x] = l[x]
    BY <2>1 DEF Links
  <2>5. /\ SendDown(l, i, m)[Out(i)].cl = l[Out(i)].cl /\ SendDown(l, i, m)[Out(i)].sv = l[Out(i)].sv
        /\ SendDown(l, i, m)[Out(i)].up = l[Out(i)].up /\ SendDown(l, i, m)[Out(i)].down = q
    BY <1>1, <2>1 DEF Links, Linked
  <2> QED BY <1>2, <2>2, <2>3, <2>4, <2>5
<1>3. CASE l[Out(i)].sv \notin {"queued", "open"}
  <2>1. SendDown(l, i, m) = l
    BY <1>3 DEF SendDown
  <2> QED BY <1>3, <2>1
<1> QED BY <1>2, <1>3

(* The connections other than <<c, j>> are left alone. *)
Only(c, j) ==
    \A d \in Circuits, k \in Hops : d # c \/ k # j => link'[<<d, k>>] = link[<<d, k>>]

(* The connections other than <<c, j>> and <<c, j + 1>>. *)
Only2(c, j) ==
    \A d \in Circuits, k \in Hops : d # c \/ k \notin {j, j + 1} => link'[<<d, k>>] = link[<<d, k>>]

(* A machine takes a request and answers it. *)
LEMMA AnswersCell ==
    ASSUME link \in Links, NEW i \in Hops, NEW c \in Circuits, c = circ[i], Wire(c, i), NEW m \in Cells,
           link[In(i)].down # <<>>, link' = SendUp(TakeCell(link, i), i, m)
    PROVE  /\ link' \in Links /\ Replied(c, i, m) /\ Only(c, i)
           /\ link[<<c, i>>].down # <<>> /\ link[<<c, i>>].up = <<>>
<1> DEFINE l == TakeCell(link, i)
<1>1. In(i) = <<c, i>> /\ link[<<c, i>>].up = <<>> /\ Tail(link[<<c, i>>].down) = <<>>
  BY DEF In, Wire
<1>t. /\ TakeCell(link, i) \in Links
      /\ \A x \in Circuits \X Hops : x # In(i) => TakeCell(link, i)[x] = link[x]
      /\ TakeCell(link, i)[In(i)].cl = link[In(i)].cl /\ TakeCell(link, i)[In(i)].sv = link[In(i)].sv
      /\ TakeCell(link, i)[In(i)].up = link[In(i)].up
      /\ TakeCell(link, i)[In(i)].down = Tail(link[In(i)].down)
  BY TakeCellIs
<1>2. /\ l \in Links
      /\ \A x \in Circuits \X Hops : x # In(i) => l[x] = link[x]
      /\ l[In(i)].cl = link[In(i)].cl /\ l[In(i)].sv = link[In(i)].sv
      /\ l[In(i)].up = <<>> /\ l[In(i)].down = <<>>
  BY <1>1, <1>t
<1> HIDE DEF l
<1>3. /\ link' \in Links
      /\ \A x \in Circuits \X Hops : x # In(i) => link'[x] = l[x]
      /\ link'[In(i)].cl = l[In(i)].cl /\ link'[In(i)].sv = l[In(i)].sv
      /\ link'[In(i)].down = l[In(i)].down
      /\ l[In(i)].cl => Holds(link'[In(i)].up, m)
      /\ ~ l[In(i)].cl => link'[In(i)].up = <<>>
  BY <1>2, SendUpIs DEF l
<1>4. Replied(c, i, m)
  BY <1>1, <1>2, <1>3 DEF Replied
<1>5. Only(c, i)
  BY <1>1, <1>2, <1>3 DEF Only
<1> QED BY <1>1, <1>3, <1>4, <1>5

(* A machine takes a reply and passes another on to its upstream. *)
LEMMA AnswersBack ==
    ASSUME link \in Links, NEW i \in Hops, i + 1 \in Hops, NEW c \in Circuits, c = circ[i], NEW m \in Cells,
           link[<<c, i>>].down = <<>>, link[<<c, i>>].up = <<>>, Wire(c, i + 1),
           link[Out(i)].up # <<>>, link' = SendUp(TakeReply(link, i), i, m)
    PROVE  link' \in Links /\ Replied(c, i, m) /\ Taken(c, i + 1) /\ Only2(c, i)
<1> DEFINE l == TakeReply(link, i)
<1>0. i \in 0 .. D /\ i + 1 # i
  BY HopNode
<1>1. /\ In(i) = <<c, i>> /\ Out(i) = <<c, i + 1>> /\ In(i) # Out(i)
      /\ In(i) \in Circuits \X Hops /\ Out(i) \in Circuits \X Hops
      /\ Tail(link[<<c, i + 1>>].up) = <<>>
  BY <1>0 DEF In, Out, Wire
<1>2. /\ l \in Links
      /\ \A x \in Circuits \X Hops : x # Out(i) => l[x] = link[x]
      /\ l[Out(i)].cl = link[Out(i)].cl /\ l[Out(i)].sv = link[Out(i)].sv
      /\ l[Out(i)].up = <<>> /\ l[Out(i)].down = link[Out(i)].down
  BY <1>0, <1>1, TakeReplyIs, ZenonT(60)
<1> HIDE DEF l
<1>4. l[In(i)] = link[In(i)]
  BY <1>1, <1>2
<1>3. /\ link' \in Links
      /\ \A x \in Circuits \X Hops : x # In(i) => link'[x] = l[x]
      /\ link'[In(i)].cl = l[In(i)].cl /\ link'[In(i)].sv = l[In(i)].sv
      /\ link'[In(i)].down = l[In(i)].down
      /\ l[In(i)].cl => Holds(link'[In(i)].up, m)
      /\ ~ l[In(i)].cl => link'[In(i)].up = <<>>
  BY <1>1, <1>2, <1>4, SendUpIs DEF l
<1>5. Replied(c, i, m)
  BY <1>1, <1>3, <1>4 DEF Replied
<1>6. Taken(c, i + 1)
  <2>1. link'[Out(i)] = l[Out(i)]
    BY <1>1, <1>3
  <2> QED BY <1>1, <1>2, <2>1 DEF Taken
<1>7. Only2(c, i)
  BY <1>1, <1>2, <1>3 DEF Only2
<1> QED BY <1>3, <1>5, <1>6, <1>7

(* A machine answers a request it took before. *)
LEMMA AnswersNow ==
    ASSUME link \in Links, NEW i \in Hops, NEW c \in Circuits, c = circ[i], NEW m \in Cells,
           link[<<c, i>>].down = <<>>, link[<<c, i>>].up = <<>>,
           link' = SendUp(link, i, m)
    PROVE  link' \in Links /\ Replied(c, i, m) /\ Only(c, i)
<1>1. In(i) = <<c, i>>
  BY DEF In
<1>3. /\ link' \in Links
      /\ \A x \in Circuits \X Hops : x # In(i) => link'[x] = link[x]
      /\ link'[In(i)].cl = link[In(i)].cl /\ link'[In(i)].sv = link[In(i)].sv
      /\ link'[In(i)].down = link[In(i)].down
      /\ link[In(i)].cl => Holds(link'[In(i)].up, m)
      /\ ~ link[In(i)].cl => link'[In(i)].up = <<>>
  BY <1>1, SendUpIs
<1> QED BY <1>1, <1>3 DEF Replied, Only

(* A machine takes a request and passes another on to the next hop. *)
LEMMA PassesCell ==
    ASSUME link \in Links, NEW i \in Hops, i + 1 \in Hops, NEW c \in Circuits, c = circ[i], NEW m \in Cells,
           link[<<c, i + 1>>].down = <<>>, link[<<c, i + 1>>].up = <<>>, Wire(c, i),
           link[In(i)].down # <<>>, link' = SendDown(TakeCell(link, i), i, m)
    PROVE  link' \in Links /\ Cleared(c, i) /\ Passed(c, i + 1, m) /\ Only2(c, i)
<1> DEFINE l == TakeCell(link, i)
<1>0. i \in 0 .. D /\ i + 1 # i
  BY HopNode
<1>1. /\ In(i) = <<c, i>> /\ Out(i) = <<c, i + 1>> /\ In(i) # Out(i)
      /\ In(i) \in Circuits \X Hops /\ Out(i) \in Circuits \X Hops
      /\ Tail(link[<<c, i>>].down) = <<>>
  BY <1>0 DEF In, Out, Wire
<1>t. /\ TakeCell(link, i) \in Links
      /\ \A x \in Circuits \X Hops : x # In(i) => TakeCell(link, i)[x] = link[x]
      /\ TakeCell(link, i)[In(i)].cl = link[In(i)].cl /\ TakeCell(link, i)[In(i)].sv = link[In(i)].sv
      /\ TakeCell(link, i)[In(i)].up = link[In(i)].up
      /\ TakeCell(link, i)[In(i)].down = Tail(link[In(i)].down)
  BY TakeCellIs
<1>2. /\ l \in Links
      /\ \A x \in Circuits \X Hops : x # In(i) => l[x] = link[x]
      /\ l[In(i)].cl = link[In(i)].cl /\ l[In(i)].sv = link[In(i)].sv
      /\ l[In(i)].up = link[In(i)].up /\ l[In(i)].down = <<>>
  BY <1>1, <1>t
<1> HIDE DEF l
<1>4. l[Out(i)] = link[Out(i)]
  BY <1>1, <1>2
<1>3. /\ link' \in Links
      /\ \A x \in Circuits \X Hops : x # Out(i) => link'[x] = l[x]
      /\ link'[Out(i)].cl = l[Out(i)].cl /\ link'[Out(i)].sv = l[Out(i)].sv
      /\ link'[Out(i)].up = l[Out(i)].up
      /\ l[Out(i)].sv \in {"queued", "open"} => Holds(link'[Out(i)].down, m)
      /\ l[Out(i)].sv \notin {"queued", "open"} => link'[Out(i)].down = <<>>
  BY <1>0, <1>1, <1>2, <1>4, SendDownIs DEF l
<1>5. Passed(c, i + 1, m)
  BY <1>1, <1>3, <1>4 DEF Passed
<1>6. Cleared(c, i)
  <2>1. link'[In(i)] = l[In(i)]
    BY <1>1, <1>3
  <2> QED BY <1>1, <1>2, <2>1 DEF Cleared
<1>7. Only2(c, i)
  BY <1>1, <1>2, <1>3 DEF Only2
<1> QED BY <1>3, <1>5, <1>6, <1>7

(* A machine takes a reply and sends its next request. *)
LEMMA SendsNext ==
    ASSUME link \in Links, NEW i \in 0 .. D, i + 1 \in Hops, NEW c \in Circuits, c = circ[i], NEW m \in Cells,
           Wire(c, i + 1), link[Out(i)].up # <<>>, link' = SendDown(TakeReply(link, i), i, m)
    PROVE  link' \in Links /\ Passed(c, i + 1, m) /\ Only(c, i + 1)
<1> DEFINE l == TakeReply(link, i)
<1>1. /\ Out(i) = <<c, i + 1>> /\ Out(i) \in Circuits \X Hops
      /\ Tail(link[<<c, i + 1>>].up) = <<>> /\ link[<<c, i + 1>>].down = <<>>
  BY DEF Out, Wire
<1>t. /\ TakeReply(link, i) \in Links
      /\ \A x \in Circuits \X Hops : x # Out(i) => TakeReply(link, i)[x] = link[x]
      /\ TakeReply(link, i)[Out(i)].cl = link[Out(i)].cl /\ TakeReply(link, i)[Out(i)].sv = link[Out(i)].sv
      /\ TakeReply(link, i)[Out(i)].down = link[Out(i)].down
      /\ TakeReply(link, i)[Out(i)].up = Tail(link[Out(i)].up)
  BY TakeReplyIs
<1>2. /\ l \in Links
      /\ \A x \in Circuits \X Hops : x # Out(i) => l[x] = link[x]
      /\ l[Out(i)].cl = link[Out(i)].cl /\ l[Out(i)].sv = link[Out(i)].sv
      /\ l[Out(i)].up = <<>> /\ l[Out(i)].down = <<>>
  BY <1>1, <1>t
<1> HIDE DEF l
<1>3. /\ link' \in Links
      /\ \A x \in Circuits \X Hops : x # Out(i) => link'[x] = l[x]
      /\ link'[Out(i)].cl = l[Out(i)].cl /\ link'[Out(i)].sv = l[Out(i)].sv
      /\ link'[Out(i)].up = l[Out(i)].up
      /\ l[Out(i)].sv \in {"queued", "open"} => Holds(link'[Out(i)].down, m)
      /\ l[Out(i)].sv \notin {"queued", "open"} => link'[Out(i)].down = <<>>
  BY <1>1, <1>2, SendDownIs DEF l
<1>5. Passed(c, i + 1, m)
  BY <1>1, <1>2, <1>3 DEF Passed
<1>7. Only(c, i + 1)
  BY <1>1, <1>2, <1>3 DEF Only
<1> QED BY <1>3, <1>5, <1>7

(* A machine sends a request on a quiet connection. *)
LEMMA SendsFirst ==
    ASSUME link \in Links, NEW i \in 0 .. D, i + 1 \in Hops, NEW c \in Circuits, c = circ[i], NEW m \in Cells,
           link[<<c, i + 1>>].down = <<>>, link[<<c, i + 1>>].up = <<>>, link' = SendDown(link, i, m)
    PROVE  link' \in Links /\ Passed(c, i + 1, m) /\ Only(c, i + 1)
<1>1. Out(i) = <<c, i + 1>>
  BY DEF Out
<1>3. /\ link' \in Links
      /\ \A x \in Circuits \X Hops : x # Out(i) => link'[x] = link[x]
      /\ link'[Out(i)].cl = link[Out(i)].cl /\ link'[Out(i)].sv = link[Out(i)].sv
      /\ link'[Out(i)].up = link[Out(i)].up
      /\ link[Out(i)].sv \in {"queued", "open"} => Holds(link'[Out(i)].down, m)
      /\ link[Out(i)].sv \notin {"queued", "open"} => link'[Out(i)].down = <<>>
  BY <1>1, SendDownIs
<1> QED BY <1>1, <1>3 DEF Passed, Only

(* A machine takes a request and sends nothing. *)
LEMMA TakesCell ==
    ASSUME link \in Links, NEW i \in Hops, NEW c \in Circuits, c = circ[i], Wire(c, i),
           link[In(i)].down # <<>>, link' = TakeCell(link, i)
    PROVE  link' \in Links /\ Cleared(c, i) /\ Only(c, i)
<1>1. In(i) = <<c, i>> /\ Tail(link[<<c, i>>].down) = <<>>
  BY DEF In, Wire
<1>t. /\ TakeCell(link, i) \in Links
      /\ \A x \in Circuits \X Hops : x # In(i) => TakeCell(link, i)[x] = link[x]
      /\ TakeCell(link, i)[In(i)].cl = link[In(i)].cl /\ TakeCell(link, i)[In(i)].sv = link[In(i)].sv
      /\ TakeCell(link, i)[In(i)].up = link[In(i)].up
      /\ TakeCell(link, i)[In(i)].down = Tail(link[In(i)].down)
  BY TakeCellIs
<1>2. Cleared(c, i)
  BY <1>1, <1>t DEF Cleared
<1>3. Only(c, i)
  BY <1>1, <1>t DEF Only
<1> QED BY <1>t, <1>2, <1>3

(* A machine takes a reply and sends nothing. *)
LEMMA TakesReply ==
    ASSUME link \in Links, NEW i \in 0 .. D, i + 1 \in Hops, NEW c \in Circuits, c = circ[i], Wire(c, i + 1),
           link[Out(i)].up # <<>>, link' = TakeReply(link, i)
    PROVE  link' \in Links /\ Taken(c, i + 1) /\ Only(c, i + 1)
<1>1. Out(i) = <<c, i + 1>> /\ Tail(link[<<c, i + 1>>].up) = <<>>
  BY DEF Out, Wire
<1>t. /\ TakeReply(link, i) \in Links
      /\ \A x \in Circuits \X Hops : x # Out(i) => TakeReply(link, i)[x] = link[x]
      /\ TakeReply(link, i)[Out(i)].cl = link[Out(i)].cl /\ TakeReply(link, i)[Out(i)].sv = link[Out(i)].sv
      /\ TakeReply(link, i)[Out(i)].down = link[Out(i)].down
      /\ TakeReply(link, i)[Out(i)].up = Tail(link[Out(i)].up)
  BY TakeReplyIs
<1>2. Taken(c, i + 1)
  BY <1>1, <1>t DEF Taken
<1>3. Only(c, i + 1)
  BY <1>1, <1>t DEF Only
<1> QED BY <1>t, <1>2, <1>3

(* What closing either end of a connection does to it. *)
LEMMA Ends ==
    ASSUME NEW k \in Linked
    PROVE  /\ ServerEnd(k) \in Linked /\ ClientEnd(k) \in Linked
           /\ ServerEnd(k).cl = k.cl /\ ServerEnd(k).up = k.up
           /\ ServerEnd(k).sv = IF k.sv # "none" THEN "closed" ELSE k.sv
           /\ ServerEnd(k).down = IF k.sv # "none" THEN <<>> ELSE k.down
           /\ ClientEnd(k).cl = FALSE /\ ClientEnd(k).up = <<>>
           /\ ClientEnd(k).sv = k.sv /\ ClientEnd(k).down = k.down
<1>1. <<>> \in Seq(Cells)
  OBVIOUS
<1> QED BY <1>1 DEF ServerEnd, ClientEnd, Linked

(* A handler that returns after it took a cell or a reply, or neither. *)
LEMMA Leaves ==
    ASSUME link \in Links, NEW l \in Links, NEW i \in 0 .. D, NEW c \in Circuits, c = circ[i],
           \A d \in Circuits, k \in Hops : d # c \/ k \notin {i, i + 1} => l[<<d, k>>] = link[<<d, k>>],
           i \in Hops => /\ link[<<c, i>>].sv = "open" /\ l[<<c, i>>].sv = "open"
                         /\ l[<<c, i>>].cl = link[<<c, i>>].cl /\ l[<<c, i>>].up = link[<<c, i>>].up,
           i + 1 \in Hops => /\ l[<<c, i + 1>>].sv = link[<<c, i + 1>>].sv
                             /\ l[<<c, i + 1>>].down = link[<<c, i + 1>>].down,
           link' = Left(l, i)
    PROVE  link' \in Links /\ Severed(c, i) /\ Only2(c, i)
<1>0. i + 1 # i /\ In(i) = <<c, i>> /\ Out(i) = <<c, i + 1>>
  BY DEF In, Out
<1>1. ASSUME NEW x \in Circuits \X Hops
      PROVE  link'[x] = IF x = In(i) THEN ServerEnd(l[x])
                        ELSE IF x = Out(i) THEN ClientEnd(l[x]) ELSE l[x]
  BY DEF Left, Links
<1>2. \A x \in Circuits \X Hops : l[x] \in Linked
  BY DEF Links
<1>e. ASSUME NEW k \in Linked
      PROVE  /\ ServerEnd(k) \in Linked /\ ClientEnd(k) \in Linked
             /\ ServerEnd(k).cl = k.cl /\ ServerEnd(k).up = k.up
             /\ k.sv # "none" => ServerEnd(k).sv = "closed" /\ ServerEnd(k).down = <<>>
             /\ ClientEnd(k).cl = FALSE /\ ClientEnd(k).up = <<>>
             /\ ClientEnd(k).sv = k.sv /\ ClientEnd(k).down = k.down
  BY Ends
<1>3. link' \in Links
  <2>1. DOMAIN l = Circuits \X Hops
    BY DEF Links
  <2>2. \A x \in Circuits \X Hops : link'[x] \in Linked
    BY <1>1, <1>2, <1>e, ZenonT(60)
  <2>3. link' = [x \in Circuits \X Hops |-> link'[x]]
    <3>1. link' = [x \in Circuits \X Hops |-> IF x = In(i) THEN ServerEnd(l[x])
                        ELSE IF x = Out(i) THEN ClientEnd(l[x]) ELSE l[x]]
      BY <2>1 DEF Left
    <3> QED BY <1>1, <3>1
  <2> QED BY <2>2, <2>3 DEF Links
<1>4. Severed(c, i)
  <2> SUFFICES ASSUME NEW j \in Hops
               PROVE  /\ link'[<<c, j>>].sv = IF j = i /\ link[<<c, j>>].sv # "none" THEN "closed"
                                              ELSE link[<<c, j>>].sv
                      /\ link'[<<c, j>>].cl = IF j = i + 1 THEN FALSE ELSE link[<<c, j>>].cl
                      /\ link'[<<c, j>>].down = IF j = i /\ link[<<c, j>>].sv # "none" THEN <<>>
                                                ELSE link[<<c, j>>].down
                      /\ link'[<<c, j>>].up = IF j = i + 1 THEN <<>> ELSE link[<<c, j>>].up
    BY DEF Severed
  <2>1. l[<<c, j>>] \in Linked
    BY <1>2
  <2>2. CASE j = i
    <3>1. link'[<<c, j>>] = ServerEnd(l[<<c, j>>])
      BY <1>0, <1>1, <2>2
    <3>2. /\ link'[<<c, j>>].cl = l[<<c, j>>].cl /\ link'[<<c, j>>].up = l[<<c, j>>].up
          /\ l[<<c, j>>].sv # "none" => link'[<<c, j>>].sv = "closed" /\ link'[<<c, j>>].down = <<>>
      BY <2>1, <3>1 DEF ServerEnd, Linked
    <3> QED BY <1>0, <2>2, <3>2
  <2>3. CASE j = i + 1
    <3>1. link'[<<c, j>>] = ClientEnd(l[<<c, j>>])
      BY <1>0, <1>1, <2>3
    <3>2. /\ link'[<<c, j>>].cl = FALSE /\ link'[<<c, j>>].up = <<>>
          /\ link'[<<c, j>>].sv = l[<<c, j>>].sv /\ link'[<<c, j>>].down = l[<<c, j>>].down
      BY <2>1, <3>1 DEF ClientEnd, Linked
    <3> QED BY <1>0, <2>3, <3>2
  <2>4. CASE j # i /\ j # i + 1
    <3>1. link'[<<c, j>>] = l[<<c, j>>]
      BY <1>0, <1>1, <2>4
    <3> QED BY <2>4, <3>1
  <2> QED BY <2>2, <2>3, <2>4
<1>5. Only2(c, i)
  BY <1>0, <1>1 DEF Only2
<1> QED BY <1>3, <1>4, <1>5

(* A process that ends closes its ends of all circuits. *)
LEMMA Crashes ==
    ASSUME link \in Links, NEW i \in Nodes,
           link' = [x \in DOMAIN link |-> IF x[2] = i THEN ServerEnd(link[x])
                                          ELSE IF x[2] = i + 1 THEN ClientEnd(link[x])
                                          ELSE link[x]]
    PROVE  link' \in Links /\ \A d \in Circuits : Severed(d, i)
<1>0. i + 1 # i /\ DOMAIN link = Circuits \X Hops
  BY LineAssumption DEF Nodes, Vm4, Links
<1>1. \A x \in Circuits \X Hops : link[x] \in Linked
  BY DEF Links
<1>2. ASSUME NEW d \in Circuits, NEW j \in Hops
      PROVE  link'[<<d, j>>] = IF j = i THEN ServerEnd(link[<<d, j>>])
                               ELSE IF j = i + 1 THEN ClientEnd(link[<<d, j>>]) ELSE link[<<d, j>>]
  <2>1. <<d, j>> \in DOMAIN link /\ <<d, j>>[2] = j
    BY <1>0
  <2> QED BY <2>1
<1>3. link' \in Links
  <2>2. \A x \in Circuits \X Hops : link'[x] \in Linked
    BY <1>0, <1>1, Ends
  <2>3. link' = [x \in Circuits \X Hops |-> link'[x]]
    BY <1>0
  <2> QED BY <2>2, <2>3 DEF Links
<1>4. ASSUME NEW d \in Circuits, NEW j \in Hops
      PROVE  /\ link'[<<d, j>>].sv = IF j = i /\ link[<<d, j>>].sv # "none" THEN "closed"
                                     ELSE link[<<d, j>>].sv
             /\ link'[<<d, j>>].cl = IF j = i + 1 THEN FALSE ELSE link[<<d, j>>].cl
             /\ link'[<<d, j>>].down = IF j = i /\ link[<<d, j>>].sv # "none" THEN <<>>
                                       ELSE link[<<d, j>>].down
             /\ link'[<<d, j>>].up = IF j = i + 1 THEN <<>> ELSE link[<<d, j>>].up
  <2>1. link[<<d, j>>] \in Linked
    BY <1>1
  <2> QED BY <1>0, <1>2, <2>1, Ends
<1> QED BY <1>3, <1>4 DEF Severed
--------------------------------------------------------------------------------
(* What a step leaves as it is. *)

(* The type of the links, by name. *)
LEMMA LinksType == TypeOK <=> TypeOK /\ link \in Links
BY DEF TypeOK, Links, Linked

(* A machine that is at work serves a circuit, of which everything said of
   circuits holds. *)
LEMMA Working ==
    ASSUME IInv, NEW i \in 0 .. D, pc[i] \notin {"down", "accept"}
    PROVE  /\ i \in Nodes /\ circ[i] \in Circuits /\ On(circ[i], i) /\ Circuit(circ[i])
           /\ link \in Links
<1>1. i \in Nodes /\ circ[i] \in 0 .. MaxCircuits /\ circ[i] # 0
  BY LineNodes DEF IInv, TypeOK, Machines
<1>2. circ[i] \in Circuits
  BY <1>1, BoundAssumption DEF Circuits
<1> QED BY <1>1, <1>2, LinksType DEF IInv, On

(* vm3's conversation is not touched by others. *)
LEMMA TalkStays ==
    ASSUME Talk, quorum' = quorum, circ'[D] = circ[D], Grows(Vm4),
           pc[D] = "quorum" => pc'[D] = "quorum" /\ work'[D] = work[D] /\ count'[D] = count[D],
           pc'[D] = "quorum" => pc[D] = "quorum"
    PROVE  Talk'
BY DEF Talk, Grows

(* A step that logs nothing loses nothing. *)
LEMMA LogStays ==
    ASSUME log' = log
    PROVE  Growing
BY DEF Growing, Grows

(* A step that logs nothing and begins no session keeps the properties of the
   logs. *)
LEMMA Unlogged ==
    ASSUME IInv, log' = log, mode' = mode,
           pc'[0] = "session" => pc[0] = "session" /\ circ'[0] = circ[0] /\ round' = round
    PROVE  LogsAgree' /\ SessionIsWitnessed'
<1>1. LogsAgree'
  BY DEF IInv, LogsAgree, EntriesOf
<1>2. SessionIsWitnessed'
  BY DEF IInv, SessionIsWitnessed, EntriesOf
<1> QED BY <1>1, <1>2

(* Machine v logs e. *)
LEMMA Logs ==
    ASSUME TypeOK, NEW v \in Verifiers \cup {Vm4}, NEW e \in Entries,
           log' = [log EXCEPT ![v] = Append(@, e)]
    PROVE  /\ log' \in [Verifiers \cup {Vm4} -> Seq(Entries)]
           /\ Growing
           /\ \A u \in Verifiers \cup {Vm4} : u # v => log'[u] = log[u]
           /\ \A k \in DOMAIN log'[v] : log'[v][k] = e \/ (k \in DOMAIN log[v] /\ log'[v][k] = log[v][k])
           /\ \E k \in DOMAIN log'[v] : log'[v][k] = e
<1>1. log \in [Verifiers \cup {Vm4} -> Seq(Entries)] /\ log[v] \in Seq(Entries)
  BY DEF TypeOK
<1> DEFINE q == Append(log[v], e)
<1>2. /\ q \in Seq(Entries) /\ Len(q) = Len(log[v]) + 1 /\ Len(log[v]) \in Nat
      /\ DOMAIN q = 1 .. Len(q) /\ DOMAIN log[v] = 1 .. Len(log[v])
      /\ \A k \in 1 .. Len(log[v]) : q[k] = log[v][k]
      /\ q[Len(log[v]) + 1] = e
  BY <1>1
<1>3. log'[v] = q /\ \A u \in Verifiers \cup {Vm4} : u # v => log'[u] = log[u]
  BY <1>1
<1>4. log' = [log EXCEPT ![v] = q]
  OBVIOUS
<1> HIDE DEF q
<1>5. log' \in [Verifiers \cup {Vm4} -> Seq(Entries)]
  BY <1>1, <1>2, <1>4
<1>6. \A k \in DOMAIN log[v] : k \in DOMAIN log'[v] /\ log'[v][k] = log[v][k]
  BY <1>2, <1>3
<1>7. \A k \in DOMAIN log'[v] : log'[v][k] = e \/ (k \in DOMAIN log[v] /\ log'[v][k] = log[v][k])
  <2> SUFFICES ASSUME NEW k \in DOMAIN q
               PROVE  q[k] = e \/ (k \in DOMAIN log[v] /\ q[k] = log[v][k])
    BY <1>3
  <2>1. k = Len(log[v]) + 1 \/ k \in 1 .. Len(log[v])
    BY <1>2
  <2> QED BY <1>2, <2>1
<1>8. \E k \in DOMAIN log'[v] : log'[v][k] = e
  <2>1. Len(log[v]) + 1 \in DOMAIN q
    BY <1>2
  <2> QED BY <1>2, <1>3, <2>1
<1>9. Growing
  BY <1>3, <1>6 DEF Growing, Grows
<1> QED BY <1>3, <1>5, <1>7, <1>8, <1>9

(* LogsAgree survives an entry that agrees. *)
LEMMA Agrees ==
    ASSUME TypeOK, LogsAgree, NEW v \in Verifiers \cup {Vm4}, NEW e \in Entries,
           log' = [log EXCEPT ![v] = Append(@, e)], mode' = mode,
           v = Z /\ e.event # "SessionEnded" =>
              /\ e.n = e.id
              /\ mode # "chain1" => \E k \in DOMAIN log[D] :
                   /\ log[D][k].c = e.c /\ log[D][k].n = e.n /\ log[D][k].id = e.id
                   /\ log[D][k].clean = e.clean
                   /\ (log[D][k].event \in Positive) = (e.event \in Positive)
    PROVE  LogsAgree'
<1>1. /\ Growing
      /\ \A u \in Verifiers \cup {Vm4} : u # v => log'[u] = log[u]
      /\ \A k \in DOMAIN log'[v] : log'[v][k] = e \/ (k \in DOMAIN log[v] /\ log'[v][k] = log[v][k])
  BY Logs, ZenonT(60)
<1>2. \A k \in DOMAIN log[D] : k \in DOMAIN log'[D] /\ log'[D][k] = log[D][k]
  BY <1>1, Fixed DEF Growing, Grows
<1> SUFFICES ASSUME NEW k \in DOMAIN log'[Z], log'[Z][k].event # "SessionEnded"
             PROVE  /\ log'[Z][k].n = log'[Z][k].id
                    /\ mode # "chain1" => \E j \in DOMAIN log'[D] :
                         /\ log'[D][j].c = log'[Z][k].c /\ log'[D][j].n = log'[Z][k].n
                         /\ log'[D][j].id = log'[Z][k].id /\ log'[D][j].clean = log'[Z][k].clean
                         /\ (log'[D][j].event \in Positive) = (log'[Z][k].event \in Positive)
  BY DEF LogsAgree, EntriesOf
<1>3. CASE k \in DOMAIN log[Z] /\ log'[Z][k] = log[Z][k]
  <2>1. /\ log[Z][k].n = log[Z][k].id
        /\ mode # "chain1" => \E j \in DOMAIN log[D] :
             /\ log[D][j].c = log[Z][k].c /\ log[D][j].n = log[Z][k].n
             /\ log[D][j].id = log[Z][k].id /\ log[D][j].clean = log[Z][k].clean
             /\ (log[D][j].event \in Positive) = (log[Z][k].event \in Positive)
    BY <1>3 DEF LogsAgree, EntriesOf
  <2> QED BY <1>2, <1>3, <2>1
<1>4. CASE v = Z /\ log'[Z][k] = e
  BY <1>2, <1>4
<1> QED BY <1>1, <1>3, <1>4, Fixed

(* A session that has its witnesses keeps them. *)
LEMMA Witnessed ==
    ASSUME SessionIsWitnessed, Growing, mode' = mode,
           pc'[0] = "session" => pc[0] = "session" /\ circ'[0] = circ[0] /\ round' = round
    PROVE  SessionIsWitnessed'
<1> DEFINE V == {Z} \cup (IF mode = "chain1" THEN {} ELSE {D}) \cup (IF mode = "quorum" THEN {Vm4} ELSE {})
<1> SUFFICES ASSUME pc'[0] = "session", NEW v \in V
             PROVE  \E e \in EntriesOf(v)' : e.c = circ'[0] /\ e.id = round' /\ e.event \in Positive
  BY DEF SessionIsWitnessed
<1>1. v \in Verifiers \cup {Vm4}
  BY DEF Verifiers
<1>2. \E k \in DOMAIN log[v] : log[v][k].c = circ[0] /\ log[v][k].id = round /\ log[v][k].event \in Positive
  BY DEF SessionIsWitnessed, EntriesOf
<1> QED BY <1>1, <1>2 DEF Growing, Grows, EntriesOf

(* The types, and where the machines are, after a step of machine i. *)
LEMMA Typed ==
    ASSUME IInv, NEW i \in 0 .. D, pc[i] \notin {"down", "accept"}, NEW p \in Places(i), Goto(i, p),
           link' \in Links, UNCHANGED <<mode, circ>>,
           depth' \in [Bases -> Nat], faults' \in 0 .. MaxFaults, round' \in 0 .. MaxRounds,
           count' \in [Verifiers -> 0 .. MaxRounds], active' \in BOOLEAN,
           work' \in [Verifiers -> Response], quorum' \in {"none", "asked", "approved", "denied", "lost"},
           log' \in [Verifiers \cup {Vm4} -> Seq(Entries)]
    PROVE  TypeOK' /\ Machines' /\ pc'[i] = p /\ \A k \in Nodes : k # i => pc'[k] = pc[k]
<1>1. i \in Nodes /\ TypeOK /\ Machines /\ circ[i] # 0
  BY Working DEF IInv, Circuits
<1>2. /\ pc'[i] = p /\ \A k \in Nodes : k # i => pc'[k] = pc[k]
      /\ pc' \in [Nodes -> {"down", "accept", "extend", "relay", "connect", "extended",
                            "forward", "round", "session", "quorum"}]
  BY <1>1 DEF Goto, TypeOK, Places
<1>3. TypeOK'
  <2>1. link' \in [Circuits \X Hops ->
                    [cl : BOOLEAN, sv : {"none", "queued", "open", "closed"},
                     down : Seq(Cells), up : Seq(Cells)]]
    BY DEF Links, Linked
  <2> QED BY <1>1, <1>2, <2>1 DEF TypeOK
<1>4. Machines'
  BY <1>1, <1>2 DEF Machines
<1> QED BY <1>2, <1>3, <1>4

(* Machine i moves, and counts, verifies and logs nothing. *)
LEMMA Moves ==
    ASSUME IInv, NEW i \in 0 .. D, pc[i] \notin {"down", "accept", "quorum"},
           NEW p \in Places(i), p \notin {"session", "quorum"}, Goto(i, p),
           link' \in Links, depth' \in [Bases -> Nat], faults' \in 0 .. MaxFaults,
           round' \in 0 .. MaxRounds, i # 0 => round' = round,
           UNCHANGED <<mode, circ, count, active, work, quorum, log>>
    PROVE  /\ TypeOK' /\ Machines' /\ Talk' /\ LogsAgree' /\ SessionIsWitnessed'
           /\ Growing /\ pc'[i] = p /\ \A k \in Nodes : k # i => pc'[k] = pc[k]
           /\ circ[i] \in Circuits /\ On(circ[i], i) /\ (p # "accept" /\ p # "down" => On(circ[i], i)')
<1>1. i \in Nodes /\ TypeOK /\ Machines /\ circ[i] \in Circuits /\ On(circ[i], i) /\ circ[i] # 0
  BY Working DEF IInv, Circuits
<1>2. TypeOK' /\ Machines' /\ pc'[i] = p /\ \A k \in Nodes : k # i => pc'[k] = pc[k]
  BY <1>1, Typed DEF TypeOK
<1>5. Growing
  BY LogStays
<1>6. Talk'
  <2>1. D \in Nodes /\ Grows(Vm4)
    BY <1>5, Fixed DEF Growing
  <2>2. (pc'[D] = "quorum" <=> pc[D] = "quorum")
    BY <1>2, <2>1
  <2> QED BY <2>1, <2>2, TalkStays DEF IInv
<1>7. LogsAgree' /\ SessionIsWitnessed'
  <2>1. pc'[0] = "session" => pc[0] = "session" /\ round' = round
    BY <1>2, LineNodes, BaseNode DEF Bases
  <2> QED BY <2>1, Unlogged
<1>8. p # "accept" /\ p # "down" => On(circ[i], i)'
  BY <1>2 DEF On
<1> QED BY <1>1, <1>2, <1>5, <1>6, <1>7, <1>8

(* The cases of Leave: nothing, a cell or a reply has been taken. *)
LEMMA LeftOver ==
    ASSUME link \in Links, NEW i \in 0 .. D, NEW c \in Circuits, c = circ[i], Circuit(c), On(c, i), NEW l,
           \/ l = link
           \/ i \in Hops /\ link[In(i)].down # <<>> /\ l = TakeCell(link, i)
           \/ i + 1 \in Hops /\ link[Out(i)].up # <<>> /\ l = TakeReply(link, i),
           link' = Left(l, i)
    PROVE  link' \in Links /\ Severed(c, i) /\ Only2(c, i)
<1>0. /\ In(i) = <<c, i>> /\ Out(i) = <<c, i + 1>> /\ i + 1 # i
      /\ i \in Hops => link[<<c, i>>].sv = "open"
  <2>1. i \in Hops => Wire(c, i)
    BY DEF Circuit
  <2>2. i \in Hops => link[<<c, i>>].sv = "open"
    BY <2>1 DEF Wire
  <2> QED BY <2>2 DEF In, Out
<1>1. CASE l = link
  BY <1>0, <1>1, Leaves
<1>2. CASE i \in Hops /\ link[In(i)].down # <<>> /\ l = TakeCell(link, i)
  <2>1. /\ l \in Links
        /\ \A x \in Circuits \X Hops : x # In(i) => l[x] = link[x]
        /\ l[In(i)].cl = link[In(i)].cl /\ l[In(i)].sv = link[In(i)].sv
        /\ l[In(i)].up = link[In(i)].up
    BY <1>2, TakeCellIs
  <2>2. /\ \A d \in Circuits, k \in Hops : d # c \/ k \notin {i, i + 1} => l[<<d, k>>] = link[<<d, k>>]
        /\ i + 1 \in Hops => l[<<c, i + 1>>] = link[<<c, i + 1>>]
    BY <1>0, <2>1
  <2> QED BY <1>0, <2>1, <2>2, Leaves
<1>3. CASE i + 1 \in Hops /\ link[Out(i)].up # <<>> /\ l = TakeReply(link, i)
  <2>1. /\ l \in Links
        /\ \A x \in Circuits \X Hops : x # Out(i) => l[x] = link[x]
        /\ l[Out(i)].sv = link[Out(i)].sv
        /\ l[Out(i)].down = link[Out(i)].down
    BY <1>3, TakeReplyIs
  <2>2. /\ \A d \in Circuits, k \in Hops : d # c \/ k \notin {i, i + 1} => l[<<d, k>>] = link[<<d, k>>]
        /\ i \in Hops => l[<<c, i>>] = link[<<c, i>>]
    BY <1>0, <2>1
  <2> QED BY <1>0, <2>1, <2>2, Leaves
<1> QED BY <1>1, <1>2, <1>3

(* Machine i gives its circuit up. *)
LEMMA GivesUp ==
    ASSUME IInv, NEW i \in 0 .. D, pc[i] \notin {"down", "accept"}, NEW l,
           \/ l = link
           \/ i \in Hops /\ link[In(i)].down # <<>> /\ l = TakeCell(link, i)
           \/ i + 1 \in Hops /\ link[Out(i)].up # <<>> /\ l = TakeReply(link, i),
           Leave(i, l), UNCHANGED <<mode, circ, depth, round>>, Growing,
           \A v \in Verifiers : v # i => count'[v] = count[v] /\ work'[v] = work[v]
    PROVE  link' \in Links /\ \A d \in Circuits : Circuit(d)'
<1> DEFINE c == circ[i]
<1>1. i \in Nodes /\ c \in Circuits /\ On(c, i) /\ Circuit(c) /\ link \in Links
  BY Working
<1>2. link' \in Links /\ Severed(c, i) /\ Only2(c, i)
  BY <1>1, LeftOver DEF Leave
<1>3. pc'[i] = "accept" /\ \A k \in Nodes : k # i => pc'[k] = pc[k]
  BY <1>1 DEF Leave, Goto, IInv, TypeOK
<1>4. Acts(i)
  BY <1>2, <1>3 DEF Acts, Only2
<1>5. Departed(c, i)
  <2>1. ~ On(c, i)'
    BY <1>3 DEF On
  <2>2. \A k \in 0 .. D : k # i => (On(c, k)' <=> On(c, k)) /\ (On(c, k) => pc'[k] = pc[k])
    BY <1>3, LineNodes DEF On
  <2> QED BY <1>2, <2>1, <2>2 DEF Departed
<1>6. Circuit(c)'
  BY <1>1, <1>5, Depart
<1>7. ASSUME NEW d \in Circuits, d # c PROVE Circuit(d)'
  BY <1>1, <1>4, <1>7, Elsewhere DEF IInv
<1> QED BY <1>2, <1>6, <1>7

(* So does a machine that logs nothing. *)
LEMMA GivesUpQuietly ==
    ASSUME IInv, NEW i \in 0 .. D, pc[i] \notin {"down", "accept", "quorum"}, NEW l,
           \/ l = link
           \/ i \in Hops /\ link[In(i)].down # <<>> /\ l = TakeCell(link, i)
           \/ i + 1 \in Hops /\ link[Out(i)].up # <<>> /\ l = TakeReply(link, i),
           Leave(i, l), faults' \in 0 .. MaxFaults,
           UNCHANGED <<mode, circ, depth, round, count, active, work, quorum, log>>
    PROVE  IInv'
<1>1. Growing
  BY LogStays
<1>2. link' \in Links /\ \A d \in Circuits : Circuit(d)'
  BY <1>1, GivesUp
<1>3. TypeOK
  BY DEF IInv
<1>4. /\ "accept" \in Places(i) /\ Goto(i, "accept")
      /\ depth' \in [Bases -> Nat] /\ round' \in 0 .. MaxRounds
  BY <1>3 DEF Places, Leave, TypeOK
<1>5. TypeOK' /\ Machines' /\ Talk' /\ LogsAgree' /\ SessionIsWitnessed'
  BY <1>2, <1>4, Moves
<1> QED BY <1>2, <1>5 DEF IInv
--------------------------------------------------------------------------------
(* The actions, one by one. *)

(* The number of faults stays within its bound. *)
LEMMA FaultsType == ASSUME TypeOK, Fault \/ faults' = faults PROVE faults' \in 0 .. MaxFaults
BY BoundAssumption DEF TypeOK, Fault

(* vm1 gives its session up. *)
LEMMA DropInv == ASSUME IInv, Drop PROVE IInv'
<1>1. pc[0] = "session" /\ Leave(0, link) /\ faults' \in 0 .. MaxFaults
  BY FaultsType DEF Drop, IInv
<1> QED BY <1>1, GivesUpQuietly, Fixed DEF Drop

(* A machine that waits for its next hop finds the connection broken. *)
LEMMA DownstreamLostInv ==
    ASSUME IInv, NEW i \in 0 .. D, DownstreamLost(i)
    PROVE  IInv'
<1>1. pc[i] \in {"extended", "forward", "round"} /\ Leave(i, link) /\ faults' \in 0 .. MaxFaults
  BY FaultsType DEF DownstreamLost, IInv
<1> QED BY <1>1, GivesUpQuietly DEF DownstreamLost

(* The TPM of a machine gives no quote. *)
LEMMA QuoteFailsInv ==
    ASSUME IInv, NEW i \in 0 .. D, QuoteFails(i)
    PROVE  IInv'
<1>1. pc[i] \in {"extended", "session", "relay", "round"}
  BY DEF QuoteFails, Quoting
<1>2. Leave(i, link) /\ faults' \in 0 .. MaxFaults
  BY FaultsType DEF QuoteFails, IInv
<1> QED BY <1>1, <1>2, GivesUpQuietly DEF QuoteFails

(* A verifier that ends a session logs it, a proxy logs nothing. *)
LEMMA UpstreamLostInv ==
    ASSUME IInv, NEW i \in Hops, UpstreamLost(i)
    PROVE  IInv'
<1>0. i \in 0 .. D /\ pc[i] \in {"extend", "relay"} /\ Leave(i, link) /\ TypeOK
  BY HopNode DEF UpstreamLost, IInv
<1>1. CASE log' = log
  <2>1. faults' \in 0 .. MaxFaults
    BY FaultsType DEF UpstreamLost, IInv
  <2> QED BY <1>0, <1>1, <2>1, GivesUpQuietly DEF UpstreamLost
<1>2. CASE log' # log
  <2> DEFINE e == Entry(i, count[i], Blank, "SessionEnded")
  <2>1. i \in Verifiers /\ log' = [log EXCEPT ![i] = Append(@, e)]
    BY <1>2 DEF UpstreamLost
  <2>2. /\ i \in Nodes /\ circ[i] \in Circuits /\ i # 0 /\ i # Vm4
    BY <1>0, Working, Fixed, HopNode
  <2>3. e \in Entries /\ e.event = "SessionEnded"
    BY <1>0, <2>1, <2>2, BoundAssumption DEF Entry, Entries, Events, Blank, Submission, TypeOK
  <2> HIDE DEF e
  <2>4. log' \in [Verifiers \cup {Vm4} -> Seq(Entries)] /\ Growing
    BY <1>0, <2>1, <2>3, Logs
  <2>5. /\ UNCHANGED <<mode, circ, depth, round, count, active, work, quorum, faults>>
        /\ link' = Left(link, i) /\ Goto(i, "accept")
    BY DEF UpstreamLost, Leave
  <2>6. link' \in Links /\ \A d \in Circuits : Circuit(d)'
    BY <1>0, <2>4, <2>5, GivesUp
  <2>7. TypeOK' /\ Machines'
    <3>1. "accept" \in Places(i)
      BY DEF Places
    <3> QED BY <1>0, <2>4, <2>5, <2>6, <3>1, Typed DEF TypeOK
  <2>8. Talk'
    <3>1. pc'[D] = "quorum" <=> pc[D] = "quorum"
      BY <1>0, <2>2, <2>5, Fixed DEF Goto, TypeOK
    <3> QED BY <2>4, <2>5, <3>1, TalkStays DEF IInv, Growing
  <2>9. LogsAgree'
    BY <1>0, <2>1, <2>3, <2>5, Agrees DEF IInv
  <2>10. SessionIsWitnessed'
    <3>1. pc'[0] = pc[0]
      BY <1>0, <2>2, <2>5, Fixed DEF Goto, TypeOK
    <3> QED BY <2>4, <2>5, <3>1, Witnessed DEF IInv
  <2> QED BY <2>6, <2>7, <2>8, <2>9, <2>10 DEF IInv
<1> QED BY <1>1, <1>2

(* Base b's numbers are what they were. *)
LEMMA TallyStays ==
    ASSUME NEW c, NEW b \in Bases, Tally(c, b), NEW i \in 0 .. D, b # i, Acts(i),
           On(c, b)' => On(c, b), On(c, End(b))' => On(c, End(b)),
           End(b) = i => count'[i] = count[i],
           Reached(c, End(b)) => Reached(c, End(b))'
    PROVE  Tally(c, b)'
<1>1. b \in Nodes /\ End(b) \in Verifiers
  BY BaseNode, LineNodes, EndIs
<1>2. pc'[b] = pc[b] /\ depth'[b] = depth[b] /\ mode' = mode /\ count'[End(b)] = count[End(b)]
  BY <1>1 DEF Acts
<1>3. b = Z => count'[Z] = count[Z] /\ work'[Z] = work[Z]
  BY Fixed DEF Acts
<1>4. Asked(b)' = Asked(b)
  BY <1>3 DEF Acts, Asked, Bases
<1>5. \A n : Counted(c, b, n) => Counted(c, b, n)'
  BY <1>2 DEF Counted
<1> QED BY <1>2, <1>3, <1>4, <1>5 DEF Tally

(* Machine i stays on circuit c. *)
LEMMA ActsOn ==
    ASSUME NEW i \in 0 .. D, Acts(i), NEW c, On(c, i), On(c, i)'
    PROVE  \A k \in 0 .. D : On(c, k)' <=> On(c, k)
BY LineNodes DEF Acts, On

(* An answer that is no result says nothing. *)
LEMMA PlainAnswer ==
    ASSUME NEW c, NEW i, NEW m, Replied(c, i, m), m.type # "Result", m.res = Blank
    PROVE  Notes(c, i)'
BY DEF Replied, Holds, Notes, Reply1

(* A proxy has a next hop in the same part of the circuit. *)
LEMMA Ahead ==
    ASSUME NEW i \in Proxies
    PROVE  /\ i \in Hops /\ i \in 0 .. D /\ i + 1 \in Hops /\ i + 1 # i /\ i # 0 /\ i # Z /\ i # D
           /\ \A b \in Bases : i \in Seg(b) => i + 1 \in Seg(b)
           /\ i < Z <=> i + 1 <= Z
           /\ \A b \in Bases : b # i
BY LineAssumption DEF Proxies, Hops, Verifiers, Bases, Seg, End

(* The request that machine i has is what the base of its part waits for. *)
LEMMA CellExpected ==
    ASSUME NEW c, NEW i, Circuit(c), NEW b \in Bases, i \in Seg(b), On(c, b), link[<<c, i>>].down # <<>>
    PROVE  /\ pc[b] \in {"extended", "round"} /\ depth[b] \in 0 .. Last(b) /\ Last(b) \in Nat
           /\ Cell1(c, i).type \in Expected(b)
           /\ pc[b] = "extended" => Built(c, b, i)
<1>1. Busy(c, i) /\ Single(c) /\ Phase(c, b)
  BY DEF Circuit, Busy
<1>2. pc[b] \in {"extended", "round"}
  BY <1>1 DEF Single
<1> QED BY <1>1, <1>2, Line DEF Phase, Kind

(* Likewise for the answer. *)
LEMMA ReplyExpected ==
    ASSUME NEW c, NEW i, Circuit(c), NEW b \in Bases, i \in Seg(b), On(c, b), link[<<c, i>>].up # <<>>
    PROVE  /\ pc[b] \in {"extended", "round"} /\ depth[b] \in 0 .. Last(b) /\ Last(b) \in Nat
           /\ Reply1(c, i).type \in Expected(b)
           /\ pc[b] = "extended" => Built(c, b, i)
<1>1. Busy(c, i) /\ Single(c) /\ Phase(c, b)
  BY DEF Circuit, Busy
<1>2. pc[b] \in {"extended", "round"}
  BY <1>1 DEF Single
<1> QED BY <1>1, <1>2, Line DEF Phase, Kind

(* Cells are cells, and have the fields they were made with. *)
LEMMA CellsType ==
    ASSUME NEW t \in CellTypes, NEW h \in Nat, NEW r \in Response
    PROVE  Cell(t, h, r) \in Cells /\ Cell(t, h, r).type = t /\ Cell(t, h, r).hops = h /\ Cell(t, h, r).res = r
BY DEF Cell, Cells

(* A submission is numbered as it was asked for. *)
LEMMA SubmissionType ==
    /\ \A n \in Nat : Submission(n) \in Response /\ Submission(n).id = n
    /\ Blank \in Response
BY DEF Submission, Blank, Response, Status

(* A step of machine i that keeps what is said of its circuit. *)
LEMMA Closes ==
    ASSUME IInv, NEW i \in 0 .. D, NEW c \in Circuits, c = circ[i], Acts(i), Circuit(c)',
           TypeOK', Machines', Talk', LogsAgree', SessionIsWitnessed'
    PROVE  IInv'
<1>1. ASSUME NEW d \in Circuits PROVE Circuit(d)'
  <2>1. CASE d = c
    BY <2>1
  <2>2. CASE d # c
    BY <2>2, LineNodes, Elsewhere DEF IInv
  <2> QED BY <2>1, <2>2
<1> QED BY <1>1 DEF IInv

(* The numbers of the bases after a step of a machine that counts nothing. *)
LEMMA TalliesStay ==
    ASSUME NEW c, NEW i \in 0 .. D, i \notin Bases, Circuit(c), Acts(i), On(c, i), On(c, i)', count' = count,
           \A j \in Hops : Reached(c, j) => Reached(c, j)'
    PROVE  \A b \in Bases : Tally(c, b)'
<1> SUFFICES ASSUME NEW b \in Bases PROVE Tally(c, b)'
  OBVIOUS
<1>1. Tally(c, b) /\ (On(c, b)' => On(c, b)) /\ (On(c, End(b))' => On(c, End(b)))
  BY ActsOn, BaseNode, EndIs DEF Circuit, Counts
<1> QED BY <1>1, TallyStays, EndIs

(* A proxy answers the request for its own attestation. *)
LEMMA RelayAttestInv ==
    ASSUME IInv, NEW i \in Proxies, RelayAttest(i)
    PROVE  IInv'
<1>0. /\ i \in Hops /\ i \in 0 .. D /\ i + 1 \in Hops /\ i + 1 # i /\ i # 0 /\ i # Z /\ i # D
      /\ i \notin Bases
  BY Ahead
<1> DEFINE m == Cell("AttestationResponse", 0, Blank)
<1>1. PICK c \in Circuits : c = circ[i] /\ On(c, i) /\ Circuit(c) /\ link \in Links /\ Wire(c, i)
  BY <1>0, Working DEF RelayAttest, Circuit
<1>2. /\ link[In(i)].down # <<>> /\ Cell1(c, i).type = "AttestationRequest"
      /\ link' = SendUp(TakeCell(link, i), i, m) /\ pc[i] = "relay"
  BY <1>1 DEF RelayAttest, HasCell, In, Cell1
<1>3. m \in Cells /\ m.type = "AttestationResponse" /\ m.res = Blank
  BY CellsType, SubmissionType DEF CellTypes
<1> HIDE DEF m
<1>4. /\ link' \in Links /\ Replied(c, i, m) /\ Only(c, i)
      /\ link[<<c, i>>].down # <<>> /\ link[<<c, i>>].up = <<>>
  BY <1>0, <1>1, <1>2, <1>3, AnswersCell
<1>5. /\ TypeOK' /\ Machines' /\ Talk' /\ LogsAgree' /\ SessionIsWitnessed'
      /\ Growing /\ pc'[i] = "relay" /\ (\A k \in Nodes : k # i => pc'[k] = pc[k])
      /\ On(c, i)'
  <2>1. "relay" \in Places(i) /\ Goto(i, "relay") /\ TypeOK
    BY <1>0, <1>2, Fixed DEF RelayAttest, Places, Goto, IInv, TypeOK
  <2>2. faults' \in 0 .. MaxFaults /\ depth' \in [Bases -> Nat] /\ round' \in 0 .. MaxRounds
    BY <2>1 DEF RelayAttest, TypeOK
  <2> QED BY <1>0, <1>1, <1>2, <1>4, <2>1, <2>2, Moves DEF RelayAttest
<1>6. Acts(i)
  BY <1>1, <1>4, <1>5 DEF RelayAttest, Acts, Only
<1>7. \A j \in Hops : j # i => Kept(c, j)
  BY <1>4 DEF Kept, Only
<1>8. \A j \in Hops : Reached(c, j) => Reached(c, j)'
  BY <1>4, <1>7 DEF Kept, Replied, Reached
<1>9. Kept(c, i + 1) /\ Busy(c, i) /\ m.type \in UpTypes /\ Notes(c, i)'
  <2>1. Notes(c, i)'
    BY <1>3, <1>4, PlainAnswer
  <2> QED BY <1>0, <1>3, <1>4, <1>7, <2>1 DEF Busy, UpTypes
<1>10. ASSUME NEW b \in Bases, i \in Seg(b), On(c, b), pc[b] \in {"extended", "round"}
       PROVE  m.type \in Expected(b) /\ (pc[b] = "extended" => Reached(c, b + 1 + depth[b]))
  <2>1. Cell1(c, i).type \in Expected(b)
    BY <1>1, <1>4, <1>10, CellExpected
  <2> QED BY <1>2, <1>3, <1>10, <2>1 DEF Expected
<1>11. \A b \in Bases : Tally(c, b)'
  BY <1>0, <1>1, <1>5, <1>6, <1>8, TalliesStay DEF RelayAttest
<1>12. Circuit(c)'
  BY <1>0, <1>1, <1>2, <1>3, <1>4, <1>5, <1>6, <1>9, <1>10, <1>11, UpMove
<1> QED BY <1>0, <1>1, <1>5, <1>6, <1>12, Closes

(* A result is passed back with what is known of it. *)
LEMMA NotesPassOn ==
    ASSUME NEW c, NEW i, NEW j, NEW m, Replied(c, i, m), Notes(c, j), link[<<c, j>>].up # <<>>, m = Reply1(c, j),
           i > Z => j > Z, i <= Z => j <= Z, Growing, mode' = mode, Z \in Verifiers
    PROVE  Notes(c, i)'
<1>1. ASSUME link'[<<c, i>>].up # <<>>, m.type = "Result"
      PROVE  /\ m.res.status \in {"Authorized", "Provisional"} => m.res.ok
             /\ i > Z \/ mode # "chain1" => Backed(c, m.res)'
             /\ i <= Z => Noted(c, Z, m.res)'
  <2>1. Grows(Z)
    BY DEF Growing
  <2>2. ASSUME i > Z \/ mode # "chain1" PROVE Backed(c, m.res)'
    <3>1. Backed(c, m.res)
      BY <1>1, <2>2 DEF Notes
    <3> QED BY <3>1, BackedStays
  <2>3. ASSUME i <= Z PROVE Noted(c, Z, m.res)'
    <3>1. Noted(c, Z, m.res)
      BY <1>1, <2>3 DEF Notes
    <3> QED BY <2>1, <3>1, NotedStays
  <2> QED BY <1>1, <2>2, <2>3 DEF Notes
<1>2. link'[<<c, i>>].up # <<>> => Reply1(c, i)' = m
  BY DEF Replied, Holds, Reply1
<1>3. m.type # "Result" => m.res = Blank
  BY DEF Notes
<1> QED BY <1>1, <1>2, <1>3 DEF Notes

(* A proxy passes a reply back: a result it passes was noted before it came. *)
LEMMA RelayBackInv ==
    ASSUME IInv, NEW i \in Proxies, RelayBack(i)
    PROVE  IInv'
<1>0. /\ i \in Hops /\ i \in 0 .. D /\ i + 1 \in Hops /\ i + 1 # i /\ i # 0 /\ i # Z /\ i # D
      /\ i \notin Bases
  BY Ahead
<1>1. PICK c \in Circuits : c = circ[i] /\ On(c, i) /\ Circuit(c) /\ link \in Links
  BY <1>0, Working DEF RelayBack
<1>2. /\ Wire(c, i) /\ Wire(c, i + 1) /\ Sane(c, i + 1) /\ Notes(c, i + 1) /\ Ids(c)
      /\ \A b \in Bases : Counts(c, b)
  BY <1>0, <1>1 DEF Circuit
<1>3. PICK m : m = Reply1(c, i + 1)
  OBVIOUS
<1>4. /\ link[Out(i)].up # <<>> /\ link[<<c, i + 1>>].up # <<>> /\ m \in Cells
      /\ link' = SendUp(TakeReply(link, i), i, m)
      /\ pc[i] \in {"extended", "forward"} /\ ~ Idle(i)
  <2>1. link[Out(i)].up # <<>> /\ Out(i) = <<c, i + 1>>
    BY <1>1 DEF RelayBack, HasReply, Out
  <2>2. link[<<c, i + 1>>].up \in Seq(Cells)
    BY <1>0, <1>1 DEF Links, Linked
  <2> QED BY <1>0, <1>3, <2>1, <2>2, HeadCell DEF RelayBack, Reply1, Idle
<1>5. link[<<c, i>>].down = <<>> /\ link[<<c, i>>].up = <<>>
  BY <1>1, <1>2, <1>4 DEF Wire
<1>6. link' \in Links /\ Replied(c, i, m) /\ Taken(c, i + 1) /\ Only2(c, i)
  BY <1>0, <1>1, <1>2, <1>4, <1>5, AnswersBack
<1>7. /\ TypeOK' /\ Machines' /\ Talk' /\ LogsAgree' /\ SessionIsWitnessed'
      /\ Growing /\ pc'[i] = "relay" /\ (\A k \in Nodes : k # i => pc'[k] = pc[k])
      /\ On(c, i)'
  <2>1. "relay" \in Places(i) /\ Goto(i, "relay") /\ TypeOK
    BY <1>0, Fixed DEF RelayBack, Places, IInv
  <2>2. faults' \in 0 .. MaxFaults /\ depth' \in [Bases -> Nat] /\ round' \in 0 .. MaxRounds
    BY <2>1 DEF RelayBack, TypeOK
  <2> QED BY <1>0, <1>1, <1>4, <1>6, <2>1, <2>2, Moves DEF RelayBack
<1>8. Acts(i)
  BY <1>1, <1>6, <1>7 DEF RelayBack, Acts, Only2
<1>9. \A j \in Hops : Reached(c, j) => Reached(c, j)'
  <2>1. \A j \in Hops : j \notin {i, i + 1} => link'[<<c, j>>] = link[<<c, j>>]
    BY <1>6 DEF Only2
  <2> QED BY <1>6, <2>1 DEF Replied, Taken, Reached
<1>10. ~ Kept(c, i + 1) /\ m.type \in UpTypes /\ Notes(c, i)'
  <2>1. Notes(c, i)'
    BY <1>0, <1>2, <1>3, <1>4, <1>6, <1>7, NotesPassOn, Ahead, Line, SMTT(60) DEF RelayBack
  <2> QED BY <1>2, <1>3, <1>4, <1>6, <2>1 DEF Kept, Taken, Sane
<1>11. ASSUME NEW b \in Bases, i \in Seg(b), On(c, b), pc[b] \in {"extended", "round"}
       PROVE  m.type \in Expected(b) /\ (pc[b] = "extended" => Reached(c, b + 1 + depth[b]))
  <2>1. i + 1 \in Seg(b)
    BY <1>11, Ahead
  <2> QED BY <1>1, <1>3, <1>4, <1>11, <2>1, ReplyExpected DEF Built
<1>12. \A b \in Bases : Tally(c, b)'
  BY <1>0, <1>1, <1>7, <1>8, <1>9, TalliesStay DEF RelayBack
<1>13. ASSUME m.type = "Result", NEW b \in Bases, i \in Seg(b)
       PROVE  /\ Counted(c, b, m.res.id)'
              /\ On(c, b) => m.res.id = Asked(b)
              /\ Data(c, i) \/ (i \in Proxies /\ Data(c, i + 1))
  <2>1. i + 1 \in Seg(b)
    BY <1>13, Ahead
  <2>2. Counted(c, b, m.res.id)
    BY <1>2, <1>3, <1>4, <1>13, <2>1 DEF Counts, Numbered
  <2>3. On(c, b) => m.res.id = Asked(b)
    BY <1>2, <1>3, <1>4, <1>13, <2>1 DEF Ids, DataIs
  <2>4. Data(c, i + 1)
    BY <1>3, <1>4, <1>13 DEF Data
  <2>5. On(c, End(b))' => On(c, End(b))
    BY <1>0, <1>1, <1>7, <1>8, ActsOn, EndIs
  <2>6. count' = count
    BY DEF RelayBack
  <2> QED BY <1>9, <2>2, <2>3, <2>4, <2>5, <2>6, EndIs DEF Counted
<1>14. m.type = "Result" /\ i > Z /\ On(c, 0) /\ ~ On(c, Z) => m.res.id = round
  <2> SUFFICES ASSUME m.type = "Result", i > Z, On(c, 0), ~ On(c, Z) PROVE m.res.id = round
    OBVIOUS
  <2>1. i + 1 \in Seg(Z)
    BY <1>0, Between
  <2>2. Data(c, i + 1)
    BY <1>3, <1>4 DEF Data
  <2> QED BY <1>2, <1>3, <1>4, <2>1, <2>2 DEF Ids, DataIs
<1>15. Circuit(c)'
  BY <1>0, <1>1, <1>4, <1>5, <1>6, <1>7, <1>8, <1>10, <1>11, <1>12, <1>13, <1>14, UpMove
<1> QED BY <1>0, <1>1, <1>7, <1>8, <1>15, Closes

(* A proxy is told to extend the circuit by one hop. *)
LEMMA RelayExtendInv ==
    ASSUME IInv, NEW i \in Proxies, RelayExtend(i)
    PROVE  IInv'
<1>0. /\ i \in Hops /\ i \in 0 .. D /\ i # 0 /\ i # Z /\ i # D /\ i \notin Bases
  BY Ahead
<1>1. PICK c \in Circuits : c = circ[i] /\ On(c, i) /\ Circuit(c) /\ link \in Links /\ Wire(c, i)
  BY <1>0, Working DEF RelayExtend, Circuit
<1>2. /\ link[In(i)].down # <<>> /\ Cell1(c, i).type = "Extend" /\ Cell1(c, i).hops = 0
      /\ link' = TakeCell(link, i) /\ pc[i] = "relay"
  BY <1>1 DEF RelayExtend, HasCell, In, Cell1
<1>3. link' \in Links /\ Cleared(c, i) /\ Only(c, i)
  BY <1>0, <1>1, <1>2, TakesCell
<1>4. /\ TypeOK' /\ Machines' /\ Talk' /\ LogsAgree' /\ SessionIsWitnessed'
      /\ Growing /\ pc'[i] = "connect" /\ (\A k \in Nodes : k # i => pc'[k] = pc[k])
      /\ On(c, i)'
  <2>1. "connect" \in Places(i) /\ Goto(i, "connect") /\ TypeOK
    BY <1>0, Fixed DEF RelayExtend, Places, IInv
  <2>2. faults' \in 0 .. MaxFaults /\ depth' \in [Bases -> Nat] /\ round' \in 0 .. MaxRounds
    BY <2>1 DEF RelayExtend, TypeOK
  <2> QED BY <1>0, <1>1, <1>2, <1>3, <2>1, <2>2, Moves DEF RelayExtend
<1>5. Acts(i)
  BY <1>1, <1>3, <1>4 DEF RelayExtend, Acts, Only
<1>6. \A j \in Hops : j # i => Kept(c, j)
  BY <1>3 DEF Kept, Only
<1>7. \A j \in Hops : Reached(c, j) => Reached(c, j)'
  BY <1>3, <1>6 DEF Kept, Cleared, Reached
<1>8. \A b \in Bases : Tally(c, b)'
  BY <1>0, <1>1, <1>4, <1>5, <1>7, TalliesStay DEF RelayExtend
<1>9. Circuit(c)'
  BY <1>0, <1>1, <1>2, <1>3, <1>4, <1>5, <1>6, <1>8, Hold
<1> QED BY <1>0, <1>1, <1>4, <1>5, <1>9, Closes

(* A base that takes no part in a step is asked for the same. *)
LEMMA SameAsked ==
    ASSUME NEW i \in 0 .. D, Acts(i), NEW b \in Bases, b # i
    PROVE  /\ pc'[b] = pc[b] /\ depth'[b] = depth[b] /\ Asked(b)' = Asked(b) /\ Expected(b)' = Expected(b)
<1>1. pc'[b] = pc[b] /\ depth'[b] = depth[b]
  BY BaseNode, LineNodes DEF Acts
<1>2. Asked(b)' = Asked(b)
  BY Fixed DEF Acts, Asked, Bases
<1> QED BY <1>1, <1>2 DEF Expected

(* A step that leaves the end of a part alone leaves what it has counted. *)
LEMMA CountedStays ==
    ASSUME NEW c, NEW b \in Bases, NEW n, Counted(c, b, n), On(c, End(b))' => On(c, End(b)),
           count'[End(b)] = count[End(b)], Reached(c, End(b)) => Reached(c, End(b))'
    PROVE  Counted(c, b, n)'
BY DEF Counted

(* A proxy passes a request on: it is for a machine further down. *)
LEMMA RelayForwardInv ==
    ASSUME IInv, NEW i \in Proxies, RelayForward(i)
    PROVE  IInv'
<1>0. /\ i \in Hops /\ i \in 0 .. D /\ i + 1 \in Hops /\ i + 1 # i /\ i # 0 /\ i # Z /\ i # D
      /\ i \notin Bases /\ i \in Nat
  BY Ahead, HopNode
<1>1. PICK c \in Circuits : c = circ[i] /\ On(c, i) /\ Circuit(c) /\ link \in Links
  BY <1>0, Working DEF RelayForward
<1>2. /\ Wire(c, i) /\ Wire(c, i + 1) /\ Sane(c, i) /\ Ids(c)
      /\ \A b \in Bases : Counts(c, b) /\ Phase(c, b)
  BY <1>0, <1>1 DEF Circuit
<1>3. PICK q : q = Cell1(c, i)
  OBVIOUS
<1>4. /\ link[In(i)].down # <<>> /\ link[<<c, i>>].down # <<>> /\ In(i) = <<c, i>> /\ Out(i) = <<c, i + 1>>
      /\ q = Head(link[In(i)].down) /\ q \in Cells /\ pc[i] = "relay" /\ q.hops > 0
      /\ TypeOK
  <2>1. In(i) = <<c, i>> /\ Out(i) = <<c, i + 1>> /\ link[In(i)].down # <<>>
    BY <1>1 DEF RelayForward, In, Out
  <2>2. link[<<c, i>>].down \in Seq(Cells)
    BY <1>0, <1>1 DEF Links, Linked
  <2> QED BY <1>3, <2>1, <2>2, HeadCell DEF RelayForward, Cell1, IInv
<1>5. CASE link[Out(i)].sv = "none"
  <2>1. Leave(i, TakeCell(link, i)) /\ faults' \in 0 .. MaxFaults
    BY <1>4, <1>5 DEF RelayForward, TypeOK
  <2> QED BY <1>0, <1>4, <2>1, GivesUpQuietly DEF RelayForward
<1>6. CASE link[Out(i)].sv # "none"
  <2>1. PICK m : m = [q EXCEPT !.hops = @ - 1]
    OBVIOUS
  <2>2. m \in Cells /\ m.type = q.type /\ m.res = q.res /\ m.hops = q.hops - 1 /\ q.hops \in Nat
    BY <1>4, <2>1 DEF Cells
  <2>3. link' = SendDown(TakeCell(link, i), i, m) /\ Goto(i, "forward")
    BY <1>4, <1>6, <2>1 DEF RelayForward
  <2>4. link[<<c, i + 1>>].down = <<>> /\ link[<<c, i + 1>>].up = <<>>
    BY <1>0, <1>1, <1>2, <1>4, <1>6 DEF Wire
  <2>5. link' \in Links /\ Cleared(c, i) /\ Passed(c, i + 1, m) /\ Only2(c, i)
    BY <1>0, <1>1, <1>2, <1>4, <2>2, <2>3, <2>4, PassesCell
  <2>6. /\ TypeOK' /\ Machines' /\ Talk' /\ LogsAgree' /\ SessionIsWitnessed'
        /\ Growing /\ pc'[i] = "forward" /\ (\A k \in Nodes : k # i => pc'[k] = pc[k])
        /\ On(c, i)'
    <3>1. "forward" \in Places(i)
      BY <1>0, Fixed DEF Places
    <3>2. faults' \in 0 .. MaxFaults /\ depth' \in [Bases -> Nat] /\ round' \in 0 .. MaxRounds
      BY <1>4 DEF RelayForward, TypeOK
    <3> QED BY <1>0, <1>1, <1>4, <2>3, <2>5, <3>1, <3>2, Moves DEF RelayForward
  <2>7. Acts(i)
    BY <1>1, <2>5, <2>6 DEF RelayForward, Acts, Only2
  <2>8. \A j \in Hops : Reached(c, j) => Reached(c, j)'
    <3>1. \A j \in Hops : j \notin {i, i + 1} => link'[<<c, j>>] = link[<<c, j>>]
      BY <2>5 DEF Only2
    <3> QED BY <2>5, <3>1 DEF Cleared, Passed, Reached
  <2>9. \A b \in Bases : Tally(c, b)'
    BY <1>0, <1>1, <2>6, <2>7, <2>8, TalliesStay DEF RelayForward
  <2>10. m.type \in DownTypes
    BY <1>2, <1>3, <1>4, <2>2 DEF Sane
  <2>11. m.type = "Extend" =>
            /\ i + 1 <= Z => i + 1 + m.hops < Z
            /\ i + 1 + m.hops < D
            /\ \A k \in Hops : k > i + 1 + m.hops => link[<<c, k>>].sv = "none"
    <3>1. i + 1 + m.hops = i + q.hops
      BY <1>0, <2>2
    <3>2. i + 1 <= Z => i <= Z
      BY <1>0, LineAssumption
    <3>3. q.type = "Extend" =>
             /\ i <= Z => i + q.hops < Z
             /\ i + q.hops < D
             /\ \A k \in Hops : k > i + q.hops => link[<<c, k>>].sv = "none"
      BY <1>2, <1>3, <1>4 DEF Sane
    <3> QED BY <2>2, <3>1, <3>2, <3>3
  <2>12. \A b \in Bases : i + 1 \in Seg(b) => i \in Seg(b)
    BY <1>0, LineAssumption DEF Seg, Bases, End, Hops
  <2>13. ASSUME NEW b \in Bases, i + 1 \in Seg(b), On(c, b), pc'[b] \in {"extended", "round"}
         PROVE  /\ m.type \in Expected(b)' /\ depth'[b] \in 0 .. Last(b)
                /\ pc'[b] = "extended" =>
                     /\ m.type = "Extend" /\ i + 1 + m.hops = b + depth'[b]
                     /\ \A j \in Seg(b) : j > b + 1 + depth'[b] => link[<<c, j>>].sv = "none"
    <3>1. /\ pc'[b] = pc[b] /\ depth'[b] = depth[b] /\ Expected(b)' = Expected(b)
      BY <1>0, <2>7, SameAsked
    <3>2. q.type \in Expected(b) /\ depth[b] \in 0 .. Last(b) /\ (pc[b] = "extended" => Built(c, b, i))
      BY <1>1, <1>3, <1>4, <2>12, <2>13, CellExpected
    <3>3. ASSUME pc[b] = "extended"
          PROVE  /\ m.type = "Extend" /\ i + 1 + m.hops = b + depth[b]
                 /\ \A j \in Seg(b) : j > b + 1 + depth[b] => link[<<c, j>>].sv = "none"
      <4>1. \A j \in Seg(b) : Built(c, b, j)
        BY <1>2, <2>13, <3>3 DEF Phase
      <4>2. \A j \in Seg(b) : j > b + 1 + depth[b] => link[<<c, j>>].sv = "none"
        BY <4>1 DEF Built
      <4>3. ~ (i + 1 > b + 1 + depth[b])
        BY <1>4, <1>6, <2>13, <4>2
      <4>4. q.type = "ExtendCircuit" => i = b + 1 + depth[b]
        BY <1>3, <1>4, <3>2, <3>3 DEF Built
      <4>5. q.type # "ExtendCircuit"
        BY <1>0, <3>2, <4>3, <4>4, BaseNode, Line
      <4>6. q.type = "Extend"
        BY <2>2, <2>10, <3>2, <3>3, <4>5 DEF Expected, DownTypes
      <4>7. i + q.hops = b + depth[b]
        BY <1>3, <1>4, <3>2, <3>3, <4>6 DEF Built
      <4> QED BY <1>0, <2>2, <4>2, <4>6, <4>7
    <3> QED BY <2>2, <3>1, <3>2, <3>3
  <2>14. ASSUME m.type = "ChainSubmission", NEW b \in Bases, i + 1 \in Seg(b)
         PROVE  /\ Counted(c, b, m.res.id - 1)' /\ m.res.id \in 1 .. MaxRounds
                /\ On(c, b) => m.res.id = Asked(b)'
    <3>1. Counted(c, b, m.res.id - 1) /\ m.res.id \in 1 .. MaxRounds
      BY <1>2, <1>3, <1>4, <2>2, <2>12, <2>14 DEF Counts, Numbered
    <3>2. On(c, b) => m.res.id = Asked(b)
      BY <1>2, <1>3, <1>4, <2>2, <2>12, <2>14 DEF Ids, DataIs
    <3>3. Asked(b)' = Asked(b)
      BY <1>0, <2>7, SameAsked
    <3>4. On(c, End(b))' => On(c, End(b))
      BY <1>0, <1>1, <2>6, <2>7, ActsOn, EndIs
    <3>5. count' = count
      BY DEF RelayForward
    <3> QED BY <2>8, <3>1, <3>2, <3>3, <3>4, <3>5, EndIs, CountedStays
  <2>15. m.type = "ChainSubmission" =>
            Cell1(c, i).type = "ChainSubmission" /\ m.res.id = Cell1(c, i).res.id
    BY <1>3, <2>2
  <2>16. Circuit(c)'
    BY <1>0, <1>1, <1>4, <2>5, <2>6, <2>7, <2>9, <2>10, <2>11, <2>13, <2>14, <2>15, DownMove
  <2> QED BY <1>0, <1>1, <2>6, <2>7, <2>16, Closes
<1> QED BY <1>5, <1>6

(* A machine answers the first cell of a connection, or fails to. *)
LEMMA ServeExtendInv ==
    ASSUME IInv, NEW i \in Hops, NEW error \in BOOLEAN, ServeExtend(i, error)
    PROVE  IInv'
<1>0. i \in 0 .. D /\ i \in Nodes /\ i # 0 /\ i # i + 1
  BY HopNode, Line
<1>1. PICK c \in Circuits : c = circ[i] /\ On(c, i) /\ Circuit(c) /\ link \in Links /\ Wire(c, i)
  BY <1>0, Working DEF ServeExtend, Circuit
<1>2. /\ link[In(i)].down # <<>> /\ Cell1(c, i).type = "ExtendCircuit" /\ pc[i] = "extend"
      /\ TypeOK
  BY <1>1 DEF ServeExtend, HasCell, In, Cell1, IInv
<1>3. CASE error
  <2>1. Leave(i, TakeCell(link, i)) /\ faults' \in 0 .. MaxFaults
    BY <1>2, <1>3 DEF ServeExtend, TypeOK
  <2> QED BY <1>0, <1>2, <2>1, GivesUpQuietly DEF ServeExtend
<1>4. CASE ~ error
  <2> DEFINE m == Cell("Extended", 0, Blank)
  <2>1. m \in Cells /\ m.type = "Extended" /\ m.res = Blank
    BY CellsType, SubmissionType DEF CellTypes
  <2>2. PICK p : p = IF i = Z /\ mode # "chain1" THEN "connect" ELSE "relay"
    OBVIOUS
  <2>3. link' = SendUp(TakeCell(link, i), i, m) /\ Goto(i, p)
    BY <1>4, <2>2 DEF ServeExtend
  <2> HIDE DEF m
  <2>4. /\ link' \in Links /\ Replied(c, i, m) /\ Only(c, i)
        /\ link[<<c, i>>].down # <<>> /\ link[<<c, i>>].up = <<>>
    BY <1>1, <1>2, <2>1, <2>3, AnswersCell
  <2>5. /\ TypeOK' /\ Machines' /\ Talk' /\ LogsAgree' /\ SessionIsWitnessed'
        /\ Growing /\ pc'[i] = p /\ (\A k \in Nodes : k # i => pc'[k] = pc[k])
        /\ On(c, i)'
    <3>1. p \in Places(i) /\ p \notin {"down", "accept", "session", "quorum"}
      BY <1>0, <2>2, Fixed DEF Places, Hops, Vm4
    <3>2. faults' \in 0 .. MaxFaults /\ depth' \in [Bases -> Nat] /\ round' \in 0 .. MaxRounds
      BY <1>2 DEF ServeExtend, TypeOK
    <3> QED BY <1>0, <1>1, <1>2, <2>3, <2>4, <3>1, <3>2, Moves DEF ServeExtend
  <2>6. Acts(i)
    BY <1>1, <2>4, <2>5 DEF ServeExtend, Acts, Only
  <2>7. \A j \in Hops : j # i => Kept(c, j)
    BY <2>4 DEF Kept, Only
  <2>8. \A j \in Hops : Reached(c, j) => Reached(c, j)'
    BY <2>4, <2>7 DEF Kept, Replied, Reached
  <2>9. /\ i + 1 \in Hops => Kept(c, i + 1)
        /\ Busy(c, i) /\ m.type \in UpTypes /\ Notes(c, i)'
    <3>1. Notes(c, i)'
      BY <2>1, <2>4, PlainAnswer
    <3> QED BY <1>0, <2>1, <2>4, <2>7, <3>1 DEF Busy, UpTypes
  <2>10. ASSUME NEW b \in Bases, i \in Seg(b), On(c, b), pc[b] \in {"extended", "round"}
         PROVE  m.type \in Expected(b) /\ (pc[b] = "extended" => Reached(c, b + 1 + depth[b]))
    <3>1. Cell1(c, i).type \in Expected(b) /\ (pc[b] = "extended" => Built(c, b, i))
      BY <1>1, <2>4, <2>10, CellExpected
    <3>2. pc[b] = "extended" /\ "Extended" \in Expected(b)
      BY <1>2, <2>10, <3>1 DEF Expected
    <3>3. i = b + 1 + depth[b]
      BY <1>2, <2>4, <3>1, <3>2 DEF Built
    <3>4. Reached(c, i)
      BY <1>1 DEF Wire, Reached
    <3> QED BY <2>1, <3>2, <3>3, <3>4
  <2>11. ASSUME NEW b \in Bases PROVE Tally(c, b)'
    <3>1. Tally(c, b) /\ (On(c, b)' => On(c, b)) /\ (On(c, End(b))' => On(c, End(b))) /\ count' = count
      BY <1>0, <1>1, <2>5, <2>6, ActsOn, BaseNode, EndIs DEF Circuit, Counts, ServeExtend
    <3>2. CASE b # i
      BY <1>0, <2>6, <2>8, <3>1, <3>2, TallyStays, EndIs
    <3>3. CASE b = i
      <4>1. b = Z /\ pc[b] = "extend" /\ pc'[b] = p /\ mode' = mode
        BY <1>0, <1>2, <2>5, <3>3 DEF Bases, ServeExtend
      <4>2. (On(c, End(b)) => count[End(b)] = 0) /\ count[Z] = 0
        BY <1>1, <3>1, <3>3, <4>1 DEF Tally
      <4>3. pc'[b] = "connect" \/ (pc'[b] = "relay" /\ mode' = "chain1")
        BY <2>2, <3>3, <4>1
      <4> QED BY <1>0, <3>1, <3>3, <4>1, <4>2, <4>3 DEF Tally
    <3> QED BY <3>2, <3>3
  <2>12. pc'[i] = "relay" \/ (i = Z /\ pc'[i] = "connect" /\ pc[i] = "extend")
    BY <1>2, <2>2, <2>5
  <2>13. Circuit(c)'
    BY <1>0, <1>1, <1>2, <2>1, <2>4, <2>5, <2>6, <2>9, <2>10, <2>11, <2>12, UpMove
  <2> QED BY <1>0, <1>1, <2>5, <2>6, <2>13, Closes
<1> QED BY <1>3, <1>4

(* A machine connects to the next hop: nothing was there before. *)
LEMMA ConnectInv ==
    ASSUME IInv, NEW i \in 0 .. D - 1, Connect(i)
    PROVE  IInv'
<1>0. i \in 0 .. D /\ i + 1 \in Hops /\ i \in Nodes /\ i # D /\ i # Vm4
  BY LineAssumption, LineNodes DEF Hops, Vm4
<1> DEFINE m == Cell("ExtendCircuit", 0, Blank)
<1>1. PICK c \in Circuits : c = circ[i] /\ On(c, i) /\ Circuit(c) /\ link \in Links
  BY <1>0, Working DEF Connect
<1>2. m \in Cells /\ m.type = "ExtendCircuit"
  BY CellsType, SubmissionType DEF CellTypes
<1>3. /\ link' = [link EXCEPT ![<<c, i + 1>>] = [cl |-> TRUE, sv |-> "queued", up |-> <<>>, down |-> <<m>>]]
      /\ pc[i] = "connect" /\ TypeOK
  BY <1>1 DEF Connect, Out, IInv
<1> HIDE DEF m
<1>4. <<m>> \in Seq(Cells) /\ Holds(<<m>>, m)
  BY <1>2 DEF Holds
<1>5. /\ link' \in Links /\ Only(c, i + 1)
      /\ link'[<<c, i + 1>>].sv = "queued" /\ link'[<<c, i + 1>>].cl
      /\ link'[<<c, i + 1>>].up = <<>> /\ Holds(link'[<<c, i + 1>>].down, m)
  <2>1. [cl |-> TRUE, sv |-> "queued", up |-> <<>>, down |-> <<m>>] \in Linked
    BY <1>4 DEF Linked
  <2> QED BY <1>0, <1>1, <1>3, <1>4, <2>1 DEF Links, Only
<1>6. depth' \in [Bases -> Nat] /\ (i \in Bases => depth'[i] = 0) /\ (\A b \in Bases : b # i => depth'[b] = depth[b])
  BY <1>3 DEF Connect, TypeOK
<1>7. /\ TypeOK' /\ Machines' /\ Talk' /\ LogsAgree' /\ SessionIsWitnessed'
      /\ Growing /\ pc'[i] = "extended" /\ (\A k \in Nodes : k # i => pc'[k] = pc[k])
      /\ On(c, i)'
  <2>1. "extended" \in Places(i) /\ Goto(i, "extended")
    BY <1>0 DEF Places, Connect
  <2>2. faults' \in 0 .. MaxFaults /\ round' \in 0 .. MaxRounds
    BY <1>3 DEF Connect, TypeOK
  <2>3. UNCHANGED <<mode, circ, round, count, active, work, quorum, log>>
    BY DEF Connect
  <2>4. /\ TypeOK' /\ Machines' /\ Talk' /\ LogsAgree' /\ SessionIsWitnessed'
        /\ Growing /\ pc'[i] = "extended" /\ \A k \in Nodes : k # i => pc'[k] = pc[k]
    BY <1>0, <1>3, <1>5, <1>6, <2>1, <2>2, <2>3, Moves
  <2>5. On(c, i)'
    BY <1>1, <2>3, <2>4 DEF On
  <2> QED BY <2>4, <2>5
<1>8. Acts(i)
  BY <1>1, <1>5, <1>6, <1>7 DEF Connect, Acts, Only
<1>9. \A j \in Hops : j # i + 1 => Kept(c, j)
  BY <1>5 DEF Kept, Only
<1>10. \A j \in Hops : link[<<c, j>>] \in Linked
  BY <1>1 DEF Links
<1>11. Circuit(c)'
  BY <1>0, <1>1, <1>2, <1>3, <1>5, <1>6, <1>7, <1>8, <1>9, <1>10, Connected DEF Connect
<1> QED BY <1>0, <1>1, <1>7, <1>8, <1>11, Closes

(* vm1 begins a circuit: none of its links has been used. *)
LEMMA EstablishInv ==
    ASSUME IInv, Establish
    PROVE  IInv'
<1>1. TypeOK /\ Machines /\ Talk /\ pc[0] = "accept" /\ circ[0] \in 0 .. MaxCircuits
  BY Fixed DEF IInv, Establish, TypeOK
<1>2. PICK c : c = circ[0] + 1
  OBVIOUS
<1>3. c \in Circuits /\ c > circ[0] /\ c # 0
  BY <1>1, <1>2, BoundAssumption DEF Establish, Circuits
<1>4. /\ circ'[0] = c /\ pc'[0] = "connect" /\ link' = link /\ log' = log /\ mode' = mode
      /\ \A k \in Nodes : k # 0 => pc'[k] = pc[k] /\ circ'[k] = circ[k]
  BY <1>1, <1>2, Fixed DEF Establish, Goto, TypeOK
<1>5. TypeOK' /\ Machines'
  <2>1. TypeOK'
    <3>1. circ' \in [Nodes -> 0 .. MaxCircuits] /\ round' \in 0 .. MaxRounds
      <4>1. circ \in [Nodes -> 0 .. MaxCircuits] /\ circ' = [circ EXCEPT ![0] = c]
        BY <1>1, <1>2 DEF Establish, TypeOK
      <4>2. c \in 0 .. MaxCircuits /\ 0 \in 0 .. MaxRounds
        BY <1>3, BoundAssumption DEF Circuits
      <4> QED BY <4>1, <4>2 DEF Establish
    <3>2. pc' \in [Nodes -> {"down", "accept", "extend", "relay", "connect", "extended",
                             "forward", "round", "session", "quorum"}]
      BY <1>1 DEF Establish, Goto, TypeOK
    <3> QED BY <1>1, <3>1, <3>2 DEF Establish, TypeOK
  <2> QED BY <1>1, <1>3, <1>4, <2>1 DEF Machines, Places
<1>6. Talk'
  BY <1>1, <1>4, Fixed, LogStays, TalkStays DEF Establish, Growing
<1>7. LogsAgree' /\ SessionIsWitnessed'
  BY <1>4, Unlogged
<1>8. ASSUME NEW d \in Circuits PROVE Circuit(d)'
  <2>1. Circuit(d)
    BY DEF IInv
  <2>2. CASE d = c
    BY <1>3, <1>4, <2>1, <2>2, LineNodes, Established
  <2>3. CASE d # c
    <3>1. Growing
      BY <1>4, LogStays
    <3>2. \A i \in 0 .. D : (On(d, i)' <=> On(d, i)) /\ (On(d, i) => pc'[i] = pc[i])
      BY <1>1, <1>4, <2>3, LineNodes DEF On
    <3>3. d > circ'[0] => d > circ[0]
      BY <1>1, <1>3, <1>4 DEF Circuits
    <3>4. ~ On(d, 0)
      BY <1>1 DEF On
    <3>5. Aside(d)
      BY <1>4, <3>1, <3>2, <3>3, <3>4 DEF Aside, Establish
    <3> QED BY <2>1, <3>5, Frame
  <2> QED BY <2>2, <2>3
<1> QED BY <1>5, <1>6, <1>7, <1>8 DEF IInv

(* A machine accepts the oldest connection in its backlog and starts counting
   from 0. *)
LEMMA AcceptInv ==
    ASSUME IInv, NEW i \in Hops, NEW c \in Circuits, Accept(i, c)
    PROVE  IInv'
<1>1. TypeOK /\ Machines /\ Talk /\ pc[i] = "accept" /\ i \in Nodes /\ i \in 0 .. D /\ i # 0 /\ c # 0 /\ link \in Links
  <2>1. i \in Nodes /\ i \in 0 .. D /\ i # 0 /\ c # 0
    BY HopNode, Fixed DEF Circuits
  <2>2. TypeOK /\ link \in Links
    BY LinksType DEF IInv
  <2> QED BY <2>1, <2>2 DEF IInv, Accept
<1>2. /\ circ'[i] = c /\ pc'[i] = "extend" /\ log' = log /\ mode' = mode /\ circ'[0] = circ[0]
      /\ \A k \in Nodes : k # i => pc'[k] = pc[k] /\ circ'[k] = circ[k]
      /\ \A v \in Verifiers : count'[v] = IF v = i THEN 0 ELSE count[v]
      /\ work' = work /\ depth' = depth /\ round' = round
  BY <1>1, Fixed DEF Accept, Goto, TypeOK
<1>3. /\ link' \in Links /\ Only(c, i)
      /\ link[<<c, i>>].sv = "queued" /\ link'[<<c, i>>].sv = "open"
      /\ link'[<<c, i>>].cl = link[<<c, i>>].cl
      /\ link'[<<c, i>>].down = link[<<c, i>>].down /\ link'[<<c, i>>].up = link[<<c, i>>].up
  BY <1>1 DEF Accept, Links, Linked, Only
<1>4. TypeOK' /\ Machines'
  <2>1. circ' \in [Nodes -> 0 .. MaxCircuits] /\ count' \in [Verifiers -> 0 .. MaxRounds]
    BY <1>1, BoundAssumption DEF Accept, TypeOK, Circuits
  <2>2. pc' \in [Nodes -> {"down", "accept", "extend", "relay", "connect", "extended",
                           "forward", "round", "session", "quorum"}]
    BY <1>1 DEF Accept, Goto, TypeOK
  <2>3. active' \in BOOLEAN
    BY DEF Accept
  <2>4. TypeOK'
    BY <1>1, <1>3, <2>1, <2>2, <2>3 DEF Accept, TypeOK, Links, Linked
  <2>5. "extend" \in Places(i)
    BY <1>1, Line DEF Places
  <2> QED BY <1>1, <1>2, <2>4, <2>5 DEF Machines, Places
<1>5. Growing
  BY <1>2, LogStays
<1>6. Talk'
  <2>1. CASE i = D
    BY <1>1, <1>2, <2>1 DEF Talk, Accept
  <2>2. CASE i # D
    BY <1>1, <1>2, <1>5, <2>2, Fixed, TalkStays DEF Accept, Growing
  <2> QED BY <2>1, <2>2
<1>7. LogsAgree' /\ SessionIsWitnessed'
  BY <1>1, <1>2, Fixed, Unlogged
<1>8. ASSUME NEW d \in Circuits PROVE Circuit(d)'
  <2>1. Circuit(d) /\ ~ On(d, i)
    BY <1>1 DEF IInv, On
  <2>2. CASE d = c
    <3>1. \A j \in Hops : j # i => Kept(c, j)
      BY <1>3 DEF Only, Kept
    <3>2. On(c, i)'
      BY <1>2 DEF On
    <3>3. \A k \in 0 .. D : k # i => pc'[k] = pc[k] /\ circ'[k] = circ[k]
      BY <1>2, LineNodes
    <3> QED BY <1>2, <1>3, <1>5, <2>1, <2>2, <3>1, <3>2, <3>3, Accepted
  <2>3. CASE d # c
    <3>1. \A j \in Hops : link'[<<d, j>>] = link[<<d, j>>]
      BY <1>3, <2>3 DEF Only
    <3>2. ~ On(d, i)'
      BY <1>2, <2>3 DEF On
    <3>3. \A k \in 0 .. D : (On(d, k)' <=> On(d, k)) /\ (On(d, k) => pc'[k] = pc[k])
      BY <1>2, <2>1, <3>2, LineNodes DEF On
    <3>4. \A v \in Verifiers : On(d, v) => count'[v] = count[v] /\ work'[v] = work[v]
      BY <1>2, <2>1
    <3>5. Aside(d)
      BY <1>2, <1>5, <3>1, <3>3, <3>4 DEF Aside
    <3> QED BY <2>1, <3>5, Frame
  <2> QED BY <2>2, <2>3
<1> QED BY <1>4, <1>6, <1>7, <1>8 DEF IInv

(* A step that leaves every circuit as it is. *)
LEMMA Undisturbed ==
    ASSUME IInv, UNCHANGED <<circ, depth, round, count, work, link, mode>>, Growing,
           \A k \in 0 .. D : pc'[k] # pc[k] => {pc[k], pc'[k]} \subseteq {"accept", "down"}
    PROVE  \A d \in Circuits : Circuit(d)'
<1> SUFFICES ASSUME NEW d \in Circuits PROVE Circuit(d)'
  OBVIOUS
<1>1. \A k \in 0 .. D : (On(d, k)' <=> On(d, k)) /\ (On(d, k) => pc'[k] = pc[k])
  BY DEF On
<1>2. Circuit(d) /\ Aside(d)
  BY <1>1 DEF Aside, IInv
<1> QED BY <1>2, Frame

(* A machine comes back and waits for connections. *)
LEMMA RestartInv ==
    ASSUME IInv, NEW i \in Nodes, Restart(i)
    PROVE  IInv'
<1>1. TypeOK /\ Machines /\ Talk
  BY DEF IInv
<1>2. /\ pc[i] = "down" /\ pc'[i] = "accept" /\ (\A k \in Nodes : k # i => pc'[k] = pc[k])
      /\ Growing
  BY <1>1, LogStays DEF Restart, Goto, TypeOK
<1>3. TypeOK' /\ Machines'
  <2>1. pc' \in [Nodes -> {"down", "accept", "extend", "relay", "connect", "extended",
                           "forward", "round", "session", "quorum"}]
    BY <1>1 DEF Restart, Goto, TypeOK
  <2>2. TypeOK'
    BY <1>1, <2>1 DEF Restart, TypeOK
  <2> QED BY <1>1, <1>2, <2>2 DEF Restart, Machines, Places
<1>4. Talk'
  <2>1. D \in Nodes /\ Grows(Vm4)
    BY <1>2, Fixed DEF Growing
  <2> QED BY <1>1, <1>2, <2>1, TalkStays DEF Restart
<1>5. LogsAgree' /\ SessionIsWitnessed'
  BY <1>2, Fixed, Unlogged DEF Restart
<1>6. \A d \in Circuits : Circuit(d)'
  BY <1>2, LineNodes, Undisturbed DEF Restart
<1> QED BY <1>3, <1>4, <1>5, <1>6 DEF IInv

(* vm3 asks vm4, or fails to reach it. *)
LEMMA AskVm4Inv ==
    ASSUME IInv, NEW error \in BOOLEAN, AskVm4(error)
    PROVE  IInv'
<1>1. TypeOK /\ Machines /\ Talk
  BY DEF IInv
<1>2. Growing
  BY LogStays DEF AskVm4
<1>3. TypeOK' /\ Machines'
  <2>1. faults' \in 0 .. MaxFaults
    BY <1>1, FaultsType DEF AskVm4
  <2> QED BY <1>1, <2>1 DEF AskVm4, TypeOK, Machines, Places
<1>4. Talk'
  BY <1>1 DEF AskVm4, Talk
<1>5. LogsAgree' /\ SessionIsWitnessed'
  BY Unlogged DEF AskVm4
<1>6. \A d \in Circuits : Circuit(d)'
  BY <1>2, Undisturbed DEF AskVm4
<1> QED BY <1>3, <1>4, <1>5, <1>6 DEF IInv

(* What a verifier logs, and vm4 for vm3, about its circuit. *)
LEMMA EntryType ==
    ASSUME TypeOK, NEW v \in Verifiers, circ[v] \in Circuits, NEW n \in Nat, NEW res \in Response, NEW ev \in Events
    PROVE  /\ Entry(v, n, res, ev) \in Entries
           /\ Entry(v, n, res, ev).c = circ[v] /\ Entry(v, n, res, ev).n = n /\ Entry(v, n, res, ev).id = res.id
           /\ Entry(v, n, res, ev).event = ev /\ Entry(v, n, res, ev).clean = res.clean
BY DEF Entry, Entries, Response

(* The event a verifier logs says what its verdict is. *)
LEMMA EventType ==
    ASSUME NEW v \in Verifiers, NEW ok \in BOOLEAN
    PROVE  /\ Event(v, ok) \in Events /\ Event(v, ok) # "SessionEnded"
           /\ Event(v, ok) \in Positive <=> ok
           /\ v = D /\ ok => Event(v, ok) = "ChainVerified"
BY Fixed DEF Event, Events, Positive

(* vm4 answers, and an approval is in its log by then. *)
LEMMA Vm4DecidesInv ==
    ASSUME IInv, NEW vm3_ok \in BOOLEAN, Vm4Decides(vm3_ok)
    PROVE  IInv'
<1>1. TypeOK /\ Machines /\ Talk /\ LogsAgree /\ SessionIsWitnessed
  BY DEF IInv
<1>2. pc[D] = "quorum"
  BY <1>1 DEF Vm4Decides, Talk
<1>3. circ[D] \in Circuits
  BY <1>2, Fixed, Working
<1>4. work[D] \in Response /\ work[D].ok \in BOOLEAN /\ count[D] \in Nat
  BY <1>1, Fixed, BoundAssumption DEF TypeOK, Response
<1>5. PICK approved \in BOOLEAN : approved = (vm3_ok /\ work[D].ok)
  OBVIOUS
<1>6. PICK e : e = Entry(D, count[D], work[D], Event(D, approved))
  OBVIOUS
<1>7. e \in Entries /\ e.c = circ[D] /\ e.id = work[D].id /\ (approved => e.event = "ChainVerified")
  BY <1>1, <1>3, <1>4, <1>6, Fixed, EntryType, EventType
<1>8. /\ quorum' = (IF approved THEN "approved" ELSE "denied")
      /\ log' = [log EXCEPT ![Vm4] = Append(@, e)]
  BY <1>5, <1>6 DEF Vm4Decides
<1>9. /\ log' \in [Verifiers \cup {Vm4} -> Seq(Entries)] /\ Growing
      /\ \E k \in DOMAIN log'[Vm4] : log'[Vm4][k] = e
  BY <1>1, <1>7, <1>8, Logs
<1>10. TypeOK' /\ Machines'
  BY <1>1, <1>8, <1>9 DEF Vm4Decides, TypeOK, Machines, Places
<1>11. Talk'
  BY <1>1, <1>2, <1>7, <1>8, <1>9 DEF Talk, Vm4Decides
<1>12. LogsAgree'
  BY <1>1, <1>7, <1>8, Fixed, Agrees DEF Vm4Decides
<1>13. SessionIsWitnessed'
  BY <1>1, <1>9, Witnessed DEF Vm4Decides
<1>14. \A d \in Circuits : Circuit(d)'
  BY <1>9, Undisturbed DEF Vm4Decides
<1> QED BY <1>10, <1>11, <1>12, <1>13, <1>14 DEF IInv

(* A machine crashes, wherever it is. *)
LEMMA CrashInv ==
    ASSUME IInv, NEW i \in Nodes, Crash(i)
    PROVE  IInv'
<1>1. TypeOK /\ Machines /\ Talk /\ link \in Links
  BY LinksType DEF IInv
<1>2. /\ pc'[i] = "down" /\ (\A k \in Nodes : k # i => pc'[k] = pc[k])
      /\ Growing /\ mode' = mode /\ circ' = circ
  BY <1>1, LogStays DEF Crash, Goto, TypeOK
<1>3. link' \in Links /\ \A d \in Circuits : Severed(d, i)
  BY <1>1, Crashes DEF Crash
<1>4. TypeOK' /\ Machines'
  <2>1. pc' \in [Nodes -> {"down", "accept", "extend", "relay", "connect", "extended",
                           "forward", "round", "session", "quorum"}]
    BY <1>1 DEF Crash, Goto, TypeOK
  <2>2. faults' \in 0 .. MaxFaults /\ quorum' \in {"none", "asked", "approved", "denied", "lost"}
    BY <1>1, FaultsType DEF Crash, TypeOK
  <2>3. TypeOK'
    BY <1>1, <1>3, <2>1, <2>2 DEF Crash, TypeOK, Links, Linked
  <2> QED BY <1>1, <1>2, <2>3 DEF Machines, Places
<1>5. Talk'
  <2>1. CASE i = D
    BY <1>2, <2>1 DEF Crash, Talk
  <2>2. CASE i # D
    <3>1. pc'[D] = pc[D] /\ circ' = circ /\ work' = work /\ count' = count /\ log' = log
      BY <1>2, <2>2, Fixed DEF Crash
    <3>2. (quorum' # "none" => quorum # "none") /\ (quorum' = "approved" => quorum = "approved")
      BY <2>2 DEF Crash
    <3> QED BY <1>1, <3>1, <3>2 DEF Talk
  <2> QED BY <2>1, <2>2
<1>6. LogsAgree' /\ SessionIsWitnessed'
  BY <1>2, Fixed, Unlogged DEF Crash
<1>7. ASSUME NEW d \in Circuits PROVE Circuit(d)'
  <2>1. Circuit(d) /\ Severed(d, i)
    BY <1>3 DEF IInv
  <2>2. ~ On(d, i)' /\ \A k \in 0 .. D : k # i => /\ On(d, k)' <=> On(d, k)
                                                  /\ On(d, k) => pc'[k] = pc[k]
    BY <1>2, LineNodes DEF On
  <2>3. Departed(d, i)
    BY <1>2, <2>1, <2>2 DEF Departed, Crash
  <2> QED BY <2>1, <2>3, Depart
<1> QED BY <1>4, <1>5, <1>6, <1>7 DEF IInv

(* The next machine of base b belongs to b's part of the circuit only. *)
LEMMA NextHop ==
    ASSUME NEW b \in Bases
    PROVE  /\ b + 1 \in Hops /\ b + 1 # b /\ b \in 0 .. D /\ b \in Nodes /\ b # D
           /\ \A a \in Bases : b + 1 \in Seg(a) => a = b
BY LineAssumption DEF Bases, Hops, Seg, End, Nodes, Vm4

(* A base has one hop more and asks for the next. *)
LEMMA ExtendNextInv ==
    ASSUME IInv, NEW b \in Bases, ExtendNext(b)
    PROVE  IInv'
<1>0. /\ b + 1 \in Hops /\ b + 1 # b /\ b \in 0 .. D /\ b \in Nodes /\ b \in Nat
      /\ \A a \in Bases : b + 1 \in Seg(a) => a = b
  BY NextHop, BaseNode
<1>1. PICK c \in Circuits : c = circ[b] /\ On(c, b) /\ Circuit(c) /\ link \in Links
  BY <1>0, Working DEF ExtendNext
<1>2. Wire(c, b + 1) /\ TypeOK /\ Fresh(c) /\ Phase(c, b) /\ (\A a \in Bases : Tally(c, a))
  BY <1>0, <1>1 DEF Circuit, Counts, IInv
<1>3. depth[b] \in Nat /\ depth[b] < Last(b) /\ pc[b] = "extended" /\ link[Out(b)].up # <<>>
  BY <1>2 DEF ExtendNext, TypeOK, HasReply
<1>4. PICK m : m = Cell("Extend", depth[b], Blank)
  OBVIOUS
<1>5. m \in Cells /\ m.type = "Extend" /\ m.hops = depth[b]
  BY <1>3, <1>4, CellsType, SubmissionType DEF CellTypes
<1>6. link' = SendDown(TakeReply(link, b), b, m) /\ depth' = [depth EXCEPT ![b] = depth[b] + 1]
  BY <1>4 DEF ExtendNext
<1>7. link' \in Links /\ Passed(c, b + 1, m) /\ Only(c, b + 1) /\ link[<<c, b + 1>>].up # <<>>
  BY <1>0, <1>1, <1>2, <1>3, <1>5, <1>6, SendsNext DEF Out
<1>8. depth' \in [Bases -> Nat] /\ depth'[b] = depth[b] + 1 /\ (\A a \in Bases : a # b => depth'[a] = depth[a])
  BY <1>2, <1>3, <1>6 DEF TypeOK
<1>9. UNCHANGED <<mode, pc, circ, round, count, active, work, quorum, log, faults>>
  BY DEF ExtendNext
<1>10. /\ TypeOK' /\ Machines' /\ Talk' /\ LogsAgree' /\ SessionIsWitnessed'
       /\ Growing /\ pc'[b] = "extended" /\ (\A k \in Nodes : k # b => pc'[k] = pc[k])
  <2>1. "extended" \in Places(b) /\ Goto(b, "extended")
    BY <1>0, <1>2, <1>3, <1>9, Fixed DEF Places, Goto, TypeOK, Bases
  <2>2. faults' \in 0 .. MaxFaults /\ round' \in 0 .. MaxRounds
    BY <1>2, <1>9 DEF TypeOK
  <2> QED BY <1>0, <1>3, <1>7, <1>8, <1>9, <2>1, <2>2, Moves
<1>11. On(c, b)' /\ Acts(b)
  BY <1>1, <1>7, <1>8, <1>9, <1>10 DEF On, Acts, Only
<1>12. \A j \in Hops : j # b + 1 => Kept(c, j)
  BY <1>7 DEF Kept, Only
<1>13. \A j \in Hops : Reached(c, j) => Reached(c, j)'
  BY <1>7, <1>12 DEF Kept, Passed, Reached
<1>14. ASSUME NEW a \in Bases PROVE Tally(c, a)'
  <2>1. Tally(c, a) /\ (On(c, a)' => On(c, a)) /\ (On(c, End(a))' => On(c, End(a)))
    BY <1>0, <1>1, <1>2, <1>11, ActsOn, BaseNode, EndIs
  <2>2. CASE a # b
    BY <1>0, <1>9, <1>11, <1>13, <2>1, <2>2, TallyStays, EndIs
  <2>3. CASE a = b
    BY <1>1, <1>3, <1>9, <2>1, <2>3 DEF Tally
  <2> QED BY <2>2, <2>3
<1>15. \A j \in Seg(b) : j > b + 1 + depth[b] => link[<<c, j>>].sv = "none"
  BY <1>1, <1>2, <1>3 DEF Phase, Built
<1>16. /\ b + 1 <= Z => b + 1 + m.hops < Z
       /\ b + 1 + m.hops < D
       /\ \A k \in Hops : k > b + 1 + m.hops => link[<<c, k>>].sv = "none"
  <2>1. b + 1 + depth[b] < End(b) /\ End(b) \in Seg(b) /\ End(b) \in Hops /\ End(b) \in Nat
    <3>1. End(b) \in Seg(b) /\ End(b) \in Hops /\ Last(b) \in Nat /\ b + 1 + Last(b) = End(b)
      BY Line
    <3>2. End(b) \in Nat
      BY <3>1, HopNode
    <3> QED BY <1>0, <1>3, <3>1, <3>2
  <2>2. ASSUME NEW k \in Hops, k > b + 1 + depth[b] PROVE link[<<c, k>>].sv = "none"
    <3>1. CASE k \in Seg(b)
      BY <1>15, <2>2, <3>1
    <3>2. CASE k \notin Seg(b)
      <4>1. k > End(b)
        BY <1>0, <1>3, <2>1, <2>2, <3>2 DEF Seg, Hops
      <4>2. ~ Reached(c, End(b))
        BY <1>15, <2>1 DEF Reached
      <4> QED BY <1>2, <2>1, <4>1, <4>2 DEF Fresh
    <3> QED BY <3>1, <3>2
  <2>3. (b + 1 <= Z => End(b) = Z) /\ End(b) <= D
    BY LineAssumption DEF End, Bases
  <2> QED BY <1>0, <1>3, <1>5, <2>1, <2>2, <2>3, LineAssumption
<1>17. ASSUME NEW a \in Bases, b + 1 \in Seg(a), On(c, a), pc'[a] \in {"extended", "round"}
       PROVE  /\ m.type \in Expected(a)' /\ depth'[a] \in 0 .. Last(a)
              /\ pc'[a] = "extended" =>
                   /\ m.type = "Extend" /\ b + 1 + m.hops = a + depth'[a]
                   /\ \A j \in Seg(a) : j > a + 1 + depth'[a] => link[<<c, j>>].sv = "none"
  <2>1. a = b
    BY <1>0, <1>17
  <2>2. Last(b) \in Nat /\ (\A j \in Seg(b) : j \in Nat)
    BY Line DEF Hops
  <2>3. \A j \in Seg(b) : j > b + 1 + depth'[b] => link[<<c, j>>].sv = "none"
    BY <1>0, <1>3, <1>8, <1>15, <2>2
  <2>4. "Extend" \in Expected(b)'
    BY <1>10 DEF Expected
  <2> QED BY <1>0, <1>3, <1>5, <1>8, <2>1, <2>2, <2>3, <2>4
<1>18. Circuit(c)'
  <2>1. b = Z => pc[b] = "extended" /\ pc'[b] = pc[b] /\ Kept(c, b)
    BY <1>0, <1>3, <1>10, <1>12, Fixed
  <2>2. b = 0 \/ b = Z
    BY DEF Bases
  <2>3. m.type # "ChainSubmission" /\ m.type \in DownTypes /\ ~ (b = Z /\ pc[b] = "relay")
    BY <1>3, <1>5 DEF DownTypes
  <2> QED BY <1>0, <1>1, <1>5, <1>7, <1>9, <1>10, <1>11, <1>14, <1>16, <1>17, <2>1, <2>2, <2>3, DownMove
<1> QED BY <1>0, <1>1, <1>10, <1>11, <1>18, Closes

(* The request of a round that goes out for the n-th hop. *)
LEMMA RoundCellIs ==
    ASSUME NEW b \in Bases, NEW k \in Nat, NEW res \in Response
    PROVE  /\ RoundCell(b, k, res) \in Cells
           /\ k < Last(b) => RoundCell(b, k, res).type = "AttestationRequest"
           /\ ~ (k < Last(b)) => RoundCell(b, k, res).type = "ChainSubmission" /\ RoundCell(b, k, res).res = res
BY CellsType, SubmissionType DEF RoundCell, CellTypes

(* Base b sends the next request of round r. *)
LEMMA RoundSends ==
    ASSUME IInv, NEW b \in Bases, NEW c \in Circuits, c = circ[b], On(c, b), Circuit(c),
           pc[b] # "quorum", b = Z => pc[b] = "round",
           NEW r \in 1 .. MaxRounds, Asked(b)' = r, Counted(c, b, r - 1),
           b = Z => work[Z].id = r,
           NEW n \in 0 .. Last(b), NEW res \in Response, res.id = r,
           NEW m, m = RoundCell(b, n, res),
           link' \in Links, Passed(c, b + 1, m), Only(c, b + 1),
           link[<<c, b + 1>>].up # <<>> \/ pc[b] = "session",
           Goto(b, "round"), depth' = [depth EXCEPT ![b] = n],
           b = 0 => round' = r, b # 0 => round' = round,
           UNCHANGED <<mode, circ, count, active, work, quorum, log, faults>>
    PROVE  IInv'
<1>0. /\ b + 1 \in Hops /\ b + 1 # b /\ b \in 0 .. D /\ b \in Nodes /\ b \in Nat /\ Last(b) \in Nat
      /\ \A a \in Bases : b + 1 \in Seg(a) => a = b
  BY NextHop, BaseNode, Line
<1>1. TypeOK /\ \A a \in Bases : Tally(c, a)
  BY DEF IInv, Circuit, Counts
<1>2. n \in Nat /\ n <= Last(b)
  BY <1>0
<1>3. /\ m \in Cells /\ m.type = (IF n < Last(b) THEN "AttestationRequest" ELSE "ChainSubmission")
      /\ m.type = "ChainSubmission" => m.res.id = r
  BY <1>2, RoundCellIs
<1>4. depth' \in [Bases -> Nat] /\ depth'[b] = n /\ (\A a \in Bases : a # b => depth'[a] = depth[a])
  BY <1>1, <1>2 DEF TypeOK
<1>5. round' \in 0 .. MaxRounds
  BY <1>1 DEF TypeOK
<1>6. /\ TypeOK' /\ Machines' /\ Talk' /\ LogsAgree' /\ SessionIsWitnessed'
      /\ Growing /\ pc'[b] = "round" /\ (\A k \in Nodes : k # b => pc'[k] = pc[k])
  <2>1. "round" \in Places(b) /\ pc[b] \notin {"down", "accept", "quorum"}
    BY Fixed DEF Places, Bases, On
  <2>2. faults' \in 0 .. MaxFaults
    BY <1>1 DEF TypeOK
  <2> QED BY <1>0, <1>4, <1>5, <2>1, <2>2, Moves
<1>7. On(c, b)' /\ Acts(b)
  BY <1>4, <1>6 DEF On, Acts, Only
<1>8. \A j \in Hops : j # b + 1 => Kept(c, j)
  BY DEF Kept, Only
<1>9. \A j \in Hops : Reached(c, j) => Reached(c, j)'
  BY <1>8 DEF Kept, Passed, Reached
<1>10. Counted(c, b, r - 1)'
  <2>1. On(c, End(b))' => On(c, End(b))
    BY <1>0, <1>7, ActsOn, EndIs
  <2> QED BY <1>9, <2>1, EndIs, CountedStays
<1>11. ASSUME NEW a \in Bases PROVE Tally(c, a)'
  <2>1. CASE a # b
    <3>1. Tally(c, a) /\ (On(c, a)' => On(c, a)) /\ (On(c, End(a))' => On(c, End(a)))
      BY <1>0, <1>1, <1>7, ActsOn, BaseNode, EndIs
    <3> QED BY <1>0, <1>7, <1>9, <2>1, <3>1, TallyStays, EndIs
  <2>2. CASE a = b
    <3>1. b = Z => work'[Z].id = count'[Z]
      BY Fixed DEF Asked
    <3>2. Asked(b)' # 0 /\ Counted(c, b, Asked(b) - 1)'
      BY <1>10 DEF Counted
    <3> QED BY <1>6, <2>2, <3>1, <3>2, <1>10 DEF Tally
  <2> QED BY <2>1, <2>2
<1>12. ASSUME NEW a \in Bases, b + 1 \in Seg(a), On(c, a), pc'[a] \in {"extended", "round"}
       PROVE  /\ m.type \in Expected(a)' /\ depth'[a] \in 0 .. Last(a)
              /\ pc'[a] # "extended"
  <2>1. a = b
    BY <1>0, <1>12
  <2> QED BY <1>3, <1>4, <1>6, <2>1 DEF Expected
<1>13. m.type = "ChainSubmission" => \A a \in Bases : b + 1 \in Seg(a) =>
          /\ Counted(c, a, m.res.id - 1)' /\ m.res.id \in 1 .. MaxRounds
          /\ On(c, a) => m.res.id = Asked(a)'
  BY <1>0, <1>3, <1>10
<1>14. Circuit(c)'
  <2>1. b = Z => pc[b] = "round" /\ pc'[b] = pc[b] /\ Kept(c, b)
    BY <1>0, <1>6, <1>8, Fixed
  <2>2. b = 0 \/ b = Z
    BY DEF Bases
  <2>3. m.type # "Extend" /\ m.type \in DownTypes /\ ~ (b = Z /\ pc[b] = "relay") /\ b \notin Proxies
    BY <1>3, Ahead DEF DownTypes
  <2> QED BY <1>0, <1>6, <1>7, <1>11, <1>12, <1>13, <2>1, <2>2, <2>3, DownMove
<1> QED BY <1>0, <1>6, <1>7, <1>14, Closes

(* A base has the attestation of one hop and asks the next, the last of them
   with its submission. *)
LEMMA RoundNextInv ==
    ASSUME IInv, NEW b \in Bases, RoundNext(b)
    PROVE  IInv'
<1>0. /\ b + 1 \in Hops /\ b \in 0 .. D /\ b \in Nodes /\ b \in Nat /\ Last(b) \in Nat
  BY NextHop, BaseNode, Line
<1>1. PICK c \in Circuits : c = circ[b] /\ On(c, b) /\ Circuit(c) /\ link \in Links
  BY <1>0, Working DEF RoundNext
<1>2. Wire(c, b + 1) /\ TypeOK /\ Tally(c, b)
  BY <1>0, <1>1 DEF Circuit, Counts, IInv
<1>3. depth[b] \in Nat /\ depth[b] < Last(b) /\ pc[b] = "round" /\ link[Out(b)].up # <<>> /\ link[<<c, b + 1>>].up # <<>>
  BY <1>1, <1>2 DEF RoundNext, TypeOK, HasReply, Out
<1>4. PICK n : n = depth[b] + 1
  OBVIOUS
<1>5. PICK res : res = IF b = 0 THEN Submission(round) ELSE work[b]
  OBVIOUS
<1>6. PICK m : m = RoundCell(b, n, res)
  OBVIOUS
<1>7. PICK r : r = Asked(b)
  OBVIOUS
<1>8. /\ link' = SendDown(TakeReply(link, b), b, m) /\ depth' = [depth EXCEPT ![b] = n]
      /\ UNCHANGED <<mode, pc, circ, round, count, active, work, quorum, log, faults>>
  BY <1>4, <1>5, <1>6 DEF RoundNext
<1>9. n \in 0 .. Last(b) /\ n \in Nat
  BY <1>0, <1>3, <1>4
<1>10. r \in 1 .. MaxRounds /\ Counted(c, b, r - 1) /\ Asked(b)' = r
  <2>1. r \in 0 .. MaxRounds
    BY <1>2, <1>7, Fixed DEF Asked, TypeOK
  <2>2. r # 0 /\ Counted(c, b, r - 1)
    BY <1>1, <1>2, <1>3, <1>7 DEF Tally
  <2>3. Asked(b)' = r
    BY <1>7, <1>8 DEF Asked
  <2> QED BY <2>1, <2>2, <2>3, BoundAssumption
<1>11. res \in Response /\ res.id = r /\ (b = Z => work[Z].id = r)
  <2>1. CASE b = 0
    <3>1. res = Submission(round) /\ r = round /\ round \in 0 .. MaxRounds
      BY <1>2, <1>5, <1>7, <2>1 DEF Asked, TypeOK
    <3> QED BY <1>10, <2>1, <3>1, SubmissionType, Fixed
  <2>2. CASE b = Z
    BY <1>1, <1>2, <1>3, <1>5, <1>7, <2>2, Fixed DEF Asked, TypeOK, Tally
  <2> QED BY <2>1, <2>2 DEF Bases
<1>12. m \in Cells
  BY <1>6, <1>9, <1>11, RoundCellIs
<1>13. link' \in Links /\ Passed(c, b + 1, m) /\ Only(c, b + 1)
  BY <1>0, <1>1, <1>2, <1>3, <1>8, <1>12, SendsNext
<1>14. Goto(b, "round") /\ (b = 0 => round' = r)
  BY <1>0, <1>2, <1>3, <1>7, <1>8 DEF Goto, TypeOK, Asked
<1> QED BY <1>1, <1>3, <1>6, <1>8, <1>9, <1>10, <1>11, <1>13, <1>14, RoundSends

(* vm1 begins the next round of its session. *)
LEMMA HeartbeatInv ==
    ASSUME IInv, Heartbeat
    PROVE  IInv'
<1>0. 0 \in Bases /\ 0 + 1 \in Hops /\ 0 \in 0 .. D /\ 0 \in Nodes /\ Last(0) \in Nat /\ 0 # Z /\ 0 + 1 \in Seg(0)
  BY Fixed, Line
<1>1. PICK c \in Circuits : c = circ[0] /\ On(c, 0) /\ Circuit(c) /\ link \in Links
  BY <1>0, Working DEF Heartbeat
<1>2. TypeOK /\ Tally(c, 0) /\ Single(c) /\ pc[0] = "session"
  BY <1>0, <1>1 DEF Circuit, Counts, IInv, Heartbeat
<1>3. link[<<c, 0 + 1>>].down = <<>> /\ link[<<c, 0 + 1>>].up = <<>>
  BY <1>0, <1>1, <1>2 DEF Single, Busy
<1>4. PICK r : r = round + 1
  OBVIOUS
<1>5. PICK m : m = RoundCell(0, 0, Submission(r))
  OBVIOUS
<1>6. /\ r \in 1 .. MaxRounds /\ r \in Nat /\ r - 1 = round /\ round' = r
  BY <1>2, <1>4, BoundAssumption DEF Heartbeat, TypeOK
<1>7. Counted(c, 0, r - 1) /\ Asked(0)' = r
  BY <1>1, <1>2, <1>6 DEF Tally, Asked
<1>8. Submission(r) \in Response /\ Submission(r).id = r /\ m \in Cells
  BY <1>0, <1>5, <1>6, SubmissionType, RoundCellIs
<1>9. /\ link' = SendDown(link, 0, m) /\ depth' = [depth EXCEPT ![0] = 0] /\ Goto(0, "round")
      /\ UNCHANGED <<mode, circ, count, active, work, quorum, log, faults>>
  BY <1>4, <1>5 DEF Heartbeat, BeginRound
<1>10. link' \in Links /\ Passed(c, 0 + 1, m) /\ Only(c, 0 + 1)
  BY <1>0, <1>1, <1>3, <1>8, <1>9, SendsFirst
<1>11. 0 \in 0 .. Last(0)
  BY <1>0
<1> QED BY <1>0, <1>1, <1>2, <1>5, <1>6, <1>7, <1>8, <1>9, <1>10, <1>11, RoundSends

(* The answer to the last request of a circuit: the endpoint has been reached. *)
LEMMA AllBuilt ==
    ASSUME NEW c, NEW b \in Bases, Circuit(c), On(c, b), pc[b] = "extended", depth[b] = Last(b),
           link[<<c, b + 1>>].up # <<>>
    PROVE  Counted(c, b, 0)
<1>1. b + 1 \in Seg(b) /\ b + 1 + Last(b) = End(b) /\ Tally(c, b)
  BY Line DEF Circuit, Counts
<1>2. Built(c, b, b + 1)
  BY <1>1, ReplyExpected
<1>3. Reached(c, End(b))
  BY <1>1, <1>2 DEF Built
<1> QED BY <1>1, <1>3 DEF Counted, Tally

(* vm1 has its circuit and begins round 1: vm2 has counted nothing yet. *)
LEMMA Chain1CompleteInv ==
    ASSUME IInv, Chain1Complete
    PROVE  IInv'
<1>0. 0 \in Bases /\ 0 + 1 \in Hops /\ 0 \in 0 .. D /\ 0 \in Nodes /\ Last(0) \in Nat /\ 0 # Z
  BY Fixed, Line
<1>1. PICK c \in Circuits : c = circ[0] /\ On(c, 0) /\ Circuit(c) /\ link \in Links
  BY <1>0, Working DEF Chain1Complete
<1>2. TypeOK /\ Wire(c, 0 + 1) /\ pc[0] = "extended" /\ link[Out(0)].up # <<>> /\ link[<<c, 0 + 1>>].up # <<>>
  BY <1>0, <1>1 DEF Circuit, IInv, Chain1Complete, HasReply, Out
<1>3. Counted(c, 0, 0)
  BY <1>0, <1>1, <1>2, AllBuilt DEF Chain1Complete
<1>4. PICK r : r = 1
  OBVIOUS
<1>5. PICK m : m = RoundCell(0, 0, Submission(r))
  OBVIOUS
<1>6. r \in 1 .. MaxRounds /\ r \in Nat /\ r - 1 = 0 /\ round' = r /\ Asked(0)' = r
  BY <1>4, BoundAssumption DEF Chain1Complete, Asked
<1>7. Submission(r) \in Response /\ Submission(r).id = r /\ m \in Cells
  BY <1>0, <1>5, <1>6, SubmissionType, RoundCellIs
<1>8. /\ link' = SendDown(TakeReply(link, 0), 0, m) /\ depth' = [depth EXCEPT ![0] = 0] /\ Goto(0, "round")
      /\ UNCHANGED <<mode, circ, count, active, work, quorum, log, faults>>
  BY <1>4, <1>5 DEF Chain1Complete, BeginRound
<1>9. link' \in Links /\ Passed(c, 0 + 1, m) /\ Only(c, 0 + 1)
  BY <1>0, <1>1, <1>2, <1>7, <1>8, SendsNext
<1>10. 0 \in 0 .. Last(0)
  BY <1>0
<1> QED BY <1>0, <1>1, <1>2, <1>3, <1>5, <1>6, <1>7, <1>8, <1>9, <1>10, RoundSends

(* vm2 has its circuit and waits for submissions: neither it nor vm3 has
   counted any. *)
LEMMA Chain2CompleteInv ==
    ASSUME IInv, Chain2Complete
    PROVE  IInv'
<1>0. Z \in Bases /\ Z + 1 \in Hops /\ Z \in 0 .. D /\ Z \in Nodes /\ Z # 0 /\ Z # Z + 1 /\ Z # D
  BY Fixed, NextHop
<1>1. PICK c \in Circuits : c = circ[Z] /\ On(c, Z) /\ Circuit(c) /\ link \in Links
  BY <1>0, Working DEF Chain2Complete
<1>2. /\ TypeOK /\ Wire(c, Z + 1) /\ pc[Z] = "extended" /\ link[Out(Z)].up # <<>> /\ link[<<c, Z + 1>>].up # <<>>
      /\ \A b \in Bases : Tally(c, b)
  BY <1>0, <1>1 DEF Circuit, Counts, IInv, Chain2Complete, HasReply, Out
<1>3. Counted(c, Z, 0) /\ count[Z] = 0
  BY <1>0, <1>1, <1>2, AllBuilt DEF Chain2Complete, Tally
<1>4. link' \in Links /\ Taken(c, Z + 1) /\ Only(c, Z + 1)
  BY <1>0, <1>1, <1>2, TakesReply DEF Chain2Complete
<1>5. UNCHANGED <<mode, circ, depth, round, count, active, work, quorum, log, faults>> /\ Goto(Z, "relay")
  BY DEF Chain2Complete
<1>6. /\ TypeOK' /\ Machines' /\ Talk' /\ LogsAgree' /\ SessionIsWitnessed'
      /\ Growing /\ pc'[Z] = "relay" /\ (\A k \in Nodes : k # Z => pc'[k] = pc[k])
  <2>1. "relay" \in Places(Z) /\ pc[Z] \notin {"down", "accept", "quorum"}
    BY <1>0, <1>2 DEF Places
  <2>2. faults' \in 0 .. MaxFaults /\ round' \in 0 .. MaxRounds /\ depth' \in [Bases -> Nat]
    BY <1>2, <1>5 DEF TypeOK
  <2> QED BY <1>0, <1>4, <1>5, <2>1, <2>2, Moves
<1>7. On(c, Z)' /\ Acts(Z)
  BY <1>1, <1>4, <1>5, <1>6 DEF On, Acts, Only
<1>8. \A j \in Hops : j # Z + 1 => Kept(c, j)
  BY <1>4 DEF Kept, Only
<1>9. \A j \in Hops : Reached(c, j) => Reached(c, j)'
  BY <1>4, <1>8 DEF Kept, Taken, Reached
<1>10. ASSUME NEW b \in Bases PROVE Tally(c, b)'
  <2>1. (On(c, b)' => On(c, b)) /\ (On(c, End(b))' => On(c, End(b)))
    BY <1>0, <1>1, <1>7, ActsOn, BaseNode, EndIs
  <2>2. CASE b # Z
    BY <1>0, <1>2, <1>5, <1>7, <1>9, <2>1, <2>2, TallyStays, EndIs
  <2>3. CASE b = Z
    <3>1. Counted(c, Z, 0)'
      BY <1>0, <1>3, <1>5, <1>9, <2>1, <2>3, EndIs, CountedStays
    <3>2. Counted(c, Z, Asked(Z))'
      BY <1>0, <1>3, <1>5, <3>1 DEF Counted, Asked
    <3> QED BY <1>0, <1>6, <2>3, <3>2 DEF Tally
  <2> QED BY <2>2, <2>3
<1>11. Circuit(c)'
  BY <1>0, <1>1, <1>2, <1>4, <1>5, <1>6, <1>7, <1>8, <1>10, Absorb
<1> QED BY <1>0, <1>1, <1>6, <1>7, <1>11, Closes

(* A result that reaches vm1 answers its round and is in the logs. *)
LEMMA ResultIsNoted ==
    ASSUME NEW c, Circuit(c), On(c, 0), pc[0] = "round", depth[0] = Last(0), link[<<c, 0 + 1>>].up # <<>>,
           NEW res, res = Reply1(c, 0 + 1).res
    PROVE  /\ res.id = round /\ Counted(c, 0, round)
           /\ res.status \in {"Authorized", "Provisional"} => res.ok
           /\ mode # "chain1" => Backed(c, res)
           /\ Noted(c, Z, res)
<1>0. 0 \in Bases /\ 0 + 1 \in Hops /\ 0 + 1 \in Seg(0) /\ 0 + 1 <= Z /\ ~ (0 + 1 > Z)
  BY Fixed, Line
<1>1. Sane(c, 0 + 1) /\ Notes(c, 0 + 1) /\ Ids(c) /\ Numbered(c, 0, 0 + 1)
  BY <1>0 DEF Circuit, Counts
<1>2. Reply1(c, 0 + 1).type \in Expected(0) /\ Reply1(c, 0 + 1).type \in UpTypes /\ Last(0) \in Nat
  BY <1>0, <1>1, ReplyExpected DEF Sane
<1>3. Reply1(c, 0 + 1).type = "Result"
  BY <1>2 DEF Expected, UpTypes
<1>4. res.id = round
  BY <1>0, <1>1, <1>3 DEF Ids, DataIs, Asked
<1>5. Counted(c, 0, round)
  BY <1>1, <1>3, <1>4 DEF Numbered
<1> QED BY <1>0, <1>1, <1>3, <1>4, <1>5 DEF Notes

(* vm1 has its result: it is about this round, and every machine that had to
   has logged it, so that a session may begin or go on. *)
LEMMA Vm1ResultInv ==
    ASSUME IInv, Vm1Result
    PROVE  IInv'
<1>0. 0 \in Bases /\ 0 + 1 \in Hops /\ 0 \in 0 .. D /\ 0 \in Nodes /\ 0 # Z /\ 0 + 1 # 0 /\ D \in Nodes /\ D # 0
  BY Fixed, NextHop
<1>1. PICK c \in Circuits : c = circ[0] /\ On(c, 0) /\ Circuit(c) /\ link \in Links
  BY <1>0, Working DEF Vm1Result
<1>2. /\ TypeOK /\ Wire(c, 0 + 1) /\ pc[0] = "round" /\ link[Out(0)].up # <<>> /\ link[<<c, 0 + 1>>].up # <<>>
      /\ depth[0] = Last(0) /\ \A b \in Bases : Tally(c, b)
  BY <1>0, <1>1 DEF Circuit, Counts, IInv, Vm1Result, HasReply, Out
<1>3. PICK res : res = Reply1(c, 0 + 1).res
  OBVIOUS
<1>4. res = Head(link[Out(0)].up).res
  BY <1>1, <1>3 DEF Reply1, Out
<1>5. UNCHANGED <<mode, circ, depth, round, count, active, work, quorum, log, faults>>
  BY DEF Vm1Result
<1>6. CASE ~ GoesOn(res)
  <2>1. Leave(0, TakeReply(link, 0)) /\ faults' \in 0 .. MaxFaults
    BY <1>2, <1>4, <1>5, <1>6 DEF Vm1Result, TypeOK
  <2> QED BY <1>0, <1>2, <1>5, <2>1, GivesUpQuietly
<1>7. CASE GoesOn(res)
  <2>1. link' = TakeReply(link, 0) /\ Goto(0, "session")
    BY <1>4, <1>7 DEF Vm1Result
  <2>2. link' \in Links /\ Taken(c, 0 + 1) /\ Only(c, 0 + 1)
    BY <1>0, <1>1, <1>2, <2>1, TakesReply
  <2>3. TypeOK' /\ Machines' /\ pc'[0] = "session" /\ \A k \in Nodes : k # 0 => pc'[k] = pc[k]
    <3>1. "session" \in Places(0)
      BY DEF Places
    <3> QED BY <1>0, <1>2, <1>5, <2>1, <2>2, <3>1, Typed DEF TypeOK
  <2>4. Growing
    BY <1>5, LogStays
  <2>5. Talk'
    BY <1>0, <1>5, <2>3, <2>4, TalkStays DEF IInv, Growing
  <2>6. LogsAgree'
    BY <1>5 DEF IInv, LogsAgree, EntriesOf
  <2>7. /\ res.id = round /\ Counted(c, 0, round)
        /\ res.status \in {"Authorized", "Provisional"} => res.ok
        /\ mode # "chain1" => Backed(c, res)
        /\ Noted(c, Z, res)
    BY <1>1, <1>2, <1>3, ResultIsNoted
  <2>8. SessionIsWitnessed'
    <3>1. res.ok
      BY <1>7, <2>7 DEF GoesOn
    <3>2. (mode # "chain1" => Noted(c, D, res)) /\ (mode = "quorum" => Noted(c, Vm4, res))
      BY <2>7, <3>1 DEF Backed
    <3>3. ASSUME NEW v, Noted(c, v, res)
          PROVE  \E e \in EntriesOf(v)' : e.c = circ'[0] /\ e.id = round' /\ e.event \in Positive
      BY <1>1, <1>5, <2>7, <3>1, <3>3 DEF Noted, EntriesOf
    <3> QED BY <1>5, <2>7, <3>2, <3>3 DEF SessionIsWitnessed
  <2>9. On(c, 0)' /\ Acts(0)
    BY <1>1, <1>5, <2>2, <2>3, <2>4 DEF On, Acts, Only
  <2>10. \A j \in Hops : j # 0 + 1 => Kept(c, j)
    BY <2>2 DEF Kept, Only
  <2>11. \A j \in Hops : Reached(c, j) => Reached(c, j)'
    BY <2>2, <2>10 DEF Kept, Taken, Reached
  <2>12. ASSUME NEW b \in Bases PROVE Tally(c, b)'
    <3>1. (On(c, b)' => On(c, b)) /\ (On(c, End(b))' => On(c, End(b)))
      BY <1>0, <1>1, <2>9, ActsOn, BaseNode, EndIs
    <3>2. CASE b # 0
      BY <1>0, <1>2, <1>5, <2>9, <2>11, <3>1, <3>2, TallyStays, EndIs
    <3>3. CASE b = 0
      <4>1. Counted(c, 0, Asked(0))'
        BY <1>0, <1>5, <2>7, <2>11, <3>1, <3>3, EndIs DEF Counted, Asked
      <4> QED BY <1>0, <2>3, <3>3, <4>1 DEF Tally
    <3> QED BY <3>2, <3>3
  <2>13. Circuit(c)'
    BY <1>0, <1>1, <1>2, <1>5, <2>2, <2>3, <2>9, <2>10, <2>12, Absorb
  <2> QED BY <1>0, <1>1, <2>3, <2>5, <2>6, <2>8, <2>9, <2>13, Closes
<1> QED BY <1>6, <1>7

(* Verifier v logs its result: the logs still agree, and the result is noted. *)
LEMMA AnswerLogs ==
    ASSUME IInv, NEW v \in Verifiers, NEW c \in Circuits, c = circ[v], NEW l, NEW res \in Response,
           NEW error, Answer(v, l, res.id, res, error), mode' = mode,
           v = Z /\ mode # "chain1" => Noted(c, D, res)
    PROVE  /\ log' \in [Verifiers \cup {Vm4} -> Seq(Entries)] /\ Growing /\ LogsAgree'
           /\ Noted(c, v, res)'
           /\ log'[Vm4] = log[Vm4]
<1>1. TypeOK /\ LogsAgree /\ res.id \in Nat /\ res.ok \in BOOLEAN
  BY DEF IInv, Response
<1>2. PICK ev : ev = Event(v, res.ok)
  OBVIOUS
<1>3. PICK e : e = Entry(v, res.id, res, ev)
  OBVIOUS
<1>4. ev \in Events /\ ev # "SessionEnded" /\ (ev \in Positive <=> res.ok)
  BY <1>1, <1>2, EventType
<1>5. e \in Entries /\ e.c = c /\ e.n = res.id /\ e.id = res.id /\ e.event = ev /\ e.clean = res.clean
  BY <1>1, <1>3, <1>4, EntryType
<1>6. log' = [log EXCEPT ![v] = Append(@, e)]
  BY <1>2, <1>3 DEF Answer
<1>7. /\ log' \in [Verifiers \cup {Vm4} -> Seq(Entries)] /\ Growing
      /\ \A u \in Verifiers \cup {Vm4} : u # v => log'[u] = log[u]
      /\ \E k \in DOMAIN log'[v] : log'[v][k] = e
  BY <1>1, <1>5, <1>6, Logs
<1>8. Noted(c, v, res)'
  BY <1>4, <1>5, <1>7 DEF Noted
<1>9. LogsAgree'
  <2>1. ASSUME v = Z, mode # "chain1"
        PROVE  \E k \in DOMAIN log[D] :
                    /\ log[D][k].c = e.c /\ log[D][k].n = e.n /\ log[D][k].id = e.id
                    /\ log[D][k].clean = e.clean
                    /\ (log[D][k].event \in Positive) = (e.event \in Positive)
    BY <1>4, <1>5, <2>1 DEF Noted
  <2> QED BY <1>1, <1>5, <1>6, <2>1, Agrees
<1>10. log'[Vm4] = log[Vm4]
  BY <1>7, Line
<1> QED BY <1>7, <1>8, <1>9, <1>10

(* Its answer cannot be sent. *)
LEMMA AnswerFails ==
    ASSUME IInv, NEW v \in Verifiers, NEW c \in Circuits, c = circ[v], pc[v] \notin {"down", "accept"},
           NEW l, NEW res \in Response, Answer(v, l, res.id, res, TRUE),
           \/ l = link
           \/ link[In(v)].down # <<>> /\ l = TakeCell(link, v)
           \/ v + 1 \in Hops /\ link[Out(v)].up # <<>> /\ l = TakeReply(link, v),
           v = Z /\ mode # "chain1" => Noted(c, D, res),
           v = D => quorum' = "none", v = Z => quorum' = quorum,
           count' \in [Verifiers -> 0 .. MaxRounds], active' \in BOOLEAN, work' \in [Verifiers -> Response],
           \A u \in Verifiers : u # v => count'[u] = count[u] /\ work'[u] = work[u],
           UNCHANGED <<mode, circ, depth, round, faults>>
    PROVE  IInv'
<1>0. v \in Hops /\ v \in 0 .. D /\ v \in Nodes /\ v # 0 /\ D \in Nodes /\ 0 \in Nodes /\ (v = Z \/ v = D) /\ Z # D
  BY Fixed DEF Verifiers
<1>1. TypeOK /\ Talk /\ SessionIsWitnessed /\ Leave(v, l)
  BY DEF IInv, Answer
<1>2. /\ log' \in [Verifiers \cup {Vm4} -> Seq(Entries)] /\ Growing /\ LogsAgree'
  BY AnswerLogs
<1>3. link' \in Links /\ \A d \in Circuits : Circuit(d)'
  BY <1>0, <1>1, <1>2, GivesUp
<1>4. quorum' \in {"none", "asked", "approved", "denied", "lost"}
  BY <1>0, <1>1 DEF TypeOK
<1>5. TypeOK' /\ Machines' /\ pc'[v] = "accept" /\ \A k \in Nodes : k # v => pc'[k] = pc[k]
  <2>1. "accept" \in Places(v) /\ Goto(v, "accept")
    BY <1>1 DEF Places, Leave
  <2>2. depth' \in [Bases -> Nat] /\ faults' \in 0 .. MaxFaults /\ round' \in 0 .. MaxRounds
    BY <1>1 DEF TypeOK
  <2> QED BY <1>0, <1>2, <1>3, <1>4, <2>1, <2>2, Typed
<1>6. Talk'
  <2>1. CASE v = D
    BY <1>5, <2>1 DEF Talk
  <2>2. CASE v = Z
    BY <1>0, <1>1, <1>2, <1>5, <2>2, Fixed, TalkStays DEF Growing
  <2> QED BY <1>0, <2>1, <2>2
<1>7. SessionIsWitnessed'
  BY <1>0, <1>1, <1>2, <1>5, Witnessed
<1> QED BY <1>2, <1>3, <1>5, <1>6, <1>7 DEF IInv

(* Its answer is sent, or lost without an error. *)
LEMMA AnswerGoes ==
    ASSUME IInv, NEW v \in Verifiers, NEW c \in Circuits, c = circ[v], pc[v] \notin {"down", "accept"},
           NEW l, NEW res \in Response, Answer(v, l, res.id, res, FALSE), link' \in Links, Only2(c, v),
           v = Z /\ mode # "chain1" => Noted(c, D, res),
           v = D => quorum' = "none", v = Z => quorum' = quorum,
           count' \in [Verifiers -> 0 .. MaxRounds], active' \in BOOLEAN, work' \in [Verifiers -> Response],
           \A u \in Verifiers : u # v => count'[u] = count[u] /\ work'[u] = work[u],
           UNCHANGED <<mode, circ, depth, round, faults>>
    PROVE  /\ TypeOK' /\ Machines' /\ Talk' /\ LogsAgree' /\ SessionIsWitnessed'
           /\ Acts(v) /\ On(c, v)' /\ pc'[v] = "relay" /\ Noted(c, v, res)'
           /\ log'[Vm4] = log[Vm4]
<1>0. v \in Hops /\ v \in 0 .. D /\ v \in Nodes /\ v # 0 /\ D \in Nodes /\ 0 \in Nodes /\ (v = Z \/ v = D) /\ Z # D
  BY Fixed DEF Verifiers
<1>1. TypeOK /\ Talk /\ SessionIsWitnessed /\ Goto(v, "relay")
  BY DEF IInv, Answer
<1>2. /\ log' \in [Verifiers \cup {Vm4} -> Seq(Entries)] /\ Growing /\ LogsAgree' /\ Noted(c, v, res)'
      /\ log'[Vm4] = log[Vm4]
  BY AnswerLogs
<1>4. quorum' \in {"none", "asked", "approved", "denied", "lost"}
  BY <1>0, <1>1 DEF TypeOK
<1>5. TypeOK' /\ Machines' /\ pc'[v] = "relay" /\ \A k \in Nodes : k # v => pc'[k] = pc[k]
  <2>1. "relay" \in Places(v)
    BY <1>0 DEF Places
  <2>2. depth' \in [Bases -> Nat] /\ faults' \in 0 .. MaxFaults /\ round' \in 0 .. MaxRounds
    BY <1>1 DEF TypeOK
  <2> QED BY <1>0, <1>1, <1>2, <1>4, <2>1, <2>2, Typed
<1>6. Talk'
  <2>1. CASE v = D
    BY <1>5, <2>1 DEF Talk
  <2>2. CASE v = Z
    BY <1>0, <1>1, <1>2, <1>5, <2>2, Fixed, TalkStays DEF Growing
  <2> QED BY <1>0, <2>1, <2>2
<1>7. SessionIsWitnessed'
  BY <1>0, <1>1, <1>2, <1>5, Witnessed
<1>8. Acts(v) /\ On(c, v)'
  BY <1>0, <1>2, <1>5 DEF Acts, Only2, On
<1> QED BY <1>2, <1>5, <1>6, <1>7, <1>8

(* Base b waits for the answer of its endpoint: the endpoint's count is its own. *)
LEMMA TallyWaits ==
    ASSUME NEW c, NEW b \in Bases, Tally(c, b), NEW i \in 0 .. D, b # i, Acts(i), On(c, b)' => On(c, b),
           On(c, b) => pc[b] = "round" /\ depth[b] = Last(b)
    PROVE  Tally(c, b)'
<1>1. b \in Nodes /\ Last(b) \in Nat
  BY BaseNode, LineNodes, Line
<1>2. pc'[b] = pc[b] /\ depth'[b] = depth[b] /\ mode' = mode
  BY <1>1 DEF Acts
<1>3. b = Z => count'[Z] = count[Z] /\ work'[Z] = work[Z]
  BY Fixed DEF Acts
<1>4. Asked(b)' = Asked(b)
  BY <1>3 DEF Acts, Asked, Bases
<1> QED BY <1>1, <1>2, <1>3, <1>4 DEF Tally

(* The endpoint of base b answers with its verdict. *)
LEMMA Verdict ==
    ASSUME NEW v \in Verifiers, NEW c \in Circuits, c = circ[v], On(c, v), On(c, v)', Circuit(c), Acts(v),
           NEW b \in Bases, End(b) = v, NEW res, NEW m, m.type = "Result", m.res = res, Replied(c, v, m),
           link[<<c, v>>].up = <<>>, pc'[v] = "relay",
           link[<<c, v>>].down # <<>> \/ ~ Idle(v), Busy(c, v), Data(c, v),
           v + 1 \in Hops => Kept(c, v + 1) \/ Taken(c, v + 1),
           v = Z => pc[v] = "relay" \/ Taken(c, v + 1),
           \A n : DataIs(c, v, n) => n = res.id,
           On(c, b) => pc[b] = "round" /\ depth[b] = Last(b),
           count'[v] = res.id,
           res.status \in {"Authorized", "Provisional"} => res.ok,
           v = D \/ mode # "chain1" => Backed(c, res)',
           Noted(c, v, res)',
           v = Z => Tally(c, Z)'
    PROVE  Circuit(c)'
<1>0. /\ v \in Hops /\ v \in 0 .. D /\ v \in Nat /\ (v = Z \/ v = D) /\ v \in Seg(b) /\ v \notin Proxies /\ Last(b) \in Nat
      /\ \A a \in Bases : v \in Seg(a) => a = b
      /\ (v > Z <=> v = D) /\ (v <= Z <=> v = Z)
      /\ (v = Z => b = 0) /\ (v = D => b = Z)
  <2>1. v \in Hops /\ v \in 0 .. D /\ v \in Nat /\ v \in Seg(b) /\ Last(b) \in Nat
    BY EndIs, HopNode, Line
  <2> QED BY <2>1, LineAssumption DEF Verifiers, Proxies, Seg, End, Bases
<1>1. Wire(c, v) /\ Ids(c) /\ (\A a \in Bases : Tally(c, a)) /\ mode' = mode
  BY <1>0 DEF Circuit, Counts, Acts
<1>2. Reached(c, v) /\ Reached(c, v)'
  BY <1>1 DEF Wire, Reached, Replied
<1>3. Notes(c, v)'
  <2>1. link'[<<c, v>>].up # <<>> => Reply1(c, v)' = m
    BY DEF Replied, Holds, Reply1
  <2> QED BY <1>0, <1>1, <2>1 DEF Notes
<1>4. \A a \in Bases : v \in Seg(a) /\ On(c, a) /\ pc[a] \in {"extended", "round"} =>
         m.type \in Expected(a) /\ (pc[a] = "extended" => Reached(c, a + 1 + depth[a]))
  BY <1>0 DEF Expected
<1>5. ASSUME NEW a \in Bases, v \in Seg(a)
      PROVE  Counted(c, a, m.res.id)' /\ (On(c, a) => m.res.id = Asked(a)) /\ Data(c, v)
  <2>1. a = b
    BY <1>0, <1>5
  <2>2. Counted(c, b, m.res.id)'
    BY <1>2 DEF Counted
  <2>3. On(c, b) => m.res.id = Asked(b)
    BY <1>0, <1>1 DEF Ids
  <2> QED BY <2>1, <2>2, <2>3
<1>6. m.type = "Result" /\ v > Z /\ On(c, 0) /\ ~ On(c, Z) => m.res.id = round
  BY <1>0, <1>1 DEF Ids
<1>7. ASSUME NEW a \in Bases PROVE Tally(c, a)'
  <2>1. Tally(c, a) /\ (On(c, a)' => On(c, a)) /\ (On(c, End(a))' => On(c, End(a)))
    BY <1>0, <1>1, ActsOn, BaseNode, EndIs
  <2>2. CASE a = b
    <3>1. b # v
      BY <1>0, Fixed
    <3> QED BY <1>0, <2>1, <2>2, <3>1, TallyWaits
  <2>3. CASE a = Z /\ v = Z
    BY <2>3
  <2>4. CASE a # b /\ ~ (a = Z /\ v = Z)
    <3>1. a = 0 /\ v = D
      BY <1>0, <2>4 DEF Bases
    <3>2. End(a) # v /\ a # v
      BY <3>1, Fixed DEF End
    <3>3. link'[<<c, End(a)>>] = link[<<c, End(a)>>]
      BY <1>0, <3>1, Fixed DEF Acts, End
    <3>4. Reached(c, End(a)) => Reached(c, End(a))'
      BY <3>3 DEF Reached
    <3> QED BY <1>0, <2>1, <3>2, <3>4, TallyStays
  <2> QED BY <2>2, <2>3, <2>4
<1>8. m.type \in UpTypes
  BY DEF UpTypes
<1> QED BY <1>0, <1>3, <1>4, <1>5, <1>6, <1>7, <1>8, UpMove

(* The two parts of the circuit by name. *)
LEMMA BaseOf ==
    /\ 0 \in Bases /\ End(0) = Z /\ Z \in Seg(0)
    /\ Z \in Bases /\ End(Z) = D /\ D \in Seg(Z) /\ Z + 1 \in Seg(Z)
BY LineAssumption DEF Bases, End, Seg

(* Verifier v has a submission to look at. *)
LEMMA Submitted ==
    ASSUME NEW v \in Verifiers, NEW c \in Circuits, On(c, v), Circuit(c), link \in Links,
           NEW b \in Bases, End(b) = v, pc[v] = "relay",
           link[<<c, v>>].down # <<>>, Cell1(c, v).type = "ChainSubmission",
           NEW q, q = Cell1(c, v).res
    PROVE  /\ q \in Response /\ q.id \in 1 .. MaxRounds /\ count[v] = q.id - 1
           /\ On(c, b) => pc[b] = "round" /\ depth[b] = Last(b)
           /\ Busy(c, v) /\ Data(c, v)
           /\ \A n : DataIs(c, v, n) => n = q.id
<1>0. v \in Hops /\ v \in Seg(b)
  BY EndIs
<1>1. Numbered(c, b, v)
  BY <1>0 DEF Circuit, Counts
<1>2. q.id \in 1 .. MaxRounds /\ count[v] = q.id - 1
  BY <1>1 DEF Numbered, Counted
<1>3. link[<<c, v>>].down \in Seq(Cells)
  BY <1>0 DEF Links, Linked
<1>4. q \in Response
  BY <1>3, HeadCell DEF Cell1, Cells
<1>5. ASSUME On(c, b) PROVE pc[b] = "round" /\ depth[b] = Last(b)
  <2>1. /\ pc[b] \in {"extended", "round"} /\ depth[b] \in 0 .. Last(b) /\ Last(b) \in Nat
        /\ "ChainSubmission" \in Expected(b)
    BY <1>0, <1>5, CellExpected
  <2> QED BY <2>1 DEF Expected
<1> QED BY <1>2, <1>4, <1>5 DEF Busy, Data, DataIs

(* Verifier v works on one. *)
LEMMA Pending ==
    ASSUME NEW v \in Verifiers, NEW c \in Circuits, On(c, v), Circuit(c),
           NEW b \in Bases, End(b) = v, pc[v] \in {"round", "quorum"}
    PROVE  /\ On(c, b) => pc[b] = "round" /\ depth[b] = Last(b)
           /\ Busy(c, v) /\ Data(c, v) /\ ~ Idle(v)
           /\ link[<<c, v>>].down = <<>> /\ link[<<c, v>>].up = <<>>
           /\ \A n : DataIs(c, v, n) => n = work[v].id
<1>0. v \in Hops /\ v \in Seg(b)
  BY EndIs
<1>1. Wire(c, v) /\ Single(c) /\ Phase(c, b)
  BY <1>0 DEF Circuit
<1>2. ~ Idle(v) /\ Holding(v) /\ Busy(c, v) /\ Data(c, v)
  BY DEF Idle, Holding, Busy, Data
<1>3. ASSUME On(c, b) PROVE pc[b] = "round" /\ depth[b] = Last(b)
  <2>1. pc[b] \in {"extended", "round"}
    BY <1>0, <1>1, <1>2, <1>3 DEF Single
  <2>2. Kind(c, b, v)
    BY <1>0, <1>1, <1>3, <2>1 DEF Phase
  <2> QED BY <1>2, <2>2 DEF Kind
<1>4. link[<<c, v>>].down = <<>> /\ link[<<c, v>>].up = <<>>
  BY <1>1, <1>2 DEF Wire
<1> QED BY <1>2, <1>3, <1>4 DEF DataIs

(* vm2's verdict on chain 1 keeps the number of the submission. *)
LEMMA VerifyChainIs ==
    ASSUME NEW id \in Nat, NEW was, NEW clean \in BOOLEAN
    PROVE  /\ VerifyChain(id, was, clean) \in Response /\ VerifyChain(id, was, clean).id = id
           /\ VerifyChain(id, was, clean).ok
BY DEF VerifyChain, Response, Status

(* vm3's verdict keeps the number of the submission, and a status that grants
   access comes with a positive verdict. *)
LEMMA VerifyFullIs ==
    ASSUME NEW q \in Response, NEW clean \in BOOLEAN
    PROVE  /\ VerifyFull(q, clean) \in Response /\ VerifyFull(q, clean).id = q.id
           /\ VerifyFull(q, clean).status \in {"Authorized", "Provisional"} => VerifyFull(q, clean).ok
BY DEF VerifyFull, Response, Status

(* A verdict travels as it is. *)
LEMMA ResultCell ==
    ASSUME NEW res \in Response
    PROVE  Cell("Result", 0, res) \in Cells /\ Cell("Result", 0, res).type = "Result" /\ Cell("Result", 0, res).res = res
BY CellsType DEF CellTypes

(* vm2 has a submission: it answers and logs it itself where there is no
   second chain, else begins a round of chain 2 for it. *)
LEMMA Vm2SubmissionInv ==
    ASSUME IInv, NEW clean \in BOOLEAN, NEW error \in BOOLEAN, Vm2Submission(clean, error)
    PROVE  IInv'
<1>0. /\ Z \in Verifiers /\ Z \in Hops /\ Z \in 0 .. D /\ Z \in Nodes /\ Z # 0 /\ Z + 1 \in Hops /\ Z + 1 # Z /\ Z # D
      /\ D \in Verifiers /\ D \in Nodes /\ 0 \in Nodes /\ 0 \in Bases /\ Z \in Bases /\ Last(Z) \in Nat
      /\ End(0) = Z /\ End(Z) = D /\ Z + 1 \in Seg(Z)
  BY Fixed, NextHop, Line, BaseOf
<1>1. PICK c \in Circuits : c = circ[Z] /\ On(c, Z) /\ Circuit(c) /\ link \in Links
  BY <1>0, Working DEF Vm2Submission
<1>2. /\ TypeOK /\ Talk /\ Wire(c, Z) /\ Single(c) /\ (\A b \in Bases : Tally(c, b)) /\ pc[Z] = "relay"
      /\ link[In(Z)].down # <<>> /\ link[<<c, Z>>].down # <<>> /\ Cell1(c, Z).type = "ChainSubmission"
      /\ In(Z) = <<c, Z>>
  BY <1>0, <1>1 DEF IInv, Circuit, Counts, Vm2Submission, HasCell, In, Cell1
<1>3. PICK q : q = Cell1(c, Z).res
  OBVIOUS
<1>4. /\ q \in Response /\ q.id \in 1 .. MaxRounds /\ count[Z] = q.id - 1
      /\ On(c, 0) => pc[0] = "round" /\ depth[0] = Last(0)
      /\ Busy(c, Z) /\ Data(c, Z)
      /\ \A n : DataIs(c, Z, n) => n = q.id
  BY <1>0, <1>1, <1>2, <1>3, Submitted
<1>5. PICK res : res = VerifyChain(q.id, active, clean)
  OBVIOUS
<1>6. res \in Response /\ res.id = q.id /\ res.ok /\ res.id = count[Z] + 1 /\ q.id \in Nat /\ res = VerifyChain(Head(link[In(Z)].down).res.id, active, clean)
  <2>1. q.id \in Nat /\ q.id = count[Z] + 1
    BY <1>4, BoundAssumption
  <2> QED BY <1>2, <1>3, <1>5, <2>1, VerifyChainIs DEF Cell1
<1>7. /\ count' = [count EXCEPT ![Z] = @ + 1] /\ UNCHANGED <<mode, circ, round, quorum, faults>>
  BY DEF Vm2Submission
<1>8. count' \in [Verifiers -> 0 .. MaxRounds] /\ count'[Z] = res.id /\ count'[D] = count[D] /\ \A u \in Verifiers : u # Z => count'[u] = count[u]
  <2>1. count \in [Verifiers -> 0 .. MaxRounds] /\ res.id \in 0 .. MaxRounds
    BY <1>2, <1>4, <1>6, BoundAssumption DEF TypeOK
  <2>2. count' = [count EXCEPT ![Z] = res.id]
    BY <1>6, <1>7
  <2> QED BY <1>0, <2>1, <2>2
<1>9. CASE mode # "chain1"
  <2>1. /\ link' = SendDown(TakeCell(link, Z), Z, RoundCell(Z, 0, res)) /\ depth' = [depth EXCEPT ![Z] = 0]
        /\ Goto(Z, "round") /\ work' = [work EXCEPT ![Z] = res] /\ active' = active /\ log' = log
    BY <1>6, <1>9 DEF Vm2Submission, BeginRound
  <2>2. PICK m : m = RoundCell(Z, 0, res)
    OBVIOUS
  <2>3. /\ m \in Cells /\ m.type = (IF 0 < Last(Z) THEN "AttestationRequest" ELSE "ChainSubmission")
        /\ m.type = "ChainSubmission" => m.res.id = q.id
    BY <1>0, <1>6, <2>2, RoundCellIs
  <2>4. link[<<c, Z + 1>>].down = <<>> /\ link[<<c, Z + 1>>].up = <<>>
    BY <1>0, <1>1, <1>2 DEF Single, Busy
  <2>5. link' \in Links /\ Cleared(c, Z) /\ Passed(c, Z + 1, m) /\ Only2(c, Z)
    BY <1>0, <1>1, <1>2, <2>1, <2>2, <2>3, <2>4, PassesCell
  <2>6. /\ depth' \in [Bases -> Nat] /\ depth'[Z] = 0 /\ (\A b \in Bases : b # Z => depth'[b] = depth[b])
        /\ work' \in [Verifiers -> Response] /\ work'[Z] = res /\ (\A u \in Verifiers : u # Z => work'[u] = work[u])
    BY <1>0, <1>2, <1>6, <2>1 DEF TypeOK
  <2>7. TypeOK' /\ Machines' /\ pc'[Z] = "round" /\ \A k \in Nodes : k # Z => pc'[k] = pc[k]
    <3>1. "round" \in Places(Z)
      BY <1>0 DEF Places
    <3>2. /\ faults' \in 0 .. MaxFaults /\ round' \in 0 .. MaxRounds /\ active' \in BOOLEAN
          /\ quorum' \in {"none", "asked", "approved", "denied", "lost"}
          /\ log' \in [Verifiers \cup {Vm4} -> Seq(Entries)]
      BY <1>2, <1>7, <2>1 DEF TypeOK
    <3> QED BY <1>0, <1>2, <1>7, <1>8, <2>1, <2>5, <2>6, <3>1, <3>2, Typed
  <2>8. Growing
    BY <2>1, LogStays
  <2>9. Talk'
    BY <1>0, <1>2, <1>7, <1>8, <2>6, <2>7, <2>8, TalkStays DEF Growing
  <2>10. LogsAgree' /\ SessionIsWitnessed'
    BY <1>0, <1>7, <2>1, <2>7, Unlogged
  <2>11. On(c, Z)' /\ Acts(Z)
    BY <1>0, <1>1, <1>7, <1>8, <2>5, <2>6, <2>7, <2>8 DEF On, Acts, Only2
  <2>12. \A j \in Hops : Reached(c, j) => Reached(c, j)'
    <3>1. \A j \in Hops : j \notin {Z, Z + 1} => link'[<<c, j>>] = link[<<c, j>>]
      BY <2>5 DEF Only2
    <3> QED BY <2>5, <3>1 DEF Cleared, Passed, Reached
  <2>13. \A a \in Bases : (On(c, a)' => On(c, a)) /\ (On(c, End(a))' => On(c, End(a)))
    BY <1>0, <1>1, <2>11, ActsOn, BaseNode, EndIs
  <2>14. Counted(c, Z, q.id - 1)' /\ Asked(Z)' = q.id
    <3>1. Counted(c, Z, q.id - 1)
      BY <1>0, <1>1, <1>2, <1>4, <1>9 DEF Tally, Asked
    <3>2. Counted(c, Z, q.id - 1)'
      BY <1>0, <1>8, <2>12, <2>13, <3>1, EndIs, CountedStays
    <3> QED BY <1>0, <1>6, <1>8, <3>2 DEF Asked
  <2>15. ASSUME NEW a \in Bases PROVE Tally(c, a)'
    <3>1. CASE a = 0
      BY <1>0, <1>2, <1>4, <2>11, <2>13, <3>1, TallyWaits
    <3>2. CASE a = Z
      <4>1. Counted(c, Z, Asked(Z) - 1)' /\ Asked(Z)' # 0
        BY <1>4, <2>14 DEF Counted
      <4> QED BY <1>0, <1>6, <1>8, <2>6, <2>7, <3>2, <4>1 DEF Tally
    <3> QED BY <3>1, <3>2 DEF Bases
  <2>16. \A a \in Bases : Z + 1 \in Seg(a) => a = Z
    BY <1>0, NextHop
  <2>17. \A a \in Bases : Z + 1 \in Seg(a) /\ On(c, a) /\ pc'[a] \in {"extended", "round"} =>
            /\ m.type \in Expected(a)' /\ depth'[a] \in 0 .. Last(a)
            /\ pc'[a] = "extended" =>
                 /\ m.type = "Extend" /\ Z + 1 + m.hops = a + depth'[a]
                 /\ \A j \in Seg(a) : j > a + 1 + depth'[a] => link[<<c, j>>].sv = "none"
    BY <1>0, <2>3, <2>6, <2>7, <2>16 DEF Expected
  <2>18. m.type = "ChainSubmission" => \A a \in Bases : Z + 1 \in Seg(a) =>
            /\ Counted(c, a, m.res.id - 1)' /\ m.res.id \in 1 .. MaxRounds
            /\ On(c, a) => m.res.id = Asked(a)'
    BY <1>4, <2>3, <2>14, <2>16
  <2>19. m.type \in DownTypes /\ m.type # "Extend" /\ Z \notin Proxies
    BY <1>0, <2>3, Ahead DEF DownTypes
  <2>20. Circuit(c)'
    <3>1. /\ Cell1(c, Z).type = "ChainSubmission" /\ work'[Z].id = Cell1(c, Z).res.id
          /\ On(c, 0) => pc[0] = "round" /\ depth[0] = Last(0)
      BY <1>2, <1>3, <1>4, <1>6, <2>6
    <3>2. /\ Z \in 0 .. D /\ Z + 1 \in Hops /\ c = circ[Z] /\ Circuit(c) /\ Acts(Z) /\ On(c, Z) /\ On(c, Z)'
          /\ Passed(c, Z + 1, m) /\ Cleared(c, Z) /\ pc[Z] = "relay" /\ pc'[Z] = "round"
      BY <1>0, <1>1, <1>2, <2>5, <2>7, <2>11
    <3> QED BY <2>15, <2>17, <2>18, <2>19, <3>1, <3>2, DownMove
  <2> QED BY <1>0, <1>1, <2>7, <2>9, <2>10, <2>11, <2>20, Closes
<1>10. CASE mode = "chain1"
  <2>1. /\ Answer(Z, TakeCell(link, Z), res.id, res, error) /\ active' \in BOOLEAN
        /\ UNCHANGED <<depth, work>>
    BY <1>6, <1>10 DEF Vm2Submission
  <2>2. work' \in [Verifiers -> Response] /\ \A u \in Verifiers : u # Z => count'[u] = count[u] /\ work'[u] = work[u]
    BY <1>2, <1>8, <2>1 DEF TypeOK
  <2>3. CASE error
    <3>1. Answer(Z, TakeCell(link, Z), res.id, res, TRUE)
      BY <2>1, <2>3
    <3> QED BY <1>0, <1>1, <1>2, <1>6, <1>7, <1>8, <1>10, <2>1, <2>2, <3>1, AnswerFails
  <2>4. CASE ~ error
    <3>1. Answer(Z, TakeCell(link, Z), res.id, res, FALSE)
      BY <2>1, <2>4
    <3>2. PICK m : m = Cell("Result", 0, res)
      OBVIOUS
    <3>3. m \in Cells /\ m.type = "Result" /\ m.res = res /\ link' = SendUp(TakeCell(link, Z), Z, m)
      BY <1>6, <3>1, <3>2, ResultCell DEF Answer
    <3>4. link' \in Links /\ Replied(c, Z, m) /\ Only(c, Z) /\ link[<<c, Z>>].up = <<>>
      BY <1>0, <1>1, <1>2, <3>3, AnswersCell
    <3>5. Only2(c, Z) /\ Kept(c, Z + 1)
      BY <1>0, <3>4 DEF Only, Only2, Kept
    <3>6. /\ TypeOK' /\ Machines' /\ Talk' /\ LogsAgree' /\ SessionIsWitnessed'
          /\ Acts(Z) /\ On(c, Z)' /\ pc'[Z] = "relay" /\ Noted(c, Z, res)'
      BY <1>0, <1>1, <1>2, <1>6, <1>7, <1>8, <1>10, <2>1, <2>2, <3>1, <3>4, <3>5, AnswerGoes, ZenonT(60)
    <3>7. Tally(c, Z)'
      BY <1>0, <1>7, <1>10, <3>6 DEF Tally
    <3>8. Circuit(c)'
      BY <1>0, <1>1, <1>2, <1>4, <1>6, <1>8, <1>10, <3>3, <3>4, <3>5, <3>6, <3>7, Verdict, ZenonT(60)
    <3> QED BY <1>0, <1>1, <3>6, <3>8, Closes
  <2> QED BY <2>3, <2>4
<1> QED BY <1>9, <1>10

(* What reaches vm2 from vm3. *)
LEMMA Vm3IsNoted ==
    ASSUME NEW c \in Circuits, Circuit(c), On(c, Z), link \in Links, pc[Z] = "round", depth[Z] = Last(Z),
           link[<<c, Z + 1>>].up # <<>>, NEW res, res = Reply1(c, Z + 1).res
    PROVE  /\ res \in Response /\ res.id = count[Z] /\ work[Z].id = count[Z] /\ Counted(c, Z, res.id)
           /\ res.status \in {"Authorized", "Provisional"} => res.ok
           /\ Backed(c, res)
<1>0. Z \in Bases /\ Z + 1 \in Hops /\ Z + 1 \in Seg(Z) /\ Z + 1 > Z /\ Z # 0
  BY Fixed, Line
<1>1. Sane(c, Z + 1) /\ Notes(c, Z + 1) /\ Ids(c) /\ Numbered(c, Z, Z + 1) /\ Tally(c, Z)
  BY <1>0 DEF Circuit, Counts
<1>2. Reply1(c, Z + 1).type \in Expected(Z) /\ Reply1(c, Z + 1).type \in UpTypes /\ Last(Z) \in Nat
  BY <1>0, <1>1, ReplyExpected DEF Sane
<1>3. Reply1(c, Z + 1).type = "Result"
  BY <1>2 DEF Expected, UpTypes
<1>4. res.id = count[Z] /\ work[Z].id = count[Z]
  BY <1>0, <1>1, <1>3 DEF Ids, DataIs, Asked, Tally
<1>5. Counted(c, Z, res.id)
  BY <1>1, <1>3 DEF Numbered
<1>6. res \in Response
  <2>1. link[<<c, Z + 1>>].up \in Seq(Cells)
    BY <1>0 DEF Links, Linked
  <2> QED BY <2>1, HeadCell DEF Reply1, Cells
<1> QED BY <1>0, <1>1, <1>3, <1>4, <1>5, <1>6 DEF Notes

(* vm2 has vm3's result for its submission, logs it and passes it on. *)
LEMMA Vm2ResultInv ==
    ASSUME IInv, NEW error \in BOOLEAN, Vm2Result(error)
    PROVE  IInv'
<1>0. /\ Z \in Verifiers /\ Z \in Hops /\ Z \in 0 .. D /\ Z \in Nodes /\ Z # 0 /\ Z + 1 \in Hops /\ Z + 1 # Z /\ Z # D
      /\ 0 \in Bases /\ Z \in Bases /\ End(0) = Z
  BY Fixed, NextHop, BaseOf
<1>1. PICK c \in Circuits : c = circ[Z] /\ On(c, Z) /\ Circuit(c) /\ link \in Links
  BY <1>0, Working DEF Vm2Result
<1>2. /\ TypeOK /\ Wire(c, Z + 1) /\ pc[Z] = "round" /\ depth[Z] = Last(Z)
      /\ link[Out(Z)].up # <<>> /\ link[<<c, Z + 1>>].up # <<>> /\ Out(Z) = <<c, Z + 1>>
  BY <1>0, <1>1 DEF IInv, Circuit, Vm2Result, HasReply, Out
<1>3. PICK res : res = Reply1(c, Z + 1).res
  OBVIOUS
<1>4. /\ res \in Response /\ res.id = count[Z] /\ work[Z].id = count[Z] /\ Counted(c, Z, res.id)
      /\ res.status \in {"Authorized", "Provisional"} => res.ok
      /\ Backed(c, res)
  BY <1>1, <1>2, <1>3, Vm3IsNoted
<1>5. /\ On(c, 0) => pc[0] = "round" /\ depth[0] = Last(0)
      /\ Busy(c, Z) /\ Data(c, Z) /\ ~ Idle(Z)
      /\ link[<<c, Z>>].down = <<>> /\ link[<<c, Z>>].up = <<>>
      /\ \A n : DataIs(c, Z, n) => n = work[Z].id
  BY <1>0, <1>1, <1>2, Pending
<1>6. /\ Answer(Z, TakeReply(link, Z), res.id, res, error) /\ active' \in BOOLEAN
      /\ UNCHANGED <<mode, circ, depth, round, count, work, quorum, faults>>
  <2>1. res = Head(link[Out(Z)].up).res
    BY <1>2, <1>3 DEF Reply1
  <2> QED BY <1>4, <2>1 DEF Vm2Result
<1>7. count' \in [Verifiers -> 0 .. MaxRounds] /\ work' \in [Verifiers -> Response]
  BY <1>2, <1>6 DEF TypeOK
<1>8. Noted(c, D, res)
  BY <1>4 DEF Backed
<1>9. CASE error
  <2>1. Answer(Z, TakeReply(link, Z), res.id, res, TRUE)
    BY <1>6, <1>9
  <2> QED BY <1>0, <1>1, <1>2, <1>4, <1>6, <1>7, <1>8, <2>1, AnswerFails
<1>10. CASE ~ error
  <2>1. Answer(Z, TakeReply(link, Z), res.id, res, FALSE)
    BY <1>6, <1>10
  <2>2. PICK m : m = Cell("Result", 0, res)
    OBVIOUS
  <2>3. m \in Cells /\ m.type = "Result" /\ m.res = res /\ link' = SendUp(TakeReply(link, Z), Z, m)
    BY <1>4, <2>1, <2>2, ResultCell DEF Answer
  <2>4. link' \in Links /\ Replied(c, Z, m) /\ Taken(c, Z + 1) /\ Only2(c, Z)
    BY <1>0, <1>1, <1>2, <1>5, <2>3, AnswersBack
  <2>5. /\ TypeOK' /\ Machines' /\ Talk' /\ LogsAgree' /\ SessionIsWitnessed'
        /\ Acts(Z) /\ On(c, Z)' /\ pc'[Z] = "relay" /\ Noted(c, Z, res)'
    BY <1>0, <1>1, <1>2, <1>4, <1>6, <1>7, <1>8, <2>1, <2>4, AnswerGoes
  <2>6. Backed(c, res)'
    BY <1>4, <2>5, BackedStays DEF Acts
  <2>7. Tally(c, Z)'
    <3>1. On(c, End(Z))' => On(c, End(Z))
      BY <1>0, <1>1, <2>5, ActsOn, EndIs
    <3>2. End(Z) \in Hops /\ Z + 1 \in Hops
      BY <1>0, EndIs
    <3>3. \A j \in Hops : Reached(c, j) => Reached(c, j)'
      <4>1. \A j \in Hops : j \notin {Z, Z + 1} => link'[<<c, j>>] = link[<<c, j>>]
        BY <2>4 DEF Only2
      <4> QED BY <2>4, <4>1 DEF Replied, Taken, Reached
    <3>4. Counted(c, Z, Asked(Z))'
      BY <1>0, <1>4, <1>6, <3>1, <3>2, <3>3 DEF Counted, Asked
    <3> QED BY <1>0, <2>5, <3>4 DEF Tally
  <2>8. Circuit(c)'
    BY <1>0, <1>1, <1>4, <1>5, <1>6, <2>3, <2>4, <2>5, <2>6, <2>7, Verdict
  <2> QED BY <1>0, <1>1, <2>5, <2>8, Closes
<1> QED BY <1>9, <1>10

(* vm3 has a submission: it logs and answers it, or keeps it until vm4 has
   decided. *)
LEMMA Vm3SubmissionInv ==
    ASSUME IInv, NEW clean \in BOOLEAN, NEW error \in BOOLEAN, Vm3Submission(clean, error)
    PROVE  IInv'
<1>0. /\ D \in Verifiers /\ D \in Hops /\ D \in 0 .. D /\ D \in Nodes /\ D # 0 /\ D + 1 \notin Hops /\ Z # D
      /\ 0 \in Nodes /\ 0 \in Bases /\ Z \in Bases /\ End(Z) = D /\ End(0) = Z
  BY Fixed, BaseOf
<1>1. PICK c \in Circuits : c = circ[D] /\ On(c, D) /\ Circuit(c) /\ link \in Links
  BY <1>0, Working DEF Vm3Submission
<1>2. /\ TypeOK /\ Talk /\ Wire(c, D) /\ (\A b \in Bases : Tally(c, b)) /\ pc[D] = "relay" /\ quorum = "none"
      /\ link[In(D)].down # <<>> /\ link[<<c, D>>].down # <<>> /\ Cell1(c, D).type = "ChainSubmission"
      /\ In(D) = <<c, D>>
  <2>1. TypeOK /\ Talk /\ Wire(c, D) /\ (\A b \in Bases : Tally(c, b)) /\ pc[D] = "relay" /\ In(D) = <<c, D>>
    BY <1>0, <1>1 DEF IInv, Circuit, Counts, Vm3Submission, In
  <2>2. quorum = "none"
    BY <2>1 DEF Talk
  <2> QED BY <2>1, <2>2 DEF Vm3Submission, HasCell, Cell1
<1>3. PICK q : q = Cell1(c, D).res
  OBVIOUS
<1>4. /\ q \in Response /\ q.id \in 1 .. MaxRounds /\ count[D] = q.id - 1
      /\ On(c, Z) => pc[Z] = "round" /\ depth[Z] = Last(Z)
      /\ Busy(c, D) /\ Data(c, D)
      /\ \A n : DataIs(c, D, n) => n = q.id
  BY <1>0, <1>1, <1>2, <1>3, Submitted
<1>5. PICK res : res = VerifyFull(q, clean)
  OBVIOUS
<1>6. /\ res \in Response /\ res.id = q.id /\ (res.status \in {"Authorized", "Provisional"} => res.ok)
      /\ res.id = count[D] + 1 /\ res = VerifyFull(Head(link[In(D)].down).res, clean)
  <2>1. q.id = count[D] + 1
    BY <1>4, BoundAssumption
  <2> QED BY <1>2, <1>3, <1>4, <1>5, <2>1, VerifyFullIs DEF Cell1
<1>7. /\ count' = [count EXCEPT ![D] = @ + 1] /\ UNCHANGED <<mode, circ, depth, round, active, quorum, faults>>
  BY DEF Vm3Submission
<1>8. count' \in [Verifiers -> 0 .. MaxRounds] /\ count'[D] = res.id /\ \A u \in Verifiers : u # D => count'[u] = count[u]
  <2>1. count \in [Verifiers -> 0 .. MaxRounds] /\ res.id \in 0 .. MaxRounds
    BY <1>2, <1>4, <1>6, BoundAssumption DEF TypeOK
  <2>2. count' = [count EXCEPT ![D] = res.id]
    BY <1>6, <1>7
  <2> QED BY <1>0, <2>1, <2>2
<1>9. active' \in BOOLEAN
  BY <1>2, <1>7 DEF TypeOK
<1>10. CASE mode = "quorum"
  <2>1. work' = [work EXCEPT ![D] = res] /\ link' = TakeCell(link, D) /\ Goto(D, "quorum") /\ log' = log
    BY <1>6, <1>10 DEF Vm3Submission
  <2>2. link' \in Links /\ Cleared(c, D) /\ Only(c, D)
    BY <1>0, <1>1, <1>2, <2>1, TakesCell
  <2>3. work' \in [Verifiers -> Response] /\ work'[D] = res /\ (\A u \in Verifiers : u # D => work'[u] = work[u])
    BY <1>0, <1>2, <1>6, <2>1 DEF TypeOK
  <2>4. TypeOK' /\ Machines' /\ pc'[D] = "quorum" /\ \A k \in Nodes : k # D => pc'[k] = pc[k]
    <3>1. "quorum" \in Places(D)
      BY <1>0 DEF Places
    <3>2. /\ faults' \in 0 .. MaxFaults /\ round' \in 0 .. MaxRounds /\ depth' \in [Bases -> Nat]
          /\ quorum' \in {"none", "asked", "approved", "denied", "lost"}
          /\ log' \in [Verifiers \cup {Vm4} -> Seq(Entries)]
      BY <1>2, <1>7, <2>1 DEF TypeOK
    <3> QED BY <1>0, <1>2, <1>7, <1>8, <1>9, <2>1, <2>2, <2>3, <3>1, <3>2, Typed
  <2>5. Growing
    BY <2>1, LogStays
  <2>6. Talk'
    BY <1>2, <1>7, <1>8, <2>3, <2>4 DEF Talk
  <2>7. LogsAgree' /\ SessionIsWitnessed'
    BY <1>0, <1>7, <2>1, <2>4, Unlogged
  <2>8. On(c, D)' /\ Acts(D)
    BY <1>0, <1>1, <1>7, <1>8, <2>2, <2>3, <2>4, <2>5 DEF On, Acts, Only
  <2>9. \A j \in Hops : j # D => Kept(c, j)
    BY <2>2 DEF Only, Kept
  <2>10. \A j \in Hops : Reached(c, j) => Reached(c, j)'
    BY <2>2, <2>9 DEF Kept, Cleared, Reached
  <2>11. \A a \in Bases : (On(c, a)' => On(c, a)) /\ (On(c, End(a))' => On(c, End(a)))
    BY <1>0, <1>1, <2>8, ActsOn, BaseNode, EndIs
  <2>12. ASSUME NEW a \in Bases PROVE Tally(c, a)'
    <3>1. CASE a = Z
      BY <1>0, <1>2, <1>4, <2>8, <2>11, <3>1, TallyWaits
    <3>2. CASE a = 0
      BY <1>0, <1>2, <2>8, <2>10, <2>11, <3>2, TallyStays, EndIs
    <3> QED BY <3>1, <3>2 DEF Bases
  <2>13. Circuit(c)'
    <3>1. Cell1(c, D).type = "ChainSubmission" /\ work'[D].id = Cell1(c, D).res.id
      BY <1>2, <1>3, <1>6, <2>3
    <3> QED BY <1>0, <1>1, <1>2, <2>2, <2>4, <2>8, <2>9, <2>12, <3>1, Hold
  <2> QED BY <1>0, <1>1, <2>4, <2>6, <2>7, <2>8, <2>13, Closes
<1>11. CASE mode # "quorum"
  <2>1. Answer(D, TakeCell(link, D), res.id, res, error) /\ work' = work
    BY <1>6, <1>11 DEF Vm3Submission
  <2>2. /\ work' \in [Verifiers -> Response] /\ quorum' = "none"
        /\ \A u \in Verifiers : u # D => count'[u] = count[u] /\ work'[u] = work[u]
    BY <1>2, <1>7, <1>8, <2>1 DEF TypeOK
  <2>3. CASE error
    <3>1. Answer(D, TakeCell(link, D), res.id, res, TRUE)
      BY <2>1, <2>3
    <3> QED BY <1>0, <1>1, <1>2, <1>6, <1>7, <1>8, <1>9, <2>2, <3>1, AnswerFails
  <2>4. CASE ~ error
    <3>1. Answer(D, TakeCell(link, D), res.id, res, FALSE)
      BY <2>1, <2>4
    <3>2. PICK m : m = Cell("Result", 0, res)
      OBVIOUS
    <3>3. m \in Cells /\ m.type = "Result" /\ m.res = res /\ link' = SendUp(TakeCell(link, D), D, m)
      BY <1>6, <3>1, <3>2, ResultCell DEF Answer
    <3>4. link' \in Links /\ Replied(c, D, m) /\ Only(c, D) /\ link[<<c, D>>].up = <<>>
      BY <1>0, <1>1, <1>2, <3>3, AnswersCell
    <3>5. Only2(c, D)
      BY <3>4 DEF Only, Only2
    <3>6. /\ TypeOK' /\ Machines' /\ Talk' /\ LogsAgree' /\ SessionIsWitnessed'
          /\ Acts(D) /\ On(c, D)' /\ pc'[D] = "relay" /\ Noted(c, D, res)'
      BY <1>0, <1>1, <1>2, <1>6, <1>7, <1>8, <1>9, <2>2, <3>1, <3>4, <3>5, AnswerGoes, ZenonT(60)
    <3>7. Backed(c, res)'
      BY <1>7, <1>11, <3>6 DEF Backed
    <3>8. Circuit(c)'
      BY <1>0, <1>1, <1>2, <1>4, <1>6, <1>8, <3>3, <3>4, <3>6, <3>7, Verdict, ZenonT(60)
    <3> QED BY <1>0, <1>1, <3>6, <3>8, Closes
  <2> QED BY <2>3, <2>4
<1> QED BY <1>10, <1>11

(* vm3 has vm4's decision, or none in time: it logs the verdict and answers. *)
LEMMA Vm3QuorumInv ==
    ASSUME IInv, NEW error \in BOOLEAN, Vm3Quorum(error)
    PROVE  IInv'
<1>0. /\ D \in Verifiers /\ D \in Hops /\ D \in 0 .. D /\ D \in Nodes /\ D # 0 /\ D + 1 \notin Hops /\ Z # D
      /\ Z \in Bases /\ End(Z) = D /\ Vm4 # D
  BY Fixed, BaseOf
<1>1. PICK c \in Circuits : c = circ[D] /\ On(c, D) /\ Circuit(c) /\ link \in Links
  BY <1>0, Working DEF Vm3Quorum
<1>2. TypeOK /\ Talk /\ pc[D] = "quorum" /\ work[D] \in Response /\ work[D].id = count[D]
  BY <1>0 DEF IInv, Vm3Quorum, Talk, TypeOK
<1>3. PICK res : res = IF quorum = "approved" THEN work[D] ELSE [work[D] EXCEPT !.ok = FALSE, !.status = "Denied"]
  OBVIOUS
<1>4. /\ res \in Response /\ res.id = count[D] /\ res.id = work[D].id
      /\ res.ok => quorum = "approved"
      /\ res.status \in {"Authorized", "Provisional"} => res.ok
  <2>1. CASE quorum = "approved"
    BY <1>2, <1>3, <2>1 DEF Talk
  <2>2. CASE quorum # "approved"
    BY <1>2, <1>3, <2>2 DEF Response, Status
  <2> QED BY <2>1, <2>2
<1>5. /\ On(c, Z) => pc[Z] = "round" /\ depth[Z] = Last(Z)
      /\ Busy(c, D) /\ Data(c, D) /\ ~ Idle(D)
      /\ link[<<c, D>>].down = <<>> /\ link[<<c, D>>].up = <<>>
      /\ \A n : DataIs(c, D, n) => n = work[D].id
  BY <1>0, <1>1, <1>2, Pending
<1>6. /\ Answer(D, link, res.id, res, error) /\ quorum' = "none"
      /\ UNCHANGED <<mode, circ, depth, round, count, active, work, faults>>
  BY <1>3, <1>4 DEF Vm3Quorum
<1>7. count' \in [Verifiers -> 0 .. MaxRounds] /\ work' \in [Verifiers -> Response] /\ active' \in BOOLEAN
  BY <1>2, <1>6 DEF TypeOK
<1>8. CASE error
  <2>1. Answer(D, link, res.id, res, TRUE)
    BY <1>6, <1>8
  <2> QED BY <1>0, <1>1, <1>2, <1>4, <1>6, <1>7, <2>1, AnswerFails
<1>9. CASE ~ error
  <2>1. Answer(D, link, res.id, res, FALSE)
    BY <1>6, <1>9
  <2>2. PICK m : m = Cell("Result", 0, res)
    OBVIOUS
  <2>3. m \in Cells /\ m.type = "Result" /\ m.res = res /\ link' = SendUp(link, D, m)
    BY <1>4, <2>1, <2>2, ResultCell DEF Answer
  <2>4. link' \in Links /\ Replied(c, D, m) /\ Only(c, D)
    BY <1>0, <1>1, <1>5, <2>3, AnswersNow
  <2>5. Only2(c, D)
    BY <2>4 DEF Only, Only2
  <2>6. /\ TypeOK' /\ Machines' /\ Talk' /\ LogsAgree' /\ SessionIsWitnessed'
        /\ Acts(D) /\ On(c, D)' /\ pc'[D] = "relay" /\ Noted(c, D, res)' /\ log'[Vm4] = log[Vm4]
    BY <1>0, <1>1, <1>2, <1>4, <1>6, <1>7, <2>1, <2>4, <2>5, AnswerGoes
  <2>7. Backed(c, res)'
    <3>1. ASSUME res.ok PROVE Noted(c, Vm4, res)'
      <4>1. \E k \in DOMAIN log[Vm4] : log[Vm4][k].c = c /\ log[Vm4][k].id = res.id /\ log[Vm4][k].event = "ChainVerified"
        BY <1>1, <1>2, <1>4, <3>1 DEF Talk
      <4> QED BY <1>0, <2>6, <3>1, <4>1 DEF Noted, Positive
    <3> QED BY <2>6, <3>1 DEF Backed
  <2>8. Circuit(c)'
    BY <1>0, <1>1, <1>4, <1>5, <1>6, <2>3, <2>4, <2>6, <2>7, Verdict
  <2> QED BY <1>0, <1>1, <2>6, <2>8, Closes
<1> QED BY <1>8, <1>9

(* Nothing has begun. *)
LEMMA Starts == Init => IInv
<1> SUFFICES ASSUME Init PROVE IInv
  OBVIOUS
<1>1. TypeOK
  <2>1. link \in [Circuits \X Hops -> [cl : BOOLEAN, sv : {"none", "queued", "open", "closed"},
                                       down : Seq(Cells), up : Seq(Cells)]]
    BY DEF Init
  <2>2. log \in [Verifiers \cup {Vm4} -> Seq(Entries)] /\ work \in [Verifiers -> Response]
    BY SubmissionType DEF Init
  <2>3. pc \in [Nodes -> {"down", "accept", "extend", "relay", "connect", "extended",
                          "forward", "round", "session", "quorum"}]
    BY DEF Init
  <2>4. circ \in [Nodes -> 0 .. MaxCircuits] /\ round \in 0 .. MaxRounds /\ faults \in 0 .. MaxFaults
    BY BoundAssumption DEF Init
  <2>5. depth \in [Bases -> Nat] /\ count \in [Verifiers -> 0 .. MaxRounds]
    BY BoundAssumption DEF Init
  <2>6. mode \in Modes /\ active \in BOOLEAN /\ quorum \in {"none", "asked", "approved", "denied", "lost"}
    BY DEF Init
  <2> QED BY <2>1, <2>2, <2>3, <2>4, <2>5, <2>6 DEF TypeOK
<1>2. Machines /\ Talk
  BY Fixed DEF Init, Machines, Places, Talk
<1>3. LogsAgree /\ SessionIsWitnessed
  BY Fixed DEF Init, LogsAgree, SessionIsWitnessed, EntriesOf
<1>4. ASSUME NEW c \in Circuits PROVE Circuit(c)
  <2>1. \A i \in 0 .. D : ~ On(c, i)
    BY LineNodes DEF Init, On
  <2>2. \A j \in Hops : /\ link[<<c, j>>].cl = FALSE /\ link[<<c, j>>].sv = "none"
                        /\ link[<<c, j>>].down = <<>> /\ link[<<c, j>>].up = <<>>
    BY DEF Init
  <2>3. \A j \in Hops : ~ On(c, j) /\ ~ On(c, j - 1) /\ ~ Busy(c, j) /\ ~ Data(c, j)
    BY <2>1, <2>2, HopNode DEF Busy, Data
  <2>4. \A b \in Bases : ~ On(c, b)
    BY <2>1, BaseNode
  <2>5. \A j \in Hops : Wire(c, j) /\ Sane(c, j) /\ Notes(c, j)
    BY <2>2, <2>3 DEF Wire, Sane, Notes
  <2>6. Fresh(c)
    BY <2>1, <2>2 DEF Fresh
  <2>7. Single(c) /\ Ids(c)
    BY <2>3, <2>4, SegHop, Fixed DEF Single, Ids
  <2>8. \A b \in Bases : Phase(c, b) /\ Counts(c, b)
    BY <2>2, <2>4, SegHop DEF Phase, Counts, Tally, Numbered
  <2> QED BY <2>5, <2>6, <2>7, <2>8 DEF Circuit
<1> QED BY <1>1, <1>2, <1>3, <1>4 DEF IInv

(* Nothing happens. *)
LEMMA Stutters == IInv /\ UNCHANGED vars => IInv'
<1> SUFFICES ASSUME IInv, UNCHANGED vars PROVE IInv'
  OBVIOUS
<1>1. UNCHANGED <<mode, pc, circ, depth, round, count, active, work, quorum, link, log, faults>>
  BY DEF vars
<1>2. TypeOK'
  BY <1>1 DEF IInv, TypeOK
<1>3. Machines' /\ Talk'
  BY <1>1 DEF IInv, Machines, Places, Talk
<1>4. Growing
  BY <1>1, LogStays
<1>5. \A d \in Circuits : Circuit(d)'
  BY <1>1, <1>4, Undisturbed
<1>6. LogsAgree' /\ SessionIsWitnessed'
  BY <1>1, Unlogged
<1> QED BY <1>2, <1>3, <1>5, <1>6 DEF IInv

(* Every step of every machine keeps the invariant. *)
LEMMA Steps == IInv /\ Next => IInv'
<1> SUFFICES ASSUME IInv, Next PROVE IInv'
  OBVIOUS
<1>0. /\ 0 \in Bases /\ Z \in Bases
      /\ \A i \in 0 .. D - 1 : i \in 0 .. D
  BY Fixed, LineAssumption
<1>1. CASE Establish \/ Heartbeat \/ Drop
  BY <1>1, EstablishInv, HeartbeatInv, DropInv
<1>2. CASE Vm1
  BY <1>0, <1>2, Chain1CompleteInv, Vm1ResultInv, ExtendNextInv, RoundNextInv DEF Vm1
<1>3. CASE Vm2
  BY <1>0, <1>3, Chain2CompleteInv, Vm2SubmissionInv, Vm2ResultInv, ExtendNextInv, RoundNextInv DEF Vm2
<1>4. CASE Vm3
  BY <1>4, AskVm4Inv, Vm3SubmissionInv, Vm3QuorumInv DEF Vm3
<1>5. CASE \E ok \in BOOLEAN : Vm4Decides(ok)
  BY <1>5, Vm4DecidesInv
<1>6. CASE \E i \in Proxies : Proxy(i)
  BY <1>6, RelayExtendInv, RelayAttestInv, RelayForwardInv, RelayBackInv DEF Proxy
<1>7. CASE \E i \in Hops : Serve(i)
  BY <1>7, AcceptInv, ServeExtendInv, UpstreamLostInv DEF Serve
<1>8. CASE \E i \in 0 .. D - 1 : Connect(i) \/ DownstreamLost(i)
  BY <1>0, <1>8, ConnectInv, DownstreamLostInv
<1>9. CASE AskVm4(TRUE)
  BY <1>9, AskVm4Inv
<1>10. CASE \E i \in 0 .. D : QuoteFails(i)
  BY <1>10, QuoteFailsInv
<1>11. CASE \E i \in Nodes : Crash(i) \/ Restart(i)
  BY <1>11, CrashInv, RestartInv
<1> QED BY <1>1, <1>2, <1>3, <1>4, <1>5, <1>6, <1>7, <1>8, <1>9, <1>10, <1>11 DEF Next, Program

(* IInv holds in every reachable state, for every length of the two chains and
   any number of circuits, rounds and faults. *)
THEOREM Inductive == Spec => []IInv
<1>1. IInv /\ [Next]_vars => IInv'
  BY Stutters, Steps
<1> QED BY Starts, <1>1, PTL DEF Spec

(* The type invariant of the chain: positions, links, cells and logs. *)
THEOREM TypeCorrect == Spec => []TypeOK
<1>1. IInv => TypeOK
  BY DEF IInv
<1> QED BY Inductive, <1>1, PTL

(* While vm1 holds a session, every verifier it depends on has logged its
   latest round as passed, whatever crashed, broke or was rebuilt meanwhile
   (run_client, heartbeat_chain1, handle_zts_circuit, handle_da_circuit). *)
THEOREM SessionsAreWitnessed == Spec => []SessionIsWitnessed
<1>1. IInv => SessionIsWitnessed
  BY DEF IInv
<1> QED BY Inductive, <1>1, PTL

(* What vm2 logs of a submission vm3 has logged before under the same number,
   with the same verdict and the same node results: the comparison of the
   monitor is sound for any number of circuits and crashes. *)
THEOREM TheLogsAgree == Spec => []LogsAgree
<1>1. IInv => LogsAgree
  BY DEF IInv
<1> QED BY Inductive, <1>1, PTL

(* A queue whose tail is empty has one message. *)
LEMMA OneMessage ==
    ASSUME NEW q \in Seq(Cells), Tail(q) = <<>>, q # <<>>
    PROVE  Len(q) = 1 /\ \A j \in DOMAIN q : q[j] = Head(q)
<1>1. Len(Tail(q)) = Len(q) - 1 /\ Len(q) \in Nat
  BY HeadTailProperties, LenProperties
<1>2. Len(Tail(q)) = 0
  <2>1. Len(<<>>) = 0
    OBVIOUS
  <2> QED BY <2>1
<1>3. Len(q) = 1
  BY <1>1, <1>2
<1>4. DOMAIN q = 1 .. 1
  BY <1>3, LenProperties
<1>5. Head(q) = q[1]
  BY HeadTailProperties
<1> QED BY <1>3, <1>4, <1>5

(* One turn per part of the circuit, and the numbers of what is under way,
   give the property. *)
LEMMA QuestionIsAnswered == IInv => AnswersTheQuestion
<1> SUFFICES ASSUME IInv PROVE AnswersTheQuestion
  OBVIOUS
<1>1. link \in Links
  BY LinksType DEF IInv
<1>2. ASSUME NEW c \in Circuits, NEW i \in Hops
      PROVE  /\ Len(link[<<c, i>>].down) + Len(link[<<c, i>>].up) <= 1
             /\ \A j \in DOMAIN link[<<c, i>>].up : link[<<c, i>>].up # <<>> /\ link[<<c, i>>].up[j] = Reply1(c, i)
  <2>1. Wire(c, i) /\ link[<<c, i>>].down \in Seq(Cells) /\ link[<<c, i>>].up \in Seq(Cells)
    BY <1>1 DEF IInv, Circuit, Links, Linked
  <2>2. Len(<<>>) = 0 /\ DOMAIN <<>> = {}
    OBVIOUS
  <2>3. CASE link[<<c, i>>].down # <<>>
    <3>1. Len(link[<<c, i>>].down) = 1 /\ link[<<c, i>>].up = <<>>
      BY <2>1, <2>3, OneMessage DEF Wire
    <3> QED BY <2>2, <3>1
  <2>4. CASE link[<<c, i>>].up # <<>>
    <3>1. link[<<c, i>>].down = <<>> /\ Tail(link[<<c, i>>].up) = <<>>
      BY <2>1, <2>4 DEF Wire
    <3>2. Len(link[<<c, i>>].up) = 1 /\ \A j \in DOMAIN link[<<c, i>>].up : link[<<c, i>>].up[j] = Reply1(c, i)
      BY <2>1, <2>4, <3>1, OneMessage DEF Reply1
    <3> QED BY <2>2, <2>4, <3>1, <3>2
  <2>5. CASE link[<<c, i>>].down = <<>> /\ link[<<c, i>>].up = <<>>
    BY <2>2, <2>5
  <2> QED BY <2>3, <2>4, <2>5
<1>3. ASSUME pc[0] = "round", NEW i \in Hops, NEW j \in DOMAIN link[<<circ[0], i>>].up,
             link[<<circ[0], i>>].up[j].type = "Result"
      PROVE  link[<<circ[0], i>>].up[j].res.id = round
  <2>1. PICK c \in Circuits : c = circ[0] /\ On(c, 0) /\ Circuit(c)
    BY <1>3, Fixed, Working
  <2>2. link[<<c, i>>].up # <<>> /\ link[<<c, i>>].up[j] = Reply1(c, i) /\ Reply1(c, i).type = "Result"
    BY <1>2, <1>3, <2>1
  <2>3. Ids(c) /\ Data(c, i) /\ 0 \in Bases /\ Z \in Bases /\ Z # 0
    BY <2>1, <2>2, Fixed DEF Circuit, Data
  <2>4. CASE i \in Seg(0)
    BY <2>1, <2>2, <2>3, <2>4 DEF Ids, DataIs, Asked
  <2>5. CASE i \in Seg(Z)
    <3>1. CASE On(c, Z)
      <4>1. count[Z] = round
        BY <2>1, <2>3, <2>5, <3>1, BothRounds
      <4> QED BY <2>1, <2>2, <2>3, <2>5, <3>1, <4>1 DEF Ids, DataIs, Asked
    <3>2. CASE ~ On(c, Z)
      BY <2>1, <2>2, <2>3, <2>5, <3>2 DEF Ids, DataIs
    <3> QED BY <3>1, <3>2
  <2>6. i \in Seg(0) \/ i \in Seg(Z)
    BY LineAssumption DEF Seg, End, Hops
  <2> QED BY <2>1, <2>4, <2>5, <2>6
<1>4. DOMAIN link = Circuits \X Hops
  BY <1>1 DEF Links
<1>5. ASSUME NEW x \in DOMAIN link PROVE Len(link[x].down) + Len(link[x].up) <= 1
  <2>1. PICK c \in Circuits, i \in Hops : x = <<c, i>>
    BY <1>4
  <2> QED BY <1>2, <2>1
<1> QED BY <1>3, <1>5 DEF AnswersTheQuestion

(* No connection ever carries two messages, and a result under way to vm1 is
   about the round vm1 waits for: heartbeat_chain1 may take the next message it
   receives for its answer without comparing the chain_id. *)
THEOREM QuestionsAreAnswered == Spec => []AnswersTheQuestion
  BY Inductive, QuestionIsAnswered, PTL
--------------------------------------------------------------------------------
(* Machine j takes the circuits in the order in which they come, and each once. *)
Backlog(j) ==
    /\ \A c \in Circuits : link[<<c, j>>].sv # "none" => c <= circ[j - 1]
    /\ \A c \in Circuits : link[<<c, j>>].sv = "queued" => c > circ[j]
    /\ circ[j] # 0 => link[<<circ[j], j>>].sv # "none"

(* A machine keeps its end of the connection it made as long as it serves the circuit. *)
Joined(c, j) == On(c, j - 1) /\ link[<<c, j>>].sv # "none" => link[<<c, j>>].cl

(* The machine that a cell is for has been reached. *)
Aimed(c, j) ==
    link[<<c, j>>].down # <<>> =>
        /\ j + Cell1(c, j).hops \in Hops
        /\ link[<<c, j + Cell1(c, j).hops>>].sv # "none"

(* Machine j has been asked something and has not answered. *)
Owes(c, j) ==
    \/ link[<<c, j>>].sv = "queued"
    \/ link[<<c, j>>].down # <<>>
    \/ On(c, j) /\ ~ Idle(j)

(* As long as nothing fails. *)
Calm ==
    faults = 0 =>
        /\ \A i \in Nodes : pc[i] # "down"
        /\ \A c \in Circuits, j \in Hops :
             /\ On(c, j - 1) \/ On(c, 0) => link[<<c, j>>].sv # "closed"
             /\ Owes(c, j) => link[<<c, j>>].cl

(* The verifier whose results judge v looks at. *)
Of(v) == IF v = Vm4 THEN D ELSE v
Judging == Verifiers \cup {Vm4}

(* v has something to log. *)
Due(v) ==
    IF v = Vm4 THEN quorum \in {"none", "asked"} /\ pc[D] = "quorum"
               ELSE pc[v] \in {"round", "quorum"}

(* A log is in the order of the circuits and of the submissions. *)
Orderly(v) ==
    /\ \A k \in DOMAIN log[v] :
         /\ log[v][k].c <= circ[Of(v)]
         /\ log[v][k].n \in 1 .. MaxRounds
         /\ log[v][k].c = circ[Of(v)] =>
              /\ log[v][k].n <= count[Of(v)]
              /\ Due(v) => log[v][k].n < count[Of(v)]
         /\ log[v][k].event = "SessionEnded" =>
              v # Vm4 /\ (log[v][k].c = circ[v] => pc[v] \in {"accept", "down"})
         /\ log[v][k].event # "SessionEnded" => log[v][k].id = log[v][k].n
    /\ \A j, k \in DOMAIN log[v] :
         log[v][j].event = "SessionEnded" /\ k > j => log[v][k].c > log[v][j].c

(* What the verifier has counted it has logged. *)
Counting(v) ==
    /\ pc[v] \in {"extend", "connect", "extended"} => count[v] = 0
    /\ pc[v] \in {"round", "quorum"} => count[v] # 0
    /\ pc[v] = "relay" /\ count[v] > 0 =>
         \E k \in DOMAIN log[v] : /\ log[v][k].c = circ[v] /\ log[v][k].n = count[v]
                                  /\ log[v][k].event # "SessionEnded"

(* While nothing fails, a circuit is over for vm1 before a verifier says so, and
   a verifier that leaves says so. *)
Concluded(v) ==
    faults = 0 => \A k \in DOMAIN log[v] :
        /\ log[v][k].event = "SessionEnded" => ~ On(log[v][k].c, 0)
        /\ \/ circ[v] = log[v][k].c /\ pc[v] # "accept"
           \/ \E h \in DOMAIN log[v] : log[v][h].c = log[v][k].c /\ log[v][h].event = "SessionEnded"

(* A submission is about a round vm1 has begun. *)
Begun ==
    /\ \A v \in Verifiers : circ[v] = circ[0] => count[v] <= round
    /\ \A c \in Circuits, j \in Hops :
         c = circ[0] /\ link[<<c, j>>].down # <<>> /\ Cell1(c, j).type = "ChainSubmission" =>
             Cell1(c, j).res.id <= round

(* The machines and their connections. *)
Net ==
    /\ \A j \in Hops : Backlog(j)
    /\ \A c \in Circuits, j \in Hops : Joined(c, j) /\ Aimed(c, j)
    /\ Calm /\ Begun

(* The logs. *)
Books ==
    /\ \A v \in Judging : Orderly(v)
    /\ \A v \in Verifiers : Counting(v) /\ Concluded(v)

(* vm1 has asked nothing before its circuit is complete. *)
Opening == pc[0] \in {"connect", "extended"} => round = 0

(* The second inductive invariant. *)
EInv == Net /\ Books /\ Opening
--------------------------------------------------------------------------------
(* Machine i, on circuit c, leaves all connections as they are and may send a cell. *)
Tame(c, i) ==
    \A d \in Circuits, j \in Hops :
        /\ link'[<<d, j>>].sv = link[<<d, j>>].sv /\ (link'[<<d, j>>].cl <=> link[<<d, j>>].cl)
        /\ link'[<<d, j>>].down # <<>> =>
             \/ link'[<<d, j>>].down = link[<<d, j>>].down
             \/ /\ d = c /\ j = i + 1 /\ link[<<d, j>>].sv # "none"
                /\ j + Cell1(d, j)'.hops \in Hops
                /\ link[<<d, j + Cell1(d, j)'.hops>>].sv # "none"
                /\ d = circ[0] /\ Cell1(d, j)'.type = "ChainSubmission" => Cell1(d, j)'.res.id <= round'

(* The circuits the machines serve are circuits. *)
LEMMA CircType ==
    ASSUME TypeOK, NEW j \in 0 .. D
    PROVE  circ[j] \in Nat /\ (circ[j] # 0 => circ[j] \in Circuits)
BY LineNodes, BoundAssumption DEF TypeOK, Circuits

(* A machine that goes on with its circuit. *)
LEMMA WorkNet ==
    ASSUME IInv, Net, NEW i \in 0 .. D, NEW c \in Circuits, c = circ[i], On(c, i), On(c, i)', Tame(c, i),
           circ' = circ, \A k \in Nodes : k # i => pc'[k] = pc[k], faults' = faults,
           round \in Nat, round' \in Nat, round' >= round,
           i \in Hops /\ ~ Idle(i)' => Owes(c, i),
           \A v \in Verifiers : count'[v] \in Nat /\ (circ[v] = circ[0] => count'[v] <= round')
    PROVE  Net'
<1>0. /\ \A d \in Circuits, k \in 0 .. D : On(d, k)' <=> On(d, k)
      /\ \A k \in 0 .. D : k # i => pc'[k] = pc[k] /\ (Idle(k)' <=> Idle(k))
      /\ pc'[i] # "down" /\ TypeOK
  BY LineNodes DEF On, Idle, IInv
<1>1. ASSUME NEW j \in Hops PROVE Backlog(j)'
  <2>1. Backlog(j) /\ (circ[j] # 0 => circ[j] \in Circuits)
    BY <1>0, HopNode, CircType DEF Net
  <2>2. \A d \in Circuits : link'[<<d, j>>].sv = link[<<d, j>>].sv
    BY DEF Tame
  <2> QED BY <2>1, <2>2 DEF Backlog
<1>2. ASSUME NEW d \in Circuits, NEW j \in Hops PROVE Joined(d, j)'
  <2>1. Joined(d, j) /\ (On(d, j - 1)' <=> On(d, j - 1))
    BY <1>0, HopNode DEF Net
  <2>2. link'[<<d, j>>].sv = link[<<d, j>>].sv /\ (link'[<<d, j>>].cl <=> link[<<d, j>>].cl)
    BY DEF Tame
  <2> QED BY <2>1, <2>2 DEF Joined
<1>3. ASSUME NEW d \in Circuits, NEW j \in Hops PROVE Aimed(d, j)'
  <2>0. \A k \in Hops : link'[<<d, k>>].sv = link[<<d, k>>].sv
    BY DEF Tame
  <2>s. PICK t : t = j + Cell1(d, j)'.hops
    OBVIOUS
  <2> SUFFICES ASSUME link'[<<d, j>>].down # <<>>
               PROVE  t \in Hops /\ link[<<d, t>>].sv # "none"
    BY <2>0, <2>s DEF Aimed
  <2>1. CASE link'[<<d, j>>].down = link[<<d, j>>].down
    <3>1. Aimed(d, j) /\ Cell1(d, j)' = Cell1(d, j)
      BY <2>1 DEF Net, Cell1
    <3> QED BY <2>s, <2>1, <3>1 DEF Aimed
  <2>2. CASE link'[<<d, j>>].down # link[<<d, j>>].down
    <3>1. j + Cell1(d, j)'.hops \in Hops /\ link[<<d, j + Cell1(d, j)'.hops>>].sv # "none"
      BY <2>2 DEF Tame
    <3> QED BY <2>s, <3>1
  <2> QED BY <2>1, <2>2
<1>4. Calm'
  <2> SUFFICES ASSUME faults = 0
               PROVE  /\ \A k \in Nodes : pc'[k] # "down"
                      /\ \A d \in Circuits, j \in Hops :
                            /\ On(d, j - 1)' \/ On(d, 0)' => link'[<<d, j>>].sv # "closed"
                            /\ Owes(d, j)' => link'[<<d, j>>].cl
    BY DEF Calm
  <2>1. \A k \in Nodes : pc'[k] # "down"
    BY <1>0 DEF Net, Calm
  <2>2. ASSUME NEW d \in Circuits, NEW j \in Hops
        PROVE  /\ On(d, j - 1)' \/ On(d, 0)' => link'[<<d, j>>].sv # "closed"
               /\ Owes(d, j)' => link'[<<d, j>>].cl
    <3>1. /\ On(d, j - 1) \/ On(d, 0) => link[<<d, j>>].sv # "closed"
          /\ Owes(d, j) => link[<<d, j>>].cl
          /\ Joined(d, j)
      BY DEF Net, Calm
    <3>2. /\ link'[<<d, j>>].sv = link[<<d, j>>].sv /\ (link'[<<d, j>>].cl <=> link[<<d, j>>].cl)
          /\ link'[<<d, j>>].down # <<>> =>
               \/ link'[<<d, j>>].down = link[<<d, j>>].down
               \/ d = c /\ j = i + 1 /\ link[<<d, j>>].sv # "none"
      BY DEF Tame
    <3>3. /\ On(d, j - 1)' <=> On(d, j - 1)
          /\ On(d, 0)' <=> On(d, 0)
          /\ On(d, j)' <=> On(d, j)
      BY <1>0, HopNode, Fixed
    <3>4. ASSUME Owes(d, j)' PROVE link[<<d, j>>].cl
      <4>1. CASE link'[<<d, j>>].sv = "queued"
        BY <3>1, <3>2, <4>1 DEF Owes
      <4>2. CASE link'[<<d, j>>].down # <<>>
        <5>1. CASE link'[<<d, j>>].down = link[<<d, j>>].down
          BY <3>1, <4>2, <5>1 DEF Owes
        <5>2. CASE d = c /\ j = i + 1 /\ link[<<d, j>>].sv # "none"
          <6>1. On(d, j - 1)
            BY <5>2, HopNode
          <6> QED BY <3>1, <5>2, <6>1 DEF Joined
        <5> QED BY <3>2, <4>2, <5>1, <5>2
      <4>3. CASE On(d, j)' /\ ~ Idle(j)'
        <5>1. CASE j = i
          <6>1. d = c
            BY <3>3, <4>3, <5>1 DEF On
          <6> QED BY <3>1, <4>3, <5>1, <6>1
        <5>2. CASE j # i
          BY <1>0, <3>1, <3>3, <4>3, <5>2, HopNode DEF Owes
        <5> QED BY <5>1, <5>2
      <4> QED BY <3>4, <4>1, <4>2, <4>3 DEF Owes
    <3> QED BY <3>1, <3>2, <3>3, <3>4
  <2> QED BY <2>1, <2>2
<1>5. Begun'
  <2>1. ASSUME NEW d \in Circuits, NEW j \in Hops, d = circ[0], link'[<<d, j>>].down # <<>>,
               Cell1(d, j)'.type = "ChainSubmission"
        PROVE  Cell1(d, j)'.res.id <= round'
    <3>1. CASE link'[<<d, j>>].down = link[<<d, j>>].down
      <4>1. Cell1(d, j)' = Cell1(d, j) /\ link[<<d, j>>].down # <<>>
        BY <2>1, <3>1 DEF Cell1
      <4>2. Cell1(d, j).res.id <= round
        BY <2>1, <4>1 DEF Net, Begun
      <4>3. Cell1(d, j).res.id \in Nat
        <5>1. link[<<d, j>>].down \in Seq(Cells)
          BY <1>0 DEF TypeOK
        <5> QED BY <4>1, <5>1, HeadCell DEF Cell1, Cells, Response
      <4> QED BY <4>1, <4>2, <4>3
    <3>2. CASE link'[<<d, j>>].down # link[<<d, j>>].down
      BY <2>1, <3>2 DEF Tame
    <3> QED BY <3>1, <3>2
  <2> QED BY <2>1 DEF Begun
<1> QED BY <1>1, <1>2, <1>3, <1>4, <1>5 DEF Net

(* A machine that takes something and sends nothing down. *)
LEMMA TameQuiet ==
    ASSUME NEW c \in Circuits, NEW i \in 0 .. D, Only2(c, i),
           \A j \in Hops : j \in {i, i + 1} =>
              /\ link'[<<c, j>>].sv = link[<<c, j>>].sv /\ (link'[<<c, j>>].cl <=> link[<<c, j>>].cl)
              /\ link'[<<c, j>>].down = <<>> \/ link'[<<c, j>>].down = link[<<c, j>>].down
    PROVE  Tame(c, i)
<1> SUFFICES ASSUME NEW d \in Circuits, NEW j \in Hops
             PROVE  /\ link'[<<d, j>>].sv = link[<<d, j>>].sv /\ (link'[<<d, j>>].cl <=> link[<<d, j>>].cl)
                    /\ link'[<<d, j>>].down # <<>> => link'[<<d, j>>].down = link[<<d, j>>].down
  BY DEF Tame
<1>1. CASE d # c \/ j \notin {i, i + 1}
  <2>1. link'[<<d, j>>] = link[<<d, j>>]
    BY <1>1 DEF Only2
  <2> QED BY <2>1
<1>2. CASE d = c /\ j \in {i, i + 1}
  BY <1>2
<1> QED BY <1>1, <1>2

(* A machine that sends m down, to a machine that has been reached. *)
LEMMA TameSend ==
    ASSUME NEW c \in Circuits, NEW i \in 0 .. D, i + 1 \in Hops, Only2(c, i), NEW m, Passed(c, i + 1, m),
           i \in Hops => Kept(c, i) \/ Cleared(c, i),
           NEW t \in Hops, t = i + 1 + m.hops, link[<<c, i + 1>>].sv # "none", link[<<c, t>>].sv # "none",
           c = circ[0] /\ m.type = "ChainSubmission" => m.res.id <= round'
    PROVE  Tame(c, i)
<1> SUFFICES ASSUME NEW d \in Circuits, NEW j \in Hops
             PROVE  /\ link'[<<d, j>>].sv = link[<<d, j>>].sv /\ (link'[<<d, j>>].cl <=> link[<<d, j>>].cl)
                    /\ link'[<<d, j>>].down # <<>> =>
                         \/ link'[<<d, j>>].down = link[<<d, j>>].down
                         \/ /\ d = c /\ j = i + 1 /\ link[<<d, j>>].sv # "none"
                            /\ j + Cell1(d, j)'.hops \in Hops
                            /\ link[<<d, j + Cell1(d, j)'.hops>>].sv # "none"
                            /\ d = circ[0] /\ Cell1(d, j)'.type = "ChainSubmission" => Cell1(d, j)'.res.id <= round'
  BY DEF Tame
<1>1. CASE d # c \/ j \notin {i, i + 1}
  <2>1. link'[<<d, j>>] = link[<<d, j>>]
    BY <1>1 DEF Only2
  <2> QED BY <2>1
<1>2. CASE d = c /\ j = i
  BY <1>2 DEF Kept, Cleared
<1>3. CASE d = c /\ j = i + 1
  <2>1. /\ link'[<<d, j>>].sv = link[<<d, j>>].sv /\ (link'[<<d, j>>].cl <=> link[<<d, j>>].cl)
        /\ link'[<<d, j>>].down # <<>> => Cell1(d, j)' = m
    BY <1>3 DEF Passed, Holds, Cell1
  <2>2. link'[<<d, j>>].down # <<>> => j + Cell1(d, j)'.hops = t
    BY <1>3, <2>1
  <2> QED BY <1>3, <2>1, <2>2
<1> QED BY <1>1, <1>2, <1>3

(* A machine that stops, with its ends of the connections closed. *)
LEMMA CutNet ==
    ASSUME IInv, Net, NEW i \in Nodes, pc'[i] \in {"accept", "down"}, \A k \in Nodes : k # i => pc'[k] = pc[k],
           \A d \in Circuits, j \in Hops :
              /\ link'[<<d, j>>].sv = "none" <=> link[<<d, j>>].sv = "none"
              /\ link'[<<d, j>>].sv = "queued" => link[<<d, j>>].sv = "queued"
              /\ j # i + 1 => (link'[<<d, j>>].cl <=> link[<<d, j>>].cl)
              /\ link'[<<d, j>>].down # <<>> => link'[<<d, j>>].down = link[<<d, j>>].down,
           circ' = circ, round' = round,
           \A v \in Verifiers : count'[v] \in Nat /\ (circ[v] = circ[0] => count'[v] <= round),
           Calm'
    PROVE  Net'
<1>0. TypeOK
  BY DEF IInv
<1>1. ASSUME NEW j \in Hops PROVE Backlog(j)'
  <2>1. Backlog(j) /\ (circ[j] # 0 => circ[j] \in Circuits)
    BY <1>0, HopNode, CircType DEF Net
  <2> QED BY <2>1 DEF Backlog
<1>2. ASSUME NEW d \in Circuits, NEW j \in Hops PROVE Joined(d, j)'
  <2>1. Joined(d, j) /\ j - 1 \in Nodes /\ (j - 1 = i => j = i + 1) /\ (j = i + 1 => j - 1 = i)
    BY HopNode, LineNodes, LineAssumption DEF Net, Nodes, Vm4
  <2>2. CASE j = i + 1
    BY <2>1, <2>2 DEF Joined, On
  <2>3. CASE j # i + 1
    <3>1. On(d, j - 1)' <=> On(d, j - 1)
      BY <2>1, <2>3 DEF On
    <3> QED BY <2>1, <2>3, <3>1 DEF Joined
  <2> QED BY <2>2, <2>3
<1>3. ASSUME NEW d \in Circuits, NEW j \in Hops PROVE Aimed(d, j)'
  <2>s. PICK t : t = j + Cell1(d, j)'.hops
    OBVIOUS
  <2>0. \A k \in Hops : link'[<<d, k>>].sv = "none" <=> link[<<d, k>>].sv = "none"
    OBVIOUS
  <2> SUFFICES ASSUME link'[<<d, j>>].down # <<>>
               PROVE  t \in Hops /\ link[<<d, t>>].sv # "none"
    BY <2>0, <2>s DEF Aimed
  <2>1. Aimed(d, j) /\ Cell1(d, j)' = Cell1(d, j) /\ link[<<d, j>>].down # <<>>
    BY DEF Net, Cell1
  <2> QED BY <2>s, <2>1 DEF Aimed
<1>5. Begun'
  <2>1. ASSUME NEW d \in Circuits, NEW j \in Hops, d = circ[0], link'[<<d, j>>].down # <<>>,
               Cell1(d, j)'.type = "ChainSubmission"
        PROVE  Cell1(d, j)'.res.id <= round'
    <3>1. Cell1(d, j)' = Cell1(d, j) /\ link[<<d, j>>].down # <<>>
      BY <2>1 DEF Cell1
    <3> QED BY <2>1, <3>1 DEF Net, Begun
  <2> QED BY <2>1 DEF Begun
<1> QED BY <1>1, <1>2, <1>3, <1>5 DEF Net

(* A machine whose upstream is gone: so is vm1, as long as nothing fails. *)
LEMMA GoneUp ==
    ASSUME IInv, Net, faults = 0, NEW c \in Circuits, NEW i \in Hops, On(c, i), ~ link[<<c, i>>].cl
    PROVE  ~ On(c, i - 1) /\ ~ On(c, 0)
<1>1. Wire(c, i) /\ Joined(c, i) /\ Fresh(c) /\ i \in Nat /\ i >= 1
  BY HopNode, Line DEF IInv, Circuit, Net
<1>2. link[<<c, i>>].sv = "open"
  BY <1>1 DEF Wire
<1>3. ~ On(c, i - 1)
  BY <1>1, <1>2 DEF Joined
<1>4. CASE i = 1
  BY <1>3, <1>4
<1>5. CASE i # 1
  <2>1. PICK k \in Hops : k = i - 1 /\ k < i
    BY <1>1, <1>5, LineAssumption DEF Hops
  <2>2. Reached(c, k) /\ Wire(c, k)
    BY <1>1, <1>2, <2>1 DEF Fresh, IInv, Circuit
  <2>3. link[<<c, k>>].sv = "closed"
    BY <1>3, <2>1, <2>2 DEF Wire, Reached
  <2> QED BY <1>3, <2>3 DEF Net, Calm
<1> QED BY <1>4, <1>5

(* A machine that has the answer, or waits for nothing, leaves nobody at work. *)
LEMMA NoDebt ==
    ASSUME IInv, NEW c \in Circuits, NEW i \in 0 .. D, On(c, i), i + 1 \in Hops,
           pc[i] \in {"extend", "relay", "session"} \/ link[<<c, i + 1>>].up # <<>>
    PROVE  ~ Owes(c, i + 1)
<1>1. Wire(c, i + 1) /\ Fresh(c) /\ i + 1 - 1 = i /\ i < i + 1
  BY DEF IInv, Circuit
<1>2. CASE link[<<c, i + 1>>].up # <<>>
  BY <1>1, <1>2 DEF Wire, Owes
<1>3. CASE pc[i] = "extend"
  <2>1. link[<<c, i + 1>>].sv = "none"
    BY <1>1, <1>3 DEF Fresh
  <2> QED BY <1>1, <2>1 DEF Wire, Owes
<1>4. CASE pc[i] \in {"relay", "session"}
  <2>1. CASE link[<<c, i + 1>>].sv = "none"
    BY <1>1, <2>1 DEF Wire, Owes
  <2>2. CASE link[<<c, i + 1>>].sv # "none"
    <3>1. link[<<c, i + 1>>].cl
      BY <1>1, <1>4, <2>2 DEF Wire
    <3> QED BY <1>1, <1>4, <3>1 DEF Wire, Owes
  <2> QED BY <2>1, <2>2
<1> QED BY <1>2, <1>3, <1>4

(* A machine that returns from its circuit. *)
LEMMA LeaveNet ==
    ASSUME IInv, Net, NEW i \in 0 .. D, NEW c \in Circuits, c = circ[i], On(c, i), pc'[i] = "accept",
           \A k \in Nodes : k # i => pc'[k] = pc[k],
           link \in Links, Severed(c, i), Only2(c, i), circ' = circ, round' = round,
           \A v \in Verifiers : count'[v] \in Nat /\ (circ[v] = circ[0] => count'[v] <= round),
           faults' = 0 => /\ faults = 0
                          /\ i \in Hops => ~ On(c, i - 1) /\ ~ On(c, 0)
                          /\ i + 1 \in Hops => ~ Owes(c, i + 1)
    PROVE  Net'
<1>0. i \in Nodes /\ i + 1 # i /\ TypeOK
  BY LineNodes DEF IInv
<1>1. ASSUME NEW d \in Circuits, NEW j \in Hops
      PROVE  /\ link'[<<d, j>>].sv = IF d = c /\ j = i THEN "closed" ELSE link[<<d, j>>].sv
             /\ d = c /\ j = i => link[<<d, j>>].sv # "none"
             /\ ~ (d = c /\ j = i + 1) => (link'[<<d, j>>].cl <=> link[<<d, j>>].cl)
             /\ link'[<<d, j>>].down # <<>> => link'[<<d, j>>].down = link[<<d, j>>].down
  <2>1. CASE d # c \/ j \notin {i, i + 1}
    <3>1. link'[<<d, j>>] = link[<<d, j>>]
      BY <2>1 DEF Only2
    <3> QED BY <2>1, <3>1
  <2>2. CASE d = c /\ j = i
    <3>1. Wire(c, i)
      BY <2>2 DEF IInv, Circuit
    <3>2. link[<<c, i>>].sv = "open"
      BY <3>1 DEF Wire
    <3> QED BY <1>0, <2>2, <3>2 DEF Severed
  <2>3. CASE d = c /\ j = i + 1
    BY <1>0, <2>3 DEF Severed
  <2> QED BY <2>1, <2>2, <2>3
<1>2. Calm'
  <2> SUFFICES ASSUME faults' = 0
               PROVE  /\ \A k \in Nodes : pc'[k] # "down"
                      /\ \A d \in Circuits, j \in Hops :
                            /\ On(d, j - 1)' \/ On(d, 0)' => link'[<<d, j>>].sv # "closed"
                            /\ Owes(d, j)' => link'[<<d, j>>].cl
    BY DEF Calm
  <2>1. \A k \in Nodes : pc'[k] # "down"
    BY DEF Net, Calm
  <2>2. \A d \in Circuits, k \in 0 .. D : On(d, k)' => On(d, k) /\ k # i
    BY LineNodes DEF On
  <2>3. ASSUME NEW d \in Circuits, NEW j \in Hops
        PROVE  /\ On(d, j - 1)' \/ On(d, 0)' => link'[<<d, j>>].sv # "closed"
               /\ Owes(d, j)' => link'[<<d, j>>].cl
    <3>1. /\ On(d, j - 1) \/ On(d, 0) => link[<<d, j>>].sv # "closed"
          /\ Owes(d, j) => link[<<d, j>>].cl
      BY DEF Net, Calm
    <3>2. (On(d, j - 1)' => On(d, j - 1)) /\ (On(d, 0)' => On(d, 0)) /\ (On(d, j)' => On(d, j) /\ j # i)
      BY <2>2, HopNode, Fixed
    <3>3. On(d, j - 1)' \/ On(d, 0)' => link'[<<d, j>>].sv # "closed"
      BY <1>1, <3>1, <3>2
    <3>4. On(d, j)' => (Idle(j)' <=> Idle(j))
      BY <3>2, HopNode DEF Idle
    <3>5. link'[<<d, j>>].sv = "queued" => link[<<d, j>>].sv = "queued"
      BY <1>1
    <3>6. Owes(d, j)' => Owes(d, j)
      BY <1>1, <3>2, <3>4, <3>5 DEF Owes
    <3>7. d = c /\ j = i + 1 => ~ Owes(d, j)
      OBVIOUS
    <3> QED BY <1>1, <3>1, <3>3, <3>6, <3>7
  <2> QED BY <2>1, <2>3
<1>3. ASSUME NEW d \in Circuits, NEW j \in Hops
      PROVE  /\ link'[<<d, j>>].sv = "none" <=> link[<<d, j>>].sv = "none"
             /\ link'[<<d, j>>].sv = "queued" => link[<<d, j>>].sv = "queued"
             /\ j # i + 1 => (link'[<<d, j>>].cl <=> link[<<d, j>>].cl)
             /\ link'[<<d, j>>].down # <<>> => link'[<<d, j>>].down = link[<<d, j>>].down
  BY <1>1
<1> QED BY <1>0, <1>2, <1>3, CutNet

(* What does not move keeps its place. *)
LEMMA StillNet ==
    ASSUME Net, UNCHANGED <<pc, circ, link, count, round>>, faults' = 0 => faults = 0
    PROVE  Net'
<1>1. ASSUME NEW j \in Hops PROVE Backlog(j)'
  BY DEF Net, Backlog
<1>2. ASSUME NEW d \in Circuits, NEW j \in Hops PROVE (Joined(d, j) /\ Aimed(d, j))'
  <2>1. Joined(d, j) /\ Aimed(d, j)
    BY DEF Net
  <2> QED BY <2>1 DEF Joined, Aimed, On, Cell1
<1>3. Calm'
  BY DEF Net, Calm, On, Owes, Idle
<1>4. Begun'
  BY DEF Net, Begun, Cell1
<1> QED BY <1>1, <1>2, <1>3, <1>4 DEF Net

(* No machine is ahead of vm1. *)
LEMMA Behind ==
    ASSUME IInv, Net, NEW j \in Hops
    PROVE  circ[j] <= circ[0] /\ circ[j] \in Nat /\ circ[0] \in Nat
<1>1. circ[j] \in Nat /\ circ[0] \in Nat /\ (circ[j] # 0 => circ[j] \in Circuits)
  BY HopNode, Fixed, CircType DEF IInv
<1>2. CASE circ[j] = 0
  BY <1>1, <1>2
<1>3. CASE circ[j] # 0
  <2>1. Backlog(j) /\ Fresh(circ[j])
    BY <1>1, <1>3 DEF Net, IInv, Circuit
  <2> QED BY <1>1, <1>3, <2>1 DEF Backlog, Fresh
<1> QED BY <1>2, <1>3

(* A machine takes the oldest connection of its backlog. *)
LEMMA AcceptNet ==
    ASSUME IInv, Net, NEW i \in Hops, NEW c \in Circuits, Accept(i, c)
    PROVE  Net' /\ circ'[i] > circ[i] /\ pc[i] = "accept" /\ pc'[i] = "extend" /\ circ'[i] = c
<1>1. TypeOK /\ pc[i] = "accept" /\ i \in Nodes /\ i \in 0 .. D /\ i # 0 /\ link \in Links /\ i \in Nat
  BY HopNode, Fixed, LinksType DEF IInv, Accept
<1>2. /\ circ'[i] = c /\ pc'[i] = "extend" /\ circ'[0] = circ[0]
      /\ \A k \in Nodes : k # i => pc'[k] = pc[k] /\ circ'[k] = circ[k]
      /\ \A v \in Verifiers : count'[v] = IF v = i THEN 0 ELSE count[v]
      /\ round' = round /\ faults' = faults
  BY <1>1, Fixed DEF Accept, Goto, TypeOK
<1>3. /\ Only(c, i)
      /\ link[<<c, i>>].sv = "queued" /\ link'[<<c, i>>].sv = "open"
      /\ link'[<<c, i>>].cl = link[<<c, i>>].cl
      /\ link'[<<c, i>>].down = link[<<c, i>>].down
  BY <1>1 DEF Accept, Links, Linked, Only
<1>4. ASSUME NEW d \in Circuits, NEW j \in Hops
      PROVE  /\ link'[<<d, j>>].sv = IF d = c /\ j = i THEN "open" ELSE link[<<d, j>>].sv
             /\ link'[<<d, j>>].cl = link[<<d, j>>].cl
             /\ link'[<<d, j>>].down = link[<<d, j>>].down
  BY <1>3 DEF Only
<1>5. \A j \in Hops : Backlog(j) /\ \A d \in Circuits : Joined(d, j) /\ Aimed(d, j)
  BY DEF Net
<1>6. c > circ[i] /\ circ[i] \in Nat /\ c \in Nat /\ \A d \in Circuits : d \in Nat
  <2>1. circ[i] \in Nat
    BY <1>1, CircType
  <2>2. c > circ[i]
    BY <1>3, <1>5 DEF Backlog
  <2>3. \A d \in Circuits : d \in Nat
    BY DEF Circuits
  <2> QED BY <2>1, <2>2, <2>3
<1>7. i + 1 \in Hops => link[<<c, i + 1>>].sv = "none"
  <2> SUFFICES ASSUME i + 1 \in Hops, link[<<c, i + 1>>].sv # "none" PROVE FALSE
    OBVIOUS
  <2>1. PICK j \in Hops : j = i + 1 /\ j - 1 = i
    BY <1>1
  <2>2. c <= circ[i]
    BY <1>5, <2>1 DEF Backlog
  <2> QED BY <1>6, <2>2
<1>8. ASSUME NEW j \in Hops PROVE Backlog(j)'
  <2>1. /\ j - 1 \in Nodes /\ j \in Nodes /\ (circ[j] # 0 => circ[j] \in Circuits) /\ circ[j] \in Nat
        /\ circ[j - 1] \in Nat /\ j - 1 \in 0 .. D /\ j \in Nat
    BY <1>1, HopNode, LineNodes, CircType
  <2>2. \A d \in Circuits : link'[<<d, j>>].sv # "none" => d <= circ'[j - 1]
    <3> SUFFICES ASSUME NEW d \in Circuits, link'[<<d, j>>].sv # "none" PROVE d <= circ'[j - 1]
      OBVIOUS
    <3>1. link[<<d, j>>].sv # "none"
      BY <1>3, <1>4
    <3>2. d <= circ[j - 1]
      BY <1>5, <3>1 DEF Backlog
    <3>3. circ'[j - 1] >= circ[j - 1] /\ circ'[j - 1] \in Nat
      BY <1>2, <1>6, <2>1
    <3> QED BY <1>6, <2>1, <3>2, <3>3
  <2>3. \A d \in Circuits : link'[<<d, j>>].sv = "queued" => d > circ'[j]
    <3> SUFFICES ASSUME NEW d \in Circuits, link'[<<d, j>>].sv = "queued" PROVE d > circ'[j]
      OBVIOUS
    <3>1. link[<<d, j>>].sv = "queued" /\ ~ (d = c /\ j = i)
      BY <1>4
    <3>2. CASE j = i
      <4>1. d \notin 1 .. c - 1
        BY <3>1, <3>2 DEF Accept
      <4>2. d \in Nat /\ d >= 1 /\ c \in Nat /\ d # c
        BY <3>1, <3>2 DEF Circuits
      <4>3. d > c
        BY <4>1, <4>2
      <4> QED BY <1>2, <3>2, <4>3
    <3>3. CASE j # i
      BY <1>2, <1>5, <2>1, <3>1, <3>3 DEF Backlog
    <3> QED BY <3>2, <3>3
  <2>4. circ'[j] # 0 => link'[<<circ'[j], j>>].sv # "none"
    <3>1. CASE j = i
      BY <1>2, <1>3, <3>1
    <3>2. CASE j # i
      <4>1. circ'[j] = circ[j]
        BY <1>2, <2>1, <3>2
      <4>2. ASSUME circ[j] # 0 PROVE link'[<<circ[j], j>>].sv # "none"
        <5>1. circ[j] \in Circuits /\ link[<<circ[j], j>>].sv # "none"
          BY <1>5, <2>1, <4>2 DEF Backlog
        <5> QED BY <1>4, <3>2, <5>1
      <4> QED BY <4>1, <4>2
    <3> QED BY <3>1, <3>2
  <2> QED BY <2>2, <2>3, <2>4 DEF Backlog
<1>9. ASSUME NEW d \in Circuits, NEW k \in 0 .. D
      PROVE  /\ On(d, k)' => On(d, k) \/ (d = c /\ k = i)
             /\ On(d, k)' /\ k # i => (Idle(k)' <=> Idle(k))
  BY <1>2, LineNodes DEF On, Idle
<1>10. ASSUME NEW d \in Circuits, NEW j \in Hops PROVE Joined(d, j)' /\ Aimed(d, j)'
  <2>1. Joined(d, j) /\ Aimed(d, j) /\ j - 1 \in 0 .. D /\ (j - 1 = i => j = i + 1)
    BY <1>1, <1>5, HopNode
  <2>2. Joined(d, j)'
    <3> SUFFICES ASSUME On(d, j - 1)', link'[<<d, j>>].sv # "none" PROVE link'[<<d, j>>].cl
      BY DEF Joined
    <3>1. link[<<d, j>>].sv # "none" /\ link'[<<d, j>>].cl = link[<<d, j>>].cl
      BY <1>3, <1>4
    <3>2. On(d, j - 1)
      BY <1>7, <1>9, <2>1, <3>1
    <3> QED BY <2>1, <3>1, <3>2 DEF Joined
  <2>3. Aimed(d, j)'
    <3> SUFFICES ASSUME link'[<<d, j>>].down # <<>>
                 PROVE  j + Cell1(d, j)'.hops \in Hops /\ link'[<<d, j + Cell1(d, j)'.hops>>].sv # "none"
      BY DEF Aimed
    <3>1. Cell1(d, j)' = Cell1(d, j) /\ link[<<d, j>>].down # <<>>
      BY <1>4 DEF Cell1
    <3>2. PICK t \in Hops : t = j + Cell1(d, j).hops /\ link[<<d, t>>].sv # "none"
      BY <2>1, <3>1 DEF Aimed
    <3>3. link'[<<d, t>>].sv # "none"
      BY <1>3, <1>4, <3>2
    <3> QED BY <3>1, <3>2, <3>3
  <2> QED BY <2>2, <2>3
<1>11. Calm'
  <2> SUFFICES ASSUME faults = 0
               PROVE  /\ \A k \in Nodes : pc'[k] # "down"
                      /\ \A d \in Circuits, j \in Hops :
                            /\ On(d, j - 1)' \/ On(d, 0)' => link'[<<d, j>>].sv # "closed"
                            /\ Owes(d, j)' => link'[<<d, j>>].cl
    BY <1>2 DEF Calm
  <2>1. \A k \in Nodes : pc'[k] # "down"
    BY <1>2 DEF Net, Calm
  <2>2. ASSUME NEW d \in Circuits, NEW j \in Hops
        PROVE  /\ On(d, j - 1)' \/ On(d, 0)' => link'[<<d, j>>].sv # "closed"
               /\ Owes(d, j)' => link'[<<d, j>>].cl
    <3>1. /\ On(d, j - 1) \/ On(d, 0) => link[<<d, j>>].sv # "closed"
          /\ Owes(d, j) => link[<<d, j>>].cl
      BY DEF Net, Calm
    <3>2. j - 1 \in 0 .. D /\ (j - 1 = i => j = i + 1) /\ j \in 0 .. D
      BY <1>1, HopNode
    <3>3. On(d, j - 1)' \/ On(d, 0)' => link'[<<d, j>>].sv # "closed"
      <4>1. link'[<<d, j>>].sv = "closed" => link[<<d, j>>].sv = "closed"
        BY <1>4
      <4>2. On(d, 0)' => On(d, 0)
        BY <1>1, <1>9, Fixed
      <4>3. On(d, j - 1)' => On(d, j - 1) \/ (d = c /\ j = i + 1)
        BY <1>9, <3>2
      <4> QED BY <1>7, <3>1, <4>1, <4>2, <4>3
    <3>4. Owes(d, j)' => Owes(d, j)
      <4>1. link'[<<d, j>>].sv = "queued" => link[<<d, j>>].sv = "queued"
        BY <1>4
      <4>2. On(d, j)' /\ ~ Idle(j)' => (On(d, j) /\ ~ Idle(j)) \/ (d = c /\ j = i)
        <5>1. On(d, i)' => d = c
          BY <1>2 DEF On
        <5> QED BY <1>9, <3>2, <5>1
      <4> QED BY <1>3, <1>4, <4>1, <4>2 DEF Owes
    <3> QED BY <1>4, <3>1, <3>3, <3>4
  <2> QED BY <2>1, <2>2
<1>12. Begun'
  <2>1. round \in Nat /\ Begun
    BY <1>1, BoundAssumption DEF TypeOK, Net
  <2>2. ASSUME NEW v \in Verifiers, circ'[v] = circ'[0] PROVE count'[v] <= round'
    <3>1. CASE v = i
      BY <1>2, <2>1, <3>1
    <3>2. CASE v # i
      <4>1. v \in Nodes
        BY Fixed DEF Verifiers
      <4> QED BY <1>2, <2>1, <2>2, <3>2, <4>1 DEF Begun
    <3> QED BY <3>1, <3>2
  <2>3. ASSUME NEW d \in Circuits, NEW j \in Hops, d = circ'[0], link'[<<d, j>>].down # <<>>,
               Cell1(d, j)'.type = "ChainSubmission"
        PROVE  Cell1(d, j)'.res.id <= round'
    <3>1. Cell1(d, j)' = Cell1(d, j) /\ link[<<d, j>>].down # <<>>
      BY <1>4, <2>3 DEF Cell1
    <3> QED BY <1>2, <2>1, <2>3, <3>1 DEF Begun
  <2> QED BY <2>2, <2>3 DEF Begun
<1> QED BY <1>1, <1>2, <1>6, <1>8, <1>10, <1>11, <1>12 DEF Net

(* A machine connects to the next one, where nothing of the circuit was known. *)
LEMMA ConnectNet ==
    ASSUME IInv, Net, NEW i \in 0 .. D - 1, Connect(i)
    PROVE  Net'
<1>0. i \in 0 .. D /\ i + 1 \in Hops /\ i \in Nodes /\ i \in Nat
  BY LineAssumption, LineNodes DEF Hops
<1>1. PICK c \in Circuits : c = circ[i] /\ On(c, i) /\ Circuit(c) /\ link \in Links
  BY <1>0, Working DEF Connect
<1>2. PICK j0 \in Hops : j0 = i + 1 /\ j0 - 1 = i /\ i < j0
  BY <1>0
<1>3. PICK m : m = Cell("ExtendCircuit", 0, Blank)
  OBVIOUS
<1>4. /\ link' = [link EXCEPT ![<<c, j0>>] = [cl |-> TRUE, sv |-> "queued", up |-> <<>>, down |-> <<m>>]]
      /\ pc[i] = "connect" /\ TypeOK /\ m.hops = 0 /\ m.type = "ExtendCircuit"
      /\ circ' = circ /\ round' = round /\ count' = count /\ faults' = faults
  BY <1>1, <1>2, <1>3, CellsType, SubmissionType DEF Connect, Out, IInv, CellTypes
<1>5. pc'[i] = "extended" /\ \A k \in Nodes : k # i => pc'[k] = pc[k]
  BY <1>0, <1>4 DEF Connect, Goto, TypeOK
<1>6. ASSUME NEW d \in Circuits, NEW j \in Hops
      PROVE  IF d = c /\ j = j0
             THEN /\ link'[<<d, j>>].sv = "queued" /\ link'[<<d, j>>].cl
                  /\ link'[<<d, j>>].down # <<>> /\ Cell1(d, j)' = m
             ELSE link'[<<d, j>>] = link[<<d, j>>]
  <2>1. <<m>> # <<>> /\ Head(<<m>>) = m
    OBVIOUS
  <2>2. link'[<<d, j>>] = IF d = c /\ j = j0 THEN [cl |-> TRUE, sv |-> "queued", up |-> <<>>, down |-> <<m>>]
                          ELSE link[<<d, j>>]
    BY <1>1, <1>4 DEF Links
  <2> QED BY <2>1, <2>2 DEF Cell1
<1>7. link[<<c, j0>>].sv = "none"
  BY <1>0, <1>1, <1>2, <1>4 DEF Circuit, Fresh
<1>8. ASSUME NEW d \in Circuits, NEW k \in 0 .. D
      PROVE  (On(d, k)' <=> On(d, k)) /\ (k # i => (Idle(k)' <=> Idle(k)))
  BY <1>4, <1>5, LineNodes DEF On, Idle
<1>9. ASSUME NEW j \in Hops PROVE Backlog(j)'
  <2>1. /\ Backlog(j) /\ (circ[j] # 0 => circ[j] \in Circuits) /\ circ[j] \in Nat /\ circ[j - 1] \in Nat
        /\ c \in Nat
    BY <1>4, HopNode, CircType DEF Net, Circuits
  <2>2. CASE j # j0
    <3>1. \A d \in Circuits : link'[<<d, j>>] = link[<<d, j>>]
      BY <1>6, <2>2
    <3> QED BY <1>4, <2>1, <3>1 DEF Backlog
  <2>3. CASE j = j0
    <3>1. circ[j - 1] = c
      BY <1>1, <1>2, <2>3
    <3>2. circ[j] < c
      <4>1. CASE circ[j] = 0
        BY <2>1, <4>1 DEF Circuits
      <4>2. CASE circ[j] # 0
        <5>1. circ[j] \in Circuits /\ link[<<circ[j], j>>].sv # "none"
          BY <2>1, <4>2 DEF Backlog
        <5>2. circ[j] <= c /\ circ[j] # c
          BY <1>7, <2>1, <2>3, <3>1, <5>1 DEF Backlog
        <5> QED BY <2>1, <5>2
      <4> QED BY <4>1, <4>2
    <3>3. ASSUME NEW d \in Circuits
          PROVE  /\ link'[<<d, j>>].sv # "none" => d <= circ[j - 1]
                 /\ link'[<<d, j>>].sv = "queued" => d > circ[j]
      <4>1. CASE d = c
        BY <2>1, <3>1, <3>2, <4>1
      <4>2. CASE d # c
        BY <1>6, <2>1, <4>2 DEF Backlog
      <4> QED BY <4>1, <4>2
    <3>4. circ[j] # 0 => link'[<<circ[j], j>>].sv # "none"
      <4> SUFFICES ASSUME circ[j] # 0 PROVE link'[<<circ[j], j>>].sv # "none"
        OBVIOUS
      <4>1. circ[j] \in Circuits /\ link[<<circ[j], j>>].sv # "none" /\ circ[j] # c
        BY <2>1, <3>2 DEF Backlog
      <4> QED BY <1>6, <4>1
    <3> QED BY <1>4, <3>3, <3>4 DEF Backlog
  <2> QED BY <2>2, <2>3
<1>10. ASSUME NEW d \in Circuits, NEW j \in Hops PROVE Joined(d, j)' /\ Aimed(d, j)'
  <2>1. Joined(d, j) /\ Aimed(d, j) /\ (On(d, j - 1)' <=> On(d, j - 1)) /\ j \in Nat
    BY <1>8, HopNode DEF Net
  <2>2. CASE d = c /\ j = j0
    <3>1. j + Cell1(d, j)'.hops = j
      BY <1>4, <1>6, <2>1, <2>2
    <3> QED BY <1>6, <2>2, <3>1 DEF Joined, Aimed
  <2>3. CASE ~ (d = c /\ j = j0)
    <3>1. link'[<<d, j>>] = link[<<d, j>>] /\ Cell1(d, j)' = Cell1(d, j)
      BY <1>6, <2>3 DEF Cell1
    <3>2. Joined(d, j)'
      BY <2>1, <3>1 DEF Joined
    <3>3. Aimed(d, j)'
      <4> SUFFICES ASSUME link[<<d, j>>].down # <<>>
                   PROVE  j + Cell1(d, j).hops \in Hops /\ link'[<<d, j + Cell1(d, j).hops>>].sv # "none"
        BY <3>1 DEF Aimed
      <4>1. PICK t \in Hops : t = j + Cell1(d, j).hops /\ link[<<d, t>>].sv # "none"
        BY <2>1 DEF Aimed
      <4>2. link'[<<d, t>>].sv # "none"
        <5>1. CASE d = c /\ t = j0
          BY <1>6, <5>1
        <5>2. CASE ~ (d = c /\ t = j0)
          BY <1>6, <4>1, <5>2
        <5> QED BY <5>1, <5>2
      <4> QED BY <4>1, <4>2
    <3> QED BY <3>2, <3>3
  <2> QED BY <2>2, <2>3
<1>11. Calm'
  <2> SUFFICES ASSUME faults = 0
               PROVE  /\ \A k \in Nodes : pc'[k] # "down"
                      /\ \A d \in Circuits, j \in Hops :
                            /\ On(d, j - 1)' \/ On(d, 0)' => link'[<<d, j>>].sv # "closed"
                            /\ Owes(d, j)' => link'[<<d, j>>].cl
    BY <1>4 DEF Calm
  <2>1. \A k \in Nodes : pc'[k] # "down"
    BY <1>5 DEF Net, Calm
  <2>2. ASSUME NEW d \in Circuits, NEW j \in Hops
        PROVE  /\ On(d, j - 1)' \/ On(d, 0)' => link'[<<d, j>>].sv # "closed"
               /\ Owes(d, j)' => link'[<<d, j>>].cl
    <3>1. /\ On(d, j - 1) \/ On(d, 0) => link[<<d, j>>].sv # "closed"
          /\ Owes(d, j) => link[<<d, j>>].cl
      BY DEF Net, Calm
    <3>2. CASE d = c /\ j = j0
      BY <1>6, <3>2
    <3>3. CASE ~ (d = c /\ j = j0)
      <4>1. link'[<<d, j>>] = link[<<d, j>>]
        BY <1>6, <3>3
      <4>2. /\ On(d, j - 1)' <=> On(d, j - 1)
            /\ On(d, 0)' <=> On(d, 0)
            /\ On(d, j)' <=> On(d, j)
            /\ On(d, j)' /\ ~ Idle(j)' => ~ Idle(j)
        <5>1. j = i /\ ~ Idle(i)' => ~ Idle(i)
          BY <1>4, <1>5 DEF Idle
        <5> QED BY <1>8, <5>1, HopNode, Fixed
      <4>3. Owes(d, j)' => Owes(d, j)
        BY <4>1, <4>2 DEF Owes
      <4> QED BY <3>1, <4>1, <4>2, <4>3
    <3> QED BY <3>2, <3>3
  <2> QED BY <2>1, <2>2
<1>12. Begun'
  <2>1. ASSUME NEW d \in Circuits, NEW j \in Hops, d = circ[0], link'[<<d, j>>].down # <<>>,
               Cell1(d, j)'.type = "ChainSubmission"
        PROVE  Cell1(d, j)'.res.id <= round
    <3>1. ~ (d = c /\ j = j0)
      BY <1>4, <1>6, <2>1
    <3>2. Cell1(d, j)' = Cell1(d, j) /\ link[<<d, j>>].down # <<>>
      BY <1>6, <2>1, <3>1 DEF Cell1
    <3> QED BY <2>1, <3>2 DEF Net, Begun
  <2> QED BY <1>4, <2>1 DEF Net, Begun
<1> QED BY <1>9, <1>10, <1>11, <1>12 DEF Net

(* vm1 begins a circuit that nobody knows yet. *)
LEMMA EstablishNet ==
    ASSUME IInv, Net, Establish
    PROVE  Net'
<1>1. TypeOK /\ pc[0] = "accept" /\ circ[0] \in 0 .. MaxCircuits /\ 0 \in Nodes
  BY Fixed DEF IInv, Establish, TypeOK
<1>2. PICK c : c = circ[0] + 1
  OBVIOUS
<1>3. c \in Circuits /\ c > circ[0] /\ c \in Nat /\ circ[0] \in Nat
  BY <1>1, <1>2, BoundAssumption DEF Establish, Circuits
<1>4. /\ circ'[0] = c /\ pc'[0] = "connect" /\ link' = link /\ count' = count /\ round' = 0 /\ faults' = faults
      /\ \A k \in Nodes : k # 0 => pc'[k] = pc[k] /\ circ'[k] = circ[k]
  BY <1>1, <1>2, Fixed DEF Establish, Goto, TypeOK
<1>5. \A j \in Hops : link[<<c, j>>].sv = "none" /\ link[<<c, j>>].down = <<>>
  <2>1. Circuit(c)
    BY <1>3 DEF IInv
  <2>2. \A j \in Hops : link[<<c, j>>].sv = "none" /\ Wire(c, j)
    BY <1>3, <2>1 DEF Circuit, Fresh
  <2> QED BY <2>2 DEF Wire
<1>6. ASSUME NEW d \in Circuits, NEW k \in 0 .. D
      PROVE  (On(d, k)' => On(d, k) \/ d = c) /\ (k # 0 => (On(d, k)' <=> On(d, k)) /\ (Idle(k)' <=> Idle(k)))
  BY <1>4, LineNodes DEF On, Idle
<1>7. ASSUME NEW j \in Hops PROVE Backlog(j)'
  <2>1. /\ Backlog(j) /\ j \in Nodes /\ j # 0 /\ j - 1 \in Nodes /\ circ[j - 1] \in Nat
        /\ (\A d \in Circuits : d \in Nat)
    BY <1>1, HopNode, LineNodes, Fixed, CircType DEF Net, Circuits
  <2>2. circ'[j] = circ[j] /\ circ'[j - 1] \in Nat /\ circ'[j - 1] >= circ[j - 1]
    BY <1>3, <1>4, <2>1
  <2> QED BY <1>4, <2>1, <2>2 DEF Backlog
<1>8. ASSUME NEW d \in Circuits, NEW j \in Hops PROVE Joined(d, j)' /\ Aimed(d, j)'
  <2>1. Joined(d, j) /\ Aimed(d, j) /\ (On(d, j - 1)' => On(d, j - 1) \/ d = c)
    BY <1>6, HopNode DEF Net
  <2>2. Aimed(d, j)'
    BY <1>4, <2>1 DEF Aimed, Cell1
  <2> QED BY <1>4, <1>5, <2>1, <2>2 DEF Joined
<1>9. Calm'
  <2> SUFFICES ASSUME faults = 0
               PROVE  /\ \A k \in Nodes : pc'[k] # "down"
                      /\ \A d \in Circuits, j \in Hops :
                            /\ On(d, j - 1)' \/ On(d, 0)' => link'[<<d, j>>].sv # "closed"
                            /\ Owes(d, j)' => link'[<<d, j>>].cl
    BY <1>4 DEF Calm
  <2>1. \A k \in Nodes : pc'[k] # "down"
    BY <1>4 DEF Net, Calm
  <2>2. ASSUME NEW d \in Circuits, NEW j \in Hops
        PROVE  /\ On(d, j - 1)' \/ On(d, 0)' => link[<<d, j>>].sv # "closed"
               /\ Owes(d, j)' => link[<<d, j>>].cl
    <3>1. /\ On(d, j - 1) \/ On(d, 0) => link[<<d, j>>].sv # "closed"
          /\ Owes(d, j) => link[<<d, j>>].cl
      BY DEF Net, Calm
    <3>2. /\ On(d, j - 1)' => On(d, j - 1) \/ d = c
          /\ On(d, 0)' => On(d, 0) \/ d = c
          /\ (On(d, j)' <=> On(d, j)) /\ (Idle(j)' <=> Idle(j))
      BY <1>6, HopNode, Fixed
    <3>3. Owes(d, j)' => Owes(d, j)
      BY <1>4, <3>2 DEF Owes
    <3> QED BY <1>5, <3>1, <3>2, <3>3
  <2> QED BY <1>4, <2>1, <2>2
<1>10. Begun'
  <2>1. ASSUME NEW v \in Verifiers PROVE circ'[v] # circ'[0]
    <3>1. v \in Hops /\ v \in Nodes /\ v # 0
      BY Fixed DEF Verifiers
    <3>2. circ[v] <= circ[0] /\ circ[v] \in Nat
      BY <3>1, Behind
    <3> QED BY <1>3, <1>4, <3>1, <3>2
  <2> QED BY <1>4, <1>5, <2>1 DEF Begun
<1> QED BY <1>7, <1>8, <1>9, <1>10 DEF Net

(* The rounds count on. *)
LEMMA RoundsAre ==
    ASSUME IInv, Net
    PROVE  round \in Nat /\ \A v \in Verifiers : count[v] \in Nat /\ (circ[v] = circ[0] => count[v] <= round)
<1>1. round \in Nat /\ \A v \in Verifiers : count[v] \in Nat
  BY BoundAssumption DEF IInv, TypeOK
<1> QED BY <1>1 DEF Net, Begun

(* What lies before a machine that has been reached has been reached. *)
LEMMA OnTheWay ==
    ASSUME NEW c, Fresh(c), NEW t \in Hops, link[<<c, t>>].sv # "none", NEW j \in Hops, j <= t
    PROVE  link[<<c, j>>].sv # "none"
<1>1. CASE j = t
  BY <1>1
<1>2. CASE j # t
  <2>1. j < t
    BY <1>2, HopNode
  <2> QED BY <2>1 DEF Fresh, Reached
<1> QED BY <1>1, <1>2

(* Machine i goes on and counts nothing. *)
LEMMA GoesNet ==
    ASSUME IInv, Net, NEW i \in 0 .. D, NEW c \in Circuits, c = circ[i], On(c, i), Tame(c, i),
           NEW p, p \notin {"accept", "down"}, Goto(i, p), UNCHANGED <<circ, round, count, faults>>,
           i \in Hops /\ p # "relay" /\ ~ (i = Z /\ p \in {"connect", "extended"}) => Owes(c, i)
    PROVE  Net'
<1>1. i \in Nodes /\ pc'[i] = p /\ \A k \in Nodes : k # i => pc'[k] = pc[k]
  BY LineNodes DEF Goto, IInv, TypeOK
<1>2. On(c, i)' /\ (i \in Hops /\ ~ Idle(i)' => Owes(c, i))
  BY <1>1 DEF On, Idle
<1>3. round \in Nat /\ \A v \in Verifiers : count[v] \in Nat /\ (circ[v] = circ[0] => count[v] <= round)
  BY RoundsAre
<1>4. round' = round /\ round' \in Nat /\ round' >= round
  BY <1>3
<1> QED BY <1>1, <1>2, <1>3, <1>4, WorkNet

(* Machine i returns. *)
LEMMA LeavingNet ==
    ASSUME IInv, Net, NEW i \in 0 .. D, pc[i] \notin {"down", "accept"}, NEW l,
           \/ l = link
           \/ i \in Hops /\ link[In(i)].down # <<>> /\ l = TakeCell(link, i)
           \/ i + 1 \in Hops /\ link[Out(i)].up # <<>> /\ l = TakeReply(link, i),
           Leave(i, l), UNCHANGED <<circ, round>>,
           \A v \in Verifiers : count'[v] \in Nat /\ (circ[v] = circ[0] => count'[v] <= round),
           faults' = 0 => /\ faults = 0
                          /\ i \in Hops => ~ On(circ[i], i - 1) /\ ~ On(circ[i], 0)
                          /\ i + 1 \in Hops => ~ Owes(circ[i], i + 1)
    PROVE  Net'
<1>1. PICK c \in Circuits : c = circ[i] /\ On(c, i) /\ Circuit(c) /\ link \in Links /\ i \in Nodes
  BY Working
<1>2. Severed(c, i) /\ Only2(c, i)
  BY <1>1, LeftOver DEF Leave
<1>3. pc'[i] = "accept" /\ \A k \in Nodes : k # i => pc'[k] = pc[k]
  BY <1>1 DEF Leave, Goto, IInv, TypeOK
<1> QED BY <1>1, <1>2, <1>3, LeaveNet

(* A verifier answers; its answer fails only after something else has. *)
LEMMA AnswerNet ==
    ASSUME IInv, Net, NEW v \in Verifiers, NEW c \in Circuits, c = circ[v], On(c, v), link \in Links,
           NEW l, NEW n, NEW res \in Response, NEW error \in BOOLEAN, Answer(v, l, n, res, error),
           \/ l = link /\ pc[v] \in {"round", "quorum"}
           \/ link[In(v)].down # <<>> /\ l = TakeCell(link, v)
           \/ v + 1 \in Hops /\ link[Out(v)].up # <<>> /\ l = TakeReply(link, v) /\ pc[v] \in {"round", "quorum"},
           UNCHANGED <<circ, round, faults>>,
           \A u \in Verifiers : count'[u] \in Nat /\ (circ[u] = circ[0] => count'[u] <= round)
    PROVE  Net' /\ (error => faults # 0)
<1>0. v \in Hops /\ v \in 0 .. D /\ v \in Nodes /\ v + 1 # v /\ In(v) = <<c, v>> /\ Out(v) = <<c, v + 1>>
  BY Fixed, HopNode DEF Verifiers, In, Out
<1>1. Circuit(c) /\ Wire(c, v) /\ (v + 1 \in Hops => Wire(c, v + 1))
  BY <1>0 DEF IInv, Circuit
<1>2. Owes(c, v)
  BY <1>0 DEF Owes, Idle
<1>3. error => faults # 0
  BY <1>0, <1>2 DEF Answer, Net, Calm
<1>4. CASE error
  <2>1. Leave(v, l) /\ faults' # 0
    BY <1>3, <1>4 DEF Answer
  <2>2. pc[v] \notin {"down", "accept"}
    BY DEF On
  <2> QED BY <1>0, <1>3, <2>1, <2>2, LeavingNet
<1>5. CASE ~ error
  <2>1. PICK m : m = Cell("Result", 0, res)
    OBVIOUS
  <2>2. m \in Cells /\ link' = SendUp(l, v, m) /\ Goto(v, "relay")
    BY <1>5, <2>1, ResultCell DEF Answer
  <2>3. pc[v] \in {"round", "quorum"} => ~ Idle(v) /\ link[<<c, v>>].down = <<>> /\ link[<<c, v>>].up = <<>>
    BY <1>1 DEF Wire, Idle
  <2>4. Tame(c, v)
    <3>1. CASE l = link /\ pc[v] \in {"round", "quorum"}
      <4>1. Replied(c, v, m) /\ Only(c, v)
        BY <1>0, <2>2, <2>3, <3>1, AnswersNow
      <4> QED BY <1>0, <4>1, TameQuiet DEF Only, Only2, Replied
    <3>2. CASE link[In(v)].down # <<>> /\ l = TakeCell(link, v)
      <4>1. Replied(c, v, m) /\ Only(c, v)
        BY <1>0, <1>1, <2>2, <3>2, AnswersCell
      <4> QED BY <1>0, <4>1, TameQuiet DEF Only, Only2, Replied
    <3>3. CASE v + 1 \in Hops /\ link[Out(v)].up # <<>> /\ l = TakeReply(link, v) /\ pc[v] \in {"round", "quorum"}
      <4>1. Replied(c, v, m) /\ Taken(c, v + 1) /\ Only2(c, v)
        BY <1>0, <1>1, <2>2, <2>3, <3>3, AnswersBack
      <4> QED BY <1>0, <4>1, TameQuiet, ZenonT(60) DEF Taken, Replied
    <3> QED BY <3>1, <3>2, <3>3
  <2>5. pc'[v] = "relay" /\ \A k \in Nodes : k # v => pc'[k] = pc[k]
    BY <1>0, <2>2 DEF Goto, IInv, TypeOK
  <2>6. On(c, v)' /\ Idle(v)'
    BY <2>5 DEF On, Idle
  <2>7. round \in Nat /\ round' = round /\ round' >= round
    BY RoundsAre
  <2> QED BY <1>0, <1>3, <2>4, <2>5, <2>6, <2>7, WorkNet
<1> QED BY <1>3, <1>4, <1>5

(* Base b sends the request of round r to hop n. *)
LEMMA RoundNet ==
    ASSUME IInv, Net, NEW b \in Bases, NEW c \in Circuits, c = circ[b], On(c, b),
           NEW r, Reached(c, End(b)), c = circ[0] => r <= round',
           NEW n \in 0 .. Last(b), NEW res \in Response, res.id = r, NEW m, m = RoundCell(b, n, res),
           Passed(c, b + 1, m), Only2(c, b), b \in Hops => Kept(c, b) \/ Cleared(c, b),
           Goto(b, "round"), b \in Hops => Owes(c, b), round' \in Nat, round' >= round,
           \A v \in Verifiers : count'[v] \in Nat /\ (circ[v] = circ[0] => count'[v] <= round'),
           UNCHANGED <<circ, faults>>
    PROVE  Net'
<1>0. /\ b + 1 \in Hops /\ b \in 0 .. D /\ b \in Nodes /\ b \in Nat /\ Last(b) \in Nat /\ n \in Nat
      /\ b + 1 + Last(b) = End(b) /\ End(b) \in Hops /\ TypeOK
  BY NextHop, BaseNode, Line, EndIs DEF IInv
<1>1. PICK t \in Hops : t = b + 1 + n /\ t <= End(b) /\ b + 1 <= t
  <2>1. b + 1 + n <= End(b) /\ b + 1 <= b + 1 + n /\ End(b) <= D /\ b + 1 + n \in Nat
    BY <1>0 DEF Hops
  <2>2. b + 1 + n \in Hops
    BY <1>0, <2>1, LineAssumption DEF Hops
  <2> QED BY <2>1, <2>2
<1>2. Fresh(c) /\ link[<<c, End(b)>>].sv # "none"
  BY DEF IInv, Circuit, Reached
<1>3. link[<<c, b + 1>>].sv # "none" /\ link[<<c, t>>].sv # "none"
  BY <1>0, <1>1, <1>2, OnTheWay
<1>4. m.hops = n /\ (m.type = "ChainSubmission" => m.res.id = r)
  <2>1. "AttestationRequest" \in CellTypes /\ "ChainSubmission" \in CellTypes
    BY DEF CellTypes
  <2>2. CASE n < Last(b)
    BY <1>0, <2>1, <2>2, CellsType, SubmissionType DEF RoundCell
  <2>3. CASE ~ (n < Last(b))
    BY <1>0, <2>1, <2>3, CellsType DEF RoundCell
  <2> QED BY <2>2, <2>3
<1>5. Tame(c, b)
  BY <1>0, <1>1, <1>3, <1>4, TameSend
<1>6. pc'[b] = "round" /\ \A k \in Nodes : k # b => pc'[k] = pc[k]
  BY <1>0 DEF Goto, TypeOK
<1>7. On(c, b)' /\ (b \in Hops /\ ~ Idle(b)' => Owes(c, b))
  BY <1>6 DEF On
<1>8. round \in Nat
  BY RoundsAre
<1> QED BY <1>0, <1>5, <1>6, <1>7, <1>8, WorkNet

(* vm1 gives its session up. *)
LEMMA DropNet == ASSUME IInv, Net, Drop PROVE Net'
<1>1. 0 \in 0 .. D /\ 0 \notin Hops /\ 0 + 1 \in Hops /\ pc[0] = "session"
  BY Fixed DEF Drop
<1>2. circ[0] \in Circuits /\ On(circ[0], 0)
  BY <1>1, Working
<1>3. ~ Owes(circ[0], 0 + 1)
  BY <1>1, <1>2, NoDebt
<1>4. Leave(0, link) /\ UNCHANGED <<circ, round, count, faults>>
  BY DEF Drop
<1>5. \A v \in Verifiers : count'[v] \in Nat /\ (circ[v] = circ[0] => count'[v] <= round)
  BY <1>4, RoundsAre
<1> QED BY <1>1, <1>3, <1>4, <1>5, LeavingNet

(* A machine finds its next hop gone: something has failed. *)
LEMMA DownstreamLostNet ==
    ASSUME IInv, Net, NEW i \in 0 .. D - 1, DownstreamLost(i)
    PROVE  Net' /\ faults # 0
<1>1. i \in 0 .. D /\ i + 1 \in Hops /\ i + 1 - 1 = i /\ pc[i] \notin {"down", "accept"}
  BY LineAssumption DEF DownstreamLost, Hops
<1>2. PICK c \in Circuits : c = circ[i] /\ On(c, i)
  BY <1>1, Working
<1>3. link[<<c, i + 1>>].sv = "closed"
  BY <1>2 DEF DownstreamLost, DownstreamGone, Out
<1>4. faults # 0
  BY <1>1, <1>2, <1>3 DEF Net, Calm
<1>5. Leave(i, link) /\ UNCHANGED <<circ, round, count, faults>>
  BY DEF DownstreamLost
<1>6. \A v \in Verifiers : count'[v] \in Nat /\ (circ[v] = circ[0] => count'[v] <= round)
  BY <1>5, RoundsAre
<1> QED BY <1>1, <1>4, <1>5, <1>6, LeavingNet

(* A TPM error is a failure. *)
LEMMA QuoteFailsNet ==
    ASSUME IInv, Net, NEW i \in 0 .. D, QuoteFails(i)
    PROVE  Net' /\ faults' # 0
<1>1. pc[i] \notin {"down", "accept"}
  BY DEF QuoteFails, Quoting
<1>2. faults' # 0
  BY BoundAssumption DEF QuoteFails, Fault, IInv, TypeOK
<1>3. Leave(i, link) /\ UNCHANGED <<circ, round, count>>
  BY DEF QuoteFails
<1>4. \A v \in Verifiers : count'[v] \in Nat /\ (circ[v] = circ[0] => count'[v] <= round)
  BY <1>3, RoundsAre
<1> QED BY <1>1, <1>2, <1>3, <1>4, LeavingNet

(* A machine finds its upstream gone, and leaves nobody at work. *)
LEMMA UpstreamLostNet ==
    ASSUME IInv, Net, NEW i \in Hops, UpstreamLost(i)
    PROVE  Net' /\ (faults = 0 => ~ On(circ[i], 0))
<1>1. i \in 0 .. D /\ pc[i] \in {"extend", "relay"} /\ pc[i] \notin {"down", "accept"}
  BY HopNode DEF UpstreamLost
<1>2. PICK c \in Circuits : c = circ[i] /\ On(c, i)
  BY <1>1, Working
<1>3. ~ link[<<c, i>>].cl
  BY <1>2 DEF UpstreamLost, UpstreamGone, In
<1>4. faults = 0 => ~ On(c, i - 1) /\ ~ On(c, 0)
  BY <1>2, <1>3, GoneUp
<1>5. i + 1 \in Hops => ~ Owes(c, i + 1)
  BY <1>1, <1>2, NoDebt
<1>6. Leave(i, link) /\ UNCHANGED <<circ, round, count, faults>>
  BY DEF UpstreamLost
<1>7. \A v \in Verifiers : count'[v] \in Nat /\ (circ[v] = circ[0] => count'[v] <= round)
  BY <1>6, RoundsAre
<1> QED BY <1>1, <1>2, <1>4, <1>5, <1>6, <1>7, LeavingNet

(* A machine answers its first cell, unless something has failed. *)
LEMMA ServeExtendNet ==
    ASSUME IInv, Net, NEW i \in Hops, NEW error \in BOOLEAN, ServeExtend(i, error)
    PROVE  Net' /\ (error => faults # 0)
<1>1. i \in 0 .. D /\ pc[i] = "extend" /\ i + 1 # i
  BY HopNode DEF ServeExtend
<1>2. PICK c \in Circuits : c = circ[i] /\ On(c, i) /\ link \in Links /\ Circuit(c)
  BY <1>1, Working
<1>3. link[In(i)].down # <<>> /\ In(i) = <<c, i>> /\ Wire(c, i)
  BY <1>2 DEF ServeExtend, HasCell, In, Circuit
<1>4. error => faults # 0
  <2>1. Owes(c, i)
    BY <1>3 DEF Owes
  <2> QED BY <1>3, <2>1 DEF ServeExtend, Net, Calm
<1>5. UNCHANGED <<circ, round, count, faults>>
  BY DEF ServeExtend
<1>6. CASE error
  <2>1. Leave(i, TakeCell(link, i)) /\ faults' # 0
    BY <1>4, <1>5, <1>6 DEF ServeExtend
  <2>2. \A v \in Verifiers : count'[v] \in Nat /\ (circ[v] = circ[0] => count'[v] <= round)
    BY <1>5, RoundsAre
  <2> QED BY <1>1, <1>3, <1>4, <1>5, <2>1, <2>2, LeavingNet
<1>7. CASE ~ error
  <2>1. PICK m : m = Cell("Extended", 0, Blank)
    OBVIOUS
  <2>2. m \in Cells
    BY <2>1, CellsType, SubmissionType DEF CellTypes
  <2>3. PICK p : p = IF i = Z /\ mode # "chain1" THEN "connect" ELSE "relay"
    OBVIOUS
  <2>4. link' = SendUp(TakeCell(link, i), i, m) /\ Goto(i, p)
    BY <1>7, <2>1, <2>3 DEF ServeExtend
  <2>5. Replied(c, i, m) /\ Only(c, i)
    BY <1>2, <1>3, <2>2, <2>4, AnswersCell
  <2>6. Tame(c, i)
    BY <1>1, <2>5, TameQuiet DEF Only, Only2, Replied
  <2> QED BY <1>1, <1>2, <1>4, <1>5, <2>3, <2>4, <2>6, GoesNet
<1> QED BY <1>6, <1>7

(* A proxy is told to reach the next machine. *)
LEMMA RelayExtendNet ==
    ASSUME IInv, Net, NEW i \in Proxies, RelayExtend(i)
    PROVE  Net'
<1>1. i \in Hops /\ i \in 0 .. D /\ i + 1 # i /\ pc[i] = "relay"
  BY Ahead DEF RelayExtend
<1>2. PICK c \in Circuits : c = circ[i] /\ On(c, i) /\ link \in Links /\ Circuit(c)
  BY <1>1, Working
<1>3. link[In(i)].down # <<>> /\ In(i) = <<c, i>> /\ Wire(c, i)
  BY <1>1, <1>2 DEF RelayExtend, HasCell, In, Circuit
<1>4. link' = TakeCell(link, i) /\ Goto(i, "connect") /\ UNCHANGED <<circ, round, count, faults>>
  BY DEF RelayExtend
<1>5. Cleared(c, i) /\ Only(c, i)
  BY <1>1, <1>2, <1>3, <1>4, TakesCell
<1>6. Tame(c, i)
  BY <1>1, <1>5, TameQuiet DEF Only, Only2, Cleared
<1>7. Owes(c, i)
  BY <1>3 DEF Owes
<1> QED BY <1>1, <1>2, <1>4, <1>6, <1>7, GoesNet

(* A proxy gives its attestation. *)
LEMMA RelayAttestNet ==
    ASSUME IInv, Net, NEW i \in Proxies, RelayAttest(i)
    PROVE  Net'
<1>1. i \in Hops /\ i \in 0 .. D /\ i + 1 # i /\ pc[i] = "relay" /\ i \in Nodes
  BY Ahead, LineNodes DEF RelayAttest
<1>2. PICK c \in Circuits : c = circ[i] /\ On(c, i) /\ link \in Links /\ Circuit(c)
  BY <1>1, Working
<1>3. link[In(i)].down # <<>> /\ In(i) = <<c, i>> /\ Wire(c, i)
  BY <1>1, <1>2 DEF RelayAttest, HasCell, In, Circuit
<1>4. PICK m : m = Cell("AttestationResponse", 0, Blank)
  OBVIOUS
<1>5. m \in Cells
  BY <1>4, CellsType, SubmissionType DEF CellTypes
<1>6. link' = SendUp(TakeCell(link, i), i, m) /\ Goto(i, "relay") /\ UNCHANGED <<circ, round, count, faults>>
  BY <1>1, <1>4 DEF RelayAttest, Goto, IInv, TypeOK
<1>7. Replied(c, i, m) /\ Only(c, i)
  BY <1>1, <1>2, <1>3, <1>5, <1>6, AnswersCell
<1>8. Tame(c, i)
  BY <1>1, <1>7, TameQuiet DEF Only, Only2, Replied
<1> QED BY <1>1, <1>2, <1>6, <1>8, GoesNet

(* A proxy passes an answer back. *)
LEMMA RelayBackNet ==
    ASSUME IInv, Net, NEW i \in Proxies, RelayBack(i)
    PROVE  Net'
<1>1. i \in Hops /\ i \in 0 .. D /\ i + 1 # i /\ i + 1 \in Hops /\ pc[i] \in {"extended", "forward"} /\ ~ Idle(i)
  BY Ahead DEF RelayBack, Idle
<1>2. PICK c \in Circuits : c = circ[i] /\ On(c, i) /\ link \in Links /\ Circuit(c)
  BY <1>1, Working
<1>3. link[Out(i)].up # <<>> /\ Out(i) = <<c, i + 1>> /\ Wire(c, i) /\ Wire(c, i + 1)
  BY <1>1, <1>2 DEF RelayBack, HasReply, Out, Circuit
<1>4. PICK m : m = Head(link[Out(i)].up)
  OBVIOUS
<1>5. m \in Cells
  <2>1. link[<<c, i + 1>>].up \in Seq(Cells)
    BY <1>1, <1>2 DEF Links, Linked
  <2> QED BY <1>3, <1>4, <2>1, HeadCell
<1>6. link' = SendUp(TakeReply(link, i), i, m) /\ Goto(i, "relay") /\ UNCHANGED <<circ, round, count, faults>>
  BY <1>4 DEF RelayBack
<1>7. link[<<c, i>>].down = <<>> /\ link[<<c, i>>].up = <<>>
  BY <1>1, <1>2, <1>3 DEF Wire
<1>8. Replied(c, i, m) /\ Taken(c, i + 1) /\ Only2(c, i)
  BY <1>1, <1>2, <1>3, <1>5, <1>6, <1>7, AnswersBack
<1>9. Tame(c, i)
  BY <1>1, <1>8, TameQuiet DEF Taken, Replied
<1> QED BY <1>1, <1>2, <1>6, <1>9, GoesNet

(* A proxy passes a cell on: the machine it is for has been reached through it. *)
LEMMA RelayForwardNet ==
    ASSUME IInv, Net, NEW i \in Proxies, RelayForward(i)
    PROVE  Net' /\ link[Out(i)].sv # "none"
<1>1. i \in Hops /\ i \in 0 .. D /\ i + 1 # i /\ i + 1 \in Hops /\ pc[i] = "relay" /\ i \in Nat
  BY Ahead, HopNode DEF RelayForward
<1>2. PICK c \in Circuits : c = circ[i] /\ On(c, i) /\ link \in Links /\ Circuit(c)
  BY <1>1, Working
<1>3. /\ link[In(i)].down # <<>> /\ In(i) = <<c, i>> /\ Wire(c, i) /\ Wire(c, i + 1) /\ Out(i) = <<c, i + 1>>
      /\ Aimed(c, i) /\ Fresh(c)
  BY <1>1, <1>2 DEF RelayForward, In, Out, Circuit, Net
<1>4. PICK q : q = Cell1(c, i)
  OBVIOUS
<1>5. q \in Cells /\ q.hops \in Nat /\ q.hops > 0 /\ q = Head(link[In(i)].down)
  <2>1. link[<<c, i>>].down \in Seq(Cells)
    BY <1>1, <1>2 DEF Links, Linked
  <2> QED BY <1>3, <1>4, <2>1, HeadCell DEF Cell1, Cells, RelayForward
<1>6. PICK t \in Hops : t = i + q.hops /\ link[<<c, t>>].sv # "none"
  BY <1>3, <1>4 DEF Aimed
<1>7. i + 1 <= t
  BY <1>1, <1>5, <1>6
<1>8. link[<<c, i + 1>>].sv # "none"
  BY <1>1, <1>3, <1>6, <1>7, OnTheWay
<1>9. PICK m : m = [q EXCEPT !.hops = @ - 1]
  OBVIOUS
<1>10. m \in Cells /\ m.type = q.type /\ m.res = q.res /\ m.hops = q.hops - 1 /\ t = i + 1 + m.hops
  <2>1. m \in Cells /\ m.type = q.type /\ m.res = q.res /\ m.hops = q.hops - 1
    BY <1>5, <1>9 DEF Cells
  <2> QED BY <1>1, <1>5, <1>6, <2>1
<1>11. link' = SendDown(TakeCell(link, i), i, m) /\ Goto(i, "forward") /\ UNCHANGED <<circ, round, count, faults>>
  BY <1>3, <1>5, <1>8, <1>9 DEF RelayForward
<1>12. link[<<c, i + 1>>].down = <<>> /\ link[<<c, i + 1>>].up = <<>>
  BY <1>1, <1>2, <1>3, <1>8, SMTT(60) DEF Wire
<1>13. Cleared(c, i) /\ Passed(c, i + 1, m) /\ Only2(c, i)
  BY <1>1, <1>2, <1>3, <1>10, <1>11, <1>12, PassesCell
<1>14. c = circ[0] /\ m.type = "ChainSubmission" => m.res.id <= round'
  BY <1>1, <1>3, <1>4, <1>10, <1>11 DEF Net, Begun
<1>15. Tame(c, i)
  BY <1>1, <1>6, <1>8, <1>10, <1>13, <1>14, TameSend
<1>16. Owes(c, i)
  BY <1>3 DEF Owes
<1> QED BY <1>1, <1>2, <1>3, <1>8, <1>11, <1>15, <1>16, GoesNet

(* vm2 has its circuit. *)
LEMMA Chain2CompleteNet == ASSUME IInv, Net, Chain2Complete PROVE Net'
<1>1. Z \in 0 .. D /\ Z + 1 \in Hops /\ Z + 1 # Z /\ pc[Z] = "extended" /\ Z \in Bases
  BY Fixed, NextHop DEF Chain2Complete
<1>2. PICK c \in Circuits : c = circ[Z] /\ On(c, Z) /\ link \in Links /\ Circuit(c)
  BY <1>1, Working
<1>3. link[Out(Z)].up # <<>> /\ Wire(c, Z + 1)
  BY <1>1, <1>2 DEF Chain2Complete, HasReply, Circuit
<1>4. link' = TakeReply(link, Z) /\ Goto(Z, "relay") /\ UNCHANGED <<circ, round, count, faults>>
  BY DEF Chain2Complete
<1>5. Taken(c, Z + 1) /\ Only(c, Z + 1)
  BY <1>1, <1>2, <1>3, <1>4, TakesReply
<1>6. Tame(c, Z)
  BY <1>1, <1>5, TameQuiet DEF Only, Only2, Taken
<1> QED BY <1>1, <1>2, <1>4, <1>6, GoesNet

(* vm1 has its result. *)
LEMMA Vm1ResultNet == ASSUME IInv, Net, Vm1Result PROVE Net'
<1>1. 0 \in 0 .. D /\ 0 + 1 \in Hops /\ 0 + 1 # 0 /\ pc[0] = "round" /\ 0 \notin Hops
  BY Fixed DEF Vm1Result
<1>2. PICK c \in Circuits : c = circ[0] /\ On(c, 0) /\ link \in Links /\ Circuit(c)
  BY <1>1, Working
<1>3. link[Out(0)].up # <<>> /\ Wire(c, 0 + 1) /\ Out(0) = <<c, 0 + 1>>
  BY <1>1, <1>2 DEF Vm1Result, HasReply, Circuit, Out
<1>4. UNCHANGED <<circ, round, count, faults>>
  BY DEF Vm1Result
<1>5. CASE link' = TakeReply(link, 0) /\ Goto(0, "session")
  <2>1. Taken(c, 0 + 1) /\ Only(c, 0 + 1)
    BY <1>1, <1>2, <1>3, <1>5, TakesReply
  <2>2. Tame(c, 0)
    BY <1>1, <2>1, TameQuiet DEF Only, Only2, Taken
  <2> QED BY <1>1, <1>2, <1>4, <1>5, <2>2, GoesNet
<1>6. CASE Leave(0, TakeReply(link, 0))
  <2>1. ~ Owes(c, 0 + 1)
    BY <1>1, <1>2, <1>3, NoDebt
  <2>2. \A v \in Verifiers : count'[v] \in Nat /\ (circ[v] = circ[0] => count'[v] <= round)
    BY <1>4, RoundsAre
  <2> QED BY <1>1, <1>2, <1>3, <1>4, <1>6, <2>1, <2>2, LeavingNet
<1> QED BY <1>5, <1>6 DEF Vm1Result

(* A base reaches for the next machine through the last one it has reached. *)
LEMMA ExtendNextNet ==
    ASSUME IInv, Net, NEW b \in Bases, ExtendNext(b)
    PROVE  Net'
<1>1. /\ b + 1 \in Hops /\ b + 1 # b /\ b \in 0 .. D /\ b \in Nodes /\ b \in Nat /\ pc[b] = "extended"
      /\ b + 1 \in Seg(b) /\ Last(b) \in Nat /\ b + 1 + Last(b) = End(b) /\ End(b) \in Hops /\ (b \in Hops => b = Z)
  BY NextHop, BaseNode, Line DEF ExtendNext, Bases
<1>2. PICK c \in Circuits : c = circ[b] /\ On(c, b) /\ link \in Links /\ Circuit(c)
  BY <1>1, Working
<1>3. /\ link[Out(b)].up # <<>> /\ Wire(c, b + 1) /\ Out(b) = <<c, b + 1>> /\ Fresh(c)
      /\ depth[b] \in Nat /\ depth[b] < Last(b)
  BY <1>1, <1>2 DEF ExtendNext, HasReply, Circuit, Out, IInv, TypeOK
<1>4. PICK m : m = Cell("Extend", depth[b], Blank)
  OBVIOUS
<1>5. m \in Cells /\ m.type = "Extend" /\ m.hops = depth[b]
  BY <1>3, <1>4, CellsType, SubmissionType DEF CellTypes
<1>6. link' = SendDown(TakeReply(link, b), b, m) /\ Goto(b, "extended") /\ UNCHANGED <<circ, round, count, faults>>
  BY <1>1, <1>4 DEF ExtendNext, Goto, IInv, TypeOK
<1>7. Passed(c, b + 1, m) /\ Only(c, b + 1)
  BY <1>1, <1>2, <1>3, <1>5, <1>6, SendsNext
<1>8. Reached(c, b + 1 + depth[b])
  BY <1>1, <1>2, <1>3, ReplyExpected DEF Built
<1>9. PICK t \in Hops : t = b + 1 + depth[b] /\ b + 1 <= t
  <2>1. b + 1 + depth[b] \in Hops
    BY <1>1, <1>3, LineAssumption DEF Hops
  <2> QED BY <1>1, <1>3, <2>1
<1>10. link[<<c, t>>].sv # "none" /\ link[<<c, b + 1>>].sv # "none"
  BY <1>1, <1>3, <1>8, <1>9, OnTheWay DEF Reached
<1>11. Only2(c, b) /\ (b \in Hops => Kept(c, b))
  BY <1>1, <1>7 DEF Only, Only2, Kept
<1>12. Tame(c, b)
  BY <1>1, <1>5, <1>7, <1>9, <1>10, <1>11, TameSend
<1> QED BY <1>1, <1>2, <1>6, <1>12, GoesNet

(* A base asks the next machine of a round. *)
LEMMA RoundNextNet ==
    ASSUME IInv, Net, NEW b \in Bases, RoundNext(b)
    PROVE  Net'
<1>1. /\ b + 1 \in Hops /\ b + 1 # b /\ b \in 0 .. D /\ b \in Nodes /\ b \in Nat /\ pc[b] = "round"
      /\ Last(b) \in Nat /\ (b = 0 \/ b = Z)
  BY NextHop, BaseNode, Line DEF RoundNext, Bases
<1>2. PICK c \in Circuits : c = circ[b] /\ On(c, b) /\ link \in Links /\ Circuit(c)
  BY <1>1, Working
<1>3. /\ link[Out(b)].up # <<>> /\ Wire(c, b + 1) /\ Tally(c, b) /\ TypeOK
      /\ depth[b] \in Nat /\ depth[b] < Last(b)
  BY <1>1, <1>2 DEF RoundNext, HasReply, Circuit, Counts, IInv, TypeOK
<1>4. PICK n : n = depth[b] + 1
  OBVIOUS
<1>5. PICK res : res = IF b = 0 THEN Submission(round) ELSE work[b]
  OBVIOUS
<1>6. PICK m : m = RoundCell(b, n, res)
  OBVIOUS
<1>7. n \in 0 .. Last(b) /\ n \in Nat
  BY <1>1, <1>3, <1>4
<1>8. /\ link' = SendDown(TakeReply(link, b), b, m) /\ Goto(b, "round")
      /\ UNCHANGED <<circ, round, count, faults>>
  BY <1>1, <1>3, <1>4, <1>5, <1>6 DEF RoundNext, Goto, TypeOK
<1>9. Reached(c, End(b)) /\ (b = Z => work[Z].id = count[Z])
  BY <1>1, <1>2, <1>3 DEF Tally, Counted
<1>10. round \in Nat /\ \A v \in Verifiers : count[v] \in Nat /\ (circ[v] = circ[0] => count[v] <= round)
  BY RoundsAre
<1>11. res \in Response /\ (c = circ[0] => res.id <= round)
  <2>1. CASE b = 0
    BY <1>5, <1>10, <2>1, SubmissionType
  <2>2. CASE b = Z
    BY <1>2, <1>3, <1>5, <1>9, <1>10, <2>2, Fixed DEF TypeOK
  <2> QED BY <1>1, <2>1, <2>2
<1>12. m \in Cells
  BY <1>6, <1>7, <1>11, RoundCellIs
<1>13. Passed(c, b + 1, m) /\ Only(c, b + 1)
  BY <1>1, <1>2, <1>3, <1>8, <1>12, SendsNext
<1>14. Only2(c, b) /\ (b \in Hops => Kept(c, b))
  BY <1>1, <1>13 DEF Only, Only2, Kept
<1>15. Owes(c, b)
  BY <1>1, <1>2 DEF Owes, Idle
<1>16. round' = round /\ round' \in Nat /\ round' >= round /\ count' = count
  BY <1>8, <1>10
<1> QED BY <1>2, <1>6, <1>7, <1>8, <1>9, <1>10, <1>11, <1>13, <1>14, <1>15, <1>16, RoundNet

(* vm1 begins a round of its session. *)
LEMMA HeartbeatNet == ASSUME IInv, Net, Heartbeat PROVE Net'
<1>1. 0 \in Bases /\ 0 + 1 \in Hops /\ 0 + 1 # 0 /\ 0 \in 0 .. D /\ 0 \notin Hops /\ Last(0) \in Nat /\ pc[0] = "session" /\ 0 + 1 \in Seg(0)
  BY Fixed, Line DEF Heartbeat
<1>2. PICK c \in Circuits : c = circ[0] /\ On(c, 0) /\ link \in Links /\ Circuit(c)
  BY <1>1, Working
<1>3. link[<<c, 0 + 1>>].down = <<>> /\ link[<<c, 0 + 1>>].up = <<>> /\ Tally(c, 0)
  BY <1>1, <1>2 DEF Circuit, Single, Busy, Counts
<1>4. PICK r : r = round + 1
  OBVIOUS
<1>5. PICK m : m = RoundCell(0, 0, Submission(r))
  OBVIOUS
<1>6. round \in Nat /\ \A v \in Verifiers : count[v] \in Nat /\ (circ[v] = circ[0] => count[v] <= round)
  BY RoundsAre
<1>7. r \in Nat /\ Submission(r) \in Response /\ Submission(r).id = r /\ m \in Cells /\ 0 \in 0 .. Last(0)
  BY <1>1, <1>4, <1>5, <1>6, SubmissionType, RoundCellIs
<1>8. /\ link' = SendDown(link, 0, m) /\ Goto(0, "round") /\ round' = r /\ UNCHANGED <<circ, count, faults>>
  BY <1>4, <1>5 DEF Heartbeat, BeginRound
<1>9. Passed(c, 0 + 1, m) /\ Only(c, 0 + 1)
  BY <1>1, <1>2, <1>3, <1>7, <1>8, SendsFirst
<1>10. Reached(c, End(0)) /\ Only2(c, 0)
  BY <1>1, <1>2, <1>3, <1>9 DEF Tally, Counted, Only, Only2
<1>11. round' \in Nat /\ round' >= round /\ r <= round'
  BY <1>4, <1>6, <1>7, <1>8
<1>12. ASSUME NEW v \in Verifiers PROVE count'[v] \in Nat /\ (circ[v] = circ[0] => count'[v] <= round')
  <2>1. count'[v] = count[v] /\ count[v] \in Nat /\ (circ[v] = circ[0] => count[v] <= round)
    BY <1>6, <1>8
  <2> QED BY <1>6, <1>11, <2>1
<1> QED BY <1>1, <1>2, <1>5, <1>7, <1>8, <1>9, <1>10, <1>11, <1>12, RoundNet

(* vm1 has its circuit and begins the first round. *)
LEMMA Chain1CompleteNet == ASSUME IInv, Net, Opening, Chain1Complete PROVE Net'
<1>1. 0 \in Bases /\ 0 + 1 \in Hops /\ 0 + 1 # 0 /\ 0 \in 0 .. D /\ 0 \notin Hops /\ Last(0) \in Nat /\ pc[0] = "extended"
  BY Fixed, Line DEF Chain1Complete
<1>2. PICK c \in Circuits : c = circ[0] /\ On(c, 0) /\ link \in Links /\ Circuit(c)
  BY <1>1, Working
<1>3. link[Out(0)].up # <<>> /\ Wire(c, 0 + 1) /\ link[<<c, 0 + 1>>].up # <<>> /\ depth[0] = Last(0)
  BY <1>1, <1>2 DEF Chain1Complete, HasReply, Circuit, Out
<1>4. PICK m : m = RoundCell(0, 0, Submission(1))
  OBVIOUS
<1>5. Submission(1) \in Response /\ Submission(1).id = 1 /\ m \in Cells /\ 0 \in 0 .. Last(0)
  BY <1>1, <1>4, SubmissionType, RoundCellIs
<1>6. /\ link' = SendDown(TakeReply(link, 0), 0, m) /\ Goto(0, "round") /\ round' = 1 /\ UNCHANGED <<circ, count, faults>>
  BY <1>4 DEF Chain1Complete, BeginRound
<1>7. Passed(c, 0 + 1, m) /\ Only(c, 0 + 1)
  BY <1>1, <1>2, <1>3, <1>5, <1>6, SendsNext
<1>8. Reached(c, End(0)) /\ Only2(c, 0)
  BY <1>1, <1>2, <1>3, <1>7, AllBuilt DEF Counted, Only, Only2
<1>9. round = 0 /\ \A v \in Verifiers : count[v] \in Nat /\ (circ[v] = circ[0] => count[v] <= round)
  BY <1>1, RoundsAre DEF Opening
<1>10. ASSUME NEW v \in Verifiers PROVE count'[v] \in Nat /\ (circ[v] = circ[0] => count'[v] <= round')
  <2>1. count'[v] = count[v] /\ count[v] \in Nat /\ (circ[v] = circ[0] => count[v] <= 0)
    BY <1>6, <1>9
  <2> QED BY <1>6, <2>1
<1>11. round' \in Nat /\ round' >= round /\ 1 <= round'
  BY <1>6, <1>9
<1> QED BY <1>1, <1>2, <1>4, <1>5, <1>6, <1>7, <1>8, <1>10, <1>11, RoundNet

(* Machine v has counted one submission more, which vm1 has made. *)
LEMMA CountsOn ==
    ASSUME IInv, Net, NEW v \in Verifiers, NEW c \in Circuits, c = circ[v], NEW n \in Nat, n = count[v] + 1,
           count' = [count EXCEPT ![v] = @ + 1], link[<<c, v>>].down # <<>>,
           Cell1(c, v).type = "ChainSubmission", Cell1(c, v).res.id = n
    PROVE  /\ count'[v] = n /\ \A u \in Verifiers : u # v => count'[u] = count[u]
           /\ \A u \in Verifiers : count'[u] \in Nat /\ (circ[u] = circ[0] => count'[u] <= round)
<1>1. count \in [Verifiers -> 0 .. MaxRounds] /\ v \in Hops
  BY Fixed DEF IInv, TypeOK, Verifiers
<1>2. count'[v] = n /\ \A u \in Verifiers : u # v => count'[u] = count[u]
  BY <1>1
<1>3. circ[v] = circ[0] => n <= round
  BY <1>1 DEF Net, Begun
<1> QED BY <1>2, <1>3, RoundsAre

(* vm2 takes a submission: it answers, or begins a round of chain 2. *)
LEMMA Vm2SubmissionNet ==
    ASSUME IInv, Net, NEW clean \in BOOLEAN, NEW error \in BOOLEAN, Vm2Submission(clean, error)
    PROVE  Net' /\ (error => faults # 0)
<1>0. /\ Z \in Verifiers /\ Z \in Hops /\ Z \in 0 .. D /\ Z \in Nodes /\ Z + 1 \in Hops /\ Z + 1 # Z
      /\ Z \in Bases /\ Last(Z) \in Nat /\ End(0) = Z /\ End(Z) = D /\ Z + 1 \in Seg(Z) /\ 0 \in Bases
      /\ pc[Z] = "relay"
  BY Fixed, NextHop, Line, BaseOf DEF Vm2Submission
<1>1. PICK c \in Circuits : c = circ[Z] /\ On(c, Z) /\ Circuit(c) /\ link \in Links
  BY <1>0, Working
<1>2. /\ link[In(Z)].down # <<>> /\ link[<<c, Z>>].down # <<>> /\ Cell1(c, Z).type = "ChainSubmission"
      /\ In(Z) = <<c, Z>> /\ Wire(c, Z) /\ Single(c) /\ Tally(c, Z)
  BY <1>0, <1>1 DEF Vm2Submission, HasCell, In, Cell1, Circuit, Counts
<1>3. PICK q : q = Cell1(c, Z).res
  OBVIOUS
<1>4. q \in Response /\ q.id \in 1 .. MaxRounds /\ count[Z] = q.id - 1
  BY <1>0, <1>1, <1>2, <1>3, Submitted
<1>5. q.id \in Nat /\ q.id = count[Z] + 1 /\ Cell1(c, Z).res.id = q.id
  BY <1>3, <1>4, BoundAssumption
<1>6. PICK res : res = VerifyChain(q.id, active, clean)
  OBVIOUS
<1>7. res \in Response /\ res.id = q.id /\ res.ok /\ res = VerifyChain(Head(link[In(Z)].down).res.id, active, clean)
  BY <1>2, <1>3, <1>5, <1>6, VerifyChainIs DEF Cell1
<1>8. /\ count' = [count EXCEPT ![Z] = @ + 1] /\ UNCHANGED <<circ, round, faults>>
  BY DEF Vm2Submission
<1>9. \A u \in Verifiers : count'[u] \in Nat /\ (circ[u] = circ[0] => count'[u] <= round)
  BY <1>0, <1>1, <1>2, <1>5, <1>8, CountsOn
<1>10. CASE mode # "chain1"
  <2>1. ~ error /\ link' = SendDown(TakeCell(link, Z), Z, RoundCell(Z, 0, res)) /\ Goto(Z, "round")
    BY <1>7, <1>10 DEF Vm2Submission, BeginRound
  <2>2. PICK m : m = RoundCell(Z, 0, res)
    OBVIOUS
  <2>3. m \in Cells /\ 0 \in 0 .. Last(Z)
    BY <1>0, <1>7, <2>2, RoundCellIs
  <2>4. link[<<c, Z + 1>>].down = <<>> /\ link[<<c, Z + 1>>].up = <<>>
    BY <1>0, <1>1, <1>2 DEF Single, Busy
  <2>5. Cleared(c, Z) /\ Passed(c, Z + 1, m) /\ Only2(c, Z)
    BY <1>0, <1>1, <1>2, <2>1, <2>2, <2>3, <2>4, PassesCell
  <2>6. Reached(c, End(Z))
    BY <1>0, <1>1, <1>2, <1>10 DEF Tally, Counted
  <2>7. c = circ[0] => q.id <= round'
    BY <1>0, <1>2, <1>5, <1>8 DEF Net, Begun
  <2>8. Owes(c, Z)
    BY <1>2 DEF Owes
  <2>9. round \in Nat /\ round' = round /\ round' >= round
    BY <1>8, RoundsAre
  <2> QED BY <1>0, <1>1, <1>7, <1>8, <1>9, <2>1, <2>2, <2>3, <2>5, <2>6, <2>7, <2>8, <2>9, RoundNet
<1>11. CASE mode = "chain1"
  <2>1. Answer(Z, TakeCell(link, Z), count[Z] + 1, res, error)
    BY <1>7, <1>11 DEF Vm2Submission
  <2> QED BY <1>0, <1>1, <1>2, <1>7, <1>8, <1>9, <2>1, AnswerNet
<1> QED BY <1>10, <1>11

(* vm2 has vm3's result. *)
LEMMA Vm2ResultNet ==
    ASSUME IInv, Net, NEW error \in BOOLEAN, Vm2Result(error)
    PROVE  Net' /\ (error => faults # 0)
<1>0. Z \in Verifiers /\ Z \in 0 .. D /\ Z + 1 \in Hops /\ pc[Z] = "round"
  BY Fixed DEF Vm2Result
<1>1. PICK c \in Circuits : c = circ[Z] /\ On(c, Z) /\ Circuit(c) /\ link \in Links
  BY <1>0, Working
<1>2. link[Out(Z)].up # <<>> /\ Out(Z) = <<c, Z + 1>>
  BY <1>1 DEF Vm2Result, HasReply, Out
<1>3. PICK res : res = Head(link[Out(Z)].up).res
  OBVIOUS
<1>4. res \in Response
  <2>1. link[<<c, Z + 1>>].up \in Seq(Cells)
    BY <1>0, <1>1 DEF Links, Linked
  <2> QED BY <1>2, <1>3, <2>1, HeadCell DEF Cells
<1>5. Answer(Z, TakeReply(link, Z), count[Z], res, error) /\ UNCHANGED <<circ, round, faults, count>>
  BY <1>3 DEF Vm2Result
<1>6. \A u \in Verifiers : count'[u] \in Nat /\ (circ[u] = circ[0] => count'[u] <= round)
  BY <1>5, RoundsAre
<1> QED BY <1>0, <1>1, <1>2, <1>4, <1>5, <1>6, AnswerNet

(* vm3 takes a submission: it answers, or asks vm4 first. *)
LEMMA Vm3SubmissionNet ==
    ASSUME IInv, Net, NEW clean \in BOOLEAN, NEW error \in BOOLEAN, Vm3Submission(clean, error)
    PROVE  Net' /\ (error => faults # 0)
<1>0. /\ D \in Verifiers /\ D \in Hops /\ D \in 0 .. D /\ D \in Nodes /\ D + 1 # D
      /\ Z \in Bases /\ End(Z) = D /\ pc[D] = "relay" /\ D + 1 \notin Hops
  BY Fixed, BaseOf, LineAssumption DEF Vm3Submission
<1>1. PICK c \in Circuits : c = circ[D] /\ On(c, D) /\ Circuit(c) /\ link \in Links
  BY <1>0, Working
<1>2. /\ link[In(D)].down # <<>> /\ link[<<c, D>>].down # <<>> /\ Cell1(c, D).type = "ChainSubmission"
      /\ In(D) = <<c, D>> /\ Wire(c, D)
  BY <1>0, <1>1 DEF Vm3Submission, HasCell, In, Cell1, Circuit
<1>3. PICK q : q = Cell1(c, D).res
  OBVIOUS
<1>4. q \in Response /\ q.id \in 1 .. MaxRounds /\ count[D] = q.id - 1
  BY <1>0, <1>1, <1>2, <1>3, Submitted
<1>5. q.id \in Nat /\ q.id = count[D] + 1 /\ Cell1(c, D).res.id = q.id
  BY <1>3, <1>4, BoundAssumption
<1>6. PICK res : res = VerifyFull(q, clean)
  OBVIOUS
<1>7. res \in Response /\ res = VerifyFull(Head(link[In(D)].down).res, clean)
  BY <1>2, <1>3, <1>4, <1>6, VerifyFullIs DEF Cell1
<1>8. count' = [count EXCEPT ![D] = @ + 1] /\ UNCHANGED <<circ, round, faults>>
  BY DEF Vm3Submission
<1>9. \A u \in Verifiers : count'[u] \in Nat /\ (circ[u] = circ[0] => count'[u] <= round)
  BY <1>0, <1>1, <1>2, <1>5, <1>8, CountsOn
<1>10. CASE mode = "quorum"
  <2>1. ~ error /\ link' = TakeCell(link, D) /\ Goto(D, "quorum")
    BY <1>10 DEF Vm3Submission
  <2>2. Cleared(c, D) /\ Only(c, D)
    BY <1>0, <1>1, <1>2, <2>1, TakesCell
  <2>3. Tame(c, D)
    BY <1>0, <2>2, TameQuiet DEF Only, Only2, Cleared
  <2>4. Owes(c, D)
    BY <1>2 DEF Owes
  <2>5. pc'[D] = "quorum" /\ \A k \in Nodes : k # D => pc'[k] = pc[k]
    BY <1>0, <2>1 DEF Goto, IInv, TypeOK
  <2>6. On(c, D)'
    BY <1>1, <1>8, <2>5 DEF On
  <2>7. round \in Nat /\ round' = round /\ round' >= round
    BY <1>8, RoundsAre
  <2> QED BY <1>0, <1>1, <1>8, <1>9, <2>1, <2>3, <2>4, <2>5, <2>6, <2>7, WorkNet
<1>11. CASE mode # "quorum"
  <2>1. Answer(D, TakeCell(link, D), count[D] + 1, res, error)
    BY <1>7, <1>11 DEF Vm3Submission
  <2> QED BY <1>0, <1>1, <1>2, <1>7, <1>8, <1>9, <2>1, AnswerNet
<1> QED BY <1>10, <1>11

(* vm3 has what vm4 says. *)
LEMMA Vm3QuorumNet ==
    ASSUME IInv, Net, NEW error \in BOOLEAN, Vm3Quorum(error)
    PROVE  Net' /\ (error => faults # 0)
<1>0. D \in Verifiers /\ D \in 0 .. D /\ pc[D] = "quorum"
  BY Fixed DEF Vm3Quorum
<1>1. PICK c \in Circuits : c = circ[D] /\ On(c, D) /\ Circuit(c) /\ link \in Links
  BY <1>0, Working
<1>2. PICK res : res = IF quorum = "approved" THEN work[D] ELSE [work[D] EXCEPT !.ok = FALSE, !.status = "Denied"]
  OBVIOUS
<1>3. work[D] \in Response
  BY <1>0 DEF IInv, TypeOK
<1>4. res \in Response
  BY <1>2, <1>3 DEF Response, Status
<1>5. Answer(D, link, count[D], res, error) /\ UNCHANGED <<circ, round, faults, count>>
  BY <1>2 DEF Vm3Quorum
<1>6. \A u \in Verifiers : count'[u] \in Nat /\ (circ[u] = circ[0] => count'[u] <= round)
  BY <1>5, RoundsAre
<1> QED BY <1>0, <1>1, <1>4, <1>5, <1>6, AnswerNet

(* A process ends, or comes back. *)
LEMMA CrashNet ==
    ASSUME IInv, Net, NEW i \in Nodes, Crash(i)
    PROVE  Net' /\ faults' # 0
<1>1. faults' # 0 /\ TypeOK /\ link \in Links
  BY BoundAssumption, LinksType DEF Crash, Fault, IInv, TypeOK
<1>2. \A d \in Circuits : Severed(d, i)
  BY <1>1, Crashes DEF Crash
<1>3. pc'[i] = "down" /\ (\A k \in Nodes : k # i => pc'[k] = pc[k]) /\ UNCHANGED <<circ, round, count>>
  BY <1>1 DEF Crash, Goto, TypeOK
<1>4. ASSUME NEW d \in Circuits, NEW j \in Hops
      PROVE  /\ link'[<<d, j>>].sv = "none" <=> link[<<d, j>>].sv = "none"
             /\ link'[<<d, j>>].sv = "queued" => link[<<d, j>>].sv = "queued"
             /\ j # i + 1 => (link'[<<d, j>>].cl <=> link[<<d, j>>].cl)
             /\ link'[<<d, j>>].down # <<>> => link'[<<d, j>>].down = link[<<d, j>>].down
  BY <1>2 DEF Severed
<1>5. Calm'
  BY <1>1 DEF Calm
<1>6. \A v \in Verifiers : count'[v] \in Nat /\ (circ[v] = circ[0] => count'[v] <= round)
  BY <1>3, RoundsAre
<1> QED BY <1>1, <1>3, <1>4, <1>5, <1>6, CutNet

(* It was down: something has failed. *)
LEMMA RestartNet ==
    ASSUME IInv, Net, NEW i \in Nodes, Restart(i)
    PROVE  Net' /\ faults' # 0
<1>1. faults' # 0 /\ TypeOK
  BY DEF Restart, Net, Calm, IInv
<1>3. pc'[i] = "accept" /\ (\A k \in Nodes : k # i => pc'[k] = pc[k]) /\ UNCHANGED <<circ, round, count, link>>
  BY <1>1 DEF Restart, Goto, TypeOK
<1>5. Calm'
  BY <1>1 DEF Calm
<1>6. \A v \in Verifiers : count'[v] \in Nat /\ (circ[v] = circ[0] => count'[v] <= round)
  BY <1>3, RoundsAre
<1> QED BY <1>1, <1>3, <1>5, <1>6, CutNet

(* Every step of every machine keeps Net. *)
LEMMA NetSteps == IInv /\ EInv /\ Next => Net'
<1> SUFFICES ASSUME IInv, Net, Opening, Next PROVE Net'
  BY DEF EInv
<1>0. 0 \in Bases /\ Z \in Bases /\ \A i \in Proxies : i \in Hops
  BY Fixed, Line
<1>1. CASE Establish \/ Heartbeat \/ Drop
  BY <1>1, EstablishNet, HeartbeatNet, DropNet
<1>2. CASE Vm1
  BY <1>0, <1>2, Chain1CompleteNet, Vm1ResultNet, ExtendNextNet, RoundNextNet DEF Vm1
<1>3. CASE Vm2
  BY <1>0, <1>3, Chain2CompleteNet, Vm2SubmissionNet, Vm2ResultNet, ExtendNextNet, RoundNextNet DEF Vm2
<1>4. CASE \E error \in BOOLEAN : AskVm4(error)
  <2>1. faults \in Nat
    BY BoundAssumption DEF IInv, TypeOK
  <2>2. faults' = 0 => faults = 0
    BY <1>4, <2>1 DEF AskVm4, Fault
  <2> QED BY <1>4, <2>2, StillNet DEF AskVm4
<1>5. CASE Vm3
  BY <1>4, <1>5, Vm3SubmissionNet, Vm3QuorumNet DEF Vm3
<1>6. CASE \E ok \in BOOLEAN : Vm4Decides(ok)
  BY <1>6, StillNet DEF Vm4Decides
<1>7. CASE \E i \in Proxies : Proxy(i)
  BY <1>0, <1>7, RelayExtendNet, RelayAttestNet, RelayForwardNet, RelayBackNet DEF Proxy
<1>8. CASE \E i \in Hops : Serve(i)
  BY <1>8, AcceptNet, ServeExtendNet, UpstreamLostNet DEF Serve
<1>9. CASE \E i \in 0 .. D - 1 : Connect(i) \/ DownstreamLost(i)
  BY <1>9, ConnectNet, DownstreamLostNet
<1>10. CASE \E i \in 0 .. D : QuoteFails(i)
  BY <1>10, QuoteFailsNet
<1>11. CASE \E i \in Nodes : Crash(i) \/ Restart(i)
  BY <1>11, CrashNet, RestartNet
<1> QED BY <1>1, <1>2, <1>3, <1>4, <1>5, <1>6, <1>7, <1>8, <1>9, <1>10, <1>11 DEF Next, Program
--------------------------------------------------------------------------------
(* Verifier v logs nothing in this step and has nothing to log. *)
Keeps(v) ==
    \/ pc[v] = "accept" /\ pc'[v] = "extend" /\ circ'[v] > circ[v] /\ count'[v] = 0
    \/ /\ circ'[v] = circ[v] /\ count'[v] >= count[v]
       /\ Due(v)' => Due(v) \/ count'[v] > count[v]
       /\ pc[v] \in {"accept", "down"} => pc'[v] \in {"accept", "down"}
       /\ \/ count'[v] = count[v] /\ pc'[v] = pc[v]
          \/ count'[v] = 0
          \/ pc'[v] \notin {"extend", "connect", "extended", "relay"}
       /\ faults' = 0 => pc[v] = "accept" \/ pc'[v] # "accept" \/ count[v] = 0

(* A step in which nothing is logged. *)
Silent ==
    /\ UNCHANGED <<mode, log>>
    /\ \A v \in Verifiers : Keeps(v)
    /\ Due(Vm4)' => Due(Vm4) \/ circ'[D] > circ[D] \/ count'[D] > count[D]
    /\ faults' = 0 => faults = 0

(* Judge v enters e in its log, about the last submission it has counted. *)
Enters(v, e) ==
    /\ e \in Entries
    /\ log' = [log EXCEPT ![v] = Append(@, e)]
    /\ UNCHANGED <<mode, circ, round, faults>>
    /\ pc[Of(v)] \notin {"accept", "down"}
    /\ e.c = circ[Of(v)] /\ e.n = count'[Of(v)]
    /\ count'[Of(v)] # 0 /\ count'[Of(v)] >= count[Of(v)]
    /\ ~ Due(v)'
    /\ \A u \in Verifiers : u # Of(v) => count'[u] = count[u]
    /\ \A k \in Nodes : k # Of(v) => pc'[k] = pc[k]

(* It is a verdict, of which the machines behind v know. *)
Judges(v, e) ==
    /\ Enters(v, e)
    /\ e.event # "SessionEnded" /\ e.id = e.n
    /\ Due(v) \/ count'[Of(v)] > count[Of(v)]
    /\ v = Vm4 => UNCHANGED <<pc, count>>
    /\ v # Vm4 => pc'[v] = "relay" \/ (pc'[v] = "accept" /\ faults # 0)
    /\ v = Z => quorum' = quorum
    /\ v = Z /\ mode # "chain1" => \E k \in DOMAIN log[D] :
         /\ log[D][k].c = e.c /\ log[D][k].n = e.n /\ log[D][k].clean = e.clean
         /\ log[D][k].event # "SessionEnded" /\ (log[D][k].event \in Positive <=> e.event \in Positive)
    /\ v = D /\ mode = "quorum" /\ e.event \in Positive => \E k \in DOMAIN log[Vm4] :
         log[Vm4][k].c = e.c /\ log[Vm4][k].n = e.n /\ log[Vm4][k].event \in Positive

(* It is the end of the circuit. *)
Closing(v, e) ==
    /\ Enters(v, e)
    /\ e.event = "SessionEnded" /\ e.id = 0 /\ e.clean
    /\ pc[v] = "relay" /\ pc'[v] = "accept"
    /\ UNCHANGED <<count, quorum>>
    /\ faults = 0 => ~ On(e.c, 0)

(* The log of v got entry e, at place m. *)
Longer(v, e, m) ==
    /\ m \in DOMAIN log'[v] /\ log'[v][m] = e
    /\ \A k \in DOMAIN log[v] : k \in Nat /\ k < m /\ k \in DOMAIN log'[v] /\ log'[v][k] = log[v][k]
    /\ \A k \in DOMAIN log'[v] : k = m \/ k \in DOMAIN log[v]

(* The new entry is the last one. *)
LEMMA LastEntry ==
    ASSUME TypeOK, NEW v \in Judging, NEW e \in Entries, log' = [log EXCEPT ![v] = Append(@, e)]
    PROVE  /\ \A u \in Judging : u # v => log'[u] = log[u]
           /\ \E m \in Nat : Longer(v, e, m)
<1>1. log \in [Judging -> Seq(Entries)] /\ log[v] \in Seq(Entries)
  BY DEF TypeOK, Judging
<1>2. PICK q : q = Append(log[v], e)
  OBVIOUS
<1>3. /\ Len(log[v]) \in Nat /\ DOMAIN q = 1 .. Len(log[v]) + 1 /\ DOMAIN log[v] = 1 .. Len(log[v])
      /\ \A k \in 1 .. Len(log[v]) : q[k] = log[v][k]
      /\ q[Len(log[v]) + 1] = e
  BY <1>1, <1>2
<1>4. log'[v] = q /\ \A u \in Judging : u # v => log'[u] = log[u]
  BY <1>1, <1>2
<1>5. PICK m \in Nat : m = Len(log[v]) + 1
  BY <1>3
<1>6. m \in DOMAIN q /\ q[m] = e
  BY <1>3, <1>5
<1>7. \A k \in DOMAIN log[v] : k \in Nat /\ k < m /\ k \in DOMAIN q /\ q[k] = log[v][k]
  BY <1>3, <1>5
<1>8. \A k \in DOMAIN q : k = m \/ k \in DOMAIN log[v]
  BY <1>3, <1>5
<1> QED BY <1>4, <1>6, <1>7, <1>8 DEF Longer

(* The types of what a judge counts and logs. *)
LEMMA JudgeType ==
    ASSUME TypeOK, NEW v \in Judging
    PROVE  /\ Of(v) \in Verifiers /\ Of(v) \in Nodes /\ Of(v) \in Hops /\ Of(v) # 0
           /\ circ[Of(v)] \in Nat /\ count[Of(v)] \in Nat
           /\ \A k \in DOMAIN log[v] : log[v][k] \in Entries /\ log[v][k].c \in Nat /\ log[v][k].n \in Nat
<1>1. Of(v) \in Verifiers /\ Of(v) \in Nodes /\ Of(v) \in Hops /\ Of(v) # 0
  BY Fixed DEF Of, Judging, Verifiers
<1>2. circ[Of(v)] \in Nat /\ count[Of(v)] \in Nat
  BY <1>1, BoundAssumption DEF TypeOK
<1>3. log[v] \in Seq(Entries)
  BY DEF TypeOK, Judging
<1>4. \A k \in DOMAIN log[v] : log[v][k] \in Entries
  BY <1>3
<1>5. \A e \in Entries : e.c \in Nat /\ e.n \in Nat
  BY BoundAssumption DEF Entries, Circuits
<1> QED BY <1>1, <1>2, <1>4, <1>5

(* A verifier whose own state does not change. *)
LEMMA StaysKept ==
    ASSUME TypeOK, NEW v \in Verifiers, pc'[v] = pc[v], circ'[v] = circ[v], count'[v] = count[v]
    PROVE  Keeps(v)
<1>1. count[v] \in Nat /\ v # Vm4
  BY Line, BoundAssumption DEF TypeOK
<1> QED BY <1>1 DEF Keeps, Due

(* The logs after a silent step. *)
LEMMA SilentBooks ==
    ASSUME IInv, Net, Books, TypeOK', Silent,
           (circ'[0] = circ[0] /\ (pc[0] \in {"accept", "down"} => pc'[0] \in {"accept", "down"})) \/ circ'[0] > circ[0]
    PROVE  Books'
<1>a. /\ circ \in [Nodes -> Nat] /\ circ' \in [Nodes -> Nat]
      /\ count \in [Verifiers -> Nat] /\ count' \in [Verifiers -> Nat]
  <2>1. \A n \in Nat : 0 .. n \subseteq Nat
    OBVIOUS
  <2>2. /\ circ \in [Nodes -> 0 .. MaxCircuits] /\ circ' \in [Nodes -> 0 .. MaxCircuits]
        /\ count \in [Verifiers -> 0 .. MaxRounds] /\ count' \in [Verifiers -> 0 .. MaxRounds]
    BY DEF IInv, TypeOK
  <2> QED BY <2>1, <2>2, BoundAssumption
<1>0. TypeOK /\ Vm4 \notin Verifiers /\ D \in Verifiers /\ Vm4 # D /\ log' = log /\ circ[0] \in Nat /\ circ'[0] \in Nat
  BY <1>a, Fixed, Line DEF IInv, Silent
<1>1. ASSUME NEW v \in Judging PROVE Orderly(v)'
  <2>1. PICK w \in Verifiers : w = Of(v) /\ circ[w] \in Nat /\ count[w] \in Nat /\ (v = Vm4 => w = D) /\ (v # Vm4 => w = v)
    BY <1>0, JudgeType DEF Of
  <2>2. circ'[w] \in Nat /\ count'[w] \in Nat /\ w = Of(v)' /\ w \in Nodes
    BY <1>a, <1>0, <2>1, Fixed DEF Of, Verifiers
  <2>3. Orderly(v) /\ Keeps(w)
    BY <2>1 DEF Books, Silent
  <2>4. \/ circ'[w] > circ[w]
        \/ circ'[w] = circ[w] /\ count'[w] >= count[w] /\ (Due(v)' => Due(v) \/ count'[w] > count[w])
           /\ (v # Vm4 /\ pc[v] \in {"accept", "down"} => pc'[v] \in {"accept", "down"})
    <3>1. CASE v = Vm4
      BY <2>1, <2>2, <2>3, <3>1 DEF Keeps, Silent
    <3>2. CASE v # Vm4
      BY <2>1, <2>2, <2>3, <3>2 DEF Keeps
    <3> QED BY <3>1, <3>2
  <2>5. ASSUME NEW k \in DOMAIN log[v]
        PROVE  /\ log[v][k].c <= circ'[w]
               /\ log[v][k].c = circ'[w] => log[v][k].n <= count'[w] /\ (Due(v)' => log[v][k].n < count'[w])
               /\ log[v][k].event = "SessionEnded" => v # Vm4 /\ (log[v][k].c = circ'[w] => pc'[v] \in {"accept", "down"})
    <3>1. PICK x : x = log[v][k]
      OBVIOUS
    <3>2. x.c \in Nat /\ x.n \in Nat
      BY <1>0, <3>1, JudgeType
    <3>3. /\ x.c <= circ[w]
          /\ x.c = circ[w] => x.n <= count[w] /\ (Due(v) => x.n < count[w])
          /\ x.event = "SessionEnded" => v # Vm4 /\ (x.c = circ[w] => pc[v] \in {"accept", "down"})
      BY <2>1, <2>3, <3>1 DEF Orderly
    <3> QED BY <2>1, <2>2, <2>4, <3>1, <3>2, <3>3
  <2>6. ASSUME NEW k \in DOMAIN log[v]
        PROVE  log[v][k].n \in 1 .. MaxRounds /\ (log[v][k].event # "SessionEnded" => log[v][k].id = log[v][k].n)
    BY <2>3 DEF Orderly
  <2>7. \A j, k \in DOMAIN log[v] : log[v][j].event = "SessionEnded" /\ k > j => log[v][k].c > log[v][j].c
    BY <2>3 DEF Orderly
  <2> QED BY <1>0, <2>1, <2>2, <2>5, <2>6, <2>7 DEF Orderly
<1>2. ASSUME NEW v \in Verifiers PROVE Counting(v)' /\ Concluded(v)'
  <2>1. /\ Keeps(v) /\ Counting(v) /\ Concluded(v) /\ Orderly(v) /\ v \in Judging /\ v = Of(v) /\ v \in Nodes /\ v \in Hops
    BY <1>0, Fixed DEF Silent, Books, Judging, Of, Verifiers
  <2>2. circ[v] \in Nat /\ circ'[v] \in Nat /\ count[v] \in Nat /\ count'[v] \in Nat /\ circ[v] <= circ[0]
    BY <1>a, <2>1, Behind
  <2>3. Counting(v)'
    <3>1. v # Vm4
      BY <1>0
    <3>2. pc'[v] \in {"round", "quorum"} => count'[v] # 0
      BY <2>1, <2>2, <3>1 DEF Keeps, Counting, Due
    <3> QED BY <1>0, <2>1, <2>2, <3>2 DEF Keeps, Counting
  <2>4. Concluded(v)'
    <3> SUFFICES ASSUME faults' = 0, NEW k \in DOMAIN log[v]
                 PROVE  /\ log[v][k].event = "SessionEnded" => ~ On(log[v][k].c, 0)'
                        /\ \/ circ'[v] = log[v][k].c /\ pc'[v] # "accept"
                           \/ \E h \in DOMAIN log[v] : log[v][h].c = log[v][k].c /\ log[v][h].event = "SessionEnded"
      BY <1>0 DEF Concluded
    <3>1. PICK x : x = log[v][k]
      OBVIOUS
    <3>2. x.c \in Nat /\ x.n \in Nat /\ x.c <= circ[v] /\ x.n \in 1 .. MaxRounds /\ (x.c = circ[v] => x.n <= count[v])
      BY <1>0, <2>1, <3>1, JudgeType DEF Orderly
    <3>3. faults = 0
      BY DEF Silent
    <3>4. /\ x.event = "SessionEnded" => ~ On(x.c, 0)
          /\ \/ circ[v] = x.c /\ pc[v] # "accept"
             \/ \E h \in DOMAIN log[v] : log[v][h].c = x.c /\ log[v][h].event = "SessionEnded"
      BY <2>1, <3>1, <3>3 DEF Concluded
    <3>5. x.event = "SessionEnded" => ~ On(x.c, 0)'
      BY <1>0, <2>2, <3>2, <3>4 DEF On
    <3>6. ASSUME circ[v] = x.c, pc[v] # "accept" PROVE circ'[v] = x.c /\ pc'[v] # "accept"
      <4>1. x.n >= 1 /\ x.n <= count[v]
        BY <3>2, <3>6
      <4> QED BY <2>1, <2>2, <3>2, <3>6, <4>1 DEF Keeps
    <3>7. CASE circ[v] = x.c /\ pc[v] # "accept"
      BY <1>0, <3>1, <3>5, <3>6, <3>7 DEF On
    <3>8. CASE \E h \in DOMAIN log[v] : log[v][h].c = x.c /\ log[v][h].event = "SessionEnded"
      BY <1>0, <3>1, <3>5, <3>8 DEF On
    <3> QED BY <3>4, <3>7, <3>8
  <2> QED BY <2>3, <2>4
<1> QED BY <1>1, <1>2 DEF Books

(* The log a judge writes to stays in order. *)
LEMMA EntersOrderly ==
    ASSUME IInv, Books, TypeOK', NEW v \in Judging, NEW e, Enters(v, e),
           e.event # "SessionEnded" => e.id = e.n,
           e.event = "SessionEnded" => v # Vm4 /\ pc'[v] \in {"accept", "down"}
    PROVE  Orderly(v)'
<1>1. /\ TypeOK /\ Orderly(v) /\ e \in Entries /\ log' = [log EXCEPT ![v] = Append(@, e)]
  BY DEF IInv, Books, Enters
<1>2. PICK w \in Verifiers : w = Of(v) /\ circ[w] \in Nat /\ count[w] \in Nat /\ (v # Vm4 => w = v)
  BY <1>1, JudgeType DEF Of
<1>3. /\ w = Of(v)' /\ circ'[w] = circ[w] /\ pc[w] \notin {"accept", "down"} /\ e.c = circ[w] /\ e.n = count'[w]
      /\ count'[w] # 0 /\ count'[w] >= count[w] /\ ~ Due(v)'
  BY <1>2 DEF Of, Enters
<1>4. count'[w] \in 1 .. MaxRounds /\ count'[w] \in Nat
  <2>1. count' \in [Verifiers -> 0 .. MaxRounds]
    BY DEF TypeOK
  <2> QED BY <1>2, <1>3, <2>1, BoundAssumption
<1>m. PICK m \in Nat : Longer(v, e, m)
  BY <1>1, LastEntry
<1>5. /\ m \in DOMAIN log'[v] /\ log'[v][m] = e
      /\ \A k \in DOMAIN log[v] : k \in Nat /\ k < m /\ k \in DOMAIN log'[v] /\ log'[v][k] = log[v][k]
      /\ \A k \in DOMAIN log'[v] : k = m \/ k \in DOMAIN log[v]
  BY <1>m DEF Longer
<1>6. ASSUME NEW k \in DOMAIN log[v]
      PROVE  /\ log[v][k].c \in Nat /\ log[v][k].n \in Nat /\ log[v][k].c <= circ[w] /\ log[v][k].n \in 1 .. MaxRounds
             /\ log[v][k].c = circ[w] => log[v][k].n <= count[w]
             /\ log[v][k].event = "SessionEnded" => v # Vm4 /\ log[v][k].c # circ[w]
             /\ log[v][k].event # "SessionEnded" => log[v][k].id = log[v][k].n
  BY <1>1, <1>2, <1>3, JudgeType DEF Orderly
<1>7. ASSUME NEW k \in DOMAIN log'[v]
      PROVE  /\ log'[v][k].c <= circ[w]
             /\ log'[v][k].n \in 1 .. MaxRounds
             /\ log'[v][k].c = circ[w] => log'[v][k].n <= count'[w]
             /\ log'[v][k].event = "SessionEnded" =>
                  v # Vm4 /\ (log'[v][k].c = circ[w] => pc'[v] \in {"accept", "down"})
             /\ log'[v][k].event # "SessionEnded" => log'[v][k].id = log'[v][k].n
  <2>1. CASE k = m
    BY <1>2, <1>3, <1>4, <1>5, <2>1
  <2>2. CASE k \in DOMAIN log[v]
    <3>1. log'[v][k] = log[v][k]
      BY <1>5, <2>2
    <3> QED BY <1>2, <1>3, <1>4, <1>6, <2>2, <3>1
  <2> QED BY <1>5, <2>1, <2>2
<1>8. ASSUME NEW j \in DOMAIN log'[v], NEW k \in DOMAIN log'[v], log'[v][j].event = "SessionEnded", k > j
      PROVE  log'[v][k].c > log'[v][j].c
  <2>1. j \in DOMAIN log[v] /\ log'[v][j] = log[v][j]
    BY <1>5, <1>8
  <2>2. CASE k = m
    BY <1>2, <1>3, <1>5, <1>6, <1>8, <2>1, <2>2
  <2>3. CASE k \in DOMAIN log[v]
    <3>1. log'[v][k] = log[v][k]
      BY <1>5, <2>3
    <3> QED BY <1>1, <1>8, <2>1, <2>3, <3>1 DEF Orderly
  <2> QED BY <1>5, <2>2, <2>3
<1> QED BY <1>2, <1>3, <1>7, <1>8 DEF Orderly

(* The logs of the others, too. *)
LEMMA OthersOrderly ==
    ASSUME IInv, Books, TypeOK', NEW v \in Judging, NEW e, Enters(v, e), NEW u \in Judging, u # v,
           v = Z => quorum' = quorum, v = Vm4 => UNCHANGED <<pc, count>>
    PROVE  Orderly(u)'
<1>1. TypeOK /\ Orderly(u) /\ log'[u] = log[u] /\ circ' = circ
  <2>1. TypeOK /\ e \in Entries /\ log' = [log EXCEPT ![v] = Append(@, e)]
    BY DEF IInv, Enters
  <2> QED BY <2>1, LastEntry DEF Books, Enters
<1>2. PICK w \in Verifiers : w = Of(u) /\ w = Of(u)' /\ w \in Nodes /\ circ[w] \in Nat /\ count[w] \in Nat
  BY <1>1, JudgeType DEF Of
<1>3. /\ count'[w] >= count[w] /\ (Due(u)' => Due(u) /\ count'[w] = count[w])
      /\ u # Vm4 => pc'[u] = pc[u]
  <2>1. CASE v = Vm4
    <3>1. u # Vm4 /\ pc' = pc /\ count' = count
      BY <2>1
    <3> QED BY <1>2, <3>1 DEF Due
  <2>2. CASE v # Vm4 /\ u # Vm4
    <3>1. u \in Verifiers /\ v \in Verifiers /\ Of(v) = v /\ w = u /\ u \in Nodes
      BY <1>2, <2>2 DEF Judging, Of
    <3>2. pc'[u] = pc[u] /\ count'[u] = count[u]
      BY <3>1 DEF Enters
    <3> QED BY <1>2, <2>2, <3>1, <3>2 DEF Due
  <2>3. CASE u = Vm4 /\ v = Z
    <3>1. w = D /\ Of(v) = Z /\ D # Z /\ D \in Nodes /\ D \in Verifiers
      BY <1>2, <2>3, Fixed DEF Of
    <3>2. pc'[D] = pc[D] /\ count'[D] = count[D] /\ quorum' = quorum
      BY <2>3, <3>1 DEF Enters
    <3> QED BY <1>2, <2>3, <3>1, <3>2 DEF Due
  <2>4. CASE u = Vm4 /\ v = D
    <3>1. w = D /\ Of(v) = D /\ Vm4 # D
      BY <1>2, <2>4, Fixed DEF Of
    <3>2. pc'[D] # "quorum" /\ count'[D] >= count[D]
      BY <2>4, <3>1 DEF Enters, Due
    <3> QED BY <2>4, <3>1, <3>2 DEF Due
  <2> QED BY <2>1, <2>2, <2>3, <2>4 DEF Judging, Verifiers
<1>4. count'[w] \in Nat
  <2>1. count' \in [Verifiers -> 0 .. MaxRounds]
    BY DEF TypeOK
  <2> QED BY <1>2, <2>1, BoundAssumption
<1>5. ASSUME NEW k \in DOMAIN log[u]
      PROVE  /\ log[u][k].c <= circ[w] /\ log[u][k].n \in 1 .. MaxRounds
             /\ log[u][k].c = circ[w] => log[u][k].n <= count'[w] /\ (Due(u)' => log[u][k].n < count'[w])
             /\ log[u][k].event = "SessionEnded" => u # Vm4 /\ (log[u][k].c = circ[u] => pc[u] \in {"accept", "down"})
             /\ log[u][k].event # "SessionEnded" => log[u][k].id = log[u][k].n
  <2>1. log[u][k].n \in Nat
    BY <1>1, JudgeType
  <2> QED BY <1>1, <1>2, <1>3, <1>4, <2>1 DEF Orderly
<1>6. \A j, k \in DOMAIN log[u] : log[u][j].event = "SessionEnded" /\ k > j => log[u][k].c > log[u][j].c
  BY <1>1 DEF Orderly
<1> QED BY <1>1, <1>2, <1>3, <1>5, <1>6 DEF Orderly

(* The verifiers that do not write. *)
LEMMA OthersCount ==
    ASSUME IInv, Books, NEW v \in Judging, NEW e, Enters(v, e), NEW u \in Verifiers, u # v,
           v = Vm4 => UNCHANGED <<pc, count>>
    PROVE  Counting(u)' /\ Concluded(u)'
<1>1. log'[u] = log[u] /\ UNCHANGED <<circ, faults>>
  <2>1. TypeOK /\ e \in Entries /\ log' = [log EXCEPT ![v] = Append(@, e)] /\ u \in Judging
    BY DEF IInv, Enters, Judging
  <2> QED BY <2>1, LastEntry DEF Enters
<1>2. pc'[u] = pc[u] /\ count'[u] = count[u] /\ pc'[0] = pc[0]
  <2>1. u \in Nodes /\ 0 \in Nodes /\ Of(v) # 0
    BY Fixed, JudgeType DEF IInv, Verifiers
  <2>2. CASE v = Vm4
    BY <2>2
  <2>3. CASE v # Vm4
    BY <2>1, <2>3 DEF Enters, Of
  <2> QED BY <2>2, <2>3
<1> QED BY <1>1, <1>2 DEF Books, Counting, Concluded, On

(* A verdict is entered: the logs stay in order. *)
LEMMA JudgesBooks ==
    ASSUME IInv, Books, TypeOK', NEW v \in Judging, NEW e, Judges(v, e)
    PROVE  Books'
<1>1. /\ Enters(v, e) /\ TypeOK /\ e \in Entries /\ log' = [log EXCEPT ![v] = Append(@, e)]
      /\ v = Vm4 => UNCHANGED <<pc, count>>
  BY DEF Judges, Enters, IInv
<1>2. Orderly(v)'
  BY <1>1, EntersOrderly DEF Judges
<1>3. ASSUME NEW u \in Judging, u # v PROVE Orderly(u)'
  BY <1>1, <1>3, OthersOrderly DEF Judges
<1>4. ASSUME NEW u \in Verifiers, u # v PROVE Counting(u)' /\ Concluded(u)'
  BY <1>1, <1>4, OthersCount
<1>5. ASSUME v \in Verifiers PROVE Counting(v)' /\ Concluded(v)'
  <2>1. v = Of(v) /\ v # Vm4 /\ v \in Nodes /\ v # 0 /\ 0 \in Nodes
    BY <1>1, <1>5, Line, Fixed, JudgeType DEF Of, Verifiers
  <2>2. /\ circ' = circ /\ faults' = faults /\ pc'[0] = pc[0] /\ e.c = circ[v] /\ e.n = count'[v] /\ e.event # "SessionEnded"
        /\ pc'[v] = "relay" \/ (pc'[v] = "accept" /\ faults # 0)
    BY <2>1 DEF Judges, Enters
  <2>m. PICK m \in Nat : Longer(v, e, m)
    <3>1. TypeOK /\ e \in Entries /\ log' = [log EXCEPT ![v] = Append(@, e)]
      BY <1>1
    <3> QED BY <3>1, LastEntry
  <2>3. /\ m \in DOMAIN log'[v] /\ log'[v][m] = e
        /\ \A k \in DOMAIN log[v] : k \in Nat /\ k < m /\ k \in DOMAIN log'[v] /\ log'[v][k] = log[v][k]
        /\ \A k \in DOMAIN log'[v] : k = m \/ k \in DOMAIN log[v]
    BY <2>m DEF Longer
  <2>4. Counting(v)'
    BY <2>2, <2>3 DEF Counting
  <2>5. Concluded(v)'
    <3> SUFFICES ASSUME faults = 0, NEW k \in DOMAIN log'[v]
                 PROVE  /\ log'[v][k].event = "SessionEnded" => ~ On(log[v][k].c, 0)'
                        /\ \/ circ[v] = log'[v][k].c
                           \/ \E h \in DOMAIN log'[v] : log'[v][h].c = log'[v][k].c /\ log'[v][h].event = "SessionEnded"
      BY <2>2 DEF Concluded
    <3>1. CASE k = m
      BY <2>2, <2>3, <3>1
    <3>2. CASE k \in DOMAIN log[v]
      <4>1. log'[v][k] = log[v][k]
        BY <2>3, <3>2
      <4>2. /\ log[v][k].event = "SessionEnded" => ~ On(log[v][k].c, 0)
            /\ \/ circ[v] = log[v][k].c
               \/ \E h \in DOMAIN log[v] : log[v][h].c = log[v][k].c /\ log[v][h].event = "SessionEnded"
        BY <1>5, <3>2 DEF Books, Concluded
      <4>3. log'[v][k].event = "SessionEnded" => ~ On(log[v][k].c, 0)'
        BY <2>2, <4>1, <4>2 DEF On
      <4> QED BY <2>3, <4>1, <4>2, <4>3
    <3> QED BY <2>3, <3>1, <3>2
  <2> QED BY <2>4, <2>5
<1> QED BY <1>2, <1>3, <1>4, <1>5 DEF Books

(* The end of a circuit is entered: the logs stay in order. *)
LEMMA ClosingBooks ==
    ASSUME IInv, Books, TypeOK', NEW v \in Verifiers, NEW e, Closing(v, e)
    PROVE  Books'
<1>0. v \in Judging /\ v # Vm4 /\ Of(v) = v
  BY Line DEF Judging, Of
<1>1. /\ Enters(v, e) /\ TypeOK /\ e \in Entries /\ log' = [log EXCEPT ![v] = Append(@, e)]
      /\ pc'[v] = "accept" /\ e.event = "SessionEnded" /\ UNCHANGED <<count, quorum, circ, faults>>
      /\ e.c = circ[v] /\ (faults = 0 => ~ On(e.c, 0))
  BY <1>0 DEF Closing, Enters, IInv
<1>2. Orderly(v)'
  BY <1>0, <1>1, EntersOrderly
<1>3. ASSUME NEW u \in Judging, u # v PROVE Orderly(u)'
  BY <1>0, <1>1, <1>3, OthersOrderly
<1>4. ASSUME NEW u \in Verifiers, u # v PROVE Counting(u)' /\ Concluded(u)'
  BY <1>0, <1>1, <1>4, OthersCount
<1>5. Counting(v)'
  BY <1>1 DEF Counting
<1>6. Concluded(v)'
  <2>1. pc'[0] = pc[0]
    BY <1>0, <1>1, JudgeType, Fixed DEF Enters
  <2>m. PICK m \in Nat : Longer(v, e, m)
    <3>1. TypeOK /\ e \in Entries /\ log' = [log EXCEPT ![v] = Append(@, e)]
      BY <1>1
    <3> QED BY <1>0, <3>1, LastEntry
  <2>2. /\ m \in DOMAIN log'[v] /\ log'[v][m] = e
        /\ \A k \in DOMAIN log[v] : k \in Nat /\ k < m /\ k \in DOMAIN log'[v] /\ log'[v][k] = log[v][k]
        /\ \A k \in DOMAIN log'[v] : k = m \/ k \in DOMAIN log[v]
    BY <2>m DEF Longer
  <2> SUFFICES ASSUME faults = 0, NEW k \in DOMAIN log'[v]
               PROVE  /\ log'[v][k].event = "SessionEnded" => ~ On(log[v][k].c, 0)'
                      /\ \E h \in DOMAIN log'[v] : log'[v][h].c = log'[v][k].c /\ log'[v][h].event = "SessionEnded"
    BY <1>1 DEF Concluded
  <2>3. CASE k = m
    <3>1. ~ (circ'[0] = e.c /\ pc'[0] \notin {"accept", "down"})
      BY <1>1, <2>1 DEF On
    <3> QED BY <1>1, <2>2, <2>3, <3>1 DEF On
  <2>4. CASE k \in DOMAIN log[v]
    <3>1. log'[v][k] = log[v][k]
      BY <2>2, <2>4
    <3>2. /\ log[v][k].event = "SessionEnded" => ~ On(log[v][k].c, 0)
          /\ \/ circ[v] = log[v][k].c
             \/ \E h \in DOMAIN log[v] : log[v][h].c = log[v][k].c /\ log[v][h].event = "SessionEnded"
      BY <2>4 DEF Books, Concluded
    <3>3. log'[v][k].event = "SessionEnded" => ~ On(log[v][k].c, 0)'
      BY <1>1, <2>1, <3>1, <3>2 DEF On
    <3>4. CASE circ[v] = log[v][k].c
      BY <1>1, <2>2, <3>1, <3>3, <3>4
    <3>5. CASE \E h \in DOMAIN log[v] : log[v][h].c = log[v][k].c /\ log[v][h].event = "SessionEnded"
      BY <2>2, <3>1, <3>3, <3>5
    <3> QED BY <3>2, <3>4, <3>5
  <2> QED BY <2>2, <2>3, <2>4
<1> QED BY <1>2, <1>3, <1>4, <1>5, <1>6 DEF Books

(* One machine moves, and nothing is logged. *)
LEMMA QuietStep ==
    ASSUME IInv, NEW i \in Nodes, UNCHANGED <<mode, log>>,
           \A k \in Nodes : k # i => pc'[k] = pc[k] /\ circ'[k] = circ[k],
           \A v \in Verifiers : v # i => count'[v] = count[v],
           i \in Verifiers => Keeps(i),
           quorum' = quorum \/ quorum \in {"none", "asked"} \/ pc'[D] # "quorum",
           i = D => pc'[D] = pc[D] \/ pc'[D] # "quorum" \/ count'[D] > count[D],
           faults' = 0 => faults = 0
    PROVE  Silent
<1>1. ASSUME NEW v \in Verifiers PROVE Keeps(v)
  <2>1. CASE v = i
    BY <2>1
  <2>2. CASE v # i
    <3>1. v \in Nodes /\ TypeOK
      BY Fixed DEF Verifiers, IInv
    <3> QED BY <2>2, <3>1, StaysKept
  <2> QED BY <2>1, <2>2
<1>2. Due(Vm4)' => Due(Vm4) \/ circ'[D] > circ[D] \/ count'[D] > count[D]
  BY Fixed DEF Due
<1> QED BY <1>1, <1>2 DEF Silent

(* Nobody moves. *)
LEMMA StillQuiet ==
    ASSUME IInv, UNCHANGED <<mode, pc, circ, count, quorum, log, faults>>
    PROVE  Silent
<1>1. 0 \in Nodes /\ 0 \notin Verifiers /\ 0 # D
  BY Fixed DEF Verifiers
<1> QED BY <1>1, QuietStep

(* A machine goes from one place in its loop to another. *)
LEMMA GotoQuiet ==
    ASSUME IInv, NEW i \in Nodes, NEW where, Goto(i, where), UNCHANGED <<mode, circ, count, quorum, log>>,
           i \in Verifiers =>
             /\ where \notin {"round", "quorum"}
             /\ pc[i] \notin {"accept", "down"} \/ where = "accept"
             /\ count[i] = 0 \/ (where = "accept" /\ faults' # 0),
           faults' = 0 => faults = 0
    PROVE  Silent
<1>1. pc'[i] = where /\ \A k \in Nodes : k # i => pc'[k] = pc[k]
  BY DEF Goto, IInv, TypeOK
<1>2. ASSUME i \in Verifiers PROVE Keeps(i)
  <2>1. count[i] \in Nat /\ i # Vm4
    BY <1>2, Line, BoundAssumption DEF IInv, TypeOK
  <2> QED BY <1>1, <1>2, <2>1 DEF Keeps, Due
<1>3. i = D => pc'[D] # "quorum"
  BY <1>1, Fixed
<1> QED BY <1>1, <1>2, <1>3, QuietStep

(* A verifier has counted nothing before its circuit is there. *)
LEMMA NoneCounted ==
    ASSUME Books, NEW v \in Verifiers, pc[v] \in {"extend", "connect", "extended"}
    PROVE  count[v] = 0
BY DEF Books, Counting

(* vm1's own steps. *)
LEMMA Vm1Quiet ==
    ASSUME IInv, Establish \/ Heartbeat \/ Drop \/ Vm1
    PROVE  Silent
<1>0. 0 \in Nodes /\ 0 \notin Verifiers /\ 0 # D
  BY Fixed DEF Verifiers
<1>1. CASE Establish
  <2>1. \A k \in Nodes : k # 0 => pc'[k] = pc[k] /\ circ'[k] = circ[k]
    BY <1>1 DEF Establish, Goto, IInv, TypeOK
  <2> QED BY <1>0, <1>1, <2>1, QuietStep DEF Establish
<1>2. CASE Heartbeat \/ Drop \/ Chain1Complete \/ Vm1Result
  <2>1. /\ UNCHANGED <<mode, circ, count, quorum, log, faults>>
        /\ \E where : Goto(0, where)
    BY <1>2 DEF Heartbeat, Drop, Chain1Complete, Vm1Result, BeginRound, Leave
  <2> QED BY <1>0, <2>1, GotoQuiet
<1>3. CASE ExtendNext(0) \/ RoundNext(0)
  BY <1>3, StillQuiet DEF ExtendNext, RoundNext
<1> QED BY <1>1, <1>2, <1>3 DEF Vm1

(* The steps of a proxy. *)
LEMMA ProxyQuiet ==
    ASSUME IInv, NEW i \in Proxies, Proxy(i)
    PROVE  Silent
<1>0. i \in Nodes /\ i \notin Verifiers
  BY HopNode DEF Proxies
<1>1. CASE RelayAttest(i)
  BY <1>1, StillQuiet DEF RelayAttest
<1>2. CASE RelayExtend(i) \/ RelayForward(i) \/ RelayBack(i)
  <2>1. UNCHANGED <<mode, circ, count, quorum, log, faults>>
    BY <1>2 DEF RelayExtend, RelayForward, RelayBack
  <2>2. \E where : Goto(i, where)
    BY <1>2 DEF RelayExtend, RelayForward, RelayBack, Leave
  <2> QED BY <1>0, <2>1, <2>2, GotoQuiet
<1> QED BY <1>1, <1>2 DEF Proxy

(* A machine serves a connection, makes one, or gives a circuit up silently. *)
LEMMA ServeQuiet ==
    ASSUME IInv, EInv, NEW i \in Hops,
           \/ \E c \in Circuits : Accept(i, c)
           \/ \E error \in BOOLEAN : ServeExtend(i, error)
           \/ UpstreamLost(i) /\ log' = log
    PROVE  Silent
<1>0. i \in Nodes /\ Net /\ Books /\ TypeOK /\ i # Vm4
  BY HopNode, Line DEF EInv, IInv
<1>1. CASE \E c \in Circuits : Accept(i, c)
  <2>1. circ'[i] > circ[i] /\ pc[i] = "accept" /\ pc'[i] = "extend"
    BY <1>0, <1>1, AcceptNet
  <2>2. \A k \in Nodes : k # i => pc'[k] = pc[k] /\ circ'[k] = circ[k]
    BY <1>0, <1>1 DEF Accept, Goto, TypeOK
  <2>3. UNCHANGED <<mode, quorum, log, faults>> /\ count' = [v \in Verifiers |-> IF v = i THEN 0 ELSE count[v]]
    BY <1>1 DEF Accept
  <2>4. i \in Verifiers => Keeps(i)
    BY <2>1, <2>3 DEF Keeps
  <2>5. i = D => pc'[D] # "quorum"
    BY <2>1
  <2> QED BY <1>0, <2>2, <2>3, <2>4, <2>5, QuietStep
<1>2. CASE \E error \in BOOLEAN : ServeExtend(i, error)
  <2>1. UNCHANGED <<mode, circ, count, quorum, log, faults>> /\ pc[i] = "extend"
    BY <1>2 DEF ServeExtend
  <2>2. \E where \in {"accept", "connect", "relay"} : Goto(i, where)
    BY <1>2 DEF ServeExtend, Leave
  <2>3. i \in Verifiers => count[i] = 0
    BY <1>0, <2>1, NoneCounted
  <2> QED BY <1>0, <2>1, <2>2, <2>3, GotoQuiet
<1>3. CASE UpstreamLost(i) /\ log' = log
  <2>1. UNCHANGED <<mode, circ, count, quorum, log, faults>> /\ pc[i] \in {"extend", "relay"} /\ Goto(i, "accept")
    BY <1>3 DEF UpstreamLost, Leave
  <2>2. ASSUME i \in Verifiers PROVE count[i] = 0
    <3>1. count[i] \in Nat
      BY <1>0, <2>2, BoundAssumption DEF TypeOK
    <3>2. CASE pc[i] = "extend"
      BY <1>0, <2>2, <3>2, NoneCounted
    <3>3. CASE pc[i] = "relay" /\ count[i] > 0
      <4>1. PICK e : log' = [log EXCEPT ![i] = Append(@, e)]
        BY <1>3, <2>2, <3>3 DEF UpstreamLost
      <4>2. i \in Verifiers \cup {Vm4} /\ log[i] \in Seq(Entries) /\ log \in [Verifiers \cup {Vm4} -> Seq(Entries)]
        BY <1>0, <2>2 DEF TypeOK
      <4>3. log'[i] = Append(log[i], e)
        BY <4>1, <4>2
      <4>4. Len(Append(log[i], e)) = Len(log[i]) + 1 /\ Len(log[i]) \in Nat
        BY <4>2
      <4> QED BY <2>1, <4>3, <4>4
    <3> QED BY <2>1, <3>1, <3>2, <3>3
  <2> QED BY <1>0, <2>1, <2>2, GotoQuiet
<1> QED BY <1>1, <1>2, <1>3

(* Connecting, and finding the next hop gone. *)
LEMMA ConnectQuiet ==
    ASSUME IInv, EInv, NEW i \in 0 .. D - 1, Connect(i) \/ DownstreamLost(i)
    PROVE  Silent
<1>0. i \in Nodes /\ Net /\ Books
  BY LineAssumption DEF EInv, Nodes, Vm4
<1>1. CASE Connect(i)
  <2>1. UNCHANGED <<mode, circ, count, quorum, log, faults>> /\ pc[i] = "connect" /\ Goto(i, "extended")
    BY <1>1 DEF Connect
  <2>2. i \in Verifiers => count[i] = 0
    BY <1>0, <2>1, NoneCounted
  <2> QED BY <1>0, <2>1, <2>2, GotoQuiet
<1>2. CASE DownstreamLost(i)
  <2>1. UNCHANGED <<mode, circ, count, quorum, log, faults>> /\ Goto(i, "accept") /\ faults # 0
    BY <1>0, <1>2, DownstreamLostNet DEF DownstreamLost, Leave
  <2> QED BY <1>0, <2>1, GotoQuiet
<1> QED BY <1>1, <1>2

(* Faults and repairs. *)
LEMMA FaultQuiet ==
    ASSUME IInv, EInv,
           (\E i \in 0 .. D : QuoteFails(i)) \/ (\E i \in Nodes : Crash(i) \/ Restart(i)) \/ (\E error \in BOOLEAN : AskVm4(error))
    PROVE  Silent
<1>0. Net /\ Books /\ TypeOK /\ D \in Nodes /\ 0 \in Nodes /\ 0 \notin Verifiers /\ 0 # D
  BY Fixed DEF EInv, IInv, Verifiers
<1>1. ASSUME NEW i \in 0 .. D, QuoteFails(i) PROVE Silent
  <2>1. UNCHANGED <<mode, circ, count, quorum, log>> /\ Goto(i, "accept") /\ faults' # 0 /\ i \in Nodes
    BY <1>0, <1>1, QuoteFailsNet, LineNodes DEF QuoteFails, Leave
  <2> QED BY <2>1, GotoQuiet
<1>2. ASSUME NEW i \in Nodes, Restart(i) PROVE Silent
  <2>1. UNCHANGED <<mode, circ, count, quorum, log>> /\ Goto(i, "accept") /\ faults' # 0
    BY <1>0, <1>2, RestartNet DEF Restart
  <2> QED BY <2>1, GotoQuiet
<1>3. ASSUME NEW i \in Nodes, Crash(i) PROVE Silent
  <2>1. /\ UNCHANGED <<mode, circ, count, log>> /\ faults' # 0 /\ pc'[i] = "down"
        /\ \A k \in Nodes : k # i => pc'[k] = pc[k]
    BY <1>0, <1>3, CrashNet DEF Crash, Goto, TypeOK
  <2>2. quorum' = quorum \/ quorum \in {"none", "asked"} \/ pc'[D] # "quorum"
    BY <1>3, <2>1 DEF Crash
  <2>3. ASSUME i \in Verifiers PROVE Keeps(i)
    <3>1. count[i] \in Nat /\ i # Vm4
      BY <1>0, <2>3, Line, BoundAssumption DEF TypeOK
    <3> QED BY <2>1, <3>1 DEF Keeps, Due
  <2>4. i = D => pc'[D] # "quorum"
    BY <2>1
  <2> QED BY <2>1, <2>2, <2>3, <2>4, QuietStep
<1>4. ASSUME NEW error \in BOOLEAN, AskVm4(error) PROVE Silent
  <2>1. UNCHANGED <<mode, pc, circ, count, log>> /\ quorum \in {"none", "asked"}
    BY <1>4 DEF AskVm4
  <2>2. faults \in Nat
    BY <1>0, BoundAssumption DEF TypeOK
  <2>3. faults' = 0 => faults = 0
    BY <1>4, <2>2 DEF AskVm4, Fault
  <2> QED BY <1>0, <2>1, <2>3, QuietStep
<1> QED BY <1>1, <1>2, <1>3, <1>4

(* A result that is logged and sent is a verdict. *)
LEMMA AnswerJudges ==
    ASSUME IInv, NEW v \in Verifiers, circ[v] \in Circuits, pc[v] \notin {"accept", "down"},
           NEW l, NEW res \in Response, NEW n \in Nat, NEW error \in BOOLEAN, Answer(v, l, n, res, error),
           n = count'[v], n = res.id, n # 0, n >= count[v], Due(v) \/ n > count[v],
           \A u \in Verifiers : u # v => count'[u] = count[u],
           UNCHANGED <<mode, circ, round, faults>>, error => faults # 0, v = Z => quorum' = quorum,
           v = Z /\ mode # "chain1" => Noted(circ[v], D, res),
           v = D /\ mode = "quorum" /\ res.ok => \E k \in DOMAIN log[Vm4] :
             log[Vm4][k].c = circ[v] /\ log[Vm4][k].n = n /\ log[Vm4][k].event \in Positive
    PROVE  \E e : Judges(v, e)
<1>0. TypeOK /\ v \in Nodes /\ v # Vm4 /\ Of(v) = v /\ v \in Judging /\ res.ok \in BOOLEAN /\ D # Z
  BY Fixed, Line DEF IInv, Verifiers, Judging, Of, Response
<1>1. PICK ev : ev = Event(v, res.ok)
  OBVIOUS
<1>2. ev \in Events /\ ev # "SessionEnded" /\ (ev \in Positive <=> res.ok)
  BY <1>0, <1>1, EventType
<1>3. PICK e : e = Entry(v, n, res, ev)
  OBVIOUS
<1>4. e \in Entries /\ e.c = circ[v] /\ e.n = n /\ e.id = n /\ e.event = ev /\ e.clean = res.clean
  BY <1>0, <1>2, <1>3, EntryType
<1>5. log' = [log EXCEPT ![v] = Append(@, e)]
  BY <1>1, <1>3 DEF Answer
<1>6. pc'[v] = (IF error THEN "accept" ELSE "relay") /\ \A k \in Nodes : k # v => pc'[k] = pc[k]
  BY <1>0 DEF Answer, Leave, Goto, TypeOK
<1>7. Enters(v, e)
  BY <1>0, <1>4, <1>5, <1>6 DEF Enters, Due
<1>8. v = Z /\ mode # "chain1" => \E k \in DOMAIN log[D] :
         /\ log[D][k].c = e.c /\ log[D][k].n = e.n /\ log[D][k].clean = e.clean
         /\ log[D][k].event # "SessionEnded" /\ (log[D][k].event \in Positive <=> e.event \in Positive)
  BY <1>2, <1>4 DEF Noted
<1>9. v = D /\ mode = "quorum" /\ e.event \in Positive => \E k \in DOMAIN log[Vm4] :
         log[Vm4][k].c = e.c /\ log[Vm4][k].n = e.n /\ log[Vm4][k].event \in Positive
  BY <1>2, <1>4
<1>10. /\ e.event # "SessionEnded" /\ e.id = e.n
       /\ Due(v) \/ count'[Of(v)] > count[Of(v)]
       /\ pc'[v] = "relay" \/ (pc'[v] = "accept" /\ faults # 0)
  BY <1>0, <1>2, <1>4, <1>6
<1>11. Judges(v, e)
  BY <1>0, <1>7, <1>8, <1>9, <1>10 DEF Judges
<1> QED BY <1>11

(* vm2 takes a submission. *)
LEMMA Vm2SubmissionKind ==
    ASSUME IInv, Net, NEW clean \in BOOLEAN, NEW error \in BOOLEAN, Vm2Submission(clean, error)
    PROVE  Silent \/ \E e : Judges(Z, e)
<1>0. /\ Z \in Verifiers /\ Z \in 0 .. D /\ Z \in Nodes /\ 0 \in Bases /\ End(0) = Z /\ pc[Z] = "relay" /\ Z # D /\ Z # Vm4
      /\ TypeOK
  BY Fixed, BaseOf DEF Vm2Submission, IInv
<1>1. PICK c \in Circuits : c = circ[Z] /\ On(c, Z) /\ Circuit(c) /\ link \in Links
  BY <1>0, Working
<1>2. link[<<c, Z>>].down # <<>> /\ Cell1(c, Z).type = "ChainSubmission" /\ In(Z) = <<c, Z>>
  BY <1>1 DEF Vm2Submission, HasCell, In, Cell1
<1>3. PICK q : q = Cell1(c, Z).res
  OBVIOUS
<1>4. q \in Response /\ q.id \in 1 .. MaxRounds /\ count[Z] = q.id - 1
  BY <1>0, <1>1, <1>2, <1>3, Submitted
<1>5. q.id \in Nat /\ q.id # 0 /\ q.id = count[Z] + 1 /\ count[Z] \in Nat /\ q.id > count[Z] /\ q.id >= count[Z]
  BY <1>0, <1>4, BoundAssumption DEF TypeOK
<1>6. PICK res : res = VerifyChain(q.id, active, clean)
  OBVIOUS
<1>7. res \in Response /\ res.id = q.id /\ res.ok /\ res = VerifyChain(Head(link[In(Z)].down).res.id, active, clean)
  BY <1>2, <1>3, <1>5, <1>6, VerifyChainIs DEF Cell1
<1>8. /\ UNCHANGED <<mode, circ, round, quorum, faults>>
      /\ count'[Z] = q.id /\ \A u \in Verifiers : u # Z => count'[u] = count[u]
  BY <1>0, <1>5 DEF Vm2Submission, TypeOK
<1>9. CASE mode # "chain1"
  <2>1. log' = log /\ Goto(Z, "round")
    BY <1>7, <1>9 DEF Vm2Submission, BeginRound
  <2>2. pc'[Z] = "round" /\ \A k \in Nodes : k # Z => pc'[k] = pc[k]
    BY <1>0, <2>1 DEF Goto, TypeOK
  <2>3. Keeps(Z)
    BY <1>0, <1>5, <1>8, <2>2 DEF Keeps, Due
  <2> QED BY <1>0, <1>8, <2>1, <2>2, <2>3, QuietStep
<1>10. CASE mode = "chain1"
  <2>1. Answer(Z, TakeCell(link, Z), q.id, res, error)
    BY <1>5, <1>7, <1>10 DEF Vm2Submission
  <2>2. error => faults # 0
    BY Vm2SubmissionNet
  <2> QED BY <1>0, <1>1, <1>5, <1>7, <1>8, <1>10, <2>1, <2>2, AnswerJudges
<1> QED BY <1>9, <1>10

(* vm2 has vm3's result. *)
LEMMA Vm2ResultKind ==
    ASSUME IInv, Net, NEW error \in BOOLEAN, Vm2Result(error)
    PROVE  \E e : Judges(Z, e)
<1>0. Z \in Verifiers /\ Z \in 0 .. D /\ Z + 1 \in Hops /\ pc[Z] = "round" /\ Z # D /\ Z # Vm4 /\ Z \in Bases /\ TypeOK
  BY Fixed DEF Vm2Result, IInv
<1>1. PICK c \in Circuits : c = circ[Z] /\ On(c, Z) /\ Circuit(c) /\ link \in Links
  BY <1>0, Working
<1>2. link[<<c, Z + 1>>].up # <<>> /\ Out(Z) = <<c, Z + 1>> /\ depth[Z] = Last(Z)
  BY <1>1 DEF Vm2Result, HasReply, Out
<1>3. PICK res : res = Reply1(c, Z + 1).res
  OBVIOUS
<1>4. res \in Response /\ res.id = count[Z] /\ Backed(c, res)
  BY <1>0, <1>1, <1>2, <1>3, Vm3IsNoted
<1>5. count[Z] \in Nat /\ count[Z] # 0
  <2>1. Tally(c, Z)
    BY <1>0, <1>1 DEF Circuit, Counts
  <2>2. count[Z] \in Nat
    BY <1>0, BoundAssumption DEF TypeOK
  <2> QED BY <1>0, <1>1, <2>1, <2>2, Fixed DEF Tally, Asked
<1>6. /\ Answer(Z, TakeReply(link, Z), count[Z], res, error)
      /\ UNCHANGED <<mode, circ, round, quorum, faults, count>>
  BY <1>2, <1>3 DEF Vm2Result, Reply1
<1>7. error => faults # 0
  BY Vm2ResultNet
<1>8. Noted(circ[Z], D, res) /\ Due(Z)
  BY <1>0, <1>1, <1>4 DEF Backed, Due
<1>9. count[Z] >= count[Z]
  BY <1>5
<1> QED BY <1>0, <1>1, <1>4, <1>5, <1>6, <1>7, <1>8, <1>9, AnswerJudges

(* vm3 takes a submission. *)
LEMMA Vm3SubmissionKind ==
    ASSUME IInv, Net, NEW clean \in BOOLEAN, NEW error \in BOOLEAN, Vm3Submission(clean, error)
    PROVE  Silent \/ \E e : Judges(D, e)
<1>0. /\ D \in Verifiers /\ D \in 0 .. D /\ D \in Nodes /\ Z \in Bases /\ End(Z) = D /\ pc[D] = "relay" /\ Z # D /\ D # Vm4
      /\ TypeOK
  BY Fixed, BaseOf DEF Vm3Submission, IInv
<1>1. PICK c \in Circuits : c = circ[D] /\ On(c, D) /\ Circuit(c) /\ link \in Links
  BY <1>0, Working
<1>2. link[<<c, D>>].down # <<>> /\ Cell1(c, D).type = "ChainSubmission" /\ In(D) = <<c, D>>
  BY <1>1 DEF Vm3Submission, HasCell, In, Cell1
<1>3. PICK q : q = Cell1(c, D).res
  OBVIOUS
<1>4. q \in Response /\ q.id \in 1 .. MaxRounds /\ count[D] = q.id - 1
  BY <1>0, <1>1, <1>2, <1>3, Submitted
<1>5. q.id \in Nat /\ q.id # 0 /\ q.id = count[D] + 1 /\ count[D] \in Nat /\ q.id > count[D] /\ q.id >= count[D]
  BY <1>0, <1>4, BoundAssumption DEF TypeOK
<1>6. PICK res : res = VerifyFull(q, clean)
  OBVIOUS
<1>7. res \in Response /\ res.id = q.id /\ res = VerifyFull(Head(link[In(D)].down).res, clean)
  BY <1>2, <1>3, <1>4, <1>6, VerifyFullIs DEF Cell1
<1>8. /\ UNCHANGED <<mode, circ, round, quorum, faults>>
      /\ count'[D] = q.id /\ \A u \in Verifiers : u # D => count'[u] = count[u]
  BY <1>0, <1>5 DEF Vm3Submission, TypeOK
<1>9. CASE mode = "quorum"
  <2>1. log' = log /\ Goto(D, "quorum")
    BY <1>9 DEF Vm3Submission
  <2>2. pc'[D] = "quorum" /\ \A k \in Nodes : k # D => pc'[k] = pc[k]
    BY <1>0, <2>1 DEF Goto, TypeOK
  <2>3. Keeps(D)
    BY <1>0, <1>5, <1>8, <2>2 DEF Keeps, Due
  <2> QED BY <1>0, <1>5, <1>8, <2>1, <2>2, <2>3, QuietStep
<1>10. CASE mode # "quorum"
  <2>1. Answer(D, TakeCell(link, D), q.id, res, error)
    BY <1>5, <1>7, <1>10 DEF Vm3Submission
  <2>2. error => faults # 0
    BY Vm3SubmissionNet
  <2> QED BY <1>0, <1>1, <1>5, <1>7, <1>8, <1>10, <2>1, <2>2, AnswerJudges
<1> QED BY <1>9, <1>10

(* vm3 has what vm4 says. *)
LEMMA Vm3QuorumKind ==
    ASSUME IInv, Net, Books, NEW error \in BOOLEAN, Vm3Quorum(error)
    PROVE  \E e : Judges(D, e)
<1>0. D \in Verifiers /\ D \in 0 .. D /\ pc[D] = "quorum" /\ Z # D /\ D # Vm4 /\ TypeOK /\ Talk /\ Vm4 \in Judging
  BY Fixed DEF Vm3Quorum, IInv, Judging
<1>1. PICK c \in Circuits : c = circ[D] /\ On(c, D) /\ Circuit(c) /\ link \in Links
  BY <1>0, Working
<1>2. PICK res : res = IF quorum = "approved" THEN work[D] ELSE [work[D] EXCEPT !.ok = FALSE, !.status = "Denied"]
  OBVIOUS
<1>3. work[D] \in Response
  BY <1>0 DEF TypeOK
<1>4. res \in Response /\ res.id = work[D].id /\ (res.ok => quorum = "approved")
  BY <1>2, <1>3 DEF Response, Status
<1>5. count[D] \in Nat /\ count[D] # 0 /\ res.id = count[D] /\ count[D] >= count[D]
  <2>1. count[D] \in Nat /\ res.id = count[D]
    BY <1>0, <1>4, BoundAssumption DEF TypeOK, Talk
  <2>2. count[D] # 0
    BY <1>0 DEF Books, Counting
  <2> QED BY <2>1, <2>2
<1>6. Answer(D, link, count[D], res, error) /\ UNCHANGED <<mode, circ, round, faults, count>>
  BY <1>2 DEF Vm3Quorum
<1>7. error => faults # 0
  BY Vm3QuorumNet
<1>8. res.ok => \E k \in DOMAIN log[Vm4] :
         log[Vm4][k].c = circ[D] /\ log[Vm4][k].n = count[D] /\ log[Vm4][k].event \in Positive
  <2> SUFFICES ASSUME quorum = "approved"
               PROVE  \E k \in DOMAIN log[Vm4] :
                         log[Vm4][k].c = circ[D] /\ log[Vm4][k].n = count[D] /\ log[Vm4][k].event \in Positive
    BY <1>4
  <2>1. PICK k \in DOMAIN log[Vm4] : /\ log[Vm4][k].c = circ[D] /\ log[Vm4][k].id = work[D].id
                                     /\ log[Vm4][k].event = "ChainVerified"
    BY <1>0 DEF Talk
  <2>2. Orderly(Vm4)
    BY <1>0 DEF Books
  <2>3. log[Vm4][k].n = count[D]
    BY <1>0, <2>1, <2>2 DEF Orderly, Talk
  <2> QED BY <2>1, <2>3 DEF Positive
<1>9. Due(D)
  BY <1>0 DEF Due
<1> QED BY <1>0, <1>1, <1>4, <1>5, <1>6, <1>7, <1>8, <1>9, AnswerJudges

(* vm4 decides. *)
LEMMA Vm4DecidesKind ==
    ASSUME IInv, Books, NEW vm3_ok \in BOOLEAN, Vm4Decides(vm3_ok)
    PROVE  \E e : Judges(Vm4, e)
<1>1. TypeOK /\ Talk /\ Vm4 # D /\ Vm4 # Z /\ D \in Verifiers /\ D \in 0 .. D /\ Of(Vm4) = D
  BY Fixed DEF IInv, Of
<1>2. pc[D] = "quorum" /\ quorum = "asked" /\ work[D].id = count[D]
  BY <1>1 DEF Vm4Decides, Talk
<1>3. circ[D] \in Circuits
  BY <1>1, <1>2, Working
<1>4. work[D] \in Response /\ work[D].ok \in BOOLEAN /\ count[D] \in Nat /\ count[D] # 0 /\ count[D] >= count[D]
  <2>1. work[D] \in Response /\ work[D].ok \in BOOLEAN /\ count[D] \in Nat
    BY <1>1, BoundAssumption DEF TypeOK, Response
  <2>2. count[D] # 0
    BY <1>1, <1>2 DEF Books, Counting
  <2> QED BY <2>1, <2>2
<1>5. PICK approved \in BOOLEAN : approved = (vm3_ok /\ work[D].ok)
  OBVIOUS
<1>6. PICK ev : ev = Event(D, approved)
  OBVIOUS
<1>7. ev \in Events /\ ev # "SessionEnded"
  BY <1>1, <1>5, <1>6, EventType
<1>8. PICK e : e = Entry(D, count[D], work[D], ev)
  OBVIOUS
<1>9. e \in Entries /\ e.c = circ[D] /\ e.n = count[D] /\ e.id = count[D] /\ e.event = ev
  BY <1>1, <1>2, <1>3, <1>4, <1>7, <1>8, EntryType
<1>10. /\ quorum' \in {"approved", "denied"}
       /\ log' = [log EXCEPT ![Vm4] = Append(@, e)]
       /\ UNCHANGED <<mode, pc, circ, round, count, faults>>
  BY <1>5, <1>6, <1>8 DEF Vm4Decides
<1>11. Due(Vm4) /\ ~ Due(Vm4)'
  BY <1>2, <1>10 DEF Due
<1>12. Enters(Vm4, e)
  BY <1>1, <1>2, <1>4, <1>9, <1>10, <1>11 DEF Enters
<1>13. Judges(Vm4, e)
  BY <1>1, <1>7, <1>9, <1>10, <1>11, <1>12 DEF Judges
<1> QED BY <1>13

(* A machine finds its upstream gone. *)
LEMMA UpstreamLostKind ==
    ASSUME IInv, EInv, NEW i \in Hops, UpstreamLost(i)
    PROVE  Silent \/ (i \in Verifiers /\ \E e : Closing(i, e))
<1>0. Net /\ TypeOK /\ i \in Nodes /\ i # Vm4 /\ i \in 0 .. D
  BY HopNode, Line DEF EInv, IInv
<1>1. CASE log' = log
  BY <1>1, ServeQuiet
<1>2. CASE i \in Verifiers /\ pc[i] = "relay" /\ count[i] > 0
  <2>1. circ[i] \in Circuits
    BY <1>0, <1>2, Working
  <2>2. count[i] \in Nat /\ count[i] # 0 /\ count[i] >= count[i]
    BY <1>0, <1>2, BoundAssumption DEF TypeOK
  <2>3. PICK e : e = Entry(i, count[i], Blank, "SessionEnded")
    OBVIOUS
  <2>4. Blank \in Response /\ Blank.id = 0 /\ Blank.clean = TRUE /\ "SessionEnded" \in Events
    BY SubmissionType DEF Blank, Submission, Response, Status, Events
  <2>5. e \in Entries /\ e.c = circ[i] /\ e.n = count[i] /\ e.id = 0 /\ e.event = "SessionEnded" /\ e.clean = TRUE
    BY <1>0, <1>2, <2>1, <2>2, <2>3, <2>4, EntryType
  <2>6. /\ log' = [log EXCEPT ![i] = Append(@, e)] /\ Goto(i, "accept")
        /\ UNCHANGED <<mode, circ, round, count, quorum, faults>>
    BY <1>2, <2>3 DEF UpstreamLost, Leave
  <2>7. pc'[i] = "accept" /\ \A k \in Nodes : k # i => pc'[k] = pc[k]
    BY <1>0, <2>6 DEF Goto, TypeOK
  <2>8. faults = 0 => ~ On(e.c, 0)
    BY <1>0, <2>5, UpstreamLostNet
  <2>9. Of(i) = i /\ ~ Due(i)'
    BY <1>0, <2>7 DEF Of, Due
  <2>10. Enters(i, e)
    BY <1>2, <2>2, <2>5, <2>6, <2>7, <2>9 DEF Enters
  <2>11. Closing(i, e)
    BY <1>2, <2>5, <2>6, <2>7, <2>8, <2>10 DEF Closing
  <2> QED BY <1>2, <2>11
<1> QED BY <1>1, <1>2 DEF UpstreamLost

(* A step is silent, enters a verdict, or ends a circuit. *)
LEMMA Kinds ==
    ASSUME IInv, EInv, Next
    PROVE  Silent \/ (\E v \in Judging : \E e : Judges(v, e)) \/ (\E v \in Verifiers : \E e : Closing(v, e))
<1>0. Net /\ Books /\ Z \in Judging /\ D \in Judging /\ Vm4 \in Judging
  BY Fixed DEF EInv, Judging
<1>1. CASE Establish \/ Heartbeat \/ Drop \/ Vm1
  BY <1>1, Vm1Quiet
<1>2. CASE Chain2Complete
  <2>1. UNCHANGED <<mode, circ, count, quorum, log, faults>> /\ pc[Z] = "extended" /\ Goto(Z, "relay")
    BY <1>2 DEF Chain2Complete
  <2>2. count[Z] = 0 /\ Z \in Nodes
    BY <1>0, <2>1, Fixed, NoneCounted
  <2> QED BY <2>1, <2>2, GotoQuiet
<1>3. CASE ExtendNext(Z) \/ RoundNext(Z)
  BY <1>3, StillQuiet DEF ExtendNext, RoundNext
<1>4. CASE Vm2
  BY <1>0, <1>2, <1>3, <1>4, Vm2SubmissionKind, Vm2ResultKind DEF Vm2
<1>5. CASE Vm3
  BY <1>0, <1>5, FaultQuiet, Vm3SubmissionKind, Vm3QuorumKind DEF Vm3
<1>6. CASE \E ok \in BOOLEAN : Vm4Decides(ok)
  BY <1>0, <1>6, Vm4DecidesKind
<1>7. CASE \E i \in Proxies : Proxy(i)
  BY <1>7, ProxyQuiet
<1>8. CASE \E i \in Hops : Serve(i)
  BY <1>8, ServeQuiet, UpstreamLostKind DEF Serve
<1>9. CASE \E i \in 0 .. D - 1 : Connect(i) \/ DownstreamLost(i)
  BY <1>9, ConnectQuiet
<1>10. CASE AskVm4(TRUE) \/ (\E i \in 0 .. D : QuoteFails(i)) \/ (\E i \in Nodes : Crash(i) \/ Restart(i))
  BY <1>10, FaultQuiet
<1> QED BY <1>1, <1>4, <1>5, <1>6, <1>7, <1>8, <1>9, <1>10 DEF Next, Program

(* The steps that are vm1's. *)
Vm1Acts ==
    \/ Establish \/ Heartbeat \/ Drop \/ Chain1Complete \/ Vm1Result
    \/ Connect(0) \/ DownstreamLost(0) \/ QuoteFails(0) \/ Crash(0) \/ Restart(0)

(* vm1 does nothing, as far as anybody can see. *)
Vm1Waits == pc'[0] = pc[0] /\ circ'[0] = circ[0] /\ round' = round

(* Another machine goes somewhere: vm1 stays where it is. *)
LEMMA GoesElsewhere ==
    ASSUME TypeOK, NEW i \in Nodes, i # 0, NEW where, Goto(i, where)
    PROVE  pc'[0] = pc[0]
BY Fixed DEF Goto, TypeOK

(* A verifier that answers goes somewhere. *)
LEMMA AnswerGoto ==
    ASSUME NEW v, NEW l, NEW n, NEW res, NEW error, Answer(v, l, n, res, error)
    PROVE  \E where : Goto(v, where)
BY DEF Answer, Leave

(* Nobody else touches vm1's state. *)
LEMMA Vm1Only ==
    ASSUME IInv, Next
    PROVE  Vm1Acts \/ Vm1Waits
<1>0. /\ TypeOK /\ 0 \in Nodes /\ Z \in Nodes /\ D \in Nodes /\ Z # 0 /\ D # 0
      /\ \A i \in Hops : i \in Nodes /\ i # 0
      /\ \A i \in Proxies : i \in Nodes /\ i # 0
      /\ \A i \in 0 .. D - 1 : i \in Nodes
      /\ \A i \in 0 .. D : i \in Nodes
  <2>1. \A i \in 0 .. D - 1 : i \in 0 .. D
    BY LineAssumption
  <2> QED BY <2>1, Fixed, HopNode, LineNodes, Line, ZenonT(60) DEF IInv
<1>1. CASE Establish \/ Heartbeat \/ Drop \/ Chain1Complete \/ Vm1Result
  BY <1>1 DEF Vm1Acts
<1>2. CASE \E b \in Bases : ExtendNext(b) \/ RoundNext(b)
  BY <1>2 DEF ExtendNext, RoundNext, Vm1Waits
<1>3. CASE Vm1
  BY <1>1, <1>2, <1>3, Fixed DEF Vm1
<1>4. CASE Chain2Complete
  BY <1>0, <1>4, GoesElsewhere DEF Chain2Complete, Vm1Waits
<1>5. ASSUME NEW clean, NEW error, Vm2Submission(clean, error) PROVE Vm1Waits
  <2>1. circ' = circ /\ round' = round
    BY <1>5 DEF Vm2Submission
  <2>2. \E where : Goto(Z, where)
    BY <1>5, AnswerGoto DEF Vm2Submission, BeginRound
  <2> QED BY <1>0, <2>1, <2>2, GoesElsewhere DEF Vm1Waits
<1>6. ASSUME NEW error, Vm2Result(error) PROVE Vm1Waits
  <2>1. circ' = circ /\ round' = round
    BY <1>6 DEF Vm2Result
  <2>2. \E where : Goto(Z, where)
    BY <1>6, AnswerGoto DEF Vm2Result
  <2> QED BY <1>0, <2>1, <2>2, GoesElsewhere DEF Vm1Waits
<1>7. CASE Vm2
  BY <1>2, <1>4, <1>5, <1>6, <1>7, Fixed DEF Vm2
<1>8. ASSUME NEW clean, NEW error, Vm3Submission(clean, error) PROVE Vm1Waits
  <2>1. circ' = circ /\ round' = round
    BY <1>8 DEF Vm3Submission
  <2>2. \E where : Goto(D, where)
    BY <1>8, AnswerGoto DEF Vm3Submission
  <2> QED BY <1>0, <2>1, <2>2, GoesElsewhere DEF Vm1Waits
<1>9. ASSUME NEW error, Vm3Quorum(error) PROVE Vm1Waits
  <2>1. circ' = circ /\ round' = round
    BY <1>9 DEF Vm3Quorum
  <2>2. \E where : Goto(D, where)
    BY <1>9, AnswerGoto DEF Vm3Quorum
  <2> QED BY <1>0, <2>1, <2>2, GoesElsewhere DEF Vm1Waits
<1>10. CASE \E error : AskVm4(error)
  BY <1>10 DEF AskVm4, Vm1Waits
<1>11. CASE \E ok : Vm4Decides(ok)
  BY <1>11 DEF Vm4Decides, Vm1Waits
<1>12. CASE \E i \in Proxies : Proxy(i)
  <2>1. PICK i \in Proxies : Proxy(i)
    BY <1>12
  <2>2. circ' = circ /\ round' = round
    BY <2>1 DEF Proxy, RelayExtend, RelayAttest, RelayForward, RelayBack
  <2>3. pc' = pc \/ \E where : Goto(i, where)
    BY <2>1 DEF Proxy, RelayExtend, RelayAttest, RelayForward, RelayBack, Leave
  <2> QED BY <1>0, <2>2, <2>3, GoesElsewhere DEF Vm1Waits
<1>13. CASE \E i \in Hops : Serve(i)
  <2>1. PICK i \in Hops : Serve(i)
    BY <1>13
  <2>2. round' = round /\ circ'[0] = circ[0]
    BY <1>0, <2>1 DEF Serve, Accept, ServeExtend, UpstreamLost, TypeOK
  <2>3. \E where : Goto(i, where)
    BY <2>1 DEF Serve, Accept, ServeExtend, UpstreamLost, Leave
  <2> QED BY <1>0, <2>2, <2>3, GoesElsewhere DEF Vm1Waits
<1>14. CASE \E i \in 0 .. D - 1 : Connect(i) \/ DownstreamLost(i)
  <2>1. PICK i \in 0 .. D - 1 : Connect(i) \/ DownstreamLost(i)
    BY <1>14
  <2>2. circ' = circ /\ round' = round /\ \E where : Goto(i, where)
    BY <2>1 DEF Connect, DownstreamLost, Leave
  <2> QED BY <1>0, <2>1, <2>2, GoesElsewhere DEF Vm1Waits, Vm1Acts
<1>15. CASE \E i \in 0 .. D : QuoteFails(i)
  <2>1. PICK i \in 0 .. D : QuoteFails(i)
    BY <1>15
  <2>2. circ' = circ /\ round' = round /\ \E where : Goto(i, where)
    BY <2>1 DEF QuoteFails, Leave
  <2> QED BY <1>0, <2>1, <2>2, GoesElsewhere DEF Vm1Waits, Vm1Acts
<1>16. CASE \E i \in Nodes : Crash(i) \/ Restart(i)
  <2>1. PICK i \in Nodes : Crash(i) \/ Restart(i)
    BY <1>16
  <2>2. circ' = circ /\ round' = round /\ \E where : Goto(i, where)
    BY <2>1 DEF Crash, Restart
  <2> QED BY <1>0, <2>1, <2>2, GoesElsewhere DEF Vm1Waits, Vm1Acts
<1>17. CASE Vm3
  BY <1>8, <1>9, <1>10, <1>17 DEF Vm3
<1> QED BY <1>1, <1>3, <1>7, <1>10, <1>11, <1>12, <1>13, <1>14, <1>15, <1>16, <1>17 DEF Next, Program

(* Where vm1's steps lead. *)
LEMMA Vm1Goes ==
    ASSUME TypeOK, Opening, Vm1Acts
    PROVE  \/ /\ circ'[0] = circ[0] + 1 /\ round' = 0 /\ pc[0] = "accept" /\ pc'[0] = "connect"
           \/ /\ circ'[0] = circ[0] /\ round' = round /\ pc[0] = "connect" /\ pc'[0] = "extended"
           \/ /\ circ'[0] = circ[0] /\ round' = round + 1 /\ pc'[0] = "round"
              /\ pc[0] = "session" \/ (pc[0] = "extended" /\ round = 0)
           \/ /\ circ'[0] = circ[0] /\ round' = round /\ pc[0] = "round" /\ pc'[0] = "session" /\ Vm1Result
           \/ /\ circ'[0] = circ[0] /\ round' = round /\ pc'[0] \in {"accept", "down"}
<1>0. 0 \in Nodes /\ pc \in [Nodes -> {"down", "accept", "extend", "relay", "connect", "extended",
                                       "forward", "round", "session", "quorum"}]
  BY Fixed DEF TypeOK
<1>g. ASSUME NEW where, Goto(0, where) PROVE pc'[0] = where
  BY <1>0, <1>g DEF Goto
<1>1. CASE Establish
  BY <1>0, <1>1, <1>g, Fixed DEF Establish, TypeOK
<1>2. CASE Heartbeat
  BY <1>2, <1>g DEF Heartbeat, BeginRound
<1>3. CASE Chain1Complete
  BY <1>3, <1>g DEF Chain1Complete, BeginRound, Opening
<1>4. CASE Vm1Result
  <2>1. circ' = circ /\ round' = round /\ pc[0] = "round" /\ (Goto(0, "session") \/ Goto(0, "accept"))
    BY <1>4 DEF Vm1Result, Leave
  <2> QED BY <1>4, <1>g, <2>1
<1>5. CASE Connect(0)
  BY <1>5, <1>g DEF Connect
<1>6. CASE Drop \/ DownstreamLost(0) \/ QuoteFails(0)
  <2>1. circ' = circ /\ round' = round /\ Goto(0, "accept")
    BY <1>6 DEF Drop, DownstreamLost, QuoteFails, Leave
  <2> QED BY <1>g, <2>1
<1>7. CASE Restart(0)
  BY <1>7, <1>g DEF Restart
<1>8. CASE Crash(0)
  <2>1. circ' = circ /\ round' = round /\ Goto(0, "down")
    BY <1>8 DEF Crash
  <2> QED BY <1>g, <2>1
<1> QED BY <1>1, <1>2, <1>3, <1>4, <1>5, <1>6, <1>7, <1>8 DEF Vm1Acts

(* Every step keeps the second invariant. *)
LEMMA EndSteps == IInv /\ EInv /\ Next => EInv'
<1> SUFFICES ASSUME IInv, EInv, Next PROVE EInv'
  OBVIOUS
<1>1. Net' /\ TypeOK' /\ TypeOK /\ Net /\ Books /\ Opening
  BY NetSteps, Steps DEF IInv, EInv
<1>2. circ[0] \in Nat
  BY <1>1, Fixed, CircType
<1>3. Opening'
  BY <1>1, Vm1Only, Vm1Goes DEF Opening, Vm1Waits
<1>4. (circ'[0] = circ[0] /\ (pc[0] \in {"accept", "down"} => pc'[0] \in {"accept", "down"})) \/ circ'[0] > circ[0]
  BY <1>1, <1>2, Vm1Only, Vm1Goes DEF Vm1Waits
<1>5. Books'
  <2>1. CASE Silent
    BY <1>1, <1>4, <2>1, SilentBooks
  <2>2. CASE \E v \in Judging : \E e : Judges(v, e)
    BY <1>1, <2>2, JudgesBooks
  <2>3. CASE \E v \in Verifiers : \E e : Closing(v, e)
    BY <1>1, <2>3, ClosingBooks
  <2> QED BY <2>1, <2>2, <2>3, Kinds
<1> QED BY <1>1, <1>3, <1>5 DEF EInv

(* Stuttering keeps it. *)
LEMMA EndStutters == EInv /\ UNCHANGED vars => EInv'
<1> SUFFICES ASSUME EInv, UNCHANGED vars PROVE EInv'
  OBVIOUS
<1>1. Net'
  BY StillNet DEF EInv, vars
<1>2. ASSUME NEW v \in Judging PROVE Orderly(v)'
  BY DEF EInv, Books, Orderly, Due, Of, vars
<1>3. ASSUME NEW v \in Verifiers PROVE Counting(v)' /\ Concluded(v)'
  BY DEF EInv, Books, Counting, Concluded, On, vars
<1>4. Opening'
  BY DEF EInv, Opening, vars
<1> QED BY <1>1, <1>2, <1>3, <1>4 DEF EInv, Books

(* It holds to begin with: nobody has done anything. *)
LEMMA EndStarts == Init => EInv
<1> SUFFICES ASSUME Init PROVE EInv
  OBVIOUS
<1>1. ASSUME NEW c \in Circuits, NEW j \in Hops
      PROVE  link[<<c, j>>] = [cl |-> FALSE, sv |-> "none", down |-> <<>>, up |-> <<>>]
  BY DEF Init
<1>2. ASSUME NEW i \in Nodes PROVE pc[i] = "accept" /\ circ[i] = 0
  BY DEF Init
<1>3. \A j \in Hops : j \in Nodes /\ j - 1 \in Nodes
  BY HopNode, LineNodes
<1>4. \A c : ~ On(c, 0)
  BY <1>2, Fixed DEF On
<1>5. ASSUME NEW j \in Hops PROVE Backlog(j)
  BY <1>1, <1>2, <1>3 DEF Backlog
<1>6. ASSUME NEW c \in Circuits, NEW j \in Hops PROVE Joined(c, j) /\ Aimed(c, j)
  BY <1>1 DEF Joined, Aimed
<1>7. Calm
  BY <1>1, <1>2, <1>3 DEF Calm, Owes, On
<1>8. Begun
  <2>1. round = 0 /\ \A v \in Verifiers : count[v] = 0
    BY DEF Init
  <2> QED BY <1>1, <2>1 DEF Begun
<1>9. ASSUME NEW v \in Judging PROVE Orderly(v)
  <2>1. log[v] = <<>> /\ DOMAIN log[v] = {}
    BY DEF Init, Judging
  <2> QED BY <2>1 DEF Orderly
<1>10. ASSUME NEW v \in Verifiers PROVE Counting(v) /\ Concluded(v)
  <2>1. log[v] = <<>> /\ DOMAIN log[v] = {} /\ count[v] = 0
    BY DEF Init
  <2>2. v \in Nodes
    BY Fixed DEF Verifiers
  <2> QED BY <1>2, <2>1, <2>2 DEF Counting, Concluded
<1>11. Opening
  BY <1>2, Fixed DEF Opening
<1> QED BY <1>5, <1>6, <1>7, <1>8, <1>9, <1>10, <1>11 DEF EInv, Net, Books

(* EInv holds in every reachable state, on top of IInv. *)
THEOREM EndInductive == Spec => []EInv
<1>1. IInv /\ EInv /\ [Next]_vars => EInv'
  BY EndStutters, EndSteps
<1> QED BY EndStarts, Inductive, <1>1, PTL DEF Spec

(* SESSION_ENDED is the last entry of a circuit in the log of vm2 and of vm3;
   and unless a process crashed or a TPM failed, vm1 has given the circuit up
   by then, and no verifier turns to something else before it has logged the
   end of what it logged (handle_zts_circuit, handle_da_circuit). *)
THEOREM EndsAreFinal == Spec => []EndIsTheEnd
<1>1. ASSUME EInv PROVE EndIsTheEnd
  <2> SUFFICES ASSUME NEW v \in Verifiers
               PROVE  /\ \A j, k \in DOMAIN log[v] :
                            log[v][j].event = "SessionEnded" /\ k > j => log[v][k].c > log[v][j].c
                      /\ faults = 0 => \A e \in EntriesOf(v) :
                            /\ e.event = "SessionEnded" => ~OnCircuit(e.c)
                            /\ ~(circ[v] = e.c /\ pc[v] # "accept") =>
                                  \E f \in EntriesOf(v) : f.c = e.c /\ f.event = "SessionEnded"
    BY DEF EndIsTheEnd
  <2>1. Orderly(v) /\ Concluded(v)
    BY <1>1 DEF EInv, Books, Judging
  <2>2. ASSUME faults = 0, NEW e \in EntriesOf(v)
        PROVE  /\ e.event = "SessionEnded" => ~OnCircuit(e.c)
               /\ ~(circ[v] = e.c /\ pc[v] # "accept") =>
                     \E f \in EntriesOf(v) : f.c = e.c /\ f.event = "SessionEnded"
    <3>1. PICK k \in DOMAIN log[v] : e = log[v][k]
      BY DEF EntriesOf
    <3>2. e.event = "SessionEnded" => ~OnCircuit(e.c)
      BY <2>1, <2>2, <3>1 DEF Concluded, On, OnCircuit
    <3>3. ASSUME ~(circ[v] = e.c /\ pc[v] # "accept")
          PROVE  \E f \in EntriesOf(v) : f.c = e.c /\ f.event = "SessionEnded"
      <4>1. PICK h \in DOMAIN log[v] : log[v][h].c = e.c /\ log[v][h].event = "SessionEnded"
        BY <2>1, <2>2, <3>1, <3>3 DEF Concluded
      <4> QED BY <4>1 DEF EntriesOf
    <3> QED BY <3>2, <3>3
  <2>3. \A j, k \in DOMAIN log[v] :
           log[v][j].event = "SessionEnded" /\ k > j => log[v][k].c > log[v][j].c
    BY <2>1 DEF Orderly
  <2> QED BY <2>2, <2>3
<1> QED BY EndInductive, <1>1, PTL

--------------------------------------------------------------------------------
(* The step of the chain is one of ChainVerdict, or none. *)
VerdictStep == [Consent!Next]_(Consent!vars)

(* vm1 as ChainVerdict sees it. *)
LEMMA ClientIs ==
    /\ Client \in {"idle", "asking", "session"}
    /\ Client = "idle" <=> pc[0] \in {"accept", "down"}
    /\ Client = "session" <=> pc[0] = "session"
BY DEF Client

(* The same after a step. *)
LEMMA ClientNext ==
    /\ Client' \in {"idle", "asking", "session"}
    /\ Client' = "idle" <=> pc'[0] \in {"accept", "down"}
    /\ Client' = "session" <=> pc'[0] = "session"
BY DEF Client

(* The verdict of judge v on round n is in its log: its consent is known. *)
LEMMA ConsentIs ==
    ASSUME NEW v, NEW c, NEW n, NEW k \in DOMAIN log[v],
           log[v][k].c = c, log[v][k].n = n, log[v][k].event \in Positive
    PROVE  Consent!Consents(v, c, n)
BY DEF Consent!Consents, Consent!Says, Consent!Positive, Positive

(* vm1 goes on with its session: everybody it depends on has consented. *)
LEMMA Vm1ResultGrants ==
    ASSUME IInv, EInv, Vm1Result, pc'[0] = "session"
    PROVE  round > 0 /\ \A v \in Consent!Judges : Consent!Consents(v, circ[0], round)
<1>0. /\ TypeOK /\ 0 \in 0 .. D /\ 0 \in Nodes /\ 0 \in Bases /\ pc[0] = "round" /\ depth[0] = Last(0) /\ LogsAgree /\ Books
      /\ Vm4 # D /\ Vm4 # Z /\ Z # D /\ Vm4 \in Judging /\ Z \in Judging
  BY Fixed DEF Vm1Result, IInv, EInv, Judging
<1>1. PICK c \in Circuits : c = circ[0] /\ On(c, 0) /\ Circuit(c) /\ link \in Links
  BY <1>0, Working
<1>2. link[<<c, 0 + 1>>].up # <<>> /\ Out(0) = <<c, 0 + 1>>
  BY <1>1 DEF Vm1Result, HasReply, Out
<1>3. PICK res : res = Reply1(c, 0 + 1).res
  OBVIOUS
<1>4. /\ res.id = round
      /\ res.status \in {"Authorized", "Provisional"} => res.ok
      /\ mode # "chain1" => Backed(c, res)
      /\ Noted(c, Z, res)
  BY <1>0, <1>1, <1>2, <1>3, ResultIsNoted
<1>5. round > 0
  <2>1. Tally(c, 0)
    BY <1>0, <1>1 DEF Circuit, Counts
  <2>2. round \in Nat
    BY <1>0, BoundAssumption DEF TypeOK
  <2> QED BY <1>0, <1>1, <2>1, <2>2 DEF Tally, Asked
<1>6. res.ok
  <2>1. GoesOn(res)
    <3>1. CASE GoesOn(Head(link[Out(0)].up).res)
      BY <1>2, <1>3, <3>1 DEF Reply1
    <3>2. CASE ~ GoesOn(Head(link[Out(0)].up).res)
      <4>1. Goto(0, "accept")
        BY <3>2 DEF Vm1Result, Leave
      <4> QED BY <1>0, <4>1 DEF Goto, TypeOK
    <3> QED BY <3>1, <3>2
  <2> QED BY <1>4, <2>1 DEF GoesOn
<1>7. Consent!Consents(Z, c, round)
  <2>1. PICK k \in DOMAIN log[Z] : /\ log[Z][k].c = c /\ log[Z][k].id = round /\ log[Z][k].event # "SessionEnded"
                                   /\ log[Z][k].event \in Positive
    BY <1>4, <1>6 DEF Noted
  <2>2. log[Z][k].n = round
    BY <1>0, <2>1 DEF Books, Orderly
  <2> QED BY <2>1, <2>2, ConsentIs
<1>8. ASSUME mode # "chain1" PROVE Consent!Consents(D, c, round)
  <2>1. PICK k \in DOMAIN log[D] : /\ log[D][k].c = c /\ log[D][k].n = round /\ log[D][k].event \in Positive
    BY <1>4, <1>6, <1>8 DEF Backed, Noted
  <2> QED BY <2>1, ConsentIs
<1>9. ASSUME mode = "quorum" PROVE Consent!Consents(Vm4, c, round)
  <2>1. PICK k \in DOMAIN log[Vm4] : /\ log[Vm4][k].c = c /\ log[Vm4][k].id = round /\ log[Vm4][k].event # "SessionEnded"
                                     /\ log[Vm4][k].event \in Positive
    BY <1>4, <1>6, <1>9 DEF Backed, Noted
  <2>2. log[Vm4][k].n = round
    BY <1>0, <2>1 DEF Books, Orderly
  <2> QED BY <2>1, <2>2, ConsentIs
<1>10. mode \in {"chain1", "chain2", "quorum"}
  BY <1>0, ModeAssumption DEF TypeOK
<1> QED BY <1>1, <1>5, <1>7, <1>8, <1>9, <1>10 DEF Consent!Judges

(* A silent step is one of vm1's, or none. *)
LEMMA SilentVerdict ==
    ASSUME IInv, EInv, Next, Silent
    PROVE  VerdictStep
<1>0. TypeOK /\ Opening /\ UNCHANGED <<mode, log>>
  BY DEF IInv, EInv, Silent
<1>1. CASE Vm1Waits
  <2>1. Client' = Client
    BY <1>1 DEF Client, Vm1Waits
  <2> QED BY <1>0, <1>1, <2>1 DEF VerdictStep, Consent!vars, Vm1Waits
<1>2. CASE /\ circ'[0] = circ[0] + 1 /\ round' = 0 /\ pc[0] = "accept" /\ pc'[0] = "connect"
  <2>1. Client = "idle" /\ Client' = "asking"
    BY <1>2, ClientIs, ClientNext
  <2>2. Consent!Open
    BY <1>0, <1>2, <2>1 DEF Consent!Open
  <2> QED BY <2>2 DEF VerdictStep, Consent!Next
<1>3. CASE circ'[0] = circ[0] /\ round' = round /\ pc[0] = "connect" /\ pc'[0] = "extended"
  <2>1. Client' = Client
    BY <1>3, ClientIs, ClientNext
  <2> QED BY <1>0, <1>3, <2>1 DEF VerdictStep, Consent!vars
<1>4. CASE /\ circ'[0] = circ[0] /\ round' = round + 1 /\ pc'[0] = "round"
           /\ pc[0] = "session" \/ (pc[0] = "extended" /\ round = 0)
  <2>1. Client' = "asking" /\ (Client = "session" \/ (Client = "asking" /\ round = 0))
    BY <1>4, ClientIs, ClientNext
  <2>2. Consent!Ask
    BY <1>0, <1>4, <2>1 DEF Consent!Ask
  <2> QED BY <2>2 DEF VerdictStep, Consent!Next
<1>5. CASE circ'[0] = circ[0] /\ round' = round /\ pc[0] = "round" /\ pc'[0] = "session" /\ Vm1Result
  <2>1. Client = "asking" /\ Client' = "session"
    BY <1>5, ClientIs, ClientNext
  <2>2. round > 0 /\ \A v \in Consent!Judges : Consent!Consents(v, circ[0], round)
    BY <1>5, Vm1ResultGrants
  <2>3. Consent!Grant
    BY <1>0, <1>5, <2>1, <2>2 DEF Consent!Grant
  <2> QED BY <2>3 DEF VerdictStep, Consent!Next
<1>6. CASE circ'[0] = circ[0] /\ round' = round /\ pc'[0] \in {"accept", "down"}
  <2>1. Client' = "idle"
    BY <1>6, ClientNext
  <2>2. CASE Client = "idle"
    BY <1>0, <1>6, <2>1, <2>2 DEF VerdictStep, Consent!vars
  <2>3. CASE Client # "idle"
    <3>1. Consent!GiveUp
      BY <1>0, <1>6, <2>1, <2>3 DEF Consent!GiveUp
    <3> QED BY <3>1 DEF VerdictStep, Consent!Next
  <2> QED BY <2>2, <2>3
<1> QED BY <1>0, <1>1, <1>2, <1>3, <1>4, <1>5, <1>6, Vm1Only, Vm1Goes

(* What a new entry says, and what vm1 and the log look like by then. *)
LEMMA EntersVerdict ==
    ASSUME IInv, EInv, Net', TypeOK', NEW v \in Judging, NEW e, Enters(v, e)
    PROVE  /\ e.c \in 1 .. circ[0] /\ e.n \in 1 .. MaxRounds
           /\ e.c = circ[0] => e.n <= round
           /\ UNCHANGED <<mode, circ, round>> /\ Client' = Client
           /\ \A k \in DOMAIN log[v] :
                /\ log[v][k].c <= e.c
                /\ log[v][k].c = e.c => log[v][k].event # "SessionEnded" /\ log[v][k].n <= e.n
                /\ log[v][k].c = e.c /\ (Due(v) \/ count'[Of(v)] > count[Of(v)]) => log[v][k].n < e.n
<1>0. TypeOK /\ Net /\ Orderly(v) /\ Begun'
  BY DEF IInv, EInv, Books, Net
<1>1. PICK w \in Verifiers : w = Of(v) /\ w \in Hops /\ w # 0 /\ circ[w] \in Nat /\ count[w] \in Nat /\ (v # Vm4 => w = v)
  BY <1>0, JudgeType DEF Of
<1>2. /\ UNCHANGED <<mode, circ, round>> /\ pc[w] \notin {"accept", "down"} /\ e.c = circ[w] /\ e.n = count'[w]
      /\ count'[w] # 0 /\ count'[w] >= count[w]
  BY <1>1 DEF Enters
<1>3. pc'[0] = pc[0] /\ w \in 0 .. D
  BY <1>1, Fixed, HopNode DEF Enters
<1>4. Client' = Client
  BY <1>3 DEF Client
<1>5. count'[w] \in 1 .. MaxRounds /\ count'[w] \in Nat
  <2>1. count' \in [Verifiers -> 0 .. MaxRounds]
    BY DEF TypeOK
  <2> QED BY <1>1, <1>2, <2>1, BoundAssumption
<1>6. circ[w] \in 1 .. circ[0]
  <2>1. circ[w] # 0
    BY <1>1, <1>2, HopNode DEF IInv, Machines
  <2>2. circ[w] <= circ[0] /\ circ[0] \in Nat
    BY <1>0, <1>1, Behind
  <2> QED BY <1>1, <2>1, <2>2
<1>7. circ[w] = circ[0] => count'[w] <= round
  BY <1>0, <1>1, <1>2 DEF Begun
<1>8. ASSUME NEW k \in DOMAIN log[v]
      PROVE  /\ log[v][k].c <= e.c
             /\ log[v][k].c = e.c => log[v][k].event # "SessionEnded" /\ log[v][k].n <= e.n
             /\ log[v][k].c = e.c /\ (Due(v) \/ count'[Of(v)] > count[Of(v)]) => log[v][k].n < e.n
  <2>1. log[v][k].c \in Nat /\ log[v][k].n \in Nat
    BY <1>0, JudgeType
  <2>2. /\ log[v][k].c <= circ[w]
        /\ log[v][k].c = circ[w] => log[v][k].n <= count[w] /\ (Due(v) => log[v][k].n < count[w])
        /\ log[v][k].event = "SessionEnded" => log[v][k].c # circ[w]
    BY <1>0, <1>1, <1>2 DEF Orderly
  <2> QED BY <1>1, <1>2, <1>5, <2>1, <2>2
<1> QED BY <1>2, <1>4, <1>5, <1>6, <1>7, <1>8

(* An entry is its fields. *)
LEMMA EntryIs ==
    ASSUME NEW e \in Entries
    PROVE  e = [c |-> e.c, n |-> e.n, id |-> e.id, event |-> e.event, clean |-> e.clean]
BY DEF Entries

(* A verdict that is entered is a verdict of ChainVerdict. *)
LEMMA JudgesVerdict ==
    ASSUME IInv, EInv, Net', TypeOK', NEW v \in Judging, NEW e, Judges(v, e)
    PROVE  VerdictStep
<1>0. /\ Enters(v, e) /\ e \in Entries /\ log' = [log EXCEPT ![v] = Append(@, e)]
      /\ v \in {Z, D, Vm4} /\ e.event # "SessionEnded" /\ e.id = e.n
      /\ Due(v) \/ count'[Of(v)] > count[Of(v)]
  BY DEF Judges, Enters, Judging, Verifiers
<1>1. /\ e.c \in 1 .. circ[0] /\ e.n \in 1 .. MaxRounds
      /\ e.c = circ[0] => e.n <= round
      /\ UNCHANGED <<mode, circ, round>> /\ Client' = Client
  BY <1>0, EntersVerdict
<1>2. ASSUME NEW k \in DOMAIN log[v]
      PROVE  log[v][k].c <= e.c /\ (log[v][k].c = e.c => log[v][k].event # "SessionEnded" /\ log[v][k].n < e.n)
  BY <1>0, EntersVerdict
<1>3. e.event \in Consent!Positive \cup Consent!Negative /\ e.clean \in BOOLEAN
      /\ (e.event \in Consent!Positive <=> e.event \in Positive)
  BY <1>0 DEF Entries, Events, Consent!Positive, Consent!Negative, Positive
<1>4. ASSUME v = Z, mode # "chain1"
      PROVE  \E k \in DOMAIN log[D] : Consent!Says(log[D][k], e.c, e.n, e.event \in Consent!Positive) /\ log[D][k].clean = e.clean
  <2>1. PICK k \in DOMAIN log[D] :
         /\ log[D][k].c = e.c /\ log[D][k].n = e.n /\ log[D][k].clean = e.clean
         /\ log[D][k].event # "SessionEnded" /\ (log[D][k].event \in Positive <=> e.event \in Positive)
    BY <1>4 DEF Judges
  <2>2. log[D][k].event \in Events
    <3>1. TypeOK /\ D \in Judging
      BY Fixed DEF IInv, Judging
    <3>2. log[D][k] \in Entries
      BY <3>1, JudgeType
    <3> QED BY <3>2 DEF Entries
  <2>3. log[D][k].event \in (IF e.event \in Consent!Positive THEN Consent!Positive ELSE Consent!Negative)
    BY <1>3, <2>1, <2>2 DEF Events, Consent!Positive, Consent!Negative, Positive
  <2> QED BY <2>1, <2>3 DEF Consent!Says
<1>5. ASSUME v = D, mode = "quorum", e.event \in Consent!Positive PROVE Consent!Consents(Vm4, e.c, e.n)
  <2>1. PICK k \in DOMAIN log[Vm4] : log[Vm4][k].c = e.c /\ log[Vm4][k].n = e.n /\ log[Vm4][k].event \in Positive
    BY <1>3, <1>5 DEF Judges
  <2> QED BY <2>1, ConsentIs
<1>6. log' = [log EXCEPT ![v] = Append(@, [c |-> e.c, n |-> e.n, id |-> e.n, event |-> e.event, clean |-> e.clean])]
  BY <1>0, EntryIs
<1>7. Consent!Judge(v, e.c, e.n, e.event, e.clean)
  BY <1>1, <1>2, <1>4, <1>5, <1>6 DEF Consent!Judge
<1>8. Consent!Next
  BY <1>0, <1>1, <1>3, <1>7 DEF Consent!Next
<1> QED BY <1>8 DEF VerdictStep

(* The end of a circuit is one of ChainVerdict. *)
LEMMA ClosingVerdict ==
    ASSUME IInv, EInv, Net', TypeOK', NEW v \in Verifiers, NEW e, Closing(v, e)
    PROVE  VerdictStep
<1>0. /\ Enters(v, e) /\ e \in Entries /\ log' = [log EXCEPT ![v] = Append(@, e)]
      /\ v \in {Z, D} /\ v \in Judging /\ v = Of(v)
      /\ e.event = "SessionEnded" /\ e.id = 0 /\ e.clean = TRUE
      /\ pc[v] = "relay" /\ count' = count /\ Counting(v) /\ TypeOK
  BY Line DEF Closing, Enters, Judging, Verifiers, Of, EInv, Books, IInv, Entries
<1>1. /\ e.c \in 1 .. circ[0] /\ e.n \in 1 .. MaxRounds
      /\ UNCHANGED <<mode, circ, round>> /\ Client' = Client
  BY <1>0, EntersVerdict
<1>2. ASSUME NEW k \in DOMAIN log[v]
      PROVE  log[v][k].c <= e.c /\ (log[v][k].c = e.c => log[v][k].event # "SessionEnded" /\ log[v][k].n <= e.n)
  BY <1>0, EntersVerdict
<1>3. \E k \in DOMAIN log[v] : log[v][k].c = e.c /\ log[v][k].n = e.n
  <2>1. count[v] \in Nat /\ count[v] # 0 /\ e.c = circ[v] /\ e.n = count[v]
    <3>1. count[v] \in Nat
      BY <1>0, JudgeType
    <3> QED BY <1>0, <3>1 DEF Enters
  <2> QED BY <1>0, <2>1 DEF Counting
<1>4. log' = [log EXCEPT ![v] = Append(@, [c |-> e.c, n |-> e.n, id |-> 0, event |-> "SessionEnded", clean |-> TRUE])]
  BY <1>0, EntryIs
<1>5. Consent!End(v, e.c, e.n)
  BY <1>1, <1>2, <1>3, <1>4 DEF Consent!End
<1>6. Consent!Next
  BY <1>0, <1>1, <1>5 DEF Consent!Next
<1> QED BY <1>6 DEF VerdictStep

(* Every step of the chain is a step of ChainVerdict or none. *)
LEMMA VerdictSteps == IInv /\ EInv /\ [Next]_vars => VerdictStep
<1> SUFFICES ASSUME IInv, EInv, [Next]_vars PROVE VerdictStep
  OBVIOUS
<1>1. CASE UNCHANGED vars
  <2>1. Client' = Client
    BY <1>1 DEF Client, vars
  <2> QED BY <1>1, <2>1 DEF VerdictStep, Consent!vars, vars
<1>2. CASE Next
  <2>1. Net' /\ TypeOK'
    BY <1>2, NetSteps, Steps DEF IInv
  <2> QED BY <1>2, <2>1, Kinds, SilentVerdict, JudgesVerdict, ClosingVerdict
<1> QED BY <1>1, <1>2

(* The chain implements ChainVerdict, for every length of the line, in every
   configuration, and whatever breaks, crashes or comes back: the verdicts that
   vm2, vm3 and vm4 log are one after the other about submissions vm1 made, the
   machines further down have logged theirs before, and vm1 starts or keeps a
   session only when all of them have consented (handle_initiate_connection,
   heartbeat_chain1, handle_zts_circuit, handle_da_circuit, handle_vm3_result). *)
THEOREM RefinesVerdict == Spec => ImplementsVerdict
<1>1. Init => Consent!Init
  <2> SUFFICES ASSUME Init PROVE Consent!Init
    OBVIOUS
  <2>1. circ[0] = 0 /\ pc[0] = "accept"
    BY Fixed DEF Init
  <2>2. Client = "idle"
    BY <2>1, ClientIs
  <2>3. log = [v \in {Z, D, Vm4} |-> <<>>]
    <3>1. Verifiers \cup {Vm4} = {Z, D, Vm4}
      BY DEF Verifiers
    <3> QED BY <3>1 DEF Init
  <2> QED BY <2>1, <2>2, <2>3 DEF Init, Consent!Init
<1> QED BY Inductive, EndInductive, VerdictSteps, <1>1, PTL
        DEF Spec, ImplementsVerdict, Consent!Spec, VerdictStep
================================================================================
