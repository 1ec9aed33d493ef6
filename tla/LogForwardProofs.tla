---------------------------- MODULE LogForwardProofs ----------------------------
(******************************************************************************)
(* Proofs about LogForward: for any number of entries, connections and        *)
(* faults, no entry is stored twice, a missing one is reported unless it is   *)
(* the monitor's own write that failed, and what the dashboard shows of a     *)
(* source is what its newest connection did, as long as no task of an older   *)
(* one has written to the same SourceState.                                   *)
(*                                                                            *)
(* StoredOnce needs to know where else an entry can be. Every entry is in     *)
(* one place at most (Once): in the stream file, in the hands of a task, on a *)
(* connection, or ahead of the forwarder; what the forwarder has still to     *)
(* read lies beyond its Frontier, and everything else behind it. That the     *)
(* forwarder sends a line only when the last was answered (Lockstep) is what  *)
(* keeps a connection from holding two.                                       *)
(******************************************************************************)
EXTENDS LogForward, SequenceTheorems, TLAPS

(* The state, source by source. *)
Files(s) ==
    [base : 0 .. MaxEntries[s], pieces : 0 .. 2 * MaxEntries[s], bad : SUBSET Numbers(s)]

(* The forwarder: where it is, its connection and tailer, and the lines it has
   still to send. *)
Forwarders(s) ==
    [loc : {"down", "hello", "tail", "ack"}, conn : 0 .. MaxConns[s],
     position : 0 .. 2 * MaxEntries[s], batch : Seq(Lines(s))]

(* A connection: the request and the response under way, and whether it broke. *)
Links(s) == [req : Requests(s), resp : Responses, cut : BOOLEAN]

(* Where a task of handle_source is. *)
Places == {"none", "hello", "insert", "receive", "break", "update", "append",
           "newline", "acknowledge", "ended"}

(* A task: its place, the line in its hands, and whether it found the chain
   broken. *)
Tasks(s) == [at : Places, line : Lines(s) \cup {None}, broken : BOOLEAN]

(* A line of the stream file. *)
Stored1(s) == [n : Numbers(s), conn : Conns(s), broken : BOOLEAN]

(* Every source has its state; the shared parts are of their types. *)
Domains ==
    /\ DOMAIN file = Sources /\ DOMAIN fw = Sources /\ DOMAIN link = Sources
    /\ DOMAIN task = Sources /\ DOMAIN src = Sources /\ DOMAIN stream = Sources
    /\ cross \in BOOLEAN /\ overtaken \subseteq Sources /\ faults \in 0 .. MaxFaults

(* The state of a source is of its type. *)
Typed(s) ==
    /\ file[s] \in Files(s)
    /\ fw[s] \in Forwarders(s)
    /\ link[s] \in [Conns(s) -> Links(s)]
    /\ task[s] \in [Conns(s) -> Tasks(s)]
    /\ src[s] \in SourceStates(s) \cup {NoSource}
    /\ stream[s] \in Seq(Stored1(s))

(* The pieces of the file never exceed the entries there can be. *)
Room(s) ==
    /\ 2 * file[s].base + file[s].pieces <= 2 * MaxEntries[s]
    /\ s \notin Torn => file[s].pieces % 2 = 0

(* handle_source is at work on an entry that it has not answered. *)
Busy(s, c) == task[s][c].at \in {"break", "update", "append", "newline", "acknowledge"}

(* An entry is under way on the connection. *)
Sent(s, c) == link[s][c].req.kind = "entry"

(* One line at a time on each connection: the forwarder sends the next one when
   the answer to the last is there. *)
Lockstep(s) ==
    /\ fw[s].loc = "ack" => fw[s].batch # <<>>
    /\ fw[s].loc # "down" => fw[s].conn > 0
    /\ \A c \in Conns(s) :
         /\ c > fw[s].conn => /\ task[s][c] = Idle
                              /\ link[s][c] = [req |-> None, resp |-> "none", cut |-> FALSE]
         /\ Busy(s, c) => /\ task[s][c].line \in Lines(s)
                          /\ link[s][c].req = None /\ link[s][c].resp = "none"
                          /\ c = fw[s].conn => fw[s].loc \in {"ack", "down"}
         /\ Sent(s, c) => /\ link[s][c].resp = "none"
                          /\ c = fw[s].conn => fw[s].loc \in {"ack", "down"}

(* The last line that has been read in full, or will never be: what a tailer
   yet to start skips included. *)
Frontier(s) ==
    file[s].base + (IF fw[s].loc \in {"tail", "ack"} THEN ReadFrom(s) ELSE file[s].pieces) \div 2

(* Entry n is between the forwarder and the stream file on connection c. *)
Flying(s, c, n) ==
    \/ task[s][c].at \in {"break", "update", "append"} /\ task[s][c].line.n = n
    \/ Sent(s, c) /\ link[s][c].req.line.whole /\ link[s][c].req.line.n = n

(* Every entry is in one place at most, and those still to be sent are later
   than all the others. *)
Once(s) ==
    /\ \A i, j \in 1 .. Len(stream[s]) : stream[s][i].n = stream[s][j].n => i = j
    /\ \A i \in 1 .. Len(stream[s]), c \in Conns(s) : ~ Flying(s, c, stream[s][i].n)
    /\ \A c, d \in Conns(s), n \in Numbers(s) : Flying(s, c, n) /\ Flying(s, d, n) => c = d

(* What was sent or stored was read in full, and so lies behind the Frontier. *)
Behind(s) ==
    /\ \A i \in 1 .. Len(stream[s]) : stream[s][i].n <= Frontier(s)
    /\ \A c \in Conns(s), n \in Numbers(s) : Flying(s, c, n) => n <= Frontier(s)
    /\ \A k \in 1 .. Len(fw[s].batch) : fw[s].batch[k].whole => fw[s].batch[k].n <= Frontier(s)

(* The rest of the batch is in order and later than all that was sent or
   stored. *)
Ahead(s) ==
    \A k \in 2 .. Len(fw[s].batch) :
        /\ \A j \in 1 .. k - 1 : fw[s].batch[j].n < fw[s].batch[k].n
        /\ \A i \in 1 .. Len(stream[s]) : stream[s][i].n < fw[s].batch[k].n
        /\ \A c \in Conns(s), n \in Numbers(s) : Flying(s, c, n) => n < fw[s].batch[k].n

(* The last line of the stream file that connection c delivered. *)
LastOf(s, c, i) ==
    /\ i \in 1 .. Len(stream[s]) /\ stream[s][i].conn = c
    /\ \A k \in i + 1 .. Len(stream[s]) : stream[s][k].conn # c

(* The entry in the hands of connection c is the successor of the last one it
   delivered, or was found not to be. *)
Follows(s, c) ==
    \A i \in 1 .. Len(stream[s]) :
        LastOf(s, c, i) => task[s][c].broken \/ task[s][c].line.n = stream[s][i].n + 1

(* What the SourceState of s says of connection c, as long as the tasks of older
   connections have left it alone. *)
Owned(s, c) ==
    /\ task[s][c].broken => task[s][c].at \in {"update", "append"}
    /\ task[s][c].at \in {"none", "hello", "insert"} =>
         \A i \in 1 .. Len(stream[s]) : stream[s][i].conn # c
    /\ s \notin overtaken =>
         /\ task[s][c].at \in {"receive", "break", "update", "append", "newline", "acknowledge"} =>
              src[s].known /\ c <= src[s].conn
         /\ task[s][c].at = "append" => Follows(s, c)
         /\ src[s].known /\ src[s].conn = c =>
              /\ task[s][c].at = "update" => Follows(s, c)
              /\ task[s][c].at = "append" => src[s].received # 0 /\ src[s].prev = task[s][c].line.n
              /\ task[s][c].at \in {"receive", "break", "update", "newline", "acknowledge"} =>
                   \A i \in 1 .. Len(stream[s]) :
                       LastOf(s, c, i) => src[s].received # 0 /\ src[s].prev = stream[s][i].n

(* The same of every connection. *)
Newest(s) == \A c \in Conns(s) : Owned(s, c)

(* What CrossVerifiedIsIntact asks of a source, which the monitor also knows. *)
Intact(s) ==
    /\ src[s].known
    /\ src[s].intact \/ \E c \in Conns(s) : task[s][c].at = "update" /\ task[s][c].broken

(* While the dashboard says that the logs agree, every source is known and
   intact. *)
Compared == cross => \A s \in Sources : Intact(s)

(* GapIsReported for one source. That it holds of the entry being appended and
   any earlier one follows from its holding of the last one of the connection,
   which exists. *)
Gap(s) ==
    /\ \A c \in Conns(s) :
          (\E i \in 1 .. Len(stream[s]) : stream[s][i].conn = c) => \E p : LastOf(s, c, p)
    /\ \A i, j \in DOMAIN stream[s] :
          i < j /\ stream[s][i].conn = stream[s][j].conn =>
              \/ /\ stream[s][i].n < stream[s][j].n
                 /\ stream[s][i].n + 1 .. stream[s][j].n - 1
                      \subseteq Between(s, stream[s][j].conn, i, j)
              \/ \E k \in i + 1 .. j : stream[s][k].conn = stream[s][j].conn /\ stream[s][k].broken
              \/ s \in overtaken

(* A broken chain was, or is being, reported on connection c. *)
Reported(s, c) ==
    \/ task[s][c].broken
    \/ \E i \in DOMAIN stream[s] : stream[s][i].conn = c /\ stream[s][i].broken

(* ShowsNewest, for one source. *)
Shows(s) ==
    src[s].known /\ s \notin overtaken =>
        /\ src[s].connected \/ (link[s][src[s].conn].cut /\ task[s][src[s].conn].at = "ended")
        /\ src[s].intact = ~ Reported(s, src[s].conn)

(* What holds of one source. *)
SourceInv(s) ==
    /\ Typed(s) /\ Room(s) /\ Lockstep(s)
    /\ Once(s) /\ Behind(s) /\ Ahead(s)
    /\ Newest(s) /\ Gap(s) /\ Shows(s)

(* The inductive invariant. *)
IInv ==
    /\ Domains
    /\ \A s \in Sources : SourceInv(s)
    /\ Compared

--------------------------------------------------------------------------------
(* A step leaves the state of source t alone. *)
Untouched(t) ==
    /\ file'[t] = file[t] /\ fw'[t] = fw[t] /\ link'[t] = link[t]
    /\ task'[t] = task[t] /\ src'[t] = src[t] /\ stream'[t] = stream[t]
    /\ (t \in overtaken') = (t \in overtaken)

(* The stream file stays as it is. *)
LEMMA GapStill ==
    ASSUME NEW s \in Sources, Gap(s), stream'[s] = stream[s], s \in overtaken => s \in overtaken'
    PROVE  Gap(s)'
<1>1. \A c, p : LastOf(s, c, p)' = LastOf(s, c, p)
  BY DEF LastOf
<1>2. \A c, i, j : Between(s, c, i, j)' = Between(s, c, i, j)
  BY DEF Between
<1> QED
  BY <1>1, <1>2 DEF Gap

(* What holds of a source goes on holding while nobody touches it. *)
LEMMA Frame ==
    ASSUME NEW t \in Sources, SourceInv(t), Untouched(t)
    PROVE  SourceInv(t)'
<1> USE DEF Untouched
<1>1. Typed(t)'
  BY DEF SourceInv, Typed
<1>2. Room(t)'
  BY DEF SourceInv, Room
<1>3. Lockstep(t)'
  BY DEF SourceInv, Lockstep, Busy, Sent
<1>4. \A c, n : Flying(t, c, n)' = Flying(t, c, n)
  BY DEF Flying, Busy, Sent
<1>5. Frontier(t)' = Frontier(t)
  BY DEF Frontier, ReadFrom
<1>6. Once(t)'
  BY <1>4 DEF SourceInv, Once
<1>7. Behind(t)'
  BY <1>4, <1>5 DEF SourceInv, Behind
<1>8. Ahead(t)'
  BY <1>4 DEF SourceInv, Ahead
<1>9. Newest(t)'
  BY DEF SourceInv, Newest, Owned, Follows, LastOf
<1>10. Gap(t)' /\ Shows(t)'
  BY GapStill DEF SourceInv, Shows, Reported
<1> QED
  BY <1>1, <1>2, <1>3, <1>6, <1>7, <1>8, <1>9, <1>10 DEF SourceInv

(* The bounds are natural numbers. *)
LEMMA Constants ==
    ASSUME NEW s \in Sources
    PROVE  /\ MaxEntries[s] \in Nat /\ MaxConns[s] \in Nat
           /\ MaxFaults \in Nat
BY ForwardAssumption

(* The Frontier is a number, and the tailer reads from a place within the
   file. *)
LEMMA FrontierNat ==
    ASSUME NEW s \in Sources, Typed(s)
    PROVE  Frontier(s) \in Nat /\ ReadFrom(s) \in Nat /\ ReadFrom(s) <= file[s].pieces
<1>1. MaxEntries[s] \in Nat
  BY Constants
<1>2. file[s].base \in Nat /\ file[s].pieces \in Nat /\ fw[s].position \in Nat
  BY <1>1 DEF Typed, Files, Forwarders
<1>3. ReadFrom(s) \in Nat /\ ReadFrom(s) <= file[s].pieces
  BY <1>2 DEF ReadFrom
<1>4. ReadFrom(s) \div 2 \in Nat /\ file[s].pieces \div 2 \in Nat
  BY <1>2, <1>3
<1> QED
  BY <1>2, <1>3, <1>4 DEF Frontier

(* The same of the next state. *)
LEMMA FrontierNatNext ==
    ASSUME NEW s \in Sources, Typed(s)'
    PROVE  Frontier(s)' \in Nat
<1>1. MaxEntries[s] \in Nat
  BY Constants
<1>2. file'[s].base \in Nat /\ file'[s].pieces \in Nat /\ fw'[s].position \in Nat
  BY <1>1 DEF Typed, Files, Forwarders
<1>3. ReadFrom(s)' \in Nat
  BY <1>2 DEF ReadFrom
<1>4. ReadFrom(s)' \div 2 \in Nat /\ file'[s].pieces \div 2 \in Nat
  BY <1>2, <1>3
<1> QED
  BY <1>2, <1>3, <1>4 DEF Frontier

(* A line of the stream file has its type. *)
LEMMA StreamLine ==
    ASSUME NEW s \in Sources, Typed(s), NEW i \in 1 .. Len(stream[s])
    PROVE  /\ stream[s][i].n \in Numbers(s) /\ stream[s][i].conn \in Conns(s)
           /\ stream[s][i].broken \in BOOLEAN
<1>1. stream[s] \in Seq(Stored1(s))
  BY DEF Typed
<1>2. stream[s][i] \in Stored1(s)
  BY <1>1
<1> QED
  BY <1>2 DEF Stored1

(* A line of the batch has its type. *)
LEMMA BatchLine ==
    ASSUME NEW s \in Sources, Typed(s), NEW k \in 1 .. Len(fw[s].batch)
    PROVE  /\ fw[s].batch[k] \in Lines(s)
           /\ fw[s].batch[k].n \in Numbers(s) /\ fw[s].batch[k].whole \in BOOLEAN
<1>1. fw[s].batch \in Seq(Lines(s))
  BY DEF Typed, Forwarders
<1>2. fw[s].batch[k] \in Lines(s)
  BY <1>1
<1> QED
  BY <1>2 DEF Lines

(* What the forwarder and the stream file do to one another does not change when
   nothing new is under way. *)
LEMMA Quiet ==
    ASSUME NEW s \in Sources, Typed(s), Typed(s)', Once(s), Behind(s), Ahead(s),
           stream'[s] = stream[s],
           fw'[s].batch \in {fw[s].batch, <<>>},
           Frontier(s) <= Frontier(s)',
           \A c \in Conns(s), n \in Numbers(s) : Flying(s, c, n)' => Flying(s, c, n)
    PROVE  Once(s)' /\ Behind(s)' /\ Ahead(s)'
<1>1. MaxEntries[s] \in Nat /\ Frontier(s) \in Nat /\ Frontier(s)' \in Nat
  BY Constants, FrontierNat, FrontierNatNext
<1>4. \A n \in Numbers(s) : n \in Nat
  BY <1>1 DEF Numbers
<1>2. \A i \in 1 .. Len(stream[s]) : stream[s][i].n \in Numbers(s)
  BY StreamLine
<1>3. \A k \in 1 .. Len(fw[s].batch) : fw[s].batch[k].n \in Nat
  BY <1>4, BatchLine
<1>5. Once(s)'
  BY <1>2 DEF Once
<1>6. Behind(s)'
  <2>1. \A i \in 1 .. Len(stream[s]) : stream[s][i].n <= Frontier(s)'
    BY <1>1, <1>2, <1>4 DEF Behind
  <2>2. \A c \in Conns(s), n \in Numbers(s) : Flying(s, c, n)' => n <= Frontier(s)'
    BY <1>1, <1>4 DEF Behind
  <2>3. \A k \in 1 .. Len(fw'[s].batch) : fw'[s].batch[k].whole => fw'[s].batch[k].n <= Frontier(s)'
    BY <1>1, <1>3 DEF Behind
  <2> QED
    BY <2>1, <2>2, <2>3 DEF Behind
<1>7. Ahead(s)'
  <2>1. CASE fw'[s].batch = fw[s].batch
    BY <2>1, <1>2 DEF Ahead
  <2>2. CASE fw'[s].batch = <<>>
    <3>1. 2 .. Len(fw'[s].batch) = {}
      BY <2>2
    <3> QED
      BY <3>1 DEF Ahead
  <2> QED
    BY <2>1, <2>2
<1> QED
  BY <1>5, <1>6, <1>7

(* What holds of a connection is kept by steps that leave it, its SourceState
   and the stream file alone. *)
LEMMA OwnedStill ==
    ASSUME NEW s \in Sources, NEW e \in Conns(s), Owned(s, e),
           task'[s][e] = task[s][e], src'[s] = src[s], stream'[s] = stream[s],
           s \in overtaken => s \in overtaken'
    PROVE  Owned(s, e)'
<1>1. Follows(s, e)' = Follows(s, e) /\ \A i : LastOf(s, e, i)' = LastOf(s, e, i)
  BY DEF Follows, LastOf
<1> QED
  BY <1>1 DEF Owned

(* A known source has a SourceState, which belongs to a connection. *)
LEMMA SourceConn ==
    ASSUME NEW s \in Sources, Typed(s), src[s].known
    PROVE  src[s] \in SourceStates(s) /\ src[s].conn \in Conns(s)
<1>1. src[s] # NoSource
  BY DEF NoSource
<1>2. src[s] \in SourceStates(s)
  BY <1>1 DEF Typed
<1> QED
  BY <1>2 DEF SourceStates

(* What is known of a source's state on the monitor depends on the forwarder only
   through the connection being cut. *)
LEMMA Forwarded ==
    ASSUME NEW s \in Sources, Typed(s), Newest(s), Gap(s), Shows(s),
           task'[s] = task[s], src'[s] = src[s], stream'[s] = stream[s], overtaken' = overtaken,
           \A c \in Conns(s) : link[s][c].cut => link'[s][c].cut
    PROVE  Newest(s)' /\ Gap(s)' /\ Shows(s)'
<1>1. Newest(s)'
  BY DEF Newest, Owned, Follows, LastOf
<1>2. Gap(s)'
  BY GapStill
<1>3. src[s].known => src[s].conn \in Conns(s)
  BY SourceConn
<1>4. Shows(s)'
  BY <1>3 DEF Shows, Reported
<1> QED
  BY <1>1, <1>2, <1>4

(* The comparison stands while SystemState and the tasks do. *)
LEMMA StillCompared ==
    ASSUME Compared, src' = src, task' = task, cross' = cross
    PROVE  Compared'
BY DEF Compared, Intact

(* The comparison stands if the step keeps the one source it touches intact. *)
LEMMA OneCompared ==
    ASSUME Compared, NEW s \in Sources, \A t \in Sources \ {s} : Untouched(t),
           Intact(s) => Intact(s)', cross' = cross
    PROVE  Compared'
BY DEF Compared, Intact, Untouched

(* A step on source s keeps the invariant, and touches no other source. *)
Keeps(s) ==
    /\ Domains' /\ SourceInv(s)' /\ Compared'
    /\ \A t \in Sources \ {s} : Untouched(t)

(* A step that keeps what holds of its source keeps the invariant. *)
LEMMA KeepsIInv ==
    ASSUME NEW s \in Sources, IInv, Keeps(s)
    PROVE  IInv'
<1>1. ASSUME NEW t \in Sources PROVE SourceInv(t)'
  BY Frame DEF Keeps, IInv
<1> QED
  BY <1>1 DEF Keeps, IInv

(* Pieces and lines: two pieces make a line, and a line that is begun has
   room. *)
LEMMA Halves ==
    ASSUME NEW b \in Nat, NEW p \in Nat, NEW q \in Nat, NEW M \in Nat
    PROVE  /\ p \div 2 \in Nat
           /\ p <= q => p \div 2 <= q \div 2
           /\ p % 2 = 0 => p = 2 * (p \div 2)
           /\ p % 2 = 0 => (p + 2) % 2 = 0
           /\ b + p \div 2 < M /\ 2 * b + p <= 2 * M => 2 * b + p + 1 <= 2 * M
           /\ b + p \div 2 < M /\ 2 * b + p <= 2 * M /\ p % 2 = 0 => 2 * b + p + 2 <= 2 * M
           /\ 2 * b + p <= 2 * M => b + p \div 2 <= M /\ 2 * (b + p \div 2) <= 2 * M
           /\ 2 * b + p <= 2 * M => b + (p + 1) \div 2 <= M
OBVIOUS

(* The sizes of the file are numbers within the bounds. *)
LEMMA FileNat ==
    ASSUME NEW s \in Sources, Typed(s)
    PROVE  /\ file[s] = [base |-> file[s].base, pieces |-> file[s].pieces, bad |-> file[s].bad]
           /\ file[s].bad \subseteq Numbers(s)
           /\ file[s].base \in Nat /\ file[s].pieces \in Nat /\ fw[s].position \in Nat
           /\ file[s].base <= MaxEntries[s] /\ file[s].pieces <= 2 * MaxEntries[s]
BY Constants DEF Typed, Files, Forwarders

(* WritePiece: the Frontier does not move back, even when the file outgrows
   the position it was truncated below. *)
LEMMA WritePieceKeeps ==
    ASSUME IInv, NEW s \in Sources, WritePiece(s)
    PROVE  Keeps(s)
<1> USE DEF WritePiece
<1>0. Domains /\ SourceInv(s) /\ Compared
  BY DEF IInv
<1>1. Typed(s) /\ Room(s)
  BY <1>0 DEF SourceInv
<1> DEFINE d == IF s \in Torn THEN 1 ELSE 2
           b == file[s].base
           p == file[s].pieces
<1>2. b \in Nat /\ p \in Nat /\ fw[s].position \in Nat /\ MaxEntries[s] \in Nat
  BY <1>1, FileNat, Constants
<1>3. file'[s] = [base |-> b, pieces |-> p + d, bad |-> file[s].bad]
  BY <1>0, <1>1, FileNat DEF Domains
<1>4. /\ p + d \in Nat /\ 2 * b + (p + d) <= 2 * MaxEntries[s]
      /\ s \notin Torn => (p + d) % 2 = 0
  <2>1. b + p \div 2 < MaxEntries[s]
    BY DEF Written
  <2>2. 2 * b + p <= 2 * MaxEntries[s] /\ (s \notin Torn => p % 2 = 0)
    BY <1>1 DEF Room
  <2> HIDE DEF b, p
  <2>3. CASE s \in Torn
    BY <2>1, <2>2, <2>3, <1>2, Halves
  <2>4. CASE s \notin Torn
    BY <2>1, <2>2, <2>4, <1>2, Halves
  <2> QED
    BY <2>3, <2>4
<1>5. Typed(s)'
  <2>1. file'[s] \in Files(s)
    BY <1>1, <1>2, <1>3, <1>4 DEF Files, Typed
  <2> QED
    BY <2>1, <1>1 DEF Typed
<1>6. Room(s)'
  BY <1>3, <1>4 DEF Room
<1>7. Lockstep(s)'
  BY <1>0 DEF SourceInv, Lockstep, Busy, Sent
<1>8. Frontier(s) <= Frontier(s)'
  <2>1. ReadFrom(s) \in Nat /\ ReadFrom(s)' \in Nat /\ ReadFrom(s) <= ReadFrom(s)'
    BY <1>2, <1>3, <1>4 DEF ReadFrom
  <2>2. ReadFrom(s) \div 2 <= ReadFrom(s)' \div 2 /\ p \div 2 <= (p + d) \div 2
    BY <2>1, <1>2, <1>4, Halves
  <2>3. /\ ReadFrom(s) \div 2 \in Nat /\ ReadFrom(s)' \div 2 \in Nat
        /\ p \div 2 \in Nat /\ (p + d) \div 2 \in Nat
    BY <2>1, <1>2, <1>4, Halves
  <2> HIDE DEF d
  <2> QED
    BY <2>2, <2>3, <1>2, <1>3 DEF Frontier
<1>9. Once(s)' /\ Behind(s)' /\ Ahead(s)'
  <2>1. \A c \in Conns(s), n \in Numbers(s) : Flying(s, c, n)' => Flying(s, c, n)
    BY DEF Flying, Busy, Sent
  <2> QED
    BY <2>1, <1>0, <1>1, <1>5, <1>8, Quiet DEF SourceInv
<1>10. Newest(s)' /\ Gap(s)' /\ Shows(s)'
  BY <1>0, <1>1, Forwarded DEF SourceInv
<1>11. Domains'
  BY <1>0 DEF Domains
<1>12. \A t \in Sources \ {s} : Untouched(t)
  BY <1>0 DEF Domains, Untouched
<1> QED
  BY <1>0, <1>5, <1>6, <1>7, <1>9, <1>10, <1>11, <1>12, StillCompared DEF Keeps, SourceInv

(* Truncate: what was in the file lies behind the Frontier from now on. *)
LEMMA TruncateKeeps ==
    ASSUME IInv, NEW s \in Sources, Truncate(s)
    PROVE  Keeps(s)
<1>0. Domains /\ SourceInv(s) /\ Compared
  BY DEF IInv
<1>1. Typed(s) /\ Room(s)
  BY <1>0 DEF SourceInv
<1> DEFINE b == file[s].base
           p == file[s].pieces
<1>2. b \in Nat /\ p \in Nat /\ fw[s].position \in Nat /\ MaxEntries[s] \in Nat
  BY <1>1, FileNat, Constants
<1>3. file'[s] = [base |-> b + p \div 2, pieces |-> 0, bad |-> {}]
  BY <1>0 DEF Domains, Truncate, Written
<1>4. UNCHANGED <<fw, link, task, src, cross, stream, overtaken>>
  BY DEF Truncate
<1>5. p \div 2 \in Nat /\ b + p \div 2 \in Nat /\ b + p \div 2 <= MaxEntries[s]
  <2>1. 2 * b + p <= 2 * MaxEntries[s]
    BY <1>1 DEF Room
  <2> HIDE DEF b, p
  <2> QED
    BY <2>1, <1>2, Halves
<1>6. Typed(s)'
  <2>1. file'[s] \in Files(s)
    BY <1>2, <1>3, <1>5 DEF Files
  <2> QED
    BY <2>1, <1>1, <1>4 DEF Typed
<1>7. Room(s)'
  BY <1>2, <1>3, <1>5 DEF Room
<1>8. Lockstep(s)'
  BY <1>0, <1>4 DEF SourceInv, Lockstep, Busy, Sent
<1>9. Frontier(s) <= Frontier(s)'
  <2>1. ReadFrom(s) \in Nat /\ ReadFrom(s) <= p
    BY <1>1, FrontierNat
  <2>2. ReadFrom(s)' = 0
    BY <1>2, <1>3, <1>4 DEF ReadFrom
  <2>3. ReadFrom(s) \div 2 \in Nat /\ ReadFrom(s) \div 2 <= p \div 2
    BY <2>1, <1>2, Halves
  <2>4. Frontier(s)' = b + p \div 2
    <3>1. 0 \div 2 = 0
      OBVIOUS
    <3>2. Frontier(s)' = (b + p \div 2) + 0 \div 2
      BY <2>2, <1>3, <1>4 DEF Frontier
    <3> QED
      BY <3>1, <3>2, <1>5
  <2>5. Frontier(s) \in {b + ReadFrom(s) \div 2, b + p \div 2}
    BY DEF Frontier
  <2> HIDE DEF b, p
  <2> QED
    BY <2>3, <2>4, <2>5, <1>2, <1>5
<1>10. Once(s)' /\ Behind(s)' /\ Ahead(s)'
  <2>1. \A c \in Conns(s), n \in Numbers(s) : Flying(s, c, n)' => Flying(s, c, n)
    BY <1>4 DEF Flying, Busy, Sent
  <2> QED
    BY <2>1, <1>0, <1>1, <1>4, <1>6, <1>9, Quiet DEF SourceInv
<1>11. Newest(s)' /\ Gap(s)' /\ Shows(s)'
  BY <1>0, <1>1, <1>4, Forwarded DEF SourceInv
<1>12. Domains'
  BY <1>0, <1>4, Constants DEF Domains, Truncate, Fault
<1>13. \A t \in Sources \ {s} : Untouched(t)
  BY <1>0, <1>4 DEF Domains, Untouched, Truncate
<1> QED
  BY <1>0, <1>4, <1>6, <1>7, <1>8, <1>10, <1>11, <1>12, <1>13, StillCompared DEF Keeps, SourceInv

(* CutCharacter: a line of the file is marked. *)
LEMMA CutCharacterKeeps ==
    ASSUME IInv, NEW s \in Sources, CutCharacter(s)
    PROVE  Keeps(s)
<1>0. Domains /\ SourceInv(s) /\ Compared
  BY DEF IInv
<1>1. Typed(s) /\ Room(s)
  BY <1>0 DEF SourceInv
<1> DEFINE b == file[s].base
           p == file[s].pieces
<1>2. b \in Nat /\ p \in Nat /\ MaxEntries[s] \in Nat /\ file[s].bad \subseteq Numbers(s)
  BY <1>1, FileNat, Constants
<1>3. UNCHANGED <<fw, link, task, src, cross, stream, overtaken>> /\ p % 2 = 1
  BY DEF CutCharacter
<1>4. file'[s] = [base |-> b, pieces |-> p, bad |-> file[s].bad \cup {p \div 2 + 1}]
  <2>1. PICK z : z = file[s].bad \cup {p \div 2 + 1}
    OBVIOUS
  <2>2. file'[s] = [file[s] EXCEPT !.bad = z]
    BY <2>1, <1>0 DEF Domains, CutCharacter
  <2>3. file[s] = [base |-> b, pieces |-> p, bad |-> file[s].bad]
    BY <1>1, FileNat
  <2> HIDE DEF b, p
  <2>4. file'[s] = [base |-> b, pieces |-> p, bad |-> z]
    BY <2>2, <2>3
  <2> QED
    BY <2>1, <2>4
<1>5. p \div 2 + 1 \in Numbers(s)
  <2>1. 2 * b + p <= 2 * MaxEntries[s]
    BY <1>1 DEF Room
  <2> HIDE DEF b, p
  <2> QED
    BY <2>1, <1>2, <1>3 DEF Numbers
<1>6. Typed(s)'
  <2>1. file'[s] \in Files(s)
    BY <1>1, <1>2, <1>4, <1>5 DEF Files, Typed
  <2> QED
    BY <2>1, <1>1, <1>3 DEF Typed
<1>7. file'[s].base = b /\ file'[s].pieces = p
  BY <1>4
<1>8. Room(s)'
  BY <1>1, <1>7 DEF Room
<1>9. Lockstep(s)'
  BY <1>0, <1>3 DEF SourceInv, Lockstep, Busy, Sent
<1>10. Frontier(s) <= Frontier(s)'
  <2>1. Frontier(s)' = Frontier(s)
    BY <1>3, <1>7 DEF Frontier, ReadFrom
  <2> QED
    BY <2>1, <1>1, FrontierNat
<1>11. Once(s)' /\ Behind(s)' /\ Ahead(s)'
  <2>1. \A c \in Conns(s), n \in Numbers(s) : Flying(s, c, n)' => Flying(s, c, n)
    BY <1>3 DEF Flying, Sent
  <2> QED
    BY <2>1, <1>0, <1>1, <1>3, <1>6, <1>10, Quiet DEF SourceInv
<1>12. Newest(s)' /\ Gap(s)' /\ Shows(s)'
  BY <1>0, <1>1, <1>3, Forwarded DEF SourceInv
<1>13. Domains'
  BY <1>0, <1>3, Constants DEF Domains, CutCharacter, Fault
<1>14. \A t \in Sources \ {s} : Untouched(t)
  BY <1>0, <1>3 DEF Domains, Untouched, CutCharacter
<1> QED
  BY <1>0, <1>3, <1>6, <1>8, <1>9, <1>11, <1>12, <1>13, <1>14, StillCompared DEF Keeps, SourceInv

(* The fields of a connection after a request and a response are set. *)
LEMMA LinkRecord ==
    ASSUME NEW s, NEW l \in Links(s), NEW r, NEW x
    PROVE  [l EXCEPT !.req = r, !.resp = x] = [req |-> r, resp |-> x, cut |-> l.cut]
<1>1. l = [req |-> l.req, resp |-> l.resp, cut |-> l.cut]
  BY DEF Links
<1> DEFINE m == [l EXCEPT !.req = r]
<1>2. m = [req |-> r, resp |-> l.resp, cut |-> l.cut]
  BY <1>1
<1>3. [l EXCEPT !.req = r, !.resp = x] = [m EXCEPT !.resp = x]
  OBVIOUS
<1> HIDE DEF m
<1>4. [m EXCEPT !.resp = x] = [req |-> r, resp |-> x, cut |-> l.cut]
  BY <1>2
<1> QED
  BY <1>3, <1>4

(* The fields of a connection after it broke. *)
LEMMA LinkCut ==
    ASSUME NEW s, NEW l \in Links(s)
    PROVE  /\ [l EXCEPT !.cut = TRUE] \in Links(s)
           /\ [l EXCEPT !.cut = TRUE].req = l.req /\ [l EXCEPT !.cut = TRUE].resp = l.resp
           /\ [l EXCEPT !.cut = TRUE].cut
<1>1. DOMAIN l = {"req", "resp", "cut"}
  BY DEF Links
<1>2. [l EXCEPT !.cut = TRUE].cut
  BY <1>1
<1>3. [l EXCEPT !.cut = TRUE].req = l.req /\ [l EXCEPT !.cut = TRUE].resp = l.resp
  BY <1>1
<1>4. [l EXCEPT !.cut = TRUE] \in Links(s)
  BY DEF Links
<1> QED
  BY <1>2, <1>3, <1>4

(* What sending does to the connection, and to nothing else. *)
LEMMA Sends ==
    ASSUME Domains, NEW s \in Sources, Typed(s), NEW c \in Conns(s), NEW r \in Requests(s),
           Send(s, c, r)
    PROVE  /\ link'[s][c] = [req |-> r, resp |-> "none", cut |-> link[s][c].cut]
           /\ \A e \in Conns(s) : e # c => link'[s][e] = link[s][e]
           /\ link'[s] \in [Conns(s) -> Links(s)]
           /\ DOMAIN link' = Sources
           /\ \A t \in Sources : t # s => link'[t] = link[t]
<1>1. link[s] \in [Conns(s) -> Links(s)] /\ link[s][c] \in Links(s)
  BY DEF Typed
<1>2. link'[s] = [link[s] EXCEPT ![c] = [link[s][c] EXCEPT !.req = r, !.resp = "none"]]
  <2> DEFINE m == [link EXCEPT ![s][c].req = r]
  <2>1. link' = [m EXCEPT ![s][c].resp = "none"]
    BY DEF Send
  <2>2. DOMAIN m = Sources /\ m[s] = [link[s] EXCEPT ![c] = [link[s][c] EXCEPT !.req = r]]
    BY DEF Domains
  <2> HIDE DEF m
  <2>3. link'[s] = [m[s] EXCEPT ![c] = [m[s][c] EXCEPT !.resp = "none"]]
    BY <2>1, <2>2
  <2> QED
    BY <2>2, <2>3, <1>1 DEF Links
<1>3. [link[s][c] EXCEPT !.req = r, !.resp = "none"]
        = [req |-> r, resp |-> "none", cut |-> link[s][c].cut]
  <2>1. PICK l \in Links(s) : l = link[s][c]
    BY <1>1
  <2>2. [l EXCEPT !.req = r, !.resp = "none"] = [req |-> r, resp |-> "none", cut |-> l.cut]
    BY LinkRecord
  <2> QED
    BY <2>1, <2>2, Zenon
<1>4. [req |-> r, resp |-> "none", cut |-> link[s][c].cut] \in Links(s)
  BY <1>1 DEF Links, Responses
<1>5. DOMAIN link' = Sources /\ \A t \in Sources : t # s => link'[t] = link[t]
  BY DEF Send, Domains
<1> QED
  BY <1>1, <1>2, <1>3, <1>4, <1>5

(* Welcomed: the new tailer starts at the end, so the Frontier stays where it
   was. *)
LEMMA WelcomedKeeps ==
    ASSUME IInv, NEW s \in Sources, Welcomed(s)
    PROVE  Keeps(s)
<1>0. Domains /\ SourceInv(s) /\ Compared
  BY DEF IInv
<1>1. Typed(s) /\ Room(s) /\ Lockstep(s)
  BY <1>0 DEF SourceInv
<1> DEFINE c == fw[s].conn
           p == file[s].pieces
<1>2. file[s].base \in Nat /\ p \in Nat /\ MaxEntries[s] \in Nat /\ p <= 2 * MaxEntries[s]
  BY <1>1, FileNat, Constants
<1>3. /\ fw[s].loc = "hello" /\ link[s][c].resp = "welcome"
      /\ UNCHANGED <<file, task, src, cross, stream, overtaken, faults>>
  BY DEF Welcomed
<1>4. c \in Conns(s)
  BY <1>1, <1>3, Constants DEF Lockstep, Typed, Forwarders, Conns
<1>5. fw'[s] = [loc |-> "tail", conn |-> c, position |-> p, batch |-> fw[s].batch]
  BY <1>0, <1>1 DEF Welcomed, TailerStart, Domains, Typed, Forwarders
<1>6. /\ link'[s][c] = [req |-> None, resp |-> "none", cut |-> link[s][c].cut]
      /\ \A e \in Conns(s) : e # c => link'[s][e] = link[s][e]
      /\ link'[s] \in [Conns(s) -> Links(s)]
      /\ DOMAIN link' = Sources
      /\ \A t \in Sources : t # s => link'[t] = link[t]
  <2>1. None \in Requests(s) /\ Send(s, c, None)
    BY DEF Requests, Welcomed
  <2> HIDE DEF c
  <2> QED
    BY <2>1, <1>0, <1>1, <1>4, Sends
<1>7. Typed(s)'
  <2>1. fw'[s] \in Forwarders(s)
    BY <1>1, <1>2, <1>5 DEF Typed, Forwarders
  <2> QED
    BY <2>1, <1>1, <1>3, <1>6 DEF Typed
<1>8. Room(s)'
  BY <1>1, <1>3 DEF Room
<1>9. Lockstep(s)'
  BY <1>1, <1>3, <1>4, <1>5, <1>6 DEF Lockstep, Busy, Sent, None
<1>10. Frontier(s) <= Frontier(s)'
  <2>1. ReadFrom(s)' = p
    BY <1>2, <1>3, <1>5 DEF ReadFrom
  <2>2. Frontier(s)' = Frontier(s)
    BY <2>1, <1>3, <1>5 DEF Frontier
  <2> QED
    BY <2>2, <1>1, FrontierNat
<1>11. Once(s)' /\ Behind(s)' /\ Ahead(s)'
  <2>1. \A e \in Conns(s), n \in Numbers(s) : Flying(s, e, n)' => Flying(s, e, n)
    BY <1>3, <1>6 DEF Flying, Busy, Sent, None
  <2> QED
    BY <2>1, <1>0, <1>1, <1>3, <1>5, <1>7, <1>10, Quiet DEF SourceInv
<1>12. Newest(s)' /\ Gap(s)' /\ Shows(s)'
  BY <1>0, <1>1, <1>3, <1>6, Forwarded DEF SourceInv
<1>13. Domains'
  BY <1>0, <1>3, <1>6 DEF Domains, Welcomed
<1>14. \A t \in Sources \ {s} : Untouched(t)
  BY <1>0, <1>3, <1>6 DEF Domains, Untouched, Welcomed
<1> QED
  BY <1>0, <1>3, <1>7, <1>8, <1>9, <1>11, <1>12, <1>13, <1>14, StillCompared DEF Keeps, SourceInv

(* The step of a task, and of nothing else. *)
LEMMA TaskSet ==
    ASSUME Domains, NEW s \in Sources, Typed(s), NEW c \in Conns(s), NEW v \in Tasks(s),
           task' = [task EXCEPT ![s][c] = v]
    PROVE  /\ task'[s][c] = v
           /\ \A e \in Conns(s) : e # c => task'[s][e] = task[s][e]
           /\ task'[s] \in [Conns(s) -> Tasks(s)]
           /\ DOMAIN task' = Sources
           /\ \A t \in Sources : t # s => task'[t] = task[t]
<1>1. task[s] \in [Conns(s) -> Tasks(s)]
  BY DEF Typed
<1>2. task'[s] = [task[s] EXCEPT ![c] = v]
  BY DEF Domains
<1> QED
  BY <1>1, <1>2 DEF Domains

(* A task goes to another place, and nothing else happens to the tasks. *)
LEMMA Goes ==
    ASSUME Domains, NEW s \in Sources, Typed(s), NEW c \in Conns(s), NEW a \in Places,
           GoTo(s, c, a)
    PROVE  /\ task'[s][c] = [at |-> a, line |-> task[s][c].line, broken |-> task[s][c].broken]
           /\ \A e \in Conns(s) : e # c => task'[s][e] = task[s][e]
           /\ task'[s] \in [Conns(s) -> Tasks(s)]
           /\ DOMAIN task' = Sources
           /\ \A t \in Sources : t # s => task'[t] = task[t]
<1>1. task[s] \in [Conns(s) -> Tasks(s)] /\ task[s][c] \in Tasks(s)
  BY DEF Typed
<1>2. task'[s] = [task[s] EXCEPT ![c] = [task[s][c] EXCEPT !.at = a]]
  BY DEF Domains, GoTo
<1>3. [task[s][c] EXCEPT !.at = a]
        = [at |-> a, line |-> task[s][c].line, broken |-> task[s][c].broken]
  BY <1>1 DEF Tasks
<1>4. [at |-> a, line |-> task[s][c].line, broken |-> task[s][c].broken] \in Tasks(s)
  BY <1>1 DEF Tasks
<1>5. DOMAIN task' = Sources /\ \A t \in Sources : t # s => task'[t] = task[t]
  BY DEF Domains, GoTo
<1> QED
  BY <1>1, <1>2, <1>3, <1>4, <1>5

(* Connect: the new connection has delivered nothing. *)
LEMMA ConnectKeeps ==
    ASSUME IInv, NEW s \in Sources, Connect(s)
    PROVE  Keeps(s)
<1>0. Domains /\ SourceInv(s) /\ Compared
  BY DEF IInv
<1>1. Typed(s) /\ Room(s) /\ Lockstep(s)
  BY <1>0 DEF SourceInv
<1>2. /\ fw[s].loc = "down" /\ fw[s].conn < MaxConns[s]
      /\ UNCHANGED <<file, src, cross, stream, overtaken, faults>>
  BY DEF Connect
<1>3. fw[s].conn \in Nat /\ MaxConns[s] \in Nat /\ MaxEntries[s] \in Nat
  BY <1>1, Constants DEF Typed, Forwarders
<1>4. PICK c \in Conns(s) : /\ c = fw[s].conn + 1 /\ c > fw[s].conn
                           /\ \A e \in Conns(s) : e > c => e > fw[s].conn
  BY <1>2, <1>3 DEF Conns
<1>5. fw'[s] = [loc |-> "hello", conn |-> c, position |-> 0, batch |-> <<>>]
  BY <1>0, <1>4 DEF Connect, Domains, Down
<1>6. /\ link'[s][c] = [req |-> [kind |-> "hello"], resp |-> "none", cut |-> link[s][c].cut]
      /\ \A e \in Conns(s) : e # c => link'[s][e] = link[s][e]
      /\ link'[s] \in [Conns(s) -> Links(s)]
      /\ DOMAIN link' = Sources
      /\ \A t \in Sources : t # s => link'[t] = link[t]
  <2>1. [kind |-> "hello"] \in Requests(s) /\ Send(s, c, [kind |-> "hello"])
    BY <1>4 DEF Requests, Connect
  <2> QED
    BY <2>1, <1>0, <1>1, <1>4, Sends
<1>7. task[s][c] = Idle
  BY <1>1, <1>4 DEF Lockstep
<1>8. /\ task'[s][c] = [at |-> "hello", line |-> None, broken |-> FALSE]
      /\ \A e \in Conns(s) : e # c => task'[s][e] = task[s][e]
      /\ task'[s] \in [Conns(s) -> Tasks(s)]
      /\ DOMAIN task' = Sources
      /\ \A t \in Sources : t # s => task'[t] = task[t]
  <2>1. "hello" \in Places /\ GoTo(s, c, "hello")
    BY <1>4 DEF Places, Connect, GoTo
  <2>2. /\ task'[s][c] = [at |-> "hello", line |-> task[s][c].line, broken |-> task[s][c].broken]
        /\ \A e \in Conns(s) : e # c => task'[s][e] = task[s][e]
        /\ task'[s] \in [Conns(s) -> Tasks(s)]
        /\ DOMAIN task' = Sources
        /\ \A t \in Sources : t # s => task'[t] = task[t]
    BY <2>1, <1>0, <1>1, <1>4, Goes
  <2> QED
    BY <2>2, <1>7 DEF Idle
<1>9. Typed(s)'
  <2>1. fw'[s] \in Forwarders(s)
    BY <1>3, <1>4, <1>5 DEF Forwarders, Conns
  <2> QED
    BY <2>1, <1>1, <1>2, <1>6, <1>8 DEF Typed
<1>10. Room(s)'
  BY <1>1, <1>2 DEF Room
<1>11. Lockstep(s)'
  <2>1. c > 0
    BY <1>3, <1>4 DEF Conns
  <2>2. ASSUME NEW e \in Conns(s), e # c
        PROVE /\ e > c => /\ task'[s][e] = Idle
                          /\ link'[s][e] = [req |-> None, resp |-> "none", cut |-> FALSE]
              /\ Busy(s, e)' => /\ task'[s][e].line \in Lines(s)
                                /\ link'[s][e].req = None /\ link'[s][e].resp = "none"
              /\ Sent(s, e)' => link'[s][e].resp = "none"
    BY <2>2, <1>1, <1>4, <1>6, <1>8 DEF Lockstep, Busy, Sent
  <2>3. ~ Busy(s, c)' /\ ~ Sent(s, c)' /\ ~ (c > c)
    BY <1>3, <1>4, <1>6, <1>8 DEF Busy, Sent, Conns
  <2>4. fw'[s].loc = "hello" /\ fw'[s].conn = c
    BY <1>5
  <2>5. ASSUME NEW e \in Conns(s)
        PROVE /\ e > fw'[s].conn => /\ task'[s][e] = Idle
                                   /\ link'[s][e] = [req |-> None, resp |-> "none", cut |-> FALSE]
              /\ Busy(s, e)' => /\ task'[s][e].line \in Lines(s)
                                /\ link'[s][e].req = None /\ link'[s][e].resp = "none"
                                /\ e = fw'[s].conn => fw'[s].loc \in {"ack", "down"}
              /\ Sent(s, e)' => /\ link'[s][e].resp = "none"
                                /\ e = fw'[s].conn => fw'[s].loc \in {"ack", "down"}
    <3>1. CASE e = c
      BY <3>1, <2>3, <2>4
    <3>2. CASE e # c
      BY <3>2, <2>2, <2>4
    <3> QED
      BY <3>1, <3>2
  <2> QED
    BY <2>1, <2>4, <2>5 DEF Lockstep
<1>12. Frontier(s) <= Frontier(s)'
  <2>1. Frontier(s)' = Frontier(s)
    BY <1>2, <1>5 DEF Frontier
  <2> QED
    BY <2>1, <1>1, FrontierNat
<1>13. Once(s)' /\ Behind(s)' /\ Ahead(s)'
  <2>1. \A e \in Conns(s), n \in Numbers(s) : Flying(s, e, n)' => Flying(s, e, n)
    BY <1>6, <1>8 DEF Flying, Busy, Sent
  <2> QED
    BY <2>1, <1>0, <1>1, <1>2, <1>5, <1>9, <1>12, Quiet DEF SourceInv
<1>14. Newest(s)'
  <2>1. Newest(s) /\ task[s][c].at = "none"
    BY <1>0, <1>7 DEF SourceInv, Idle
  <2>2. ASSUME NEW e \in Conns(s), e # c PROVE Owned(s, e)'
    BY <2>1, <2>2, <1>2, <1>8, OwnedStill DEF Newest
  <2>3. Owned(s, c)'
    <3>1. task'[s][c].at = "hello" /\ task'[s][c].broken = FALSE
      BY <1>8
    <3>2. \A i \in 1 .. Len(stream[s]) : stream[s][i].conn # c
      BY <2>1 DEF Newest, Owned
    <3> QED
      BY <3>1, <3>2, <1>2 DEF Owned
  <2> QED
    BY <2>2, <2>3 DEF Newest
<1>15. Gap(s)' /\ Shows(s)'
  <2>1. Gap(s)'
    BY <1>0, <1>2, GapStill DEF SourceInv
  <2>2. task[s][c].at = "none" /\ task[s][c].broken = FALSE
    BY <1>7 DEF Idle
  <2>3. src[s].known => src[s].conn \in Conns(s)
    BY <1>1, SourceConn
  <2>4. Shows(s)'
    BY <2>2, <2>3, <1>0, <1>2, <1>6, <1>8 DEF SourceInv, Shows, Reported
  <2> QED
    BY <2>1, <2>4
<1>16. Domains'
  BY <1>0, <1>2, <1>6, <1>8 DEF Domains, Connect
<1>17. \A t \in Sources \ {s} : Untouched(t)
  BY <1>0, <1>2, <1>6, <1>8 DEF Domains, Untouched, Connect
<1>18. Compared'
  <2>1. Intact(s) => Intact(s)'
    <3>1. task[s][c].at = "none"
      BY <1>7 DEF Idle
    <3>2. \A e \in Conns(s) : task[s][e].at = "update" => task'[s][e] = task[s][e]
      BY <3>1, <1>8
    <3> QED
      BY <3>2, <1>2 DEF Intact
  <2> QED
    BY <2>1, <1>0, <1>2, <1>17, OneCompared
<1> QED
  BY <1>9, <1>10, <1>11, <1>13, <1>14, <1>15, <1>16, <1>17, <1>18 DEF Keeps, SourceInv

(* The forwarder sends the first line of its batch on connection c. *)
LEMMA NewEntry ==
    ASSUME NEW s \in Sources, Typed(s), Typed(s)', Once(s), Behind(s), NEW c \in Conns(s),
           stream'[s] = stream[s], Frontier(s) <= Frontier(s)',
           NEW B, B = fw'[s].batch,
           \A n \in Numbers(s) :
               Flying(s, c, n)' => 1 \in 1 .. Len(B) /\ B[1].whole /\ n = B[1].n,
           \A e \in Conns(s), n \in Numbers(s) : e # c /\ Flying(s, e, n)' => Flying(s, e, n),
           \A k \in 1 .. Len(B) : B[k].whole => B[k].n <= Frontier(s)',
           \A k \in 1 .. Len(B), i \in 1 .. Len(stream[s]) : stream[s][i].n < B[k].n,
           \A k \in 1 .. Len(B), e \in Conns(s), n \in Numbers(s) : Flying(s, e, n) => n < B[k].n,
           \A k \in 2 .. Len(B) : \A j \in 1 .. k - 1 : B[j].n < B[k].n
    PROVE  Once(s)' /\ Behind(s)' /\ Ahead(s)'
<1>1. MaxEntries[s] \in Nat /\ Frontier(s) \in Nat /\ Frontier(s)' \in Nat
  BY Constants, FrontierNat, FrontierNatNext
<1>2. \A n \in Numbers(s) : n \in Nat
  BY <1>1 DEF Numbers
<1>3. \A i \in 1 .. Len(stream[s]) : stream[s][i].n \in Numbers(s)
  BY StreamLine
<1>4. B \in Seq(Lines(s)) /\ Len(B) \in Nat
  BY DEF Typed, Forwarders
<1>5. \A k \in 1 .. Len(B) : B[k].n \in Numbers(s)
  <2>1. \A k \in 1 .. Len(B) : B[k] \in Lines(s)
    BY <1>4
  <2> QED
    BY <2>1 DEF Lines
<1>6. Once(s)'
  <2>1. ASSUME NEW i \in 1 .. Len(stream[s]), NEW e \in Conns(s)
        PROVE  ~ Flying(s, e, stream[s][i].n)'
    <3>1. CASE e = c
      <4>1. ~ (1 \in 1 .. Len(B) /\ stream[s][i].n = B[1].n)
        BY <1>2, <1>3, <1>5
      <4> QED
        BY <4>1, <3>1, <1>3
    <3>2. CASE e # c
      BY <3>2, <1>3 DEF Once
    <3> QED
      BY <3>1, <3>2
  <2>2. ASSUME NEW e \in Conns(s), NEW n \in Numbers(s), Flying(s, e, n)', Flying(s, c, n)'
        PROVE  e = c
    <3>1. 1 \in 1 .. Len(B) /\ n = B[1].n
      BY <2>2
    <3>2. ~ (n < n)
      BY <1>2
    <3> QED
      BY <2>2, <3>1, <3>2
  <2>3. ASSUME NEW e \in Conns(s), NEW d \in Conns(s), NEW n \in Numbers(s),
               Flying(s, e, n)', Flying(s, d, n)'
        PROVE  e = d
    <3>1. CASE e = c \/ d = c
      BY <3>1, <2>2, <2>3
    <3>2. CASE e # c /\ d # c
      BY <3>2, <2>3 DEF Once
    <3> QED
      BY <3>1, <3>2
  <2> QED
    BY <2>1, <2>3 DEF Once
<1>7. Behind(s)'
  <2>1. \A i \in 1 .. Len(stream[s]) : stream[s][i].n <= Frontier(s)'
    BY <1>1, <1>2, <1>3 DEF Behind
  <2>2. \A e \in Conns(s), n \in Numbers(s) : Flying(s, e, n) => n <= Frontier(s)'
    BY <1>1, <1>2 DEF Behind
  <2>3. \A e \in Conns(s), n \in Numbers(s) : Flying(s, e, n)' => n <= Frontier(s)'
    BY <2>2
  <2> QED
    BY <2>1, <2>3 DEF Behind
<1>8. Ahead(s)'
  <2> SUFFICES ASSUME NEW k \in 2 .. Len(B)
               PROVE  /\ \A j \in 1 .. k - 1 : B[j].n < B[k].n
                      /\ \A i \in 1 .. Len(stream[s]) : stream[s][i].n < B[k].n
                      /\ \A e \in Conns(s), n \in Numbers(s) : Flying(s, e, n)' => n < B[k].n
    BY DEF Ahead
  <2>1. k \in 1 .. Len(B) /\ 1 \in 1 .. k - 1
    BY <1>4
  <2>2. B[1].n < B[k].n
    BY <2>1
  <2>3. ASSUME NEW e \in Conns(s), NEW n \in Numbers(s), Flying(s, e, n)' PROVE n < B[k].n
    <3>1. CASE e = c
      BY <3>1, <2>2, <2>3
    <3>2. CASE e # c
      BY <3>2, <2>1, <2>3
    <3> QED
      BY <3>1, <3>2
  <2> QED
    BY <2>1, <2>3
<1> QED
  BY <1>6, <1>7, <1>8

(* Disconnect: the batch is dropped and the Frontier moves to the end of the
   file. *)
LEMMA DisconnectKeeps ==
    ASSUME IInv, NEW s \in Sources, Disconnect(s)
    PROVE  Keeps(s)
<1>0. Domains /\ SourceInv(s) /\ Compared
  BY DEF IInv
<1>1. Typed(s) /\ Room(s) /\ Lockstep(s)
  BY <1>0 DEF SourceInv
<1>2. /\ fw[s].loc # "down"
      /\ UNCHANGED <<file, task, src, cross, stream, overtaken, faults>>
  BY DEF Disconnect
<1>3. PICK c \in Conns(s) : c = fw[s].conn
  BY <1>1, <1>2, Constants DEF Lockstep, Typed, Forwarders, Conns
<1>4. fw'[s] = [loc |-> "down", conn |-> c, position |-> 0, batch |-> <<>>]
  BY <1>0, <1>3 DEF Disconnect, Domains, Down
<1>5. /\ link'[s][c] = [req |-> link[s][c].req, resp |-> "none", cut |-> link[s][c].cut]
      /\ \A e \in Conns(s) : e # c => link'[s][e] = link[s][e]
      /\ link'[s] \in [Conns(s) -> Links(s)]
      /\ DOMAIN link' = Sources
      /\ \A t \in Sources : t # s => link'[t] = link[t]
  <2>1. link[s] \in [Conns(s) -> Links(s)] /\ link[s][c] \in Links(s)
    BY <1>1 DEF Typed
  <2>2. link'[s] = [link[s] EXCEPT ![c] = [link[s][c] EXCEPT !.resp = "none"]]
    BY <1>0, <1>3 DEF Domains, Disconnect
  <2>3. [link[s][c] EXCEPT !.resp = "none"]
          = [req |-> link[s][c].req, resp |-> "none", cut |-> link[s][c].cut]
    BY <2>1 DEF Links
  <2>4. [req |-> link[s][c].req, resp |-> "none", cut |-> link[s][c].cut] \in Links(s)
    BY <2>1 DEF Links, Responses
  <2>5. DOMAIN link' = Sources /\ \A t \in Sources : t # s => link'[t] = link[t]
    BY <1>0, <1>3 DEF Domains, Disconnect
  <2> QED
    BY <2>1, <2>2, <2>3, <2>4, <2>5
<1>6. Typed(s)'
  <2>1. fw'[s] \in Forwarders(s)
    BY <1>1, <1>3, <1>4, Constants DEF Typed, Forwarders
  <2> QED
    BY <2>1, <1>1, <1>2, <1>5 DEF Typed
<1>7. Room(s)'
  BY <1>1, <1>2 DEF Room
<1>8. Lockstep(s)'
  <2>1. ~ (c > c) /\ fw'[s].conn = c /\ fw'[s].loc = "down"
    BY <1>4, Constants DEF Conns
  <2>2. \A e \in Conns(s) : Busy(s, e)' = Busy(s, e) /\ Sent(s, e)' = Sent(s, e)
    BY <1>2, <1>5 DEF Busy, Sent
  <2> QED
    BY <2>1, <2>2, <1>1, <1>2, <1>3, <1>5 DEF Lockstep
<1>9. Frontier(s) <= Frontier(s)'
  <2>1. /\ ReadFrom(s) \in Nat /\ file[s].base \in Nat /\ file[s].pieces \in Nat
        /\ ReadFrom(s) <= file[s].pieces
    BY <1>1, FrontierNat, FileNat
  <2>2. /\ ReadFrom(s) \div 2 \in Nat /\ file[s].pieces \div 2 \in Nat
        /\ ReadFrom(s) \div 2 <= file[s].pieces \div 2
    BY <2>1, Halves
  <2>3. Frontier(s)' = file[s].base + file[s].pieces \div 2
    BY <1>2, <1>4 DEF Frontier
  <2>4. Frontier(s) \in {file[s].base + ReadFrom(s) \div 2, file[s].base + file[s].pieces \div 2}
    BY DEF Frontier
  <2> QED
    BY <2>1, <2>2, <2>3, <2>4
<1>10. Once(s)' /\ Behind(s)' /\ Ahead(s)'
  <2>1. \A e \in Conns(s), n \in Numbers(s) : Flying(s, e, n)' => Flying(s, e, n)
    BY <1>2, <1>5 DEF Flying, Busy, Sent
  <2> QED
    BY <2>1, <1>0, <1>1, <1>2, <1>4, <1>6, <1>9, Quiet DEF SourceInv
<1>11. Newest(s)' /\ Gap(s)' /\ Shows(s)'
  BY <1>0, <1>1, <1>2, <1>5, Forwarded DEF SourceInv
<1>12. Domains'
  BY <1>0, <1>2, <1>5 DEF Domains, Disconnect
<1>13. \A t \in Sources \ {s} : Untouched(t)
  BY <1>0, <1>2, <1>5 DEF Domains, Untouched, Disconnect
<1> QED
  BY <1>0, <1>2, <1>6, <1>7, <1>8, <1>10, <1>11, <1>12, <1>13, StillCompared DEF Keeps, SourceInv

(* Cut: only the mark on the connection changes. *)
LEMMA CutKeeps ==
    ASSUME IInv, NEW s \in Sources, Cut(s)
    PROVE  Keeps(s)
<1>0. Domains /\ SourceInv(s) /\ Compared
  BY DEF IInv
<1>1. Typed(s) /\ Room(s) /\ Lockstep(s)
  BY <1>0 DEF SourceInv
<1>2. /\ fw[s].loc # "down"
      /\ UNCHANGED <<file, fw, task, src, cross, stream, overtaken>>
  BY DEF Cut
<1>3. PICK c \in Conns(s) : c = fw[s].conn
  BY <1>1, <1>2, Constants DEF Lockstep, Typed, Forwarders, Conns
<1>4. /\ link'[s][c].req = link[s][c].req /\ link'[s][c].resp = link[s][c].resp /\ link'[s][c].cut
      /\ \A e \in Conns(s) : e # c => link'[s][e] = link[s][e]
      /\ link'[s] \in [Conns(s) -> Links(s)]
      /\ DOMAIN link' = Sources
      /\ \A t \in Sources : t # s => link'[t] = link[t]
  <2>1. link[s] \in [Conns(s) -> Links(s)] /\ link[s][c] \in Links(s)
    BY <1>1 DEF Typed
  <2>2. link'[s] = [link[s] EXCEPT ![c] = [link[s][c] EXCEPT !.cut = TRUE]]
    BY <1>0, <1>3 DEF Domains, Cut
  <2>3. PICK l \in Links(s) : l = link[s][c]
    BY <2>1
  <2>4. link'[s][c] = [l EXCEPT !.cut = TRUE] /\ link'[s] \in [Conns(s) -> Links(s)]
    BY <2>1, <2>2, <2>3, LinkCut
  <2>5. DOMAIN link' = Sources /\ \A t \in Sources : t # s => link'[t] = link[t]
    BY <1>0, <1>3 DEF Domains, Cut
  <2>6. link'[s][c].req = l.req /\ link'[s][c].resp = l.resp /\ link'[s][c].cut
    BY <2>4, LinkCut
  <2> QED
    BY <2>1, <2>2, <2>3, <2>4, <2>5, <2>6
<1>6. Typed(s)'
  BY <1>1, <1>2, <1>4 DEF Typed
<1>7. Room(s)'
  BY <1>1, <1>2 DEF Room
<1>8. Lockstep(s)'
  <2>1. ~ (c > c)
    BY Constants DEF Conns
  <2>2. \A e \in Conns(s) : /\ Busy(s, e)' = Busy(s, e) /\ Sent(s, e)' = Sent(s, e)
                            /\ link'[s][e].req = link[s][e].req
                            /\ link'[s][e].resp = link[s][e].resp
    <3>1. ASSUME NEW e \in Conns(s)
          PROVE  /\ task'[s][e] = task[s][e]
                 /\ link'[s][e].req = link[s][e].req /\ link'[s][e].resp = link[s][e].resp
      <4>1. CASE e = c
        BY <4>1, <1>2, <1>4
      <4>2. CASE e # c
        BY <4>2, <1>2, <1>4
      <4> QED
        BY <4>1, <4>2
    <3> QED
      BY <3>1 DEF Busy, Sent
  <2> QED
    BY <2>1, <2>2, <1>1, <1>2, <1>3, <1>4 DEF Lockstep
<1>9. Frontier(s) <= Frontier(s)'
  <2>1. Frontier(s)' = Frontier(s)
    BY <1>2 DEF Frontier, ReadFrom
  <2> QED
    BY <2>1, <1>1, FrontierNat
<1>10. Once(s)' /\ Behind(s)' /\ Ahead(s)'
  <2>1. \A e \in Conns(s), n \in Numbers(s) : Flying(s, e, n)' => Flying(s, e, n)
    BY <1>2, <1>4 DEF Flying, Busy, Sent
  <2> QED
    BY <2>1, <1>0, <1>1, <1>2, <1>6, <1>9, Quiet DEF SourceInv
<1>11. Newest(s)' /\ Gap(s)' /\ Shows(s)'
  BY <1>0, <1>1, <1>2, <1>4, Forwarded DEF SourceInv
<1>12. Domains'
  BY <1>0, <1>2, <1>4, Constants DEF Domains, Cut, Fault
<1>13. \A t \in Sources \ {s} : Untouched(t)
  BY <1>0, <1>2, <1>4 DEF Domains, Untouched
<1> QED
  BY <1>0, <1>2, <1>6, <1>7, <1>8, <1>10, <1>11, <1>12, <1>13, StillCompared DEF Keeps, SourceInv

(* The request that carries the first line of a batch. *)
First(B) == IF B = <<>> THEN None ELSE [kind |-> "entry", line |-> Head(B)]

(* The request carries the first line, if there is one. *)
LEMMA FirstSent ==
    ASSUME NEW s \in Sources, NEW B \in Seq(Lines(s))
    PROVE  /\ First(B) \in Requests(s)
           /\ First(B).kind = "entry" => Len(B) \in Nat /\ 1 \in 1 .. Len(B) /\ First(B).line = B[1]
<1>1. CASE B = <<>>
  BY <1>1 DEF First, Requests, None
<1>2. CASE B # <<>>
  <2>1. Head(B) = B[1] /\ Head(B) \in Lines(s) /\ Len(B) \in Nat /\ Len(B) > 0
    BY <1>2
  <2>2. First(B) = [kind |-> "entry", line |-> B[1]]
    BY <1>2, <2>1 DEF First
  <2> QED
    BY <2>1, <2>2 DEF Requests
<1> QED
  BY <1>1, <1>2

(* A poll or an answer received: the forwarder goes on with the batch B, whose
   first line it sends on its connection c. *)
LEMMA Advance ==
    ASSUME IInv, NEW s \in Sources, NEW c \in Conns(s), c = fw[s].conn,
           \A n : ~ Flying(s, c, n), ~ Busy(s, c),
           UNCHANGED <<file, task, src, cross, stream, overtaken, faults>>,
           DOMAIN fw' = Sources, \A t \in Sources \ {s} : fw'[t] = fw[t],
           NEW B \in Seq(Lines(s)), Send(s, c, First(B)),
           NEW p \in 0 .. 2 * MaxEntries[s],
           fw'[s] = [loc |-> IF B = <<>> THEN "tail" ELSE "ack", conn |-> c,
                     position |-> p, batch |-> B],
           Frontier(s) <= Frontier(s)',
           \A k \in 1 .. Len(B) : B[k].whole => B[k].n <= Frontier(s)',
           \A k \in 1 .. Len(B), i \in 1 .. Len(stream[s]) : stream[s][i].n < B[k].n,
           \A k \in 1 .. Len(B), e \in Conns(s), n \in Numbers(s) : Flying(s, e, n) => n < B[k].n,
           \A k \in 2 .. Len(B) : \A j \in 1 .. k - 1 : B[j].n < B[k].n
    PROVE  Keeps(s)
<1>0. Domains /\ SourceInv(s) /\ Compared
  BY DEF IInv
<1>1. Typed(s) /\ Room(s) /\ Lockstep(s)
  BY <1>0 DEF SourceInv
<1>2. PICK r \in Requests(s) : r = First(B)
  BY FirstSent
<1>3. /\ link'[s][c] = [req |-> r, resp |-> "none", cut |-> link[s][c].cut]
      /\ \A e \in Conns(s) : e # c => link'[s][e] = link[s][e]
      /\ link'[s] \in [Conns(s) -> Links(s)]
      /\ DOMAIN link' = Sources
      /\ \A t \in Sources : t # s => link'[t] = link[t]
  BY <1>0, <1>1, <1>2, Sends
<1>4. Typed(s)'
  <2>1. fw'[s] \in Forwarders(s)
    BY <1>1, Constants DEF Forwarders, Conns
  <2> QED
    BY <2>1, <1>1, <1>3 DEF Typed
<1>5. Room(s)'
  BY <1>1 DEF Room
<1>6. ~ Busy(s, c)' /\ link'[s][c].resp = "none"
  BY <1>3 DEF Busy
<1>7. Sent(s, c)' => /\ B # <<>> /\ 1 \in 1 .. Len(B)
                     /\ link'[s][c].req.line = B[1]
  <2>1. link'[s][c].req = r
    BY <1>3
  <2>2. r.kind = "entry" => 1 \in 1 .. Len(B) /\ r.line = B[1] /\ B # <<>>
    BY <1>2, FirstSent DEF First, None
  <2> QED
    BY <2>1, <2>2 DEF Sent
<1>8. Lockstep(s)'
  <2>1. /\ fw'[s].conn = c /\ fw'[s].batch = B
        /\ B # <<>> => fw'[s].loc = "ack"
        /\ fw'[s].loc = "ack" => B # <<>>
    OBVIOUS
  <2>2. c > 0 /\ ~ (c > c)
    BY Constants DEF Conns
  <2>3. ASSUME NEW e \in Conns(s)
        PROVE /\ e > fw'[s].conn => /\ task'[s][e] = Idle
                                    /\ link'[s][e] = [req |-> None, resp |-> "none", cut |-> FALSE]
              /\ Busy(s, e)' => /\ task'[s][e].line \in Lines(s)
                                /\ link'[s][e].req = None /\ link'[s][e].resp = "none"
                                /\ e = fw'[s].conn => fw'[s].loc \in {"ack", "down"}
              /\ Sent(s, e)' => /\ link'[s][e].resp = "none"
                                /\ e = fw'[s].conn => fw'[s].loc \in {"ack", "down"}
    <3>1. CASE e = c
      BY <3>1, <2>1, <2>2, <1>6, <1>7
    <3>2. CASE e # c
      BY <3>2, <2>1, <1>1, <1>3 DEF Lockstep, Busy, Sent
    <3> QED
      BY <3>1, <3>2
  <2> QED
    BY <2>1, <2>2, <2>3 DEF Lockstep
<1>9. Once(s)' /\ Behind(s)' /\ Ahead(s)'
  <2>1. \A n \in Numbers(s) :
            Flying(s, c, n)' => 1 \in 1 .. Len(B) /\ B[1].whole /\ n = B[1].n
    BY <1>6, <1>7 DEF Flying, Busy
  <2>2. \A e \in Conns(s), n \in Numbers(s) : e # c /\ Flying(s, e, n)' => Flying(s, e, n)
    BY <1>3 DEF Flying, Busy, Sent
  <2>3. B = fw'[s].batch /\ stream'[s] = stream[s] /\ Once(s) /\ Behind(s)
    BY <1>0 DEF SourceInv
  <2> QED
    BY <2>1, <2>2, <2>3, <1>1, <1>4, NewEntry
<1>10. Newest(s)' /\ Gap(s)' /\ Shows(s)'
  <2>1. \A e \in Conns(s) : link[s][e].cut => link'[s][e].cut
    BY <1>3
  <2> QED
    BY <2>1, <1>0, <1>1, Forwarded DEF SourceInv
<1>11. Domains'
  BY <1>0, <1>3 DEF Domains
<1>12. \A t \in Sources \ {s} : Untouched(t)
  BY <1>3 DEF Untouched
<1> QED
  BY <1>0, <1>4, <1>5, <1>8, <1>9, <1>10, <1>11, <1>12, StillCompared DEF Keeps, SourceInv

(* Poll: the lines read are numbered from the Frontier on. *)
LEMMA PollKeeps ==
    ASSUME IInv, NEW s \in Sources, Poll(s)
    PROVE  Keeps(s)
<1>0. Domains /\ SourceInv(s) /\ Compared
  BY DEF IInv
<1>1. Typed(s) /\ Room(s) /\ Lockstep(s) /\ Behind(s)
  BY <1>0 DEF SourceInv
<1>2. /\ fw[s].loc = "tail"
      /\ UNCHANGED <<file, task, src, cross, stream, overtaken, faults>>
  BY DEF Poll
<1>3. PICK c \in Conns(s) : c = fw[s].conn
  BY <1>1, <1>2, Constants DEF Lockstep, Typed, Forwarders, Conns
<1>4. ~ Busy(s, c) /\ \A n : ~ Flying(s, c, n)
  BY <1>1, <1>2, <1>3 DEF Lockstep, Flying, Busy
<1>20. PICK f \in ReadEnds(s) :
          fw' = [fw EXCEPT ![s].position = f, ![s].batch = LinesBetween(s, ReadFrom(s), f),
                           ![s].loc = IF LinesBetween(s, ReadFrom(s), f) = <<>> THEN "tail" ELSE "ack"]
  BY DEF Poll
<1>5. PICK b \in Nat, p \in Nat, q \in Nat :
          /\ b = file[s].base /\ p = ReadFrom(s) /\ q = f
          /\ p <= q /\ q <= file[s].pieces /\ file[s].pieces \in Nat
  <2>1. file[s].base \in Nat /\ file[s].pieces \in Nat /\ ReadFrom(s) \in Nat
    BY <1>1, FileNat, FrontierNat
  <2>2. f \in ReadFrom(s) .. file[s].pieces
    BY <1>20 DEF ReadEnds
  <2> QED
    BY <2>1, <2>2
<1>6. 2 * b + q <= 2 * MaxEntries[s] /\ q \in 0 .. 2 * MaxEntries[s]
  <2>1. 2 * b + file[s].pieces <= 2 * MaxEntries[s]
    BY <1>1, <1>5 DEF Room
  <2> QED
    BY <2>1, <1>5, Constants
<1>7. PICK B : B = LinesBetween(s, p, q)
  OBVIOUS
(* The lines of a poll are numbered from the first one the tailer has not read
   in full, and those that are whole lie within the file. *)
<1>8. /\ B \in Seq(Lines(s)) /\ Len(B) \in Nat
      /\ \A k \in 1 .. Len(B) : /\ k \in Nat
                                /\ B[k].n = b + p \div 2 + k
                                /\ B[k].whole => B[k].n <= b + q \div 2
  <2>1. MaxEntries[s] \in Nat
    BY Constants
  <2>2. PICK h \in Nat : h = p \div 2
    BY Halves
  <2>3. PICK g \in Nat : g = (q + 1) \div 2
    BY Halves
  <2>4. h <= g /\ b + g <= MaxEntries[s]
    BY <2>1, <2>2, <2>3, <1>5, <1>6, Halves
  <2>5. PICK z \in Nat : z = q \div 2
    BY Halves
  <2> DEFINE first == h + 1
             whole(k) == 2 * k - 2 >= p /\ 2 * k <= q
  <2>6. B = [i \in 1 .. g - first + 1 |->
                [n |-> b + first + i - 1, whole |-> whole(first + i - 1)]]
    BY <2>2, <2>3, <1>5, <1>7 DEF LinesBetween
  <2>7. g - first + 1 = g - h /\ g - h \in Nat
    BY <2>2, <2>3, <2>4
  <2>8. Len(B) = g - h /\ DOMAIN B = 1 .. g - h
    BY <2>6, <2>7
  <2>9. ASSUME NEW k \in 1 .. g - h
        PROVE  /\ k \in Nat /\ B[k] \in Lines(s)
               /\ B[k].n = b + h + k
               /\ B[k].whole => B[k].n <= b + z
    <3>1. B[k] = [n |-> b + first + k - 1, whole |-> whole(first + k - 1)]
      BY <2>6, <2>7
    <3>2. b + first + k - 1 = b + h + k /\ first + k - 1 = h + k /\ k \in Nat
      BY <2>2, <2>7
    <3>3. b + h + k \in Numbers(s)
      BY <2>1, <2>2, <2>3, <2>4, <2>7 DEF Numbers
    <3>4. 2 * (h + k) <= q => h + k <= z
      BY <2>2, <2>5, <2>7
    <3>5. whole(first + k - 1) \in BOOLEAN
      OBVIOUS
    <3>6. B[k] \in Lines(s)
      BY <3>1, <3>2, <3>3, <3>5 DEF Lines
    <3>7. B[k].n = b + h + k
      BY <3>1, <3>2
    <3>8. B[k].whole => h + k <= z
      <4>1. B[k].whole = whole(h + k)
        BY <3>1, <3>2
      <4> QED
        BY <4>1, <3>4
    <3>9. h + k <= z => b + h + k <= b + z
      BY <2>2, <2>5, <2>7
    <3> QED
      BY <3>2, <3>6, <3>7, <3>8, <3>9
  <2>10. B \in Seq(Lines(s))
    <3>1. B \in [1 .. g - h -> Lines(s)]
      BY <2>6, <2>7, <2>9
    <3> QED
      BY <3>1, <2>7
  <2> QED
    BY <2>2, <2>5, <2>7, <2>8, <2>9, <2>10
<1>9. /\ fw'[s] = [loc |-> IF B = <<>> THEN "tail" ELSE "ack", conn |-> c,
                   position |-> q, batch |-> B]
      /\ DOMAIN fw' = Sources /\ \A t \in Sources \ {s} : fw'[t] = fw[t]
  BY <1>0, <1>1, <1>3, <1>5, <1>7, <1>20 DEF Domains, Typed, Forwarders
<1>10. Send(s, c, First(B))
  <2>1. fw'[s].batch = B
    BY <1>9
  <2> QED
    BY <2>1, <1>3 DEF Poll, SendFirst, First
<1>11. Frontier(s) = b + p \div 2 /\ Frontier(s)' = b + q \div 2
  <2>1. ReadFrom(s)' = q
    BY <1>2, <1>5, <1>9 DEF ReadFrom
  <2>2. fw'[s].loc \in {"tail", "ack"}
    BY <1>9
  <2> QED
    BY <2>1, <2>2, <1>2, <1>5 DEF Frontier
<1>12. p \div 2 \in Nat /\ q \div 2 \in Nat /\ p \div 2 <= q \div 2
  BY <1>5, Halves
<1>13. Frontier(s) <= Frontier(s)'
  BY <1>11, <1>12
<1>14. ASSUME NEW k \in 1 .. Len(B), NEW m \in Nat, m <= Frontier(s) PROVE m < B[k].n
  BY <1>14, <1>8, <1>11, <1>12, SMTT(60)
<1>15. \A n \in Numbers(s) : n \in Nat
  BY Constants DEF Numbers
<1>16. \A k \in 1 .. Len(B), i \in 1 .. Len(stream[s]) : stream[s][i].n < B[k].n
  BY <1>1, <1>14, <1>15, StreamLine DEF Behind
<1>17. \A k \in 1 .. Len(B), e \in Conns(s), n \in Numbers(s) : Flying(s, e, n) => n < B[k].n
  BY <1>1, <1>14, <1>15 DEF Behind
<1>18. \A k \in 2 .. Len(B) : \A j \in 1 .. k - 1 : B[j].n < B[k].n
  <2> SUFFICES ASSUME NEW k \in 2 .. Len(B), NEW j \in 1 .. k - 1 PROVE B[j].n < B[k].n
    OBVIOUS
  <2>1. j \in 1 .. Len(B) /\ k \in 1 .. Len(B) /\ j < k /\ j \in Nat /\ k \in Nat
    BY <1>8
  <2>2. B[j].n = b + p \div 2 + j /\ B[k].n = b + p \div 2 + k
    BY <2>1, <1>8
  <2> QED
    BY <2>1, <2>2, <1>12
<1>19. \A k \in 1 .. Len(B) : B[k].whole => B[k].n <= Frontier(s)'
  BY <1>8, <1>11
<1> QED
  BY <1>2, <1>3, <1>4, <1>6, <1>8, <1>9, <1>10, <1>13, <1>16, <1>17, <1>18, <1>19, Advance

(* ReceiveResponse: the next line of the batch is later than all that was sent
   or stored. *)
LEMMA ReceiveResponseKeeps ==
    ASSUME IInv, NEW s \in Sources, ReceiveResponse(s)
    PROVE  Keeps(s)
<1>0. Domains /\ SourceInv(s) /\ Compared
  BY DEF IInv
<1>1. Typed(s) /\ Lockstep(s) /\ Behind(s) /\ Ahead(s)
  BY <1>0 DEF SourceInv
<1>2. /\ fw[s].loc = "ack" /\ link[s][fw[s].conn].resp # "none"
      /\ UNCHANGED <<file, task, src, cross, stream, overtaken, faults>>
  BY DEF ReceiveResponse
<1>3. PICK c \in Conns(s) : c = fw[s].conn
  BY <1>1, <1>2, Constants DEF Lockstep, Typed, Forwarders, Conns
<1>4. ~ Busy(s, c) /\ \A n : ~ Flying(s, c, n)
  BY <1>1, <1>2, <1>3 DEF Lockstep, Flying, Busy
<1>5. PICK A : A = fw[s].batch /\ A \in Seq(Lines(s)) /\ A # <<>>
  BY <1>1, <1>2 DEF Typed, Forwarders, Lockstep
<1>6. PICK B : B = Tail(A)
  OBVIOUS
<1>7. /\ B \in Seq(Lines(s)) /\ Len(B) \in Nat /\ Len(A) = Len(B) + 1
      /\ \A k \in 1 .. Len(B) : B[k] = A[k + 1]
      /\ B = <<>> <=> Len(A) = 1
  <2>1. Len(A) \in Nat /\ Len(A) > 0
    BY <1>5
  <2>2. B \in Seq(Lines(s)) /\ Len(B) = Len(A) - 1
    BY <2>1, <1>5, <1>6
  <2>3. \A k \in 1 .. Len(A) - 1 : B[k] = A[k + 1]
    BY <2>1, <1>5, <1>6
  <2>4. B = <<>> <=> Len(B) = 0
    BY <2>2, EmptySeq
  <2> QED
    BY <2>1, <2>2, <2>3, <2>4
<1>8. PICK p \in 0 .. 2 * MaxEntries[s] : p = fw[s].position
  BY <1>1 DEF Typed, Forwarders
<1>9. /\ fw'[s] = [loc |-> IF B = <<>> THEN "tail" ELSE "ack", conn |-> c,
                   position |-> p, batch |-> B]
      /\ DOMAIN fw' = Sources /\ \A t \in Sources \ {s} : fw'[t] = fw[t]
  <2>1. DOMAIN fw' = Sources /\ \A t \in Sources \ {s} : fw'[t] = fw[t]
    BY <1>0 DEF Domains, ReceiveResponse
  <2>2. fw'[s] = [loc |-> IF Len(A) = 1 THEN "tail" ELSE "ack", conn |-> c,
                  position |-> p, batch |-> Tail(A)]
    BY <1>0, <1>1, <1>3, <1>5, <1>8 DEF Domains, ReceiveResponse, Typed, Forwarders
  <2> QED
    BY <2>1, <2>2, <1>6, <1>7
<1>10. Send(s, c, First(B))
  <2>1. fw'[s].batch = B
    BY <1>9
  <2> QED
    BY <2>1, <1>3 DEF ReceiveResponse, SendFirst, First
<1>11. Frontier(s)' = Frontier(s) /\ Frontier(s) \in Nat
  <2>1. fw'[s].loc \in {"tail", "ack"} /\ fw'[s].position = fw[s].position
    BY <1>8, <1>9
  <2>2. ReadFrom(s)' = ReadFrom(s)
    BY <2>1, <1>2 DEF ReadFrom
  <2>3. Frontier(s)' = Frontier(s)
    BY <2>1, <2>2, <1>2 DEF Frontier
  <2> QED
    BY <2>3, <1>1, FrontierNat
<1>12. \A k \in 1 .. Len(B) : k + 1 \in 2 .. Len(A) /\ k + 1 \in 1 .. Len(A)
  BY <1>7
<1>13. \A k \in 1 .. Len(B) : B[k].whole => B[k].n <= Frontier(s)'
  BY <1>1, <1>5, <1>7, <1>11, <1>12 DEF Behind
<1>14. \A k \in 1 .. Len(B), i \in 1 .. Len(stream[s]) : stream[s][i].n < B[k].n
  BY <1>1, <1>5, <1>7, <1>12 DEF Ahead
<1>15. \A k \in 1 .. Len(B), e \in Conns(s), n \in Numbers(s) : Flying(s, e, n) => n < B[k].n
  BY <1>1, <1>5, <1>7, <1>12 DEF Ahead
<1>16. \A k \in 2 .. Len(B) : \A j \in 1 .. k - 1 : B[j].n < B[k].n
  <2> SUFFICES ASSUME NEW k \in 2 .. Len(B), NEW j \in 1 .. k - 1 PROVE B[j].n < B[k].n
    OBVIOUS
  <2>1. /\ j \in 1 .. Len(B) /\ k \in 1 .. Len(B)
        /\ k + 1 \in 2 .. Len(A) /\ j + 1 \in 1 .. (k + 1) - 1
    BY <1>7
  <2> QED
    BY <2>1, <1>1, <1>5, <1>7 DEF Ahead
<1> QED
  BY <1>2, <1>3, <1>4, <1>7, <1>9, <1>10, <1>11, <1>13, <1>14, <1>15, <1>16, Advance, SMTT(60)

(* The tasks that have no line in their hands. *)
LEMMA SpecialTasks ==
    ASSUME NEW s \in Sources
    PROVE  /\ Idle \in Tasks(s) /\ Ended \in Tasks(s)
           /\ Ended = [at |-> "ended", line |-> None, broken |-> FALSE]
           /\ \A a \in Places : /\ [Idle EXCEPT !.at = a] \in Tasks(s)
                                /\ [Idle EXCEPT !.at = a] = [at |-> a, line |-> None, broken |-> FALSE]
<1>1. Idle = [at |-> "none", line |-> None, broken |-> FALSE]
  BY DEF Idle
<1>2. ASSUME NEW a PROVE [Idle EXCEPT !.at = a] = [at |-> a, line |-> None, broken |-> FALSE]
  <2>1. PICK k, n, f : k = Idle /\ n = None /\ f = FALSE
    BY Zenon
  <2>2. k = [at |-> "none", line |-> n, broken |-> f]
    BY <2>1, <1>1, Zenon
  <2>3. [k EXCEPT !.at = a] = [at |-> a, line |-> n, broken |-> f]
    BY <2>2
  <2> QED
    BY <2>1, <2>3, Zenon
<1> QED
  BY <1>1, <1>2 DEF Tasks, Places, Ended

(* The answer of a task, sent or lost with its connection. *)
LEMMA Responds ==
    ASSUME Domains, NEW s \in Sources, Typed(s), NEW c \in Conns(s), NEW r \in Responses,
           NEW v \in Tasks(s), Respond(s, c, r, v)
    PROVE  /\ \/ task'[s][c] = v
              \/ task'[s][c] = Ended /\ link[s][c].cut
           /\ link'[s][c].req = None /\ link'[s][c].cut = link[s][c].cut
           /\ \A e \in Conns(s) : e # c => task'[s][e] = task[s][e] /\ link'[s][e] = link[s][e]
           /\ link'[s] \in [Conns(s) -> Links(s)] /\ task'[s] \in [Conns(s) -> Tasks(s)]
           /\ DOMAIN link' = Sources /\ DOMAIN task' = Sources
           /\ \A t \in Sources : t # s => task'[t] = task[t] /\ link'[t] = link[t]
<1>1. link[s] \in [Conns(s) -> Links(s)] /\ link[s][c] \in Links(s)
  BY DEF Typed
<1>2. None \in Requests(s) /\ "none" \in Responses
  BY DEF Requests, Responses
<1>3. CASE /\ task' = [task EXCEPT ![s][c] = v]
           /\ link' = [link EXCEPT ![s][c].req = None,
                  ![s][c].resp = IF fw[s] = Down(c) \/ fw[s].conn # c THEN "none" ELSE r]
  <2>1. PICK x \in Responses : x = IF fw[s] = Down(c) \/ fw[s].conn # c THEN "none" ELSE r
    BY <1>2
  <2>2. link'[s] = [link[s] EXCEPT ![c] = [link[s][c] EXCEPT !.req = None, !.resp = x]]
    <3> DEFINE m == [link EXCEPT ![s][c].req = None]
    <3>1. link' = [m EXCEPT ![s][c].resp = x]
      BY <1>3, <2>1
    <3>2. DOMAIN m = Sources /\ m[s] = [link[s] EXCEPT ![c] = [link[s][c] EXCEPT !.req = None]]
      BY DEF Domains
    <3> HIDE DEF m
    <3>3. link'[s] = [m[s] EXCEPT ![c] = [m[s][c] EXCEPT !.resp = x]]
      BY <3>1, <3>2
    <3> QED
      BY <3>2, <3>3, <1>1 DEF Links
  <2>3. PICK l \in Links(s) : l = link[s][c]
    BY <1>1
  <2>4. [l EXCEPT !.req = None, !.resp = x] = [req |-> None, resp |-> x, cut |-> l.cut]
    BY LinkRecord
  <2>5. [req |-> None, resp |-> x, cut |-> l.cut] \in Links(s)
    BY <1>2, <2>1, <2>3 DEF Links
  <2>6. link'[s] = [link[s] EXCEPT ![c] = [req |-> None, resp |-> x, cut |-> l.cut]]
    BY <2>2, <2>3, <2>4, Zenon
  <2>7. DOMAIN link' = Sources /\ \A t \in Sources : t # s => link'[t] = link[t]
    BY <1>3 DEF Domains
  <2>8. /\ task'[s][c] = v
        /\ \A e \in Conns(s) : e # c => task'[s][e] = task[s][e]
        /\ task'[s] \in [Conns(s) -> Tasks(s)]
        /\ DOMAIN task' = Sources
        /\ \A t \in Sources : t # s => task'[t] = task[t]
    BY <1>3, TaskSet
  <2> QED
    BY <2>3, <2>5, <2>6, <2>7, <2>8, <1>1
<1>4. CASE /\ link[s][c].cut
           /\ task' = [task EXCEPT ![s][c] = Ended]
           /\ link' = [link EXCEPT ![s][c].req = None]
  <2>1. link'[s] = [link[s] EXCEPT ![c] = [link[s][c] EXCEPT !.req = None]]
    BY <1>4 DEF Domains
  <2>2. [link[s][c] EXCEPT !.req = None]
          = [req |-> None, resp |-> link[s][c].resp, cut |-> link[s][c].cut]
    BY <1>1 DEF Links
  <2>3. [req |-> None, resp |-> link[s][c].resp, cut |-> link[s][c].cut] \in Links(s)
    BY <1>1, <1>2 DEF Links
  <2>4. DOMAIN link' = Sources /\ \A t \in Sources : t # s => link'[t] = link[t]
    BY <1>4 DEF Domains
  <2>5. Ended \in Tasks(s)
    BY SpecialTasks
  <2>6. /\ task'[s][c] = Ended
        /\ \A e \in Conns(s) : e # c => task'[s][e] = task[s][e]
        /\ task'[s] \in [Conns(s) -> Tasks(s)]
        /\ DOMAIN task' = Sources
        /\ \A t \in Sources : t # s => task'[t] = task[t]
    BY <1>4, <2>5, TaskSet
  <2>7. /\ link'[s][c] = [req |-> None, resp |-> link[s][c].resp, cut |-> link[s][c].cut]
        /\ \A e \in Conns(s) : e # c => link'[s][e] = link[s][e]
        /\ link'[s] \in [Conns(s) -> Links(s)]
    BY <2>1, <2>2, <2>3, <1>1
  <2> QED
    BY <2>4, <2>6, <2>7, <1>4
<1> QED
  BY <1>3, <1>4 DEF Respond

(* The step of a task on connection c as the forwarder sees it. *)
LEMMA Serving ==
    ASSUME NEW s \in Sources, Typed(s), Typed(s)', Room(s), Lockstep(s), NEW c \in Conns(s),
           task[s][c].at # "none", UNCHANGED <<file, fw>>,
           \A e \in Conns(s) : e # c => task'[s][e] = task[s][e] /\ link'[s][e] = link[s][e],
           Busy(s, c)' => /\ task'[s][c].line \in Lines(s) /\ link'[s][c].req = None
                          /\ link'[s][c].resp = "none"
                          /\ c = fw[s].conn => fw[s].loc \in {"ack", "down"},
           ~ Sent(s, c)' \/ link'[s][c] = link[s][c]
    PROVE  Room(s)' /\ Lockstep(s)' /\ Frontier(s) <= Frontier(s)'
<1>1. Room(s)'
  BY DEF Room
<1>2. Frontier(s) <= Frontier(s)'
  <2>1. Frontier(s)' = Frontier(s)
    BY DEF Frontier, ReadFrom
  <2> QED
    BY <2>1, FrontierNat
<1>3. ~ (c > fw[s].conn)
  BY DEF Lockstep, Idle
<1>4. ASSUME NEW e \in Conns(s)
      PROVE /\ e > fw'[s].conn => /\ task'[s][e] = Idle
                                  /\ link'[s][e] = [req |-> None, resp |-> "none", cut |-> FALSE]
            /\ Busy(s, e)' => /\ task'[s][e].line \in Lines(s)
                              /\ link'[s][e].req = None /\ link'[s][e].resp = "none"
                              /\ e = fw'[s].conn => fw'[s].loc \in {"ack", "down"}
            /\ Sent(s, e)' => /\ link'[s][e].resp = "none"
                              /\ e = fw'[s].conn => fw'[s].loc \in {"ack", "down"}
  <2>1. CASE e = c
    BY <2>1, <1>3 DEF Lockstep, Sent
  <2>2. CASE e # c
    BY <2>2 DEF Lockstep, Busy, Sent
  <2> QED
    BY <2>1, <2>2
<1>5. Lockstep(s)'
  BY <1>4 DEF Lockstep
<1> QED
  BY <1>1, <1>2, <1>5

(* A task that has no entry to hand over answers and moves on, or ends, and the
   shared state stays as it is. *)
LEMMA Answers ==
    ASSUME IInv, NEW s \in Sources, NEW c \in Conns(s), NEW r \in Responses, NEW v \in Tasks(s),
           Respond(s, c, r, v), UNCHANGED <<file, fw, src, cross, stream, overtaken>>,
           faults' \in 0 .. MaxFaults, ~ task[s][c].broken, ~ v.broken,
           \/ task[s][c].at = "hello" /\ v.at = "insert"
           \/ task[s][c].at \in {"receive", "newline", "acknowledge"} /\ v.at = "receive"
    PROVE  Keeps(s)
<1>0. Domains /\ SourceInv(s) /\ Compared
  BY DEF IInv
<1>1. Typed(s) /\ Room(s) /\ Lockstep(s) /\ Newest(s)
  BY <1>0 DEF SourceInv
<1>2. /\ \/ task'[s][c] = v
         \/ task'[s][c] = Ended /\ link[s][c].cut
      /\ link'[s][c].req = None /\ link'[s][c].cut = link[s][c].cut
      /\ \A e \in Conns(s) : e # c => task'[s][e] = task[s][e] /\ link'[s][e] = link[s][e]
      /\ link'[s] \in [Conns(s) -> Links(s)] /\ task'[s] \in [Conns(s) -> Tasks(s)]
      /\ DOMAIN link' = Sources /\ DOMAIN task' = Sources
      /\ \A t \in Sources : t # s => task'[t] = task[t] /\ link'[t] = link[t]
  BY <1>0, <1>1, Responds
<1>3. /\ task'[s][c].at \in {"ended", "insert", "receive"} /\ ~ task'[s][c].broken
      /\ task'[s][c].at = "insert" => task[s][c].at = "hello"
      /\ task'[s][c].at = "receive" => task[s][c].at \in {"receive", "newline", "acknowledge"}
  BY <1>2, SpecialTasks
<1>4. Typed(s)'
  BY <1>1, <1>2 DEF Typed
<1>5. ~ Busy(s, c)' /\ ~ Sent(s, c)'
  BY <1>2, <1>3 DEF Busy, Sent, None
<1>6. Room(s)' /\ Lockstep(s)' /\ Frontier(s) <= Frontier(s)'
  BY <1>1, <1>2, <1>4, <1>5, Serving
<1>7. Once(s)' /\ Behind(s)' /\ Ahead(s)'
  <2>1. \A e \in Conns(s), n \in Numbers(s) : Flying(s, e, n)' => Flying(s, e, n)
    BY <1>2, <1>5 DEF Flying, Busy, Sent
  <2> QED
    BY <2>1, <1>0, <1>4, <1>6, Quiet DEF SourceInv
<1>8. Newest(s)'
  <2>1. ASSUME NEW e \in Conns(s), e # c PROVE Owned(s, e)'
    BY <2>1, <1>1, <1>2, OwnedStill DEF Newest
  <2>2. Owned(s, c)'
    <3>1. \A i : LastOf(s, c, i)' = LastOf(s, c, i)
      BY DEF LastOf
    <3> QED
      BY <3>1, <1>1, <1>3 DEF Newest, Owned
  <2> QED
    BY <2>1, <2>2 DEF Newest
<1>9. Gap(s)'
  BY <1>0, GapStill DEF SourceInv
<1>10. Shows(s)'
  <2>1. src[s].known => src[s].conn \in Conns(s)
    BY <1>1, SourceConn
  <2>2. \A e \in Conns(s) : Reported(s, e)' = Reported(s, e)
    BY <1>2, <1>3 DEF Reported
  <2>3. \A e \in Conns(s) : link[s][e].cut /\ task[s][e].at = "ended"
                            => link'[s][e].cut /\ task'[s][e].at = "ended"
    BY <1>2
  <2> QED
    BY <2>1, <2>2, <2>3, <1>0 DEF SourceInv, Shows
<1>11. Domains'
  BY <1>0, <1>2 DEF Domains
<1>12. \A t \in Sources \ {s} : Untouched(t)
  BY <1>2 DEF Untouched
<1>13. Compared'
  <2>1. \A e \in Conns(s) : task[s][e].at = "update" => task'[s][e] = task[s][e]
    BY <1>2
  <2>2. Intact(s) => Intact(s)'
    BY <2>1 DEF Intact
  <2> QED
    BY <2>2, <1>0, <1>12, OneCompared
<1> QED
  BY <1>4, <1>6, <1>7, <1>8, <1>9, <1>10, <1>11, <1>12, <1>13 DEF Keeps, SourceInv

(* Welcome: the task has delivered nothing, and goes on or ends. *)
LEMMA WelcomeKeeps ==
    ASSUME IInv, NEW s \in Sources, NEW c \in Conns(s), Welcome(s, c)
    PROVE  Keeps(s)
<1>1. PICK v \in Tasks(s) : /\ v = [Idle EXCEPT !.at = "insert"]
                            /\ v.at = "insert" /\ v.broken = FALSE
  <2>1. "insert" \in Places
    BY DEF Places
  <2>2. /\ [Idle EXCEPT !.at = "insert"] \in Tasks(s)
        /\ [Idle EXCEPT !.at = "insert"] = [at |-> "insert", line |-> None, broken |-> FALSE]
    BY <2>1, SpecialTasks
  <2> QED
    BY <2>2
<1>2. ~ task[s][c].broken /\ faults \in 0 .. MaxFaults
  BY DEF IInv, Domains, SourceInv, Newest, Owned, Welcome
<1>3. "welcome" \in Responses
  BY DEF Responses
<1>4. /\ Respond(s, c, "welcome", v) /\ task[s][c].at = "hello"
      /\ UNCHANGED <<file, fw, src, cross, stream, overtaken, faults>>
  BY <1>1 DEF Welcome
<1> QED
  BY <1>1, <1>2, <1>3, <1>4, Answers

(* RejectLine: a line that is not whole is in nobody's hands. *)
LEMMA RejectLineKeeps ==
    ASSUME IInv, NEW s \in Sources, NEW c \in Conns(s), RejectLine(s, c)
    PROVE  Keeps(s)
<1>1. PICK v \in Tasks(s) : v = task[s][c]
  BY DEF IInv, SourceInv, Typed
<1>2. ~ task[s][c].broken /\ faults \in 0 .. MaxFaults
  BY DEF IInv, Domains, SourceInv, Newest, Owned, RejectLine
<1>3. "reject" \in Responses
  BY DEF Responses
<1>4. /\ Respond(s, c, "reject", v) /\ task[s][c].at = "receive"
      /\ UNCHANGED <<file, fw, src, cross, stream, overtaken, faults>>
  BY <1>1 DEF RejectLine
<1> QED
  BY <1>1, <1>2, <1>3, <1>4, Answers

(* EndLine: the entry is in the stream file already, and is answered. *)
LEMMA EndLineKeeps ==
    ASSUME IInv, NEW s \in Sources, NEW c \in Conns(s), EndLine(s, c)
    PROVE  Keeps(s)
<1>1. PICK v \in Tasks(s) : /\ v = [Idle EXCEPT !.at = "receive"]
                            /\ v.at = "receive" /\ v.broken = FALSE
  <2>1. "receive" \in Places
    BY DEF Places
  <2>2. /\ [Idle EXCEPT !.at = "receive"] \in Tasks(s)
        /\ [Idle EXCEPT !.at = "receive"] = [at |-> "receive", line |-> None, broken |-> FALSE]
    BY <2>1, SpecialTasks
  <2> QED
    BY <2>2
<1>2. task[s][c].at \in {"newline", "acknowledge"}
  BY DEF EndLine
<1>3. ~ task[s][c].broken
  BY <1>2 DEF IInv, SourceInv, Newest, Owned
<1>4. faults' \in 0 .. MaxFaults
  BY Constants DEF IInv, Domains, EndLine, Fault
<1>5. "ack" \in Responses
  BY DEF Responses
<1>6. Respond(s, c, "ack", v) /\ UNCHANGED <<file, fw, src, cross, stream, overtaken>>
  BY <1>1 DEF EndLine
<1> QED
  BY <1>1, <1>2, <1>3, <1>4, <1>5, <1>6, Answers

(* ReceiveEntry: the entry moves from the connection to the task, and follows
   the last one delivered unless the comparison failed. *)
LEMMA ReceiveEntryKeeps ==
    ASSUME IInv, NEW s \in Sources, NEW c \in Conns(s), ReceiveEntry(s, c)
    PROVE  Keeps(s)
<1>0. Domains /\ SourceInv(s) /\ Compared
  BY DEF IInv
<1>1. Typed(s) /\ Room(s) /\ Lockstep(s) /\ Newest(s)
  BY <1>0 DEF SourceInv
<1>2. /\ task[s][c].at = "receive" /\ Sent(s, c) /\ link[s][c].req.line.whole
      /\ UNCHANGED <<file, fw, src, cross, stream, overtaken, faults>>
  BY DEF ReceiveEntry, Sent
<1>3. link[s][c] \in Links(s) /\ link[s][c].req \in Requests(s)
  BY <1>1 DEF Typed, Links
<1>4. PICK l \in Lines(s) : l = link[s][c].req.line
  BY <1>2, <1>3 DEF Requests, Sent, None
<1>5. l.n \in Numbers(s) /\ l.whole
  BY <1>2, <1>4 DEF Lines
<1>6. PICK a \in {"update", "break"} : a = IF ChainOk(s, l.n) THEN "update" ELSE "break"
  OBVIOUS
<1>7. PICK v \in Tasks(s) : v = [at |-> a, line |-> l, broken |-> FALSE]
  BY DEF Tasks, Places
<1>8. task' = [task EXCEPT ![s][c] = v]
  <2>1. [Idle EXCEPT !.line = l, !.at = a] = [at |-> a, line |-> l, broken |-> FALSE]
    <3>1. PICK k, f, n : k = Idle /\ f = FALSE /\ n = None
      BY Zenon
    <3>2. k = [at |-> "none", line |-> n, broken |-> f]
      BY <3>1, Zenon DEF Idle
    <3>3. [k EXCEPT !.line = l, !.at = a] = [at |-> a, line |-> l, broken |-> f]
      <4>1. PICK m : m = [k EXCEPT !.line = l]
        BY Zenon
      <4>2. m = [at |-> "none", line |-> l, broken |-> f]
        BY <4>1, <3>2
      <4>3. [m EXCEPT !.at = a] = [at |-> a, line |-> l, broken |-> f]
        BY <4>2
      <4> QED
        BY <4>1, <4>3, Zenon
    <3> QED
      BY <3>1, <3>3, Zenon
  <2>2. task' = [task EXCEPT ![s][c] = [Idle EXCEPT !.line = l, !.at = a]]
    BY <1>4, <1>6, Zenon DEF ReceiveEntry
  <2> QED
    BY <2>1, <2>2, <1>7, Zenon
<1>9. /\ task'[s][c] = v
      /\ \A e \in Conns(s) : e # c => task'[s][e] = task[s][e]
      /\ task'[s] \in [Conns(s) -> Tasks(s)]
      /\ DOMAIN task' = Sources
      /\ \A t \in Sources : t # s => task'[t] = task[t]
  BY <1>0, <1>1, <1>8, TaskSet
<1>10. /\ link'[s][c] = [req |-> None, resp |-> link[s][c].resp, cut |-> link[s][c].cut]
       /\ \A e \in Conns(s) : e # c => link'[s][e] = link[s][e]
       /\ link'[s] \in [Conns(s) -> Links(s)]
       /\ DOMAIN link' = Sources
       /\ \A t \in Sources : t # s => link'[t] = link[t]
  <2>1. link'[s] = [link[s] EXCEPT ![c] = [link[s][c] EXCEPT !.req = None]]
    BY <1>0 DEF Domains, ReceiveEntry
  <2>2. [link[s][c] EXCEPT !.req = None]
          = [req |-> None, resp |-> link[s][c].resp, cut |-> link[s][c].cut]
    BY <1>3 DEF Links
  <2>3. [req |-> None, resp |-> link[s][c].resp, cut |-> link[s][c].cut] \in Links(s)
    BY <1>3 DEF Links, Requests
  <2>4. DOMAIN link' = Sources /\ \A t \in Sources : t # s => link'[t] = link[t]
    BY <1>0 DEF Domains, ReceiveEntry
  <2> QED
    BY <2>1, <2>2, <2>3, <2>4, <1>1 DEF Typed
<1>11. task'[s][c].at = a /\ task'[s][c].line = l /\ task'[s][c].broken = FALSE
  BY <1>7, <1>9
<1>12. Typed(s)'
  BY <1>1, <1>2, <1>9, <1>10 DEF Typed
<1>13. ~ Sent(s, c)' /\ link'[s][c].req = None /\ link'[s][c].resp = "none"
  BY <1>1, <1>2, <1>10 DEF Sent, None, Lockstep
<1>14. Room(s)' /\ Lockstep(s)' /\ Frontier(s) <= Frontier(s)'
  <2>1. c = fw[s].conn => fw[s].loc \in {"ack", "down"}
    BY <1>1, <1>2 DEF Lockstep
  <2> QED
    BY <2>1, <1>1, <1>2, <1>4, <1>9, <1>10, <1>11, <1>12, <1>13, Serving
<1>15. Once(s)' /\ Behind(s)' /\ Ahead(s)'
  <2>1. \A n \in Numbers(s) : Flying(s, c, n)' => Flying(s, c, n)
    BY <1>2, <1>4, <1>11, <1>13 DEF Flying
  <2>2. \A e \in Conns(s), n \in Numbers(s) : e # c /\ Flying(s, e, n)' => Flying(s, e, n)
    BY <1>9, <1>10 DEF Flying, Busy, Sent
  <2> QED
    BY <2>1, <2>2, <1>0, <1>2, <1>12, <1>14, Quiet DEF SourceInv
<1>16. Newest(s)'
  <2>1. ASSUME NEW e \in Conns(s), e # c PROVE Owned(s, e)'
    BY <2>1, <1>1, <1>2, <1>9, OwnedStill DEF Newest
  <2>2. Owned(s, c)'
    <3>1. \A i : LastOf(s, c, i)' = LastOf(s, c, i)
      BY <1>2 DEF LastOf
    <3>2. ASSUME s \notin overtaken, src[s].known, src[s].conn = c, a = "update"
          PROVE  Follows(s, c)'
      <4>1. src[s].received = 0 \/ src[s].prev = l.n - 1
        BY <3>2, <1>6 DEF ChainOk
      <4>2. src[s].prev \in Nat /\ l.n \in Nat
        <5>1. src[s] \in SourceStates(s)
          BY <3>2, <1>1, SourceConn
        <5>2. src[s].prev \in 0 .. MaxEntries[s]
          BY <5>1 DEF SourceStates
        <5> QED
          BY <5>2, <1>5, Constants DEF Numbers
      <4>3. \A i \in 1 .. Len(stream[s]) :
                LastOf(s, c, i) => src[s].received # 0 /\ src[s].prev = stream[s][i].n
        BY <3>2, <1>1, <1>2 DEF Newest, Owned
      <4>4. \A i \in 1 .. Len(stream[s]) : LastOf(s, c, i) => l.n = stream[s][i].n + 1
        BY <4>1, <4>2, <4>3
      <4> QED
        BY <4>4, <3>1, <1>2, <1>11 DEF Follows
    <3>3. s \notin overtaken => src[s].known /\ c <= src[s].conn
      BY <1>1, <1>2 DEF Newest, Owned
    <3>4. src[s].known /\ s \notin overtaken /\ src[s].conn = c =>
            \A i \in 1 .. Len(stream[s]) :
                LastOf(s, c, i) => src[s].received # 0 /\ src[s].prev = stream[s][i].n
      BY <1>1, <1>2 DEF Newest, Owned
    <3> QED
      BY <3>1, <3>2, <3>3, <3>4, <1>2, <1>11 DEF Owned
  <2> QED
    BY <2>1, <2>2 DEF Newest
<1>17. Gap(s)'
  BY <1>0, <1>2, GapStill DEF SourceInv
<1>18. Shows(s)'
  <2>1. src[s].known => src[s].conn \in Conns(s)
    BY <1>1, SourceConn
  <2>2. ~ task[s][c].broken
    BY <1>1, <1>2 DEF Newest, Owned
  <2>3. \A e \in Conns(s) : Reported(s, e)' = Reported(s, e)
    BY <2>2, <1>2, <1>9, <1>11 DEF Reported
  <2>4. \A e \in Conns(s) : link[s][e].cut /\ task[s][e].at = "ended"
                            => link'[s][e].cut /\ task'[s][e].at = "ended"
    BY <1>2, <1>9, <1>10
  <2> QED
    BY <2>1, <2>3, <2>4, <1>0, <1>2 DEF SourceInv, Shows
<1>19. Domains'
  BY <1>0, <1>2, <1>9, <1>10 DEF Domains
<1>20. \A t \in Sources \ {s} : Untouched(t)
  BY <1>2, <1>9, <1>10 DEF Untouched
<1>21. Compared'
  <2>1. \A e \in Conns(s) : task[s][e].at = "update" => task'[s][e] = task[s][e]
    BY <1>2, <1>9
  <2>2. Intact(s) => Intact(s)'
    BY <2>1, <1>2 DEF Intact
  <2> QED
    BY <2>2, <1>0, <1>2, <1>20, OneCompared
<1> QED
  BY <1>12, <1>14, <1>15, <1>16, <1>17, <1>18, <1>19, <1>20, <1>21 DEF Keeps, SourceInv

(* A task that writes to the SourceState of a newer connection overtakes the
   source; other sources are not concerned. *)
LEMMA Touches ==
    ASSUME Domains, NEW s \in Sources, NEW c \in Conns(s), Touch(s, c)
    PROVE  /\ \A t \in Sources \ {s} : (t \in overtaken') = (t \in overtaken)
           /\ s \in overtaken => s \in overtaken'
           /\ s \notin overtaken' => ~ (src[s].known /\ c < src[s].conn)
           /\ overtaken' \subseteq Sources
BY DEF Touch, Domains

(* A task writes to the SourceState: what is left to show is what the state then
   says of the connections. *)
LEMMA Writes ==
    ASSUME IInv, NEW s \in Sources, NEW c \in Conns(s),
           UNCHANGED <<file, fw, link, stream, faults>>, cross' \in BOOLEAN,
           task[s][c].at # "none",
           \A e \in Conns(s) : e # c => task'[s][e] = task[s][e],
           task'[s] \in [Conns(s) -> Tasks(s)], DOMAIN task' = Sources,
           \A t \in Sources : t # s => task'[t] = task[t],
           Busy(s, c)' => /\ task[s][c].at \in {"break", "update"}
                          /\ task'[s][c].line = task[s][c].line,
           src'[s] \in SourceStates(s) \cup {NoSource}, DOMAIN src' = Sources,
           \A t \in Sources : t # s => src'[t] = src[t],
           \A t \in Sources \ {s} : (t \in overtaken') = (t \in overtaken),
           s \in overtaken => s \in overtaken', overtaken' \subseteq Sources,
           Newest(s)', Shows(s)', Compared'
    PROVE  Keeps(s)
<1>0. Domains /\ SourceInv(s) /\ Compared
  BY DEF IInv
<1>1. Typed(s) /\ Room(s) /\ Lockstep(s)
  BY <1>0 DEF SourceInv
<1>2. Typed(s)'
  BY <1>1 DEF Typed
<1>3. Room(s)' /\ Lockstep(s)' /\ Frontier(s) <= Frontier(s)'
  <2>1. Busy(s, c)' => /\ task'[s][c].line \in Lines(s) /\ link'[s][c].req = None
                       /\ link'[s][c].resp = "none"
                       /\ c = fw[s].conn => fw[s].loc \in {"ack", "down"}
    BY <1>1 DEF Lockstep, Busy
  <2>2. \A e \in Conns(s) : e # c => task'[s][e] = task[s][e] /\ link'[s][e] = link[s][e]
    OBVIOUS
  <2> QED
    BY <2>1, <2>2, <1>1, <1>2, Serving
<1>4. Once(s)' /\ Behind(s)' /\ Ahead(s)'
  <2>1. \A n \in Numbers(s) : Flying(s, c, n)' => Flying(s, c, n)
    BY DEF Flying, Busy, Sent
  <2>2. \A e \in Conns(s), n \in Numbers(s) : e # c /\ Flying(s, e, n)' => Flying(s, e, n)
    BY DEF Flying, Busy, Sent
  <2> QED
    BY <2>1, <2>2, <1>0, <1>2, <1>3, Quiet DEF SourceInv
<1>5. Gap(s)'
  BY <1>0, GapStill DEF SourceInv
<1>6. Domains'
  BY <1>0 DEF Domains
<1>7. \A t \in Sources \ {s} : Untouched(t)
  BY DEF Untouched
<1> QED
  BY <1>2, <1>3, <1>4, <1>5, <1>6, <1>7 DEF Keeps, SourceInv

(* InsertSource: the fresh state says that nothing was received, and no line
   of this connection is in the stream file. *)
LEMMA InsertSourceKeeps ==
    ASSUME IInv, NEW s \in Sources, NEW c \in Conns(s), InsertSource(s, c)
    PROVE  Keeps(s)
<1>0. Domains /\ SourceInv(s) /\ Compared
  BY DEF IInv
<1>1. Typed(s) /\ Newest(s)
  BY <1>0 DEF SourceInv
<1>2. /\ task[s][c].at = "insert" /\ UNCHANGED <<file, fw, link, cross, stream, faults>>
      /\ Touch(s, c) /\ GoTo(s, c, "receive")
  BY DEF InsertSource
<1>3. /\ task'[s][c] = [at |-> "receive", line |-> task[s][c].line, broken |-> task[s][c].broken]
      /\ \A e \in Conns(s) : e # c => task'[s][e] = task[s][e]
      /\ task'[s] \in [Conns(s) -> Tasks(s)]
      /\ DOMAIN task' = Sources
      /\ \A t \in Sources : t # s => task'[t] = task[t]
  <2>1. "receive" \in Places
    BY DEF Places
  <2> QED
    BY <2>1, <1>0, <1>1, <1>2, Goes
<1>4. /\ \A t \in Sources \ {s} : (t \in overtaken') = (t \in overtaken)
      /\ s \in overtaken => s \in overtaken'
      /\ s \notin overtaken' => ~ (src[s].known /\ c < src[s].conn)
      /\ overtaken' \subseteq Sources
  BY <1>0, <1>2, Touches
<1>5. /\ src'[s] = Fresh(c) /\ DOMAIN src' = Sources
      /\ \A t \in Sources : t # s => src'[t] = src[t]
  BY <1>0 DEF Domains, InsertSource
<1>6. Fresh(c) \in SourceStates(s)
  BY Constants DEF Fresh, SourceStates
<1>7. /\ src'[s].known /\ src'[s].conn = c /\ src'[s].connected /\ src'[s].intact
  BY <1>5 DEF Fresh
<1>8. task'[s][c].at = "receive" /\ ~ task'[s][c].broken
  BY <1>1, <1>2, <1>3 DEF Newest, Owned
<1>9. \A i \in 1 .. Len(stream[s]) : stream[s][i].conn # c
  BY <1>1, <1>2 DEF Newest, Owned
<1>10. Newest(s)'
  <2>1. ASSUME NEW e \in Conns(s), e # c PROVE Owned(s, e)'
    <3>1. Owned(s, e) /\ task'[s][e] = task[s][e] /\ src'[s].conn # e
      BY <2>1, <1>1, <1>3, <1>7 DEF Newest
    <3>2. Follows(s, e) => Follows(s, e)'
      BY <3>1, <1>2 DEF Follows, LastOf
    <3>3. ASSUME s \notin overtaken',
                 task[s][e].at \in {"receive", "break", "update", "append", "newline", "acknowledge"}
          PROVE  src'[s].known /\ e <= src'[s].conn
      <4>1. src[s].known /\ e <= src[s].conn /\ ~ (c < src[s].conn)
        BY <3>1, <3>3, <1>4 DEF Owned
      <4>2. src[s].conn \in Nat /\ c \in Nat /\ e \in Nat
        BY <4>1, <1>1, SourceConn, Constants DEF Conns
      <4> QED
        BY <4>1, <4>2, <1>7
    <3> QED
      BY <3>1, <3>2, <3>3, <1>2, <1>4 DEF Owned
  <2>2. Owned(s, c)'
    <3>1. c <= c
      BY Constants DEF Conns
    <3> QED
      BY <3>1, <1>2, <1>7, <1>8, <1>9 DEF Owned, LastOf
  <2> QED
    BY <2>1, <2>2 DEF Newest
<1>11. Shows(s)'
  <2>1. \A i \in DOMAIN stream[s] : stream[s][i].conn # c
    BY <1>1, <1>9 DEF Typed
  <2>2. ~ Reported(s, c)'
    BY <2>1, <1>2, <1>8 DEF Reported
  <2> QED
    BY <2>2, <1>7 DEF Shows
<1>12. Compared'
  BY <1>0, <1>2, <1>3, <1>5, <1>7 DEF Compared, Intact
<1>13. ~ Busy(s, c)'
  BY <1>8 DEF Busy
<1>14. cross' \in BOOLEAN
  BY <1>0, <1>2 DEF Domains
<1> QED
  BY <1>2, <1>3, <1>4, <1>5, <1>6, <1>10, <1>11, <1>12, <1>13, <1>14, Writes

(* The fields of a SourceState marked as disconnected. *)
LEMMA MarkedDisconnected ==
    ASSUME NEW s \in Sources, NEW z \in SourceStates(s), NEW y, y = [z EXCEPT !.connected = FALSE]
    PROVE  /\ y \in SourceStates(s)
           /\ y.known /\ y.conn = z.conn /\ y.received = z.received /\ y.prev = z.prev
           /\ y.intact = z.intact
<1>1. DOMAIN z = {"known", "conn", "connected", "received", "prev", "heartbeat", "intact"} /\ z.known
  BY DEF SourceStates
<1>2. y \in SourceStates(s)
  BY DEF SourceStates
<1> QED
  BY <1>1, <1>2

(* The fields of a SourceState whose chain is marked as broken. *)
LEMMA MarkedBroken ==
    ASSUME NEW s \in Sources, NEW z \in SourceStates(s), NEW y, y = [z EXCEPT !.intact = FALSE]
    PROVE  /\ y \in SourceStates(s)
           /\ y.known /\ y.conn = z.conn /\ y.received = z.received /\ y.prev = z.prev
           /\ y.connected = z.connected /\ ~ y.intact
<1>1. DOMAIN z = {"known", "conn", "connected", "received", "prev", "heartbeat", "intact"} /\ z.known
  BY DEF SourceStates
<1>2. y \in SourceStates(s)
  BY DEF SourceStates
<1> QED
  BY <1>1, <1>2

(* The SourceState keeps its connection and what was received. *)
LEMMA OwnedMarked ==
    ASSUME NEW s \in Sources, NEW e \in Conns(s), Owned(s, e),
           task'[s][e] = task[s][e], stream'[s] = stream[s],
           s \in overtaken => s \in overtaken',
           \/ src'[s] = src[s]
           \/ /\ src'[s].known /\ src[s].known /\ src'[s].conn = src[s].conn
              /\ src'[s].received = src[s].received /\ src'[s].prev = src[s].prev
    PROVE  Owned(s, e)'
<1>1. Follows(s, e)' = Follows(s, e) /\ \A i : LastOf(s, e, i)' = LastOf(s, e, i)
  BY DEF Follows, LastOf
<1> QED
  BY <1>1 DEF Owned

(* ReceiveFails: unless it is overtaken, the source that is marked as
   disconnected is this connection's. *)
LEMMA ReceiveFailsKeeps ==
    ASSUME IInv, NEW s \in Sources, NEW c \in Conns(s), ReceiveFails(s, c)
    PROVE  Keeps(s)
<1>0. Domains /\ SourceInv(s) /\ Compared
  BY DEF IInv
<1>1. Typed(s) /\ Newest(s) /\ Shows(s)
  BY <1>0 DEF SourceInv
<1>2. /\ task[s][c].at \in {"hello", "receive"} /\ link[s][c].cut
      /\ UNCHANGED <<file, fw, link, cross, stream, faults>>
  BY DEF ReceiveFails
<1>3. /\ task'[s][c] = Ended
      /\ \A e \in Conns(s) : e # c => task'[s][e] = task[s][e]
      /\ task'[s] \in [Conns(s) -> Tasks(s)]
      /\ DOMAIN task' = Sources
      /\ \A t \in Sources : t # s => task'[t] = task[t]
  <2>1. Ended \in Tasks(s) /\ task' = [task EXCEPT ![s][c] = Ended]
    BY SpecialTasks DEF ReceiveFails
  <2> QED
    BY <2>1, <1>0, <1>1, TaskSet
<1>4. task'[s][c].at = "ended" /\ ~ task'[s][c].broken
  BY <1>3, SpecialTasks
<1>5. ~ task[s][c].broken
  BY <1>1, <1>2 DEF Newest, Owned
<1>6. /\ \A t \in Sources \ {s} : (t \in overtaken') = (t \in overtaken)
      /\ s \in overtaken => s \in overtaken'
      /\ s \notin overtaken' => s \notin overtaken
      /\ s \notin overtaken' /\ task[s][c].at = "receive" => ~ (src[s].known /\ c < src[s].conn)
      /\ overtaken' \subseteq Sources
  <2>1. CASE task[s][c].at = "receive"
    BY <2>1, <1>0, Touches DEF ReceiveFails
  <2>2. CASE task[s][c].at # "receive"
    BY <2>2, <1>0 DEF ReceiveFails, Domains
  <2> QED
    BY <2>1, <2>2
<1>7. DOMAIN src' = Sources /\ \A t \in Sources : t # s => src'[t] = src[t]
  BY <1>0 DEF Domains, ReceiveFails
<1>8. /\ src'[s] \in SourceStates(s) \cup {NoSource}
      /\ \/ src'[s] = src[s]
         \/ /\ src'[s].known /\ src[s].known /\ src'[s].conn = src[s].conn
            /\ src'[s].received = src[s].received /\ src'[s].prev = src[s].prev
            /\ src'[s].intact = src[s].intact /\ task[s][c].at = "receive"
  <2>1. CASE task[s][c].at = "receive" /\ src[s].known
    <3>1. PICK z \in SourceStates(s) : z = src[s]
      BY <2>1, <1>1, SourceConn
    <3>2. src'[s] = [z EXCEPT !.connected = FALSE]
      BY <2>1, <3>1, <1>0 DEF ReceiveFails, Domains
    <3>3. PICK y : y = src'[s]
      OBVIOUS
    <3>4. y = [z EXCEPT !.connected = FALSE]
      BY <3>2, <3>3
    <3>5. /\ y \in SourceStates(s) /\ y.known /\ y.conn = z.conn
          /\ y.received = z.received /\ y.prev = z.prev /\ y.intact = z.intact
      BY <3>4, MarkedDisconnected, ZenonT(60)
    <3> QED
      BY <2>1, <3>1, <3>3, <3>5
  <2>2. CASE ~ (task[s][c].at = "receive" /\ src[s].known)
    BY <2>2, <1>1 DEF ReceiveFails, Typed
  <2> QED
    BY <2>1, <2>2
<1>9. Newest(s)'
  <2>1. ASSUME NEW e \in Conns(s), e # c PROVE Owned(s, e)'
    BY <2>1, <1>1, <1>2, <1>3, <1>6, <1>8, OwnedMarked DEF Newest
  <2>2. Owned(s, c)'
    BY <1>4 DEF Owned
  <2> QED
    BY <2>1, <2>2 DEF Newest
<1>10. \A e \in Conns(s) : Reported(s, e)' = Reported(s, e)
  BY <1>2, <1>3, <1>4, <1>5 DEF Reported
<1>11. \A e \in Conns(s) : link[s][e].cut /\ task[s][e].at = "ended"
                           => link'[s][e].cut /\ task'[s][e].at = "ended"
  BY <1>2, <1>3
<1>12. src[s].known => src[s].conn \in Conns(s)
  BY <1>1, SourceConn
<1>13. Shows(s)'
  <2>1. CASE src'[s] = src[s]
    BY <2>1, <1>1, <1>6, <1>10, <1>11, <1>12 DEF Shows
  <2>2. CASE /\ src'[s].known /\ src[s].known /\ src'[s].conn = src[s].conn
             /\ src'[s].intact = src[s].intact /\ task[s][c].at = "receive"
    <3>1. ASSUME s \notin overtaken' PROVE src[s].conn = c
      <4>1. src[s].known /\ c <= src[s].conn
        BY <2>2, <3>1, <1>1, <1>6 DEF Newest, Owned
      <4>2. ~ (c < src[s].conn)
        BY <2>2, <3>1, <1>6
      <4>3. src[s].conn \in Nat /\ c \in Nat
        BY <4>1, <1>12, Constants DEF Conns
      <4> QED
        BY <4>1, <4>2, <4>3
    <3>2. ASSUME s \notin overtaken'
          PROVE  /\ link'[s][c].cut /\ task'[s][c].at = "ended" /\ src'[s].conn = c
                 /\ src'[s].intact = ~ Reported(s, c)'
      BY <2>2, <3>1, <3>2, <1>1, <1>2, <1>4, <1>6, <1>10 DEF Shows
    <3> QED
      BY <3>2 DEF Shows
  <2> QED
    BY <2>1, <2>2, <1>8
<1>14. Compared'
  <2>1. \A e \in Conns(s) : task[s][e].at = "update" => task'[s][e] = task[s][e]
    BY <1>2, <1>3
  <2>2. Intact(s) => Intact(s)'
    BY <2>1, <1>8 DEF Intact
  <2>3. \A t \in Sources \ {s} : Intact(t) => Intact(t)'
    BY <1>3, <1>7 DEF Intact
  <2> QED
    BY <2>2, <2>3, <1>0, <1>2 DEF Compared
<1>15. ~ Busy(s, c)'
  BY <1>4 DEF Busy
<1>16. cross' \in BOOLEAN
  BY <1>0, <1>2 DEF Domains
<1> QED
  BY <1>2, <1>3, <1>6, <1>7, <1>8, <1>9, <1>13, <1>14, <1>15, <1>16, Writes

(* BreakChain: the mark on the SourceState and the one on the task are set
   together. *)
LEMMA BreakChainKeeps ==
    ASSUME IInv, NEW s \in Sources, NEW c \in Conns(s), BreakChain(s, c)
    PROVE  Keeps(s)
<1>0. Domains /\ SourceInv(s) /\ Compared
  BY DEF IInv
<1>1. Typed(s) /\ Newest(s) /\ Shows(s)
  BY <1>0 DEF SourceInv
<1>2. /\ task[s][c].at = "break" /\ Touch(s, c)
      /\ UNCHANGED <<file, fw, link, cross, stream, faults>>
  BY DEF BreakChain
<1>3. /\ task'[s][c].at = "update" /\ task'[s][c].broken /\ task'[s][c].line = task[s][c].line
      /\ \A e \in Conns(s) : e # c => task'[s][e] = task[s][e]
      /\ task'[s] \in [Conns(s) -> Tasks(s)]
      /\ DOMAIN task' = Sources
      /\ \A t \in Sources : t # s => task'[t] = task[t]
  <2>1. task[s] \in [Conns(s) -> Tasks(s)]
    BY <1>1 DEF Typed
  <2>2. PICK k \in Tasks(s) : k = task[s][c]
    BY <2>1
  <2>3. PICK m : m = [task EXCEPT ![s][c].at = "update"]
    OBVIOUS
  <2>4. PICK j : j = [k EXCEPT !.at = "update"]
    OBVIOUS
  <2>5. j = [at |-> "update", line |-> k.line, broken |-> k.broken]
    BY <2>4 DEF Tasks
  <2>6. DOMAIN m = Sources /\ m[s] = [task[s] EXCEPT ![c] = j]
        /\ \A t \in Sources : t # s => m[t] = task[t]
    BY <2>2, <2>3, <2>4, <1>0 DEF Domains
  <2>7. task' = [m EXCEPT ![s][c].broken = TRUE]
    BY <2>3 DEF BreakChain
  <2>8. PICK i : i = [j EXCEPT !.broken = TRUE]
    OBVIOUS
  <2>9. i.at = "update" /\ i.broken /\ i.line = k.line
    BY <2>5, <2>8
  <2>10. i \in Tasks(s)
    <3>1. j \in Tasks(s)
      BY <2>5 DEF Tasks, Places
    <3> QED
      BY <3>1, <2>8 DEF Tasks
  <2>11. m[s][c] = j
    BY <2>1, <2>6
  <2>12. task'[s] = [m[s] EXCEPT ![c] = i]
    BY <2>6, <2>7, <2>8, <2>11
  <2>13. DOMAIN task' = Sources /\ \A t \in Sources : t # s => task'[t] = task[t]
    BY <2>6, <2>7
  <2> QED
    BY <2>1, <2>2, <2>6, <2>9, <2>10, <2>12, <2>13
<1>4. /\ \A t \in Sources \ {s} : (t \in overtaken') = (t \in overtaken)
      /\ s \in overtaken => s \in overtaken'
      /\ s \notin overtaken' => ~ (src[s].known /\ c < src[s].conn)
      /\ overtaken' \subseteq Sources
  BY <1>0, <1>2, Touches
<1>5. DOMAIN src' = Sources /\ \A t \in Sources : t # s => src'[t] = src[t]
  BY <1>0 DEF Domains, BreakChain
<1>6. CASE src[s].known
  <2>1. PICK z \in SourceStates(s) : z = src[s]
    BY <1>6, <1>1, SourceConn
  <2>2. PICK y : y = src'[s]
    OBVIOUS
  <2>3. y = [z EXCEPT !.intact = FALSE]
    BY <2>1, <2>2, <1>0, <1>6 DEF BreakChain, Domains
  <2>4. /\ y \in SourceStates(s) /\ y.known /\ y.conn = z.conn
        /\ y.received = z.received /\ y.prev = z.prev /\ y.connected = z.connected /\ ~ y.intact
    BY <2>3, MarkedBroken, ZenonT(60)
  <2>5. /\ src'[s] \in SourceStates(s) /\ src'[s].known /\ src'[s].conn = src[s].conn
        /\ src'[s].received = src[s].received /\ src'[s].prev = src[s].prev
        /\ src'[s].connected = src[s].connected /\ ~ src'[s].intact
    BY <2>1, <2>2, <2>4
  <2>6. Newest(s)'
    <3>1. ASSUME NEW e \in Conns(s), e # c PROVE Owned(s, e)'
      BY <3>1, <2>5, <1>1, <1>2, <1>3, <1>4, <1>6, OwnedMarked DEF Newest
    <3>2. Owned(s, c)'
      <4>1. Follows(s, c)'
        BY <1>3 DEF Follows
      <4>2. \A i : LastOf(s, c, i)' = LastOf(s, c, i)
        BY <1>2 DEF LastOf
      <4>3. Owned(s, c)
        BY <1>1 DEF Newest
      <4> QED
        BY <4>1, <4>2, <4>3, <2>5, <1>2, <1>3, <1>4 DEF Owned
    <3> QED
      BY <3>1, <3>2 DEF Newest
  <2>7. Shows(s)'
    <3>1. ASSUME s \notin overtaken' PROVE src[s].conn = c
      <4>1. c <= src[s].conn /\ ~ (c < src[s].conn)
        BY <3>1, <1>1, <1>2, <1>4, <1>6 DEF Newest, Owned
      <4>2. src[s].conn \in Nat /\ c \in Nat
        BY <1>1, <1>6, SourceConn, Constants DEF Conns
      <4> QED
        BY <4>1, <4>2
    <3>2. Reported(s, c)'
      BY <1>3 DEF Reported
    <3>3. ASSUME s \notin overtaken' PROVE src'[s].connected
      BY <3>1, <3>3, <2>5, <1>1, <1>2, <1>4, <1>6 DEF Shows
    <3>4. src'[s].intact = FALSE
      BY <2>5 DEF SourceStates
    <3>5. ASSUME s \notin overtaken' PROVE src'[s].intact = ~ Reported(s, c)' /\ src'[s].conn = c
      BY <3>1, <3>2, <3>4, <3>5, <2>5
    <3> QED
      BY <3>3, <3>5 DEF Shows
  <2>8. Compared'
    BY <2>5, <1>0, <1>2, <1>3, <1>5 DEF Compared, Intact
  <2>9. Busy(s, c)' => task[s][c].at \in {"break", "update"} /\ task'[s][c].line = task[s][c].line
    BY <1>2, <1>3 DEF Busy
  <2>10. cross' \in BOOLEAN
    BY <1>0, <1>2 DEF Domains
  <2> QED
    BY <2>5, <2>6, <2>7, <2>8, <2>9, <2>10, <1>2, <1>3, <1>4, <1>5, Writes
<1>7. CASE ~ src[s].known
  <2>1. src' = src
    BY <1>7 DEF BreakChain
  <2>2. Newest(s)'
    <3>1. ASSUME NEW e \in Conns(s), e # c PROVE Owned(s, e)'
      BY <3>1, <2>1, <1>1, <1>2, <1>3, <1>4, OwnedStill DEF Newest
    <3>2. Owned(s, c)'
      BY <2>1, <1>1, <1>2, <1>3, <1>4, <1>7 DEF Newest, Owned
    <3> QED
      BY <3>1, <3>2 DEF Newest
  <2>3. Shows(s)'
    BY <2>1, <1>7 DEF Shows
  <2>4. Compared'
    BY <2>1, <1>0, <1>2, <1>7 DEF Compared, Intact
  <2>5. Busy(s, c)' => task[s][c].at \in {"break", "update"} /\ task'[s][c].line = task[s][c].line
    BY <1>2, <1>3 DEF Busy
  <2>6. cross' \in BOOLEAN /\ src'[s] \in SourceStates(s) \cup {NoSource}
    BY <2>1, <1>0, <1>1, <1>2 DEF Domains, Typed
  <2> QED
    BY <2>2, <2>3, <2>4, <2>5, <2>6, <1>2, <1>3, <1>4, <1>5, Writes
<1> QED
  BY <1>6, <1>7

(* UpdateState: the comparison is renewed, and the SourceState holds the hash
   of the entry that is about to be appended. *)
LEMMA UpdateStateKeeps ==
    ASSUME IInv, NEW s \in Sources, NEW c \in Conns(s), UpdateState(s, c)
    PROVE  Keeps(s)
<1>0. Domains /\ SourceInv(s) /\ Compared
  BY DEF IInv
<1>1. Typed(s) /\ Lockstep(s) /\ Newest(s) /\ Shows(s)
  BY <1>0 DEF SourceInv
<1>2. /\ task[s][c].at = "update" /\ Touch(s, c) /\ GoTo(s, c, "append")
      /\ cross' = IF \A t \in Sources : src'[t].known THEN CrossVerify(src') ELSE cross
      /\ UNCHANGED <<file, fw, link, stream, faults>>
  BY DEF UpdateState
<1>3. /\ task'[s][c] = [at |-> "append", line |-> task[s][c].line, broken |-> task[s][c].broken]
      /\ \A e \in Conns(s) : e # c => task'[s][e] = task[s][e]
      /\ task'[s] \in [Conns(s) -> Tasks(s)]
      /\ DOMAIN task' = Sources
      /\ \A t \in Sources : t # s => task'[t] = task[t]
  <2>1. "append" \in Places
    BY DEF Places
  <2> QED
    BY <2>1, <1>0, <1>1, <1>2, Goes
<1>4. /\ task'[s][c].at = "append" /\ task'[s][c].line = task[s][c].line
      /\ task'[s][c].broken = task[s][c].broken
  BY <1>3
<1>5. /\ \A t \in Sources \ {s} : (t \in overtaken') = (t \in overtaken)
      /\ s \in overtaken => s \in overtaken'
      /\ s \notin overtaken' => ~ (src[s].known /\ c < src[s].conn)
      /\ overtaken' \subseteq Sources
  BY <1>0, <1>2, Touches
<1>6. DOMAIN src' = Sources /\ \A t \in Sources : t # s => src'[t] = src[t]
  BY <1>0 DEF Domains, UpdateState
<1>7. PICK n \in Numbers(s) : n = task[s][c].line.n
  <2>1. task[s][c].line \in Lines(s)
    BY <1>1, <1>2 DEF Lockstep, Busy
  <2> QED
    BY <2>1 DEF Lines
<1>8. \/ src'[s] = src[s] /\ ~ src[s].known
      \/ /\ src[s].known /\ src'[s] \in SourceStates(s) /\ src'[s].known
         /\ src'[s].conn = src[s].conn /\ src'[s].connected = src[s].connected
         /\ src'[s].intact = src[s].intact
         /\ src'[s].prev = task[s][c].line.n /\ src'[s].received # 0
  <2>1. CASE src[s].known
    <3>1. PICK z \in SourceStates(s) : z = src[s]
      BY <2>1, <1>1, SourceConn
    <3>2. PICK y : y = src'[s]
      OBVIOUS
    <3>3. PICK w, x : \E r \in Nat : /\ w = [z EXCEPT !.heartbeat = n] /\ x = [w EXCEPT !.prev = n]
                                 /\ r # 0 /\ y = [x EXCEPT !.received = r]
      <4>1. PICK f : f = [src EXCEPT ![s].heartbeat = n]
        OBVIOUS
      <4>2. PICK g : g = [f EXCEPT ![s].prev = n]
        OBVIOUS
      <4>3. src' = [g EXCEPT ![s].received = g[s].received + 1]
        BY <2>1, <4>1, <4>2, <1>7 DEF UpdateState
      <4>4. DOMAIN f = Sources /\ f[s] = [z EXCEPT !.heartbeat = n]
        BY <4>1, <3>1, <1>0 DEF Domains
      <4>5. DOMAIN g = Sources /\ g[s] = [f[s] EXCEPT !.prev = n]
        BY <4>2, <4>4
      <4>6. y = [g[s] EXCEPT !.received = g[s].received + 1]
        BY <4>3, <4>5, <3>2
      <4>7. g[s].received = z.received
        BY <4>4, <4>5 DEF SourceStates
      <4>8. z.received \in Nat
        BY DEF SourceStates
      <4>9. PICK r \in Nat : r = g[s].received + 1 /\ r # 0
        BY <4>7, <4>8
      <4> QED
        BY <4>4, <4>5, <4>6, <4>9, Zenon
    <3>4. n \in 0 .. MaxEntries[s]
      BY Constants DEF Numbers
    <3>5. /\ y \in SourceStates(s)
          /\ y.known /\ y.conn = z.conn /\ y.connected = z.connected /\ y.intact = z.intact
          /\ y.prev = n /\ y.received # 0
      <4>1. PICK r \in Nat : r # 0 /\ y = [x EXCEPT !.received = r]
        BY <3>3, Zenon
      <4>2. w = [z EXCEPT !.heartbeat = n] /\ x = [w EXCEPT !.prev = n]
        BY <3>3, Zenon
      <4>3. /\ w \in SourceStates(s) /\ w.conn = z.conn
            /\ w.connected = z.connected /\ w.intact = z.intact
        BY <4>2, <3>4 DEF SourceStates
      <4>4. /\ x \in SourceStates(s) /\ x.conn = w.conn /\ x.prev = n
            /\ x.connected = w.connected /\ x.intact = w.intact
        BY <4>2, <4>3, <3>4 DEF SourceStates
      <4>5. /\ y \in SourceStates(s) /\ y.conn = x.conn /\ y.prev = x.prev
            /\ y.connected = x.connected /\ y.intact = x.intact /\ y.received = r
        BY <4>1, <4>4 DEF SourceStates
      <4>6. y.known
        BY <4>5 DEF SourceStates
      <4> QED
        BY <4>1, <4>3, <4>4, <4>5, <4>6
    <3> QED
      BY <2>1, <3>1, <3>2, <3>5, <1>7
  <2>2. CASE ~ src[s].known
    BY <2>2 DEF UpdateState
  <2> QED
    BY <2>1, <2>2
<1>9. ASSUME s \notin overtaken' PROVE src[s].known /\ src[s].conn = c
  <2>1. src[s].known /\ c <= src[s].conn /\ ~ (c < src[s].conn)
    BY <1>1, <1>2, <1>5, <1>9 DEF Newest, Owned
  <2>2. src[s].conn \in Nat /\ c \in Nat
    BY <2>1, <1>1, SourceConn, Constants DEF Conns
  <2> QED
    BY <2>1, <2>2
<1>10. Newest(s)'
  <2>1. ASSUME NEW e \in Conns(s), e # c PROVE Owned(s, e)'
    <3>1. Owned(s, e) /\ task'[s][e] = task[s][e]
      BY <2>1, <1>1, <1>3 DEF Newest
    <3>2. Follows(s, e) => Follows(s, e)'
      BY <3>1, <1>2 DEF Follows, LastOf
    <3>3. s \notin overtaken' =>
            src[s].known /\ src'[s].known /\ src'[s].conn = src[s].conn /\ src'[s].conn # e
      BY <2>1, <1>8, <1>9
    <3> QED
      BY <3>1, <3>2, <3>3, <1>2, <1>5 DEF Owned
  <2>2. Owned(s, c)'
    <3>1. s \notin overtaken' => Follows(s, c)'
      <4>1. s \notin overtaken' => Follows(s, c)
        BY <1>1, <1>2, <1>5, <1>9 DEF Newest, Owned
      <4> QED
        BY <4>1, <1>2, <1>4 DEF Follows, LastOf
    <3>2. s \notin overtaken' =>
            src'[s].known /\ src'[s].conn = c /\ src'[s].prev = task[s][c].line.n /\ src'[s].received # 0
      BY <1>8, <1>9
    <3>3. c <= c
      BY Constants DEF Conns
    <3> QED
      BY <3>1, <3>2, <3>3, <1>4 DEF Owned
  <2> QED
    BY <2>1, <2>2 DEF Newest
<1>11. Shows(s)'
  <2>1. Reported(s, c)' = Reported(s, c)
    BY <1>2, <1>4 DEF Reported
  <2>2. ASSUME s \notin overtaken'
        PROVE  src'[s].connected /\ src'[s].conn = c /\ src'[s].intact = ~ Reported(s, c)'
    <3>1. src[s].known /\ src[s].conn = c /\ s \notin overtaken
      BY <2>2, <1>5, <1>9
    <3>2. src[s].connected /\ src[s].intact = ~ Reported(s, c)
      BY <3>1, <1>1, <1>2 DEF Shows
    <3> QED
      BY <3>1, <3>2, <2>1, <1>8
  <2> QED
    BY <2>2 DEF Shows
<1>12. Compared' /\ cross' \in BOOLEAN
  <2>1. CASE \A t \in Sources : src'[t].known
    <3>1. cross' = CrossVerify(src')
      BY <2>1, <1>2
    <3>2. cross' => \A t \in Sources : src'[t].intact
      BY <3>1 DEF CrossVerify
    <3>3. Compared'
      BY <2>1, <3>2 DEF Compared, Intact
    <3>4. CrossVerify(src') \in BOOLEAN
      BY DEF CrossVerify
    <3> QED
      BY <3>1, <3>3, <3>4
  <2>2. CASE ~ \A t \in Sources : src'[t].known
    <3>1. cross' = cross
      BY <2>2, <1>2
    <3>2. ~ \A t \in Sources : src[t].known
      BY <2>2, <1>6, <1>8
    <3>3. ~ cross
      BY <3>2, <1>0 DEF Compared, Intact
    <3> QED
      BY <3>1, <3>3, <1>0 DEF Compared, Domains
  <2> QED
    BY <2>1, <2>2
<1>13. src'[s] \in SourceStates(s) \cup {NoSource}
  BY <1>1, <1>8 DEF Typed
<1>14. Busy(s, c)' => task[s][c].at \in {"break", "update"} /\ task'[s][c].line = task[s][c].line
  BY <1>2, <1>4 DEF Busy
<1> QED
  BY <1>2, <1>3, <1>5, <1>6, <1>10, <1>11, <1>12, <1>13, <1>14, Writes

(* AppendLine: the entry moves from the task to the stream file. *)
LEMMA AppendLineKeeps ==
    ASSUME IInv, NEW s \in Sources, NEW c \in Conns(s), AppendLine(s, c)
    PROVE  Keeps(s)
<1>0. Domains /\ SourceInv(s) /\ Compared
  BY DEF IInv
<1>1. /\ Typed(s) /\ Room(s) /\ Lockstep(s) /\ Newest(s) /\ Shows(s)
      /\ Once(s) /\ Behind(s) /\ Ahead(s) /\ Gap(s)
  BY <1>0 DEF SourceInv
<1>2. task[s][c].at = "append" /\ UNCHANGED <<file, fw, link, src, cross, overtaken>>
  BY DEF AppendLine
<1>3. PICK a \in {"newline", "acknowledge"} :
          task' = [task EXCEPT ![s][c].broken = FALSE, ![s][c].at = a]
  BY DEF AppendLine
<1>4. /\ task'[s][c].at = a /\ task'[s][c].line = task[s][c].line /\ task'[s][c].broken = FALSE
      /\ \A e \in Conns(s) : e # c => task'[s][e] = task[s][e]
      /\ task'[s] \in [Conns(s) -> Tasks(s)]
      /\ DOMAIN task' = Sources
      /\ \A t \in Sources : t # s => task'[t] = task[t]
  <2>1. task[s] \in [Conns(s) -> Tasks(s)]
    BY <1>1 DEF Typed
  <2>2. PICK k \in Tasks(s) : k = task[s][c]
    BY <2>1
  <2>3. PICK m : m = [task EXCEPT ![s][c].broken = FALSE]
    OBVIOUS
  <2>4. PICK j : j = [k EXCEPT !.broken = FALSE]
    OBVIOUS
  <2>5. j = [at |-> k.at, line |-> k.line, broken |-> FALSE]
    BY <2>4 DEF Tasks
  <2>6. /\ DOMAIN m = Sources /\ m[s] = [task[s] EXCEPT ![c] = j]
        /\ \A t \in Sources : t # s => m[t] = task[t]
    BY <2>2, <2>3, <2>4, <1>0 DEF Domains
  <2>7. task' = [m EXCEPT ![s][c].at = a]
    BY <2>3, <1>3
  <2>8. PICK i : i = [j EXCEPT !.at = a]
    OBVIOUS
  <2>9. i.at = a /\ i.broken = FALSE /\ i.line = k.line
    BY <2>5, <2>8
  <2>10. i \in Tasks(s)
    <3>1. j \in Tasks(s)
      BY <2>5 DEF Tasks, Places
    <3> QED
      BY <3>1, <2>8 DEF Tasks, Places
  <2>11. m[s][c] = j
    BY <2>1, <2>6
  <2>12. task'[s] = [m[s] EXCEPT ![c] = i]
    BY <2>6, <2>7, <2>8, <2>11
  <2>13. DOMAIN task' = Sources /\ \A t \in Sources : t # s => task'[t] = task[t]
    BY <2>6, <2>7
  <2> QED
    BY <2>1, <2>2, <2>6, <2>9, <2>10, <2>12, <2>13
<1>5. task'[s][c].at \in {"newline", "acknowledge"} /\ ~ task'[s][c].broken
  BY <1>4
<1>6. ~ Sent(s, c)' /\ link'[s][c].req = None /\ link'[s][c].resp = "none"
  BY <1>1, <1>2 DEF Lockstep, Busy, Sent, None
<1>7. task[s][c] \in Tasks(s) /\ task[s][c].line \in Lines(s)
  BY <1>1, <1>2 DEF Typed, Lockstep, Busy
<1>8. PICK x \in Stored1(s) :
         x = [n |-> task[s][c].line.n, conn |-> c, broken |-> task[s][c].broken]
  BY <1>7 DEF Stored1, Lines, Tasks
<1>9. x.n = task[s][c].line.n /\ x.conn = c /\ x.broken = task[s][c].broken /\ x.n \in Numbers(s)
  BY <1>8 DEF Stored1
<1>10. PICK A \in Seq(Stored1(s)) : A = stream[s]
  BY <1>1 DEF Typed
<1>11. PICK B : B = stream'[s]
  OBVIOUS
<1>12. /\ B = Append(A, x)
       /\ DOMAIN stream' = Sources /\ \A t \in Sources : t # s => stream'[t] = stream[t]
  BY <1>0, <1>8, <1>10, <1>11 DEF AppendLine, Domains
<1>13. /\ B \in Seq(Stored1(s)) /\ Len(A) \in Nat /\ Len(B) = Len(A) + 1 /\ B[Len(A) + 1] = x
       /\ \A i \in 1 .. Len(A) : B[i] = A[i]
       /\ DOMAIN B = 1 .. Len(B) /\ DOMAIN A = 1 .. Len(A)
  BY <1>12
<1>14. \A i \in 1 .. Len(B) : i \in 1 .. Len(A) \/ i = Len(A) + 1
  BY <1>13
<1>15. Typed(s)'
  BY <1>1, <1>2, <1>4, <1>11, <1>13 DEF Typed
<1>16. Room(s)' /\ Lockstep(s)' /\ Frontier(s) <= Frontier(s)'
  <2>1. Busy(s, c)' => /\ task'[s][c].line \in Lines(s) /\ link'[s][c].req = None
                       /\ link'[s][c].resp = "none"
                       /\ c = fw[s].conn => fw[s].loc \in {"ack", "down"}
    BY <1>1, <1>2, <1>4, <1>6, <1>7 DEF Lockstep, Busy
  <2> QED
    BY <2>1, <1>1, <1>2, <1>4, <1>6, <1>15, Serving
<1>17. Frontier(s)' = Frontier(s)
  BY <1>2 DEF Frontier, ReadFrom
<1>18. Flying(s, c, x.n) /\ \A n : Flying(s, c, n) => n = x.n
  BY <1>1, <1>2, <1>9 DEF Flying, Busy, Sent, Lockstep, None
<1>19. \A e \in Conns(s), n \in Numbers(s) : Flying(s, e, n)' => e # c /\ Flying(s, e, n)
  BY <1>2, <1>4, <1>5, <1>6 DEF Flying, Sent
<1>20. Once(s)'
  <2>1. \A i \in 1 .. Len(A) : A[i].n # x.n /\ A[i].n \in Numbers(s)
    BY <1>1, <1>10, <1>18, StreamLine DEF Once
  <2>2. \A i, j \in 1 .. Len(B) : B[i].n = B[j].n => i = j
    BY <2>1, <1>1, <1>10, <1>13, <1>14 DEF Once
  <2>3. ASSUME NEW i \in 1 .. Len(B), NEW e \in Conns(s) PROVE ~ Flying(s, e, B[i].n)'
    <3>1. CASE i \in 1 .. Len(A)
      BY <3>1, <2>1, <1>1, <1>10, <1>13, <1>19 DEF Once
    <3>2. CASE i = Len(A) + 1
      BY <3>2, <1>1, <1>9, <1>13, <1>18, <1>19 DEF Once
    <3> QED
      BY <3>1, <3>2, <1>14
  <2>4. \A e, d \in Conns(s), n \in Numbers(s) : Flying(s, e, n)' /\ Flying(s, d, n)' => e = d
    BY <1>1, <1>19 DEF Once
  <2> QED
    BY <2>2, <2>3, <2>4, <1>11 DEF Once
<1>21. Behind(s)'
  <2>1. x.n <= Frontier(s)
    BY <1>1, <1>9, <1>18 DEF Behind
  <2>2. \A i \in 1 .. Len(B) : B[i].n <= Frontier(s)
    BY <2>1, <1>1, <1>10, <1>13, <1>14 DEF Behind
  <2> QED
    BY <2>2, <1>1, <1>2, <1>11, <1>17, <1>19 DEF Behind
<1>22. Ahead(s)'
  <2>1. ASSUME NEW k \in 2 .. Len(fw[s].batch), NEW i \in 1 .. Len(B)
        PROVE  B[i].n < fw[s].batch[k].n
    <3>1. CASE i \in 1 .. Len(A)
      BY <3>1, <1>1, <1>10, <1>13 DEF Ahead
    <3>2. CASE i = Len(A) + 1
      BY <3>2, <1>1, <1>9, <1>13, <1>18 DEF Ahead
    <3> QED
      BY <3>1, <3>2, <1>14
  <2> QED
    BY <2>1, <1>1, <1>2, <1>11, <1>19 DEF Ahead
<1>23. \A e \in Conns(s) : \A i : e # c => LastOf(s, e, i)' = LastOf(s, e, i)
  <2> SUFFICES ASSUME NEW e \in Conns(s), NEW i, e # c PROVE LastOf(s, e, i)' = LastOf(s, e, i)
    OBVIOUS
  <2>1. ASSUME LastOf(s, e, i)' PROVE LastOf(s, e, i)
    <3>1. /\ i \in 1 .. Len(B) /\ B[i].conn = e
          /\ \A k \in i + 1 .. Len(B) : B[k].conn # e
      BY <2>1, <1>11 DEF LastOf
    <3>2. i \in 1 .. Len(A) /\ A[i].conn = e
      BY <3>1, <1>9, <1>13, <1>14
    <3>3. \A k \in i + 1 .. Len(A) : k \in i + 1 .. Len(B) /\ k \in 1 .. Len(A)
      BY <3>2, <1>13
    <3> QED
      BY <3>1, <3>2, <3>3, <1>10, <1>13 DEF LastOf
  <2>2. ASSUME LastOf(s, e, i) PROVE LastOf(s, e, i)'
    <3>1. /\ i \in 1 .. Len(A) /\ A[i].conn = e
          /\ \A k \in i + 1 .. Len(A) : A[k].conn # e
      BY <2>2, <1>10 DEF LastOf
    <3>2. i \in 1 .. Len(B) /\ B[i].conn = e
      BY <3>1, <1>13
    <3>3. ASSUME NEW k \in i + 1 .. Len(B) PROVE B[k].conn # e
      <4>1. k \in i + 1 .. Len(A) \/ k = Len(A) + 1
        BY <3>1, <1>13
      <4>2. k \in i + 1 .. Len(A) => k \in 1 .. Len(A)
        BY <3>1
      <4> QED
        BY <4>1, <4>2, <3>1, <1>9, <1>13
    <3> QED
      BY <3>2, <3>3, <1>11 DEF LastOf
  <2> QED
    BY <2>1, <2>2 DEF LastOf
<1>24. \A i : LastOf(s, c, i)' => i = Len(A) + 1 /\ B[i].n = task[s][c].line.n
  <2> SUFFICES ASSUME NEW i, LastOf(s, c, i)'
               PROVE  i = Len(A) + 1 /\ B[i].n = task[s][c].line.n
    OBVIOUS
  <2>1. i \in 1 .. Len(B) /\ \A k \in i + 1 .. Len(B) : B[k].conn # c
    BY <1>11 DEF LastOf
  <2>2. i \in 1 .. Len(A) => Len(A) + 1 \in i + 1 .. Len(B)
    BY <1>13
  <2> QED
    BY <2>1, <2>2, <1>9, <1>13, <1>14
<1>25. Newest(s)'
  <2>1. ASSUME NEW e \in Conns(s), e # c PROVE Owned(s, e)'
    <3>1. Owned(s, e) /\ task'[s][e] = task[s][e]
      BY <2>1, <1>1, <1>4 DEF Newest
    <3>2. \A i : LastOf(s, e, i)' => i \in 1 .. Len(A) /\ B[i] = A[i] /\ LastOf(s, e, i)
      BY <2>1, <1>10, <1>13, <1>23 DEF LastOf
    <3>3. Follows(s, e) => Follows(s, e)'
      BY <3>1, <3>2, <1>10, <1>11 DEF Follows
    <3>4. (\A i \in 1 .. Len(A) : A[i].conn # e) => (\A i \in 1 .. Len(B) : B[i].conn # e)
      BY <2>1, <1>9, <1>13, <1>14
    <3>5. (\A i \in 1 .. Len(A) : LastOf(s, e, i) => src[s].received # 0 /\ src[s].prev = A[i].n)
            => (\A i \in 1 .. Len(B) : LastOf(s, e, i)' => src[s].received # 0 /\ src[s].prev = B[i].n)
      BY <3>2
    <3> QED
      BY <3>1, <3>3, <3>4, <3>5, <1>2, <1>10, <1>11 DEF Owned
  <2>2. Owned(s, c)'
    <3>1. s \notin overtaken => src[s].known /\ c <= src[s].conn
      BY <1>1, <1>2 DEF Newest, Owned
    <3>2. s \notin overtaken /\ src[s].known /\ src[s].conn = c =>
            src[s].received # 0 /\ src[s].prev = task[s][c].line.n
      BY <1>1, <1>2 DEF Newest, Owned
    <3>3. s \notin overtaken /\ src[s].known /\ src[s].conn = c =>
            \A i \in 1 .. Len(B) : LastOf(s, c, i)' => src[s].received # 0 /\ src[s].prev = B[i].n
      BY <3>2, <1>24
    <3> QED
      BY <3>1, <3>3, <1>2, <1>5, <1>11 DEF Owned
  <2> QED
    BY <2>1, <2>2 DEF Newest
<1>26. Gap(s)'
  <2>1. ASSUME NEW e \in Conns(s), \E i \in 1 .. Len(B) : B[i].conn = e
        PROVE  \E p : LastOf(s, e, p)'
    <3>1. CASE e = c
      <4>1. LastOf(s, c, Len(A) + 1)'
        BY <1>9, <1>11, <1>13 DEF LastOf
      <4> QED
        BY <3>1, <4>1
    <3>2. CASE e # c
      <4>1. \E i \in 1 .. Len(A) : A[i].conn = e
        BY <2>1, <3>2, <1>9, <1>13, <1>14
      <4>2. PICK p : LastOf(s, e, p)
        BY <4>1, <1>1, <1>10 DEF Gap
      <4> QED
        BY <3>2, <4>2, <1>23
    <3> QED
      BY <3>1, <3>2
  <2>2. \A i \in 1 .. Len(B) : B[i].n \in Nat
    <3>1. \A i \in 1 .. Len(B) : B[i] \in Stored1(s)
      BY <1>13
    <3> QED
      BY <3>1, Constants DEF Stored1, Numbers
  <2>3. \A e, i, j : j \in 1 .. Len(A) + 1 /\ i \in 1 .. Len(A)
           => Between(s, e, i, j)' = {A[k].n : k \in {m \in i + 1 .. j - 1 : A[m].conn = e}}
    <3> SUFFICES ASSUME NEW e, NEW i \in 1 .. Len(A), NEW j \in 1 .. Len(A) + 1
                 PROVE  Between(s, e, i, j)' = {A[k].n : k \in {m \in i + 1 .. j - 1 : A[m].conn = e}}
      OBVIOUS
    <3>1. \A m \in i + 1 .. j - 1 : m \in 1 .. Len(A)
      BY <1>13
    <3>2. \A m \in i + 1 .. j - 1 : B[m] = A[m]
      BY <3>1, <1>13
    <3> QED
      BY <3>2, <1>11 DEF Between
  <2>4. \A e, i, j : j \in 1 .. Len(A) /\ i \in 1 .. Len(A) => Between(s, e, i, j)' = Between(s, e, i, j)
    <3> SUFFICES ASSUME NEW e, NEW i \in 1 .. Len(A), NEW j \in 1 .. Len(A)
                 PROVE  Between(s, e, i, j)' = Between(s, e, i, j)
      OBVIOUS
    <3>1. j \in 1 .. Len(A) + 1
      BY <1>13
    <3>2. Between(s, e, i, j) = {A[k].n : k \in {m \in i + 1 .. j - 1 : A[m].conn = e}}
      BY <1>10, Zenon DEF Between
    <3>3. Between(s, e, i, j)' = {A[k].n : k \in {m \in i + 1 .. j - 1 : A[m].conn = e}}
      BY <3>1, <2>3, Zenon
    <3> QED
      BY <3>2, <3>3, Zenon
  <2>5. ASSUME NEW i \in 1 .. Len(B), NEW j \in 1 .. Len(B), i < j,
               B[i].conn = B[j].conn, s \notin overtaken
        PROVE  \/ /\ B[i].n < B[j].n
                  /\ B[i].n + 1 .. B[j].n - 1 \subseteq Between(s, B[j].conn, i, j)'
               \/ \E k \in i + 1 .. j : B[k].conn = B[j].conn /\ B[k].broken
    <3>1. CASE j \in 1 .. Len(A)
      <4>1. i \in 1 .. Len(A) /\ \A k \in i + 1 .. j : k \in 1 .. Len(A)
        BY <2>5, <3>1, <1>13
      <4>2. B[i] = A[i] /\ B[j] = A[j] /\ \A k \in i + 1 .. j : B[k] = A[k]
        BY <3>1, <4>1, <1>13
      <4>3. \/ /\ A[i].n < A[j].n
               /\ A[i].n + 1 .. A[j].n - 1 \subseteq Between(s, A[j].conn, i, j)
            \/ \E k \in i + 1 .. j : A[k].conn = A[j].conn /\ A[k].broken
        BY <2>5, <3>1, <4>1, <4>2, <1>1, <1>10, <1>13 DEF Gap
      <4> QED
        BY <3>1, <4>1, <4>2, <4>3, <2>4
    <3>2. CASE j = Len(A) + 1
      <4>1. i \in 1 .. Len(A) /\ B[i] = A[i] /\ B[j] = x /\ A[i].conn = c
        BY <2>5, <3>2, <1>9, <1>13
      <4>2. PICK p : LastOf(s, c, p)
        BY <4>1, <1>1, <1>10 DEF Gap
      <4>3. /\ p \in 1 .. Len(A) /\ A[p].conn = c
            /\ \A k \in p + 1 .. Len(A) : A[k].conn # c
        BY <4>2, <1>10 DEF LastOf
      <4>4. i <= p
        BY <4>1, <4>3, <1>13
      <4>5. Follows(s, c)
        BY <1>1, <1>2, <2>5 DEF Newest, Owned
      <4>6. x.broken \/ x.n = A[p].n + 1
        BY <4>2, <4>3, <4>5, <1>9, <1>10 DEF Follows
      <4>7. CASE x.broken
        BY <4>1, <4>7, <3>2, <1>9, <1>13
      <4>8. CASE x.n = A[p].n + 1
        <5>1. /\ A[p].n \in Nat /\ A[i].n \in Nat
              /\ p \in 1 .. Len(B) /\ B[p] = A[p]
          BY <4>1, <4>3, <2>2, <1>13
        <5>2. CASE i = p
          BY <5>1, <5>2, <4>1, <4>8
        <5>3. CASE i < p
          <6>1. \/ /\ A[i].n < A[p].n
                   /\ A[i].n + 1 .. A[p].n - 1 \subseteq Between(s, c, i, p)
                \/ \E k \in i + 1 .. p : A[k].conn = c /\ A[k].broken
            BY <5>3, <4>1, <4>3, <2>5, <1>1, <1>10, <1>13 DEF Gap
          <6>2. CASE \E k \in i + 1 .. p : A[k].conn = c /\ A[k].broken
            <7>1. PICK k \in i + 1 .. p : A[k].conn = c /\ A[k].broken
              BY <6>2
            <7>2. k \in i + 1 .. j /\ k \in 1 .. Len(A)
              BY <4>1, <4>3, <3>2, <1>13
            <7> QED
              BY <7>1, <7>2, <4>1, <1>9, <1>13
          <6>3. CASE /\ A[i].n < A[p].n
                     /\ A[i].n + 1 .. A[p].n - 1 \subseteq Between(s, c, i, p)
            <7>1. p \in i + 1 .. j - 1
              BY <5>3, <4>1, <4>3, <3>2, <1>13
            <7>2. Between(s, c, i, j)' = {A[k].n : k \in {m \in i + 1 .. j - 1 : A[m].conn = c}}
              BY <4>1, <2>3, <3>2, <1>13
            <7>3. A[p].n \in Between(s, c, i, j)'
              BY <7>1, <7>2, <4>3
            <7>4. Between(s, c, i, p) \subseteq Between(s, c, i, j)'
              <8>1. \A m \in i + 1 .. p - 1 : m \in i + 1 .. j - 1
                BY <4>1, <4>3, <3>2, <1>13
              <8> QED
                BY <8>1, <7>2, <1>10 DEF Between
            <7>5. \A n \in A[i].n + 1 .. x.n - 1 : n = A[p].n \/ n \in A[i].n + 1 .. A[p].n - 1
              BY <5>1, <4>8
            <7>6. A[i].n + 1 .. x.n - 1 \subseteq Between(s, c, i, j)'
              BY <7>3, <7>4, <7>5, <6>3
            <7>7. A[i].n < x.n
              BY <5>1, <4>8, <6>3
            <7> QED
              BY <7>6, <7>7, <4>1, <1>9
          <6> QED
            BY <6>1, <6>2, <6>3
        <5> QED
          BY <5>2, <5>3, <4>3, <4>4
      <4> QED
        BY <4>6, <4>7, <4>8
    <3> QED
      BY <3>1, <3>2, <1>14
  <2> QED
    BY <2>1, <2>5, <1>2, <1>11, <1>13 DEF Gap
<1>27. Shows(s)'
  <2>1. src[s].known => src[s].conn \in Conns(s)
    BY <1>1, SourceConn
  <2>2. ASSUME NEW e \in Conns(s)
        PROVE  Reported(s, e)' <=> Reported(s, e)
    <3>1. Reported(s, e) <=> task[s][e].broken \/ \E i \in 1 .. Len(A) : A[i].conn = e /\ A[i].broken
      BY <1>10, <1>13 DEF Reported
    <3>2. Reported(s, e)' <=> task'[s][e].broken \/ \E i \in 1 .. Len(B) : B[i].conn = e /\ B[i].broken
      BY <1>11, <1>13 DEF Reported
    <3>3. (\E i \in 1 .. Len(B) : B[i].conn = e /\ B[i].broken)
            <=> \/ \E i \in 1 .. Len(A) : A[i].conn = e /\ A[i].broken
                \/ x.conn = e /\ x.broken
      <4>1. \A i \in 1 .. Len(A) : i \in 1 .. Len(B)
        BY <1>13
      <4>2. Len(A) + 1 \in 1 .. Len(B)
        BY <1>13
      <4> QED
        BY <4>1, <4>2, <1>13, <1>14
    <3>4. CASE e = c
      BY <3>1, <3>2, <3>3, <3>4, <1>5, <1>9
    <3>5. CASE e # c
      BY <3>1, <3>2, <3>3, <3>5, <1>4, <1>9
    <3> QED
      BY <3>4, <3>5
  <2>3. \A e \in Conns(s) : link[s][e].cut /\ task[s][e].at = "ended"
                            => link'[s][e].cut /\ task'[s][e].at = "ended"
    BY <1>2, <1>4
  <2>4. ASSUME NEW e \in Conns(s)
        PROVE  (~ Reported(s, e)') = (~ Reported(s, e))
    BY <2>2
  <2> QED
    BY <2>1, <2>3, <2>4, <1>1, <1>2 DEF Shows
<1>28. Domains'
  <2>1. faults' \in 0 .. MaxFaults
    BY <1>0, Constants DEF Domains, AppendLine, Fault
  <2> QED
    BY <2>1, <1>0, <1>2, <1>4, <1>12 DEF Domains
<1>29. \A t \in Sources \ {s} : Untouched(t)
  BY <1>2, <1>4, <1>12 DEF Untouched
<1>30. Compared'
  <2>1. \A e \in Conns(s) : task[s][e].at = "update" => task'[s][e] = task[s][e]
    BY <1>2, <1>4
  <2>2. Intact(s) => Intact(s)'
    BY <2>1, <1>2 DEF Intact
  <2> QED
    BY <2>2, <1>0, <1>2, <1>29, OneCompared
<1> QED
  BY <1>15, <1>16, <1>20, <1>21, <1>22, <1>25, <1>26, <1>27, <1>28, <1>29, <1>30 DEF Keeps, SourceInv

(* StopMonitor: no task is left, and nothing is known of any source. *)
LEMMA StopMonitorKeeps ==
    ASSUME IInv, StopMonitor
    PROVE  IInv'
<1>0. Domains /\ Compared /\ \A t \in Sources : SourceInv(t)
  BY DEF IInv
<1>1. UNCHANGED <<file, fw, stream, overtaken>> /\ cross' = FALSE
  BY DEF StopMonitor
<1>2. Domains'
  <2>1. cross' \in BOOLEAN
    BY <1>1, Zenon
  <2>2. faults' \in 0 .. MaxFaults
    BY <1>0, ForwardAssumption DEF Domains, StopMonitor, Fault
  <2>3. DOMAIN link' = Sources /\ DOMAIN task' = Sources /\ DOMAIN src' = Sources
    BY DEF StopMonitor
  <2> QED
    BY <2>1, <2>2, <2>3, <1>0, <1>1 DEF Domains
<1>3. Compared'
  BY <1>1 DEF Compared
<1>4. ASSUME NEW s \in Sources PROVE SourceInv(s)'
  <2>1. Typed(s) /\ Room(s) /\ Lockstep(s) /\ Newest(s) /\ Gap(s)
    BY <1>0 DEF SourceInv
  <2>2. src'[s] = NoSource
    BY DEF StopMonitor
  <2>3. task'[s] = [c \in Conns(s) |-> IF task[s][c].at = "none" THEN Idle ELSE Ended]
    BY DEF StopMonitor
  <2>4. ASSUME NEW c \in Conns(s)
        PROVE  /\ task'[s][c] \in Tasks(s) /\ ~ task'[s][c].broken
               /\ task'[s][c].at \in {"none", "ended"}
               /\ task'[s][c].at = "none" => task[s][c].at = "none"
               /\ task[s][c].at = "none" => task'[s][c] = Idle
    <3>1. Ended.at = "ended" /\ ~ Ended.broken /\ Idle.at = "none" /\ ~ Idle.broken
      BY SpecialTasks DEF Idle
    <3>2. Idle \in Tasks(s) /\ Ended \in Tasks(s)
      BY SpecialTasks
    <3> QED
      BY <2>3, <3>1, <3>2
  <2>5. link'[s] = [c \in Conns(s) |-> [link[s][c] EXCEPT !.cut = link[s][c].cut \/ task[s][c].at # "none"]]
    BY DEF StopMonitor
  <2>6. ASSUME NEW c \in Conns(s)
        PROVE  /\ link'[s][c] \in Links(s)
               /\ link'[s][c].req = link[s][c].req /\ link'[s][c].resp = link[s][c].resp
               /\ task[s][c].at = "none" => link'[s][c] = link[s][c]
    <3>1. PICK l \in Links(s) : l = link[s][c]
      BY <2>1 DEF Typed
    <3>2. PICK y \in BOOLEAN : y = (link[s][c].cut \/ task[s][c].at # "none")
      BY Zenon
    <3>3. link'[s][c] = [l EXCEPT !.cut = y]
      BY <2>5, <3>1, <3>2, Zenon
    <3>4. l = [req |-> l.req, resp |-> l.resp, cut |-> l.cut] /\ l.cut \in BOOLEAN
      BY DEF Links
    <3>5. [l EXCEPT !.cut = y] = [req |-> l.req, resp |-> l.resp, cut |-> y]
      BY <3>4
    <3>6. [req |-> l.req, resp |-> l.resp, cut |-> y] \in Links(s)
      BY DEF Links
    <3>7. ASSUME task[s][c].at = "none" PROVE y = l.cut
      BY <3>1, <3>2, <3>4, <3>7
    <3>8. ASSUME task[s][c].at = "none" PROVE link'[s][c] = link[s][c]
      BY <3>1, <3>3, <3>4, <3>5, <3>7, <3>8
    <3> QED
      BY <3>1, <3>3, <3>5, <3>6, <3>8
  <2>7. Typed(s)'
    <3>1. link'[s] \in [Conns(s) -> Links(s)]
      BY <2>5, <2>6
    <3>2. task'[s] \in [Conns(s) -> Tasks(s)]
      BY <2>3, <2>4
    <3> QED
      BY <3>1, <3>2, <2>1, <2>2, <1>1 DEF Typed
  <2>8. Room(s)'
    BY <2>1, <1>1 DEF Room
  <2>9. \A c \in Conns(s) : ~ Busy(s, c)' /\ Sent(s, c)' = Sent(s, c)
    BY <2>4, <2>6 DEF Busy, Sent
  <2>10. Lockstep(s)'
    <3>1. ASSUME NEW c \in Conns(s), c > fw[s].conn
          PROVE  task'[s][c] = Idle /\ link'[s][c] = [req |-> None, resp |-> "none", cut |-> FALSE]
      <4>1. task[s][c].at = "none" /\ link[s][c] = [req |-> None, resp |-> "none", cut |-> FALSE]
        <5>1. Idle.at = "none"
          BY DEF Idle
        <5>2. task[s][c] = Idle /\ link[s][c] = [req |-> None, resp |-> "none", cut |-> FALSE]
          BY <3>1, <2>1 DEF Lockstep
        <5> QED
          BY <5>1, <5>2
      <4> QED
        BY <4>1, <2>4, <2>6
    <3> QED
      BY <3>1, <2>1, <2>6, <2>9, <1>1 DEF Lockstep
  <2>11. Frontier(s) <= Frontier(s)'
    <3>1. Frontier(s)' = Frontier(s)
      BY <1>1 DEF Frontier, ReadFrom
    <3> QED
      BY <3>1, <2>1, FrontierNat
  <2>12. Once(s)' /\ Behind(s)' /\ Ahead(s)'
    <3>1. \A c \in Conns(s), n \in Numbers(s) : Flying(s, c, n)' => Flying(s, c, n)
      BY <2>6, <2>9 DEF Flying, Busy
    <3> QED
      BY <3>1, <2>7, <2>11, <1>0, <1>1, Quiet DEF SourceInv
  <2>13. ~ src'[s].known
    BY <2>2 DEF NoSource
  <2>14. Newest(s)'
    <3>1. ASSUME NEW c \in Conns(s) PROVE Owned(s, c)'
      BY <2>1, <2>4, <2>13, <1>1 DEF Newest, Owned
    <3> QED
      BY <3>1 DEF Newest
  <2>15. Gap(s)' /\ Shows(s)'
    BY <2>1, <2>13, <1>1, GapStill DEF Shows
  <2> QED
    BY <2>7, <2>8, <2>10, <2>12, <2>14, <2>15 DEF SourceInv
<1> QED
  BY <1>2, <1>3, <1>4 DEF IInv

(* The invariant holds in the beginning. *)
LEMMA InitIInv ==
    Init => IInv
<1> SUFFICES ASSUME Init PROVE IInv
  OBVIOUS
<1>1. Domains
  <2>1. cross \in BOOLEAN
    BY Zenon DEF Init
  <2>2. faults \in 0 .. MaxFaults
    BY ForwardAssumption DEF Init
  <2>3. /\ DOMAIN file = Sources /\ DOMAIN fw = Sources /\ DOMAIN link = Sources
        /\ DOMAIN task = Sources /\ DOMAIN src = Sources /\ DOMAIN stream = Sources
        /\ overtaken \subseteq Sources
    BY DEF Init
  <2> QED
    BY <2>1, <2>2, <2>3 DEF Domains
<1>2. Compared
  BY DEF Init, Compared
<1>3. ASSUME NEW s \in Sources PROVE SourceInv(s)
  <2>1. /\ file[s] = [base |-> 0, pieces |-> 0, bad |-> {}]
        /\ fw[s] = [loc |-> "down", conn |-> 0, position |-> 0, batch |-> <<>>]
        /\ link[s] = [c \in Conns(s) |-> [req |-> None, resp |-> "none", cut |-> FALSE]]
        /\ task[s] = [c \in Conns(s) |-> Idle]
        /\ src[s] = NoSource /\ stream[s] = <<>>
    BY DEF Init, Down
  <2>2. MaxEntries[s] \in Nat /\ MaxConns[s] \in Nat
    BY Constants
  <2>3. Typed(s)
    <3>1. file[s] \in Files(s)
      BY <2>1, <2>2 DEF Files
    <3>2. fw[s] \in Forwarders(s)
      BY <2>1, <2>2 DEF Forwarders
    <3>3. link[s] \in [Conns(s) -> Links(s)]
      BY <2>1 DEF Links, Requests, Responses
    <3>4. task[s] \in [Conns(s) -> Tasks(s)]
      BY <2>1, SpecialTasks
    <3>5. stream[s] \in Seq(Stored1(s))
      BY <2>1
    <3> QED
      BY <3>1, <3>2, <3>3, <3>4, <3>5, <2>1 DEF Typed
  <2>4. Room(s)
    <3>1. file[s].base = 0 /\ file[s].pieces = 0 /\ 0 % 2 = 0
      BY <2>1
    <3> QED
      BY <3>1, <2>2 DEF Room
  <2>5. \A c \in Conns(s) : task[s][c].at = "none" /\ ~ task[s][c].broken /\ ~ Busy(s, c) /\ ~ Sent(s, c)
    BY <2>1 DEF Idle, Busy, Sent, None
  <2>6. Lockstep(s)
    BY <2>1, <2>5 DEF Lockstep
  <2>7. \A c \in Conns(s) : \A n : ~ Flying(s, c, n)
    BY <2>5 DEF Flying
  <2>8. Len(stream[s]) = 0 /\ Len(fw[s].batch) = 0 /\ DOMAIN stream[s] = {}
    BY <2>1
  <2>9. Once(s) /\ Behind(s) /\ Ahead(s)
    BY <2>7, <2>8 DEF Once, Behind, Ahead
  <2>10. ~ src[s].known
    BY <2>1 DEF NoSource
  <2>11. Newest(s)
    BY <2>5, <2>8, <2>10 DEF Newest, Owned
  <2>12. Gap(s) /\ Shows(s)
    BY <2>8, <2>10 DEF Gap, Shows
  <2> QED
    BY <2>3, <2>4, <2>6, <2>9, <2>11, <2>12 DEF SourceInv
<1> QED
  BY <1>1, <1>2, <1>3 DEF IInv

(* Every step keeps the invariant. *)
LEMMA NextKeepsIInv ==
    IInv /\ [Next]_vars => IInv'
<1> SUFFICES ASSUME IInv, [Next]_vars PROVE IInv'
  OBVIOUS
<1>1. ASSUME NEW s \in Sources, Forward(s) PROVE IInv'
  BY <1>1, KeepsIInv, ConnectKeeps, WelcomedKeeps, PollKeeps, ReceiveResponseKeeps, DisconnectKeeps
     DEF Forward
<1>2. ASSUME NEW s \in Sources, NEW c \in Conns(s), Serve(s, c) PROVE IInv'
  BY <1>2, KeepsIInv, WelcomeKeeps, InsertSourceKeeps, ReceiveFailsKeeps, RejectLineKeeps,
     ReceiveEntryKeeps, BreakChainKeeps, UpdateStateKeeps, AppendLineKeeps, EndLineKeeps
     DEF Serve
<1>3. ASSUME NEW s \in Sources, WritePiece(s) \/ Truncate(s) \/ CutCharacter(s) \/ Cut(s) PROVE IInv'
  BY <1>3, KeepsIInv, WritePieceKeeps, TruncateKeeps, CutCharacterKeeps, CutKeeps
<1>4. CASE StopMonitor
  BY <1>4, StopMonitorKeeps
<1>5. CASE UNCHANGED vars
  <2>1. \A s \in Sources : Untouched(s)
    BY <1>5 DEF vars, Untouched
  <2>2. \A s \in Sources : SourceInv(s)'
    BY <2>1, Frame DEF IInv
  <2>3. Domains' /\ Compared'
    BY <1>5, StillCompared DEF IInv, vars, Domains
  <2> QED
    BY <2>2, <2>3 DEF IInv
<1> QED
  BY <1>1, <1>2, <1>3, <1>4, <1>5 DEF Next

(* The inductive invariant holds in every reachable state. *)
THEOREM Inductive == Spec => []IInv
BY InitIInv, NextKeepsIInv, PTL DEF Spec

(* The file has something, if only nothing, for every line handed to it. *)
OnDisk ==
    /\ DOMAIN disk = Sources
    /\ \A s \in Sources : disk[s] \in Seq(LineWrites) /\ Len(disk[s]) = Len(stream[s])

(* A newline changes no line's text and adds no line. *)
LEMMA TerminateKeeps ==
    ASSUME NEW w \in Seq(LineWrites)
    PROVE  Terminate(w) \in Seq(LineWrites) /\ Len(Terminate(w)) = Len(w)
<1>1. DOMAIN w = 1 .. Len(w) /\ Len(w) \in Nat /\ \A i \in 1 .. Len(w) : w[i] \in LineWrites
  OBVIOUS
<1>2. ASSUME NEW i \in DOMAIN w, NEW y \in BOOLEAN PROVE [w[i] EXCEPT !.ended = y] \in LineWrites
  <2>1. PICK l \in LineWrites : l = w[i]
    BY <1>1
  <2>2. [l EXCEPT !.ended = y] \in LineWrites
    BY DEF LineWrites
  <2> QED
    BY <2>1, <2>2
<1> DEFINE last(i) == \/ w[i].ended
                     \/ /\ w[i].text # "none"
                        /\ \A j \in DOMAIN w : j > i => w[j].text = "none"
<1>3. \A i \in DOMAIN w : last(i) \in BOOLEAN
  <2> SUFFICES ASSUME NEW i \in DOMAIN w PROVE last(i) \in BOOLEAN
    BY Zenon
  <2> QED
    BY Zenon
<1>4. Terminate(w) = [i \in DOMAIN w |-> [w[i] EXCEPT !.ended = last(i)]]
  BY Zenon DEF Terminate
<1> HIDE DEF last
<1>5. Terminate(w) \in [1 .. Len(w) -> LineWrites]
  BY <1>1, <1>2, <1>3, <1>4
<1> QED
  BY <1>1, <1>5

(* Every step keeps what the file has in line with what it was handed. *)
LEMMA NextKeepsOnDisk ==
    OnDisk /\ IInv /\ [Next]_vars => OnDisk'
<1> SUFFICES ASSUME OnDisk, IInv, [Next]_vars PROVE OnDisk'
  OBVIOUS
<1>1. CASE UNCHANGED <<stream, disk>>
  BY <1>1 DEF OnDisk
<1>2. ASSUME NEW s \in Sources, NEW c \in Conns(s), AppendLine(s, c) PROVE OnDisk'
  <2>1. PICK y \in LineWrites : disk' = [disk EXCEPT ![s] = Append(disk[s], y)]
    <3>1. PICK text \in {"all", "part", "none"} :
             disk' = [disk EXCEPT ![s] = Append(disk[s], [text |-> text, ended |-> FALSE])]
      BY <1>2 DEF AppendLine
    <3>2. [text |-> text, ended |-> FALSE] \in LineWrites
      BY DEF LineWrites
    <3> QED
      BY <3>1, <3>2
  <2>2. PICK x : stream' = [stream EXCEPT ![s] = Append(stream[s], x)]
    BY <1>2 DEF AppendLine
  <2>3. DOMAIN disk = Sources /\ DOMAIN stream = Sources
    BY DEF OnDisk, IInv, Domains
  <2>4. PICK d, f : d = disk[s] /\ f = stream[s]
    OBVIOUS
  <2>5. d \in Seq(LineWrites) /\ f \in Seq(Stored1(s)) /\ Len(d) = Len(f)
    BY <2>4 DEF OnDisk, IInv, SourceInv, Typed
  <2>6. Append(d, y) \in Seq(LineWrites) /\ Len(Append(d, y)) = Len(d) + 1
    BY <2>5
  <2>7. Len(Append(f, x)) = Len(f) + 1
    BY <2>5
  <2>8. disk'[s] \in Seq(LineWrites) /\ Len(disk'[s]) = Len(stream'[s])
    BY <2>1, <2>2, <2>3, <2>4, <2>5, <2>6, <2>7
  <2> QED
    BY <2>1, <2>2, <2>3, <2>8 DEF OnDisk
<1>3. ASSUME NEW s \in Sources, NEW c \in Conns(s), EndLine(s, c) PROVE OnDisk'
  <2>1. stream' = stream /\ disk' \in {disk, [disk EXCEPT ![s] = Terminate(disk[s])]}
    BY <1>3 DEF EndLine
  <2>2. disk[s] \in Seq(LineWrites) /\ DOMAIN disk = Sources
    BY DEF OnDisk
  <2>3. Terminate(disk[s]) \in Seq(LineWrites) /\ Len(Terminate(disk[s])) = Len(disk[s])
    BY <2>2, TerminateKeeps
  <2> QED
    BY <2>1, <2>2, <2>3 DEF OnDisk
<1>4. ASSUME NEW s \in Sources, Forward(s) PROVE UNCHANGED <<stream, disk>>
  BY <1>4 DEF Forward, Connect, Welcomed, Poll, ReceiveResponse, Disconnect
<1>5. ASSUME NEW s \in Sources, NEW c \in Conns(s), Serve(s, c)
      PROVE  AppendLine(s, c) \/ EndLine(s, c) \/ UNCHANGED <<stream, disk>>
  BY <1>5 DEF Serve, Welcome, InsertSource, ReceiveFails, RejectLine, ReceiveEntry, BreakChain,
              UpdateState
<1>6. ASSUME NEW s \in Sources, WritePiece(s) \/ Truncate(s) \/ CutCharacter(s) \/ Cut(s)
      PROVE  UNCHANGED <<stream, disk>>
  BY <1>6 DEF WritePiece, Truncate, CutCharacter, Cut
<1>7. StopMonitor => UNCHANGED <<stream, disk>>
  BY DEF StopMonitor
<1>8. UNCHANGED vars => UNCHANGED <<stream, disk>>
  BY DEF vars
<1> QED
  BY <1>1, <1>2, <1>3, <1>4, <1>5, <1>6, <1>7, <1>8 DEF Next

(* What the file has goes with what it was handed, in every reachable state. *)
LEMMA DiskInductive == Spec => []OnDisk
<1>1. Init => OnDisk
  <2> SUFFICES ASSUME Init PROVE OnDisk
    OBVIOUS
  <2>1. DOMAIN disk = Sources /\ \A s \in Sources : disk[s] = <<>> /\ stream[s] = <<>>
    BY DEF Init
  <2>2. <<>> \in Seq(LineWrites)
    OBVIOUS
  <2>3. \A s \in Sources : disk[s] \in Seq(LineWrites) /\ Len(disk[s]) = Len(stream[s])
    BY <2>1, <2>2
  <2> QED
    BY <2>1, <2>3 DEF OnDisk
<1> QED
  BY <1>1, Inductive, NextKeepsOnDisk, PTL DEF Spec

(* Every variable keeps its type: in particular the tailer's position and the
   file stay within the bounds and every line read has a number that exists. *)
THEOREM TypeCorrect == Spec => []TypeOK
<1>1. IInv /\ OnDisk => TypeOK
  <2> SUFFICES ASSUME IInv, OnDisk PROVE TypeOK
    OBVIOUS
  <2>1. ASSUME NEW s \in Sources
        PROVE  /\ file[s] \in [base : 0 .. MaxEntries[s], pieces : 0 .. 2 * MaxEntries[s],
                              bad : SUBSET Numbers(s)]
               /\ fw[s].loc \in {"down", "hello", "tail", "ack"}
               /\ fw[s].conn \in 0 .. MaxConns[s]
               /\ fw[s].position \in 0 .. 2 * MaxEntries[s]
               /\ fw[s].batch \in Seq(Lines(s))
               /\ src[s] \in SourceStates(s) \cup {NoSource}
               /\ stream[s] \in Seq([n : Numbers(s), conn : Conns(s), broken : BOOLEAN])
    BY DEF IInv, SourceInv, Typed, Files, Forwarders, Stored1
  <2>2. ASSUME NEW s \in Sources, NEW c \in Conns(s)
        PROVE  /\ link[s][c] \in [req : Requests(s), resp : Responses, cut : BOOLEAN]
               /\ task[s][c].at \in {"none", "hello", "insert", "receive",
                                     "break", "update", "append", "newline",
                                     "acknowledge", "ended"}
               /\ task[s][c].line \in Lines(s) \cup {None}
               /\ task[s][c].broken \in BOOLEAN
    <3>1. link[s][c] \in Links(s) /\ task[s][c] \in Tasks(s)
      BY DEF IInv, SourceInv, Typed
    <3> QED
      BY <3>1 DEF Links, Tasks, Places
  <2> QED
    BY <2>1, <2>2 DEF TypeOK, IInv, Domains, OnDisk
<1> QED
  BY <1>1, Inductive, DiskInductive, PTL

(* No entry is in a stream file twice, however often the forwarder of its
   source reconnects and the log is truncated (FileTailer::new starts at the
   end, read_new_lines moves past what it read). *)
THEOREM StoredOnceHolds == Spec => []StoredOnce
<1>1. IInv => StoredOnce
  <2> SUFFICES ASSUME IInv, NEW s \in Sources
               PROVE  \A i, j \in DOMAIN stream[s] : stream[s][i].n = stream[s][j].n => i = j
    BY DEF StoredOnce
  <2>1. DOMAIN stream[s] = 1 .. Len(stream[s])
    BY DEF IInv, SourceInv, Typed
  <2> QED
    BY <2>1 DEF IInv, SourceInv, Once
<1> QED
  BY <1>1, Inductive, PTL

(* An entry missing between two that one connection delivered was reported by
   handle_source's comparison of hashes, unless it was received and the write
   of its own line failed, or a task of an older connection wrote to the same
   SourceState. *)
THEOREM GapHolds == Spec => []GapIsReported
<1>1. IInv => GapIsReported
  BY DEF IInv, SourceInv, Gap, GapIsReported
<1> QED
  BY <1>1, Inductive, PTL

(* cross_verified is set while a chain is known to be broken only until the
   task that found the break reaches its update, where cross_verify_sources
   runs again. *)
THEOREM CrossHolds == Spec => []CrossVerifiedIsIntact
<1>1. IInv => CrossVerifiedIsIntact
  BY DEF IInv, Compared, Intact, CrossVerifiedIsIntact
<1> QED
  BY <1>1, Inductive, PTL

(* Unless a task of an older connection interferes, handle_source leaves in
   SourceState what its newest connection did: disconnected only if that
   connection broke, broken only if one of its entries was reported. *)
THEOREM NewestHolds == Spec => []ShowsNewest
<1>1. IInv => ShowsNewest
  BY DEF IInv, SourceInv, Shows, Reported, ShowsNewest
<1> QED
  BY <1>1, Inductive, PTL
================================================================================
