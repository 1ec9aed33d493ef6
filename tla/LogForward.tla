------------------------------ MODULE LogForward ------------------------------
(******************************************************************************)
(* From the audit logs of vm2 and vm3 to the monitor's state on vm5: one log  *)
(* forwarder per verifier tails the file and sends each new line over an      *)
(* encrypted connection; the monitor runs one task (handle_source) for every  *)
(* connection and all tasks share SystemState behind a read-write lock.       *)
(*                                                                            *)
(* The steps are those between two lock, socket or file operations, so two    *)
(* tasks of the same source, the old connection's and the new one's,          *)
(* interleave.  Connections break, the monitor stops, files are truncated,    *)
(* writes fail.                                                               *)
(*                                                                            *)
(* A line is written in two pieces, standing for any point at which a reader  *)
(* can find it unfinished.  (The newline is a write of its own; a line read   *)
(* just before it is complete, and the newline alone is skipped.)             *)
(******************************************************************************)
EXTENDS Integers, Sequences, FiniteSets, SequencesExt

CONSTANTS
    Sources,        \* the two verifiers
    Torn,           \* those whose lines a reader may find unfinished; for the others
                    \* a line is there at once
    MaxDrift,       \* heartbeats the two may differ by
    MaxEntries,     \* bound, per source: entries it logs
    MaxConns,       \* bound, per source: connections its forwarder makes
    MaxFaults       \* bound: broken connections, stops of the monitor, truncations,
                    \* failed writes

ASSUME ForwardAssumption ==
    /\ IsFiniteSet(Sources) /\ Cardinality(Sources) = 2
    /\ Torn \subseteq Sources
    /\ MaxDrift \in Nat /\ MaxFaults \in Nat
    /\ MaxEntries \in [Sources -> Nat] /\ MaxConns \in [Sources -> Nat]

VARIABLES
    file,       \* per source: entries before the file's start, pieces in it, lines
                \* of it with a cut character
    fw,         \* per source: the forwarder's place, connection, tailer and lines to send
    link,       \* per source and connection: what is under way on it
    task,       \* per source and connection: handle_source's place and line
    src,        \* st.sources: a SourceState, or none
    cross,      \* st.cross_verified
    stream,     \* per source: the entries handed to <source>-stream.jsonl, with the
                \* connection each came by and whether it was reported as a broken chain
    disk,       \* per source: what the file got of each of them
    overtaken,  \* history: sources whose SourceState a task of an older connection
                \* touched after a newer connection had put its own there
    faults

vars == <<file, fw, link, task, src, cross, stream, disk, overtaken, faults>>

--------------------------------------------------------------------------------
Conns(s) == 1 .. MaxConns[s]
Numbers(s) == 1 .. MaxEntries[s]

(* A line as read: entry n complete, or a part of it. *)
Lines(s) == [n : Numbers(s), whole : BOOLEAN]

None == [kind |-> "none"]
Requests(s) ==
    {None, [kind |-> "hello"]} \cup [kind : {"entry"}, line : Lines(s)]
Responses == {"none", "welcome", "ack", "reject"}

NoSource == [known |-> FALSE]
SourceStates(s) ==
    [known : {TRUE}, conn : Conns(s), connected : BOOLEAN, received : Nat, prev : 0 .. MaxEntries[s],
     heartbeat : 0 .. MaxEntries[s], intact : BOOLEAN]

(* Of a line the file has the text, a part of it or nothing; and the newline
   after it or not. *)
LineWrites == [text : {"all", "part", "none"}, ended : BOOLEAN]

TypeOK ==
    /\ \A s \in Sources :
          /\ file[s] \in [base : 0 .. MaxEntries[s], pieces : 0 .. 2 * MaxEntries[s],
                          bad : SUBSET Numbers(s)]
          /\ fw[s].loc \in {"down", "hello", "tail", "ack"}
          /\ fw[s].conn \in 0 .. MaxConns[s]
          /\ fw[s].position \in 0 .. 2 * MaxEntries[s]
          /\ fw[s].batch \in Seq(Lines(s))
          /\ \A c \in Conns(s) :
                /\ link[s][c] \in [req : Requests(s), resp : Responses, cut : BOOLEAN]
                /\ task[s][c].at \in {"none", "hello", "insert", "receive",
                                      "break", "update", "append", "newline",
                                      "acknowledge", "ended"}
                /\ task[s][c].line \in Lines(s) \cup {None}
                /\ task[s][c].broken \in BOOLEAN
          /\ src[s] \in SourceStates(s) \cup {NoSource}
          /\ stream[s] \in Seq([n : Numbers(s), conn : Conns(s), broken : BOOLEAN])
          /\ disk[s] \in Seq(LineWrites) /\ Len(disk[s]) = Len(stream[s])
    /\ cross \in BOOLEAN
    /\ overtaken \subseteq Sources
    /\ faults \in 0 .. MaxFaults

Down(c) == [loc |-> "down", conn |-> c, position |-> 0, batch |-> <<>>]
Idle == [at |-> "none", line |-> None, broken |-> FALSE]
Ended == [Idle EXCEPT !.at = "ended"]

Init ==
    /\ file = [s \in Sources |-> [base |-> 0, pieces |-> 0, bad |-> {}]]
    /\ fw = [s \in Sources |-> Down(0)]
    /\ link = [s \in Sources |-> [c \in Conns(s) |->
                  [req |-> None, resp |-> "none", cut |-> FALSE]]]
    /\ task = [s \in Sources |-> [c \in Conns(s) |-> Idle]]
    /\ src = [s \in Sources |-> NoSource]
    /\ cross = FALSE
    /\ stream = [s \in Sources |-> <<>>]
    /\ disk = [s \in Sources |-> <<>>]
    /\ overtaken = {}
    /\ faults = 0

Fault == faults < MaxFaults /\ faults' = faults + 1

--------------------------------------------------------------------------------
(* The audit log of a verifier: its next piece, a truncation between two lines,
   and an append that failed inside a character of the line, so that the next
   entry continues the same line. *)
Written(s) == file[s].base + file[s].pieces \div 2

WritePiece(s) ==
    /\ Written(s) < MaxEntries[s]
    /\ file' = [file EXCEPT ![s].pieces = @ + (IF s \in Torn THEN 1 ELSE 2)]
    /\ UNCHANGED <<fw, link, task, src, cross, stream, disk, overtaken, faults>>

Truncate(s) ==
    /\ Fault
    /\ file[s].pieces > 0 /\ file[s].pieces % 2 = 0
    /\ file' = [file EXCEPT ![s] =
                   [base |-> Written(s), pieces |-> 0, bad |-> {}]]
    /\ UNCHANGED <<fw, link, task, src, cross, stream, disk, overtaken>>

CutCharacter(s) ==
    /\ Fault
    /\ file[s].pieces % 2 = 1
    /\ file' = [file EXCEPT ![s].bad = @ \cup {file[s].pieces \div 2 + 1}]
    /\ UNCHANGED <<fw, link, task, src, cross, stream, disk, overtaken>>

--------------------------------------------------------------------------------
(* The forwarder *)
Send(s, c, req) == link' = [link EXCEPT ![s][c].req = req, ![s][c].resp = "none"]

(* The first line of the batch as it is after the step, if there is one. *)
SendFirst(s) ==
    Send(s, fw[s].conn, IF fw'[s].batch = <<>> THEN None
                        ELSE [kind |-> "entry", line |-> Head(fw'[s].batch)])

(* connect_with_retry, accept and the key exchange: the monitor starts a task. *)
Connect(s) ==
    /\ fw[s].loc = "down" /\ fw[s].conn < MaxConns[s]
    /\ LET c == fw[s].conn + 1
       IN  /\ fw' = [fw EXCEPT ![s] = [Down(c) EXCEPT !.loc = "hello"]]
           /\ Send(s, c, [kind |-> "hello"])
           /\ task' = [task EXCEPT ![s][c].at = "hello"]
    /\ UNCHANGED <<file, src, cross, stream, disk, overtaken, faults>>

(* Seeded fault: a new tailer starts at the beginning of the file. *)
TailerStart_beginning(s) == 0

(* FileTailer::new: only what is written from now on. *)
TailerStart(s) == file[s].pieces

Welcomed(s) ==
    LET c == fw[s].conn
    IN  /\ fw[s].loc = "hello" /\ link[s][c].resp = "welcome"
        /\ fw' = [fw EXCEPT ![s].loc = "tail", ![s].position = TailerStart(s)]
        /\ Send(s, c, None)
        /\ UNCHANGED <<file, task, src, cross, stream, disk, overtaken, faults>>

(* Seeded fault: the end of the file counts as one more line. *)
LinesBetween_endToo(s, p, q) ==
    [i \in 1 .. (q + 1) \div 2 - p \div 2 + 1 |->
        [n |-> file[s].base + p \div 2 + i, whole |-> TRUE]]

(* What read_line makes of the pieces p + 1 .. q of the file: a piece without
   its other half is a line that is not whole. *)
LinesBetween(s, p, q) ==
    LET first == p \div 2 + 1                      \* lines touched, in the file
        last  == (q + 1) \div 2
        whole(k) == 2 * k - 2 >= p /\ 2 * k <= q
    IN  [i \in 1 .. last - first + 1 |->
            [n |-> file[s].base + first + i - 1, whole |-> whole(first + i - 1)]]

(* A file shorter than the position was truncated. *)
ReadFrom(s) == IF file[s].pieces < fw[s].position THEN 0 ELSE fw[s].position

(* Where read_new_lines may stop: at the end of the file, or before a line that
   read_line refuses because it is not UTF-8, one with a cut character or an
   unfinished one that ends inside a character. *)
ReadEnds(s) ==
    LET p == ReadFrom(s)
        end == file[s].pieces
    IN  {q \in p .. end :
            /\ \A k \in file[s].bad : ~ (p <= 2 * k - 2 /\ 2 * k - 2 < q)
            /\ \/ q = end
               \/ q % 2 = 0 /\ (q \div 2 + 1 \in file[s].bad \/ q = end - 1)}

(* read_new_lines, and the first line is sent: the position moves past every
   line of the batch at once.  (A poll that finds nothing, and the ping after
   120 of them, leave everything as it is.) *)
Poll(s) ==
    /\ fw[s].loc = "tail"
    /\ \E q \in ReadEnds(s) :
          LET batch == LinesBetween(s, ReadFrom(s), q)
          IN  /\ q # fw[s].position
              /\ fw' = [fw EXCEPT ![s].position = q, ![s].batch = batch,
                                  ![s].loc = IF batch = <<>> THEN "tail" ELSE "ack"]
    /\ SendFirst(s)
    /\ UNCHANGED <<file, task, src, cross, stream, disk, overtaken, faults>>

(* Ack and Reject alike: on to the next line. *)
ReceiveResponse(s) ==
    /\ fw[s].loc = "ack" /\ link[s][fw[s].conn].resp # "none"
    /\ fw' = [fw EXCEPT ![s].batch = Tail(@),
                        ![s].loc = IF Len(fw[s].batch) = 1 THEN "tail" ELSE "ack"]
    /\ SendFirst(s)
    /\ UNCHANGED <<file, task, src, cross, stream, disk, overtaken, faults>>

(* An operation on a broken connection, if only a ping, fails at once or when
   the answer is awaited: what is left of the batch is dropped. *)
Disconnect(s) ==
    /\ fw[s].loc # "down" /\ link[s][fw[s].conn].cut
    /\ fw' = [fw EXCEPT ![s] = Down(@.conn)]
    /\ link' = [link EXCEPT ![s][fw[s].conn].resp = "none"]
    /\ UNCHANGED <<file, task, src, cross, stream, disk, overtaken, faults>>

--------------------------------------------------------------------------------
(* handle_source *)
GoTo(s, c, at) == task' = [task EXCEPT ![s][c].at = at]

(* Sends the response and moves on; on a broken connection the send may fail,
   and `?` ends the task with no word to SystemState. *)
Respond(s, c, resp, t) ==
    \/ /\ task' = [task EXCEPT ![s][c] = t]
       /\ link' = [link EXCEPT ![s][c].req = None,
                      ![s][c].resp = IF fw[s] = Down(c) \/ fw[s].conn # c THEN "none" ELSE resp]
    \/ /\ link[s][c].cut
       /\ task' = [task EXCEPT ![s][c] = Ended]
       /\ link' = [link EXCEPT ![s][c].req = None]

Welcome(s, c) ==
    /\ task[s][c].at = "hello" /\ link[s][c].req.kind = "hello"
    /\ Respond(s, c, "welcome", [Idle EXCEPT !.at = "insert"])
    /\ UNCHANGED <<file, fw, src, cross, stream, disk, overtaken, faults>>

(* A task of connection c writes to SourceState. *)
Touch(s, c) ==
    overtaken' = IF src[s].known /\ c < src[s].conn THEN overtaken \cup {s} ELSE overtaken

Fresh(c) == [known |-> TRUE, conn |-> c, connected |-> TRUE, received |-> 0, prev |-> 0,
             heartbeat |-> 0, intact |-> TRUE]

(* Seeded fault: the state of the last connection is kept and marked as connected. *)
InsertSource_keeps(s, c) ==
    /\ task[s][c].at = "insert"
    /\ src' = [src EXCEPT ![s] = IF @.known THEN [@ EXCEPT !.conn = c, !.connected = TRUE]
                                 ELSE Fresh(c)]
    /\ Touch(s, c)
    /\ GoTo(s, c, "receive")
    /\ UNCHANGED <<file, fw, link, cross, stream, disk, faults>>

InsertSource(s, c) ==
    /\ task[s][c].at = "insert"
    /\ src' = [src EXCEPT ![s] = Fresh(c)]
    /\ Touch(s, c)
    /\ GoTo(s, c, "receive")
    /\ UNCHANGED <<file, fw, link, cross, stream, disk, faults>>

(* receive_message fails: before Hello the task just ends, later it marks the
   source as disconnected, whichever connection its state now belongs to. *)
ReceiveFails(s, c) ==
    /\ task[s][c].at \in {"hello", "receive"} /\ link[s][c].cut
    /\ src' = IF task[s][c].at = "receive" /\ src[s].known
                THEN [src EXCEPT ![s].connected = FALSE] ELSE src
    /\ IF task[s][c].at = "receive" THEN Touch(s, c) ELSE UNCHANGED overtaken
    /\ task' = [task EXCEPT ![s][c] = Ended]
    /\ UNCHANGED <<file, fw, link, cross, stream, disk, faults>>

(* Seeded fault: a line that does not parse is skipped without an answer. *)
RejectLine_silent(s, c) ==
    /\ task[s][c].at = "receive" /\ link[s][c].req.kind = "entry"
    /\ ~ link[s][c].req.line.whole
    /\ link' = [link EXCEPT ![s][c].req = None]
    /\ UNCHANGED <<file, fw, task, src, cross, stream, disk, overtaken, faults>>

(* A line that does not parse is rejected. *)
RejectLine(s, c) ==
    /\ task[s][c].at = "receive" /\ link[s][c].req.kind = "entry"
    /\ ~ link[s][c].req.line.whole
    /\ Respond(s, c, "reject", task[s][c])
    /\ UNCHANGED <<file, fw, src, cross, stream, disk, overtaken, faults>>

(* Seeded fault: the hash of the last entry is not compared. *)
ChainOk_always(s, n) == TRUE

(* entry.prev_hash against the hash of the last entry received: entry n holds
   the hash of entry n - 1. *)
ChainOk(s, n) == ~ src[s].known \/ src[s].received = 0 \/ src[s].prev = n - 1

(* An entry is received and compared under the read lock.  A break is recorded
   under a write lock of its own, BreakChain. *)
ReceiveEntry(s, c) ==
    /\ task[s][c].at = "receive" /\ link[s][c].req.kind = "entry"
    /\ link[s][c].req.line.whole
    /\ LET line == link[s][c].req.line
       IN  task' = [task EXCEPT ![s][c] = [Idle EXCEPT !.line = line,
                       !.at = IF ChainOk(s, line.n) THEN "update" ELSE "break"]]
    /\ link' = [link EXCEPT ![s][c].req = None]
    /\ UNCHANGED <<file, fw, src, cross, stream, disk, overtaken, faults>>

BreakChain(s, c) ==
    /\ task[s][c].at = "break"
    /\ src' = IF src[s].known THEN [src EXCEPT ![s].intact = FALSE] ELSE src
    /\ Touch(s, c)
    /\ task' = [task EXCEPT ![s][c].at = "update", ![s][c].broken = TRUE]
    /\ UNCHANGED <<file, fw, link, cross, stream, disk, faults>>

(* Seeded fault: a source whose chain is broken is still compared. *)
CrossVerify_brokenToo(sources) ==
    /\ \A s \in Sources : sources[s].known /\ sources[s].connected
    /\ \A s, t \in Sources : sources[s].heartbeat - sources[t].heartbeat <= MaxDrift

(* cross_verify_sources *)
CrossVerify(sources) ==
    /\ \A s \in Sources : sources[s].known /\ sources[s].connected /\ sources[s].intact
    /\ \A s, t \in Sources : sources[s].heartbeat - sources[t].heartbeat <= MaxDrift

(* The long write section: counters, forensic file, last_*, node_status, the
   rings of recent entries, and the comparison once two sources are known. *)
UpdateState(s, c) ==
    LET n == task[s][c].line.n
    IN  /\ task[s][c].at = "update"
        /\ src' = IF src[s].known
                    THEN [src EXCEPT ![s].heartbeat = n, ![s].prev = n,
                                     ![s].received = @ + 1]
                    ELSE src
        /\ cross' = IF \A t \in Sources : src'[t].known THEN CrossVerify(src') ELSE cross
        /\ Touch(s, c)
        /\ GoTo(s, c, "append")
        /\ UNCHANGED <<file, fw, link, stream, disk, faults>>

(* The line's text goes to the stream file.  If the file does not open or the
   write fails the error is ignored, and writeln! leaves out the newline. *)
AppendLine(s, c) ==
    /\ task[s][c].at = "append"
    /\ stream' = [stream EXCEPT ![s] = Append(@,
                     [n |-> task[s][c].line.n, conn |-> c, broken |-> task[s][c].broken])]
    /\ \E text \in {"all", "part", "none"} :
          /\ IF text = "all" THEN UNCHANGED faults ELSE Fault
          /\ disk' = [disk EXCEPT ![s] = Append(@, [text |-> text, ended |-> FALSE])]
          /\ task' = [task EXCEPT ![s][c].broken = FALSE,
                         ![s][c].at = IF text = "all" THEN "newline" ELSE "acknowledge"]
    /\ UNCHANGED <<file, fw, link, src, cross, overtaken>>

(* A newline ends whatever was written to the file last. *)
Terminate(writes) ==
    [i \in DOMAIN writes |->
        [writes[i] EXCEPT !.ended = \/ @
                                    \/ /\ writes[i].text # "none"
                                       /\ \A j \in DOMAIN writes : j > i => writes[j].text = "none"]]

(* Seeded fault: write! instead of writeln!. *)
EndLine_noNewline(s, c) ==
    /\ task[s][c].at \in {"newline", "acknowledge"}
    /\ Respond(s, c, "ack", [Idle EXCEPT !.at = "receive"])
    /\ UNCHANGED <<file, fw, src, cross, stream, disk, overtaken, faults>>

(* The newline, a write of its own that may fail, then the verified log and the
   session tracker, and the Ack whatever became of the writes. *)
EndLine(s, c) ==
    /\ task[s][c].at \in {"newline", "acknowledge"}
    /\ \/ task[s][c].at = "newline" /\ UNCHANGED faults
          /\ disk' = [disk EXCEPT ![s] = Terminate(@)]
       \/ task[s][c].at = "newline" /\ Fault /\ UNCHANGED disk
       \/ task[s][c].at = "acknowledge" /\ UNCHANGED <<disk, faults>>
    /\ Respond(s, c, "ack", [Idle EXCEPT !.at = "receive"])
    /\ UNCHANGED <<file, fw, src, cross, stream, overtaken>>

--------------------------------------------------------------------------------
(* The connection breaks; each side finds out on its own. *)
Cut(s) ==
    /\ Fault
    /\ fw[s].loc # "down" /\ ~ link[s][fw[s].conn].cut
    /\ link' = [link EXCEPT ![s][fw[s].conn].cut = TRUE]
    /\ UNCHANGED <<file, fw, task, src, cross, stream, disk, overtaken>>

(* The monitor stops and starts again. *)
StopMonitor ==
    /\ Fault
    /\ \E s \in Sources : fw[s].conn > 0
    /\ link' = [s \in Sources |-> [c \in Conns(s) |->
                   [link[s][c] EXCEPT !.cut = @ \/ task[s][c].at # "none"]]]
    /\ task' = [s \in Sources |-> [c \in Conns(s) |->
                   IF task[s][c].at = "none" THEN Idle ELSE Ended]]
    /\ src' = [s \in Sources |-> NoSource]
    /\ cross' = FALSE
    /\ UNCHANGED <<file, fw, stream, disk, overtaken>>

Forward(s) ==
    \/ Connect(s) \/ Welcomed(s) \/ Poll(s) \/ ReceiveResponse(s) \/ Disconnect(s)

Serve(s, c) ==
    \/ Welcome(s, c) \/ InsertSource(s, c) \/ ReceiveFails(s, c)
    \/ RejectLine(s, c) \/ ReceiveEntry(s, c) \/ BreakChain(s, c)
    \/ UpdateState(s, c) \/ AppendLine(s, c) \/ EndLine(s, c)

Next ==
    \/ \E s \in Sources :
          \/ Forward(s) \/ \E c \in Conns(s) : Serve(s, c)
          \/ WritePiece(s) \/ Truncate(s) \/ CutCharacter(s) \/ Cut(s)
    \/ StopMonitor

Spec == Init /\ [][Next]_vars

(* A forwarder or a task that can go on does so in the end: they are threads of
   a runtime that polls what is ready.  Nothing makes a verifier write or a
   connection break. *)
Progress == \E s \in Sources : Forward(s) \/ \E c \in Conns(s) : Serve(s, c)

FairSpec == Spec /\ WF_vars(Progress)

--------------------------------------------------------------------------------
(* However often a forwarder reconnects and the file is truncated, no entry is
   stored twice. *)
StoredOnce ==
    \A s \in Sources : \A i, j \in DOMAIN stream[s] :
        stream[s][i].n = stream[s][j].n => i = j

(* Entries of connection c whose line was handed to the file between the i-th
   and the j-th. *)
Between(s, c, i, j) == {stream[s][k].n : k \in {m \in i + 1 .. j - 1 : stream[s][m].conn = c}}

(* Of two entries that one connection delivered the first is the older, and an
   entry missing between them has been reported, one of those after the gap
   being marked as a broken chain; the exceptions are entries that were received
   and lost by the monitor's own write, for which no report is ever made, and a
   SourceState that the task of an older connection wrote to. *)
GapIsReported ==
    \A s \in Sources : \A i, j \in DOMAIN stream[s] :
        i < j /\ stream[s][i].conn = stream[s][j].conn =>
            LET c == stream[s][j].conn
            IN  \/ /\ stream[s][i].n < stream[s][j].n
                   /\ stream[s][i].n + 1 .. stream[s][j].n - 1 \subseteq Between(s, c, i, j)
                \/ \E k \in i + 1 .. j : stream[s][k].conn = c /\ stream[s][k].broken
                \/ s \in overtaken

(* The k-th and the i-th of the lines handed to the file are one line in it. *)
Glued(s, k, i) ==
    /\ k < i /\ ~ disk[s][k].ended
    /\ disk[s][k].text # "none" /\ disk[s][i].text # "none"
    /\ \A m \in k + 1 .. i - 1 : disk[s][m].text = "none"

(* The i-th is a line of its own with all of its text. *)
Readable(s, i) ==
    /\ disk[s][i].text = "all"
    /\ \A k \in DOMAIN disk[s] : ~ Glued(s, k, i) /\ ~ Glued(s, i, k)

(* Every failed write, stop of the monitor between text and newline, or broken
   connection whose task writes beside that of the next one costs at most two
   of the acknowledged entries of a source. *)
LossIsBounded ==
    \A s \in Sources : Cardinality({i \in DOMAIN disk[s] : ~ Readable(s, i)}) <= 2 * faults

(* The dashboard says that the two logs agree while a chain is broken only
   until the task that found the break reaches its update. *)
CrossVerifiedIsIntact ==
    cross => \A s \in Sources :
        src[s].intact \/ \E c \in Conns(s) : task[s][c].at = "update" /\ task[s][c].broken

(* Unless the task of an older connection interferes, what the dashboard shows
   of a source is what its newest connection did: it is shown as disconnected
   only if that connection broke, and its chain as broken only if an entry of
   that connection was reported (or is being reported). *)
ShowsNewest ==
    \A s \in Sources : src[s].known /\ s \notin overtaken =>
        LET c == src[s].conn
        IN  /\ src[s].connected \/ (link[s][c].cut /\ task[s][c].at = "ended")
            /\ src[s].intact = ~ (\/ task[s][c].broken
                                  \/ \E i \in DOMAIN stream[s] :
                                        stream[s][i].conn = c /\ stream[s][i].broken)

(* Entry n is on its way: complete in the file and not read yet, or read and
   not answered. *)
Pending(s, n) ==
    /\ fw[s].loc \in {"tail", "ack"}
    /\ \/ /\ file[s].base < n /\ n <= Written(s)
          /\ fw[s].position <= 2 * (n - file[s].base - 1)
       \/ \E i \in DOMAIN fw[s].batch : fw[s].batch[i] = [n |-> n, whole |-> TRUE]

(* It was handed to the stream file and, as long as nothing has failed, can be
   read there. *)
Arrived(s, n) == \E i \in DOMAIN stream[s] : stream[s][i].n = n /\ (faults > 0 \/ Readable(s, i))

(* A line at or before entry n, in what is still to be read, has a cut
   character. *)
Stuck(s, n) == \E k \in file[s].bad : ReadFrom(s) <= 2 * k - 2 /\ file[s].base + k <= n

(* An entry that is on its way arrives: it stays on its way until it has
   arrived, the connection is lost or the file is truncated, and none is on its
   way for ever except before a tailer that is stuck. *)
EntryArrives ==
    /\ [][\A s \in Sources : \A n \in Numbers(s) :
            Pending(s, n) /\ ~ Pending(s, n)' =>
                (Arrived(s, n) \/ fw[s].loc = "down" \/ file[s].base >= n)']_vars
    /\ []<>(\A s \in Sources : \A n \in Numbers(s) : Pending(s, n) => Stuck(s, n))
================================================================================
