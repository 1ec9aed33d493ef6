---------------------------- MODULE SessionTracker ----------------------------
(******************************************************************************)
(* vm5's session tracker: how the stream of audit entries of vm2 and vm3 is   *)
(* cut into sessions, and how a finished session reaches the disk.            *)
(*                                                                            *)
(* The environment is what the entries come from: each verifier logs the      *)
(* rounds of one circuit after the other and closes a circuit with            *)
(* SessionEnded unless its handler failed; any entry may fail to arrive       *)
(* (LogForward says how).  The tracker runs under a mutex; what it keeps in   *)
(* memory is lost when the monitor stops, and write_session writes two files. *)
(******************************************************************************)
EXTENDS Naturals, Sequences, FiniteSets, SequencesExt

CONSTANTS
    Sources,        \* the verifiers whose logs are tracked
    Chained,        \* those that log ChainVerified / ChainDenied (vm3);
                    \* the others log HeartbeatOk / HeartbeatFail (vm2)
    MaxCircuits,    \* bound: circuits a verifier serves
    MaxRounds,      \* bound: rounds of a circuit
    MaxEntries,     \* bound: entries logged by all verifiers together
    MaxFaults       \* bound: failed writes and stops of the monitor

ASSUME TrackerAssumption ==
    /\ Chained \subseteq Sources
    /\ MaxCircuits \in Nat \ {0} /\ MaxRounds \in Nat \ {0}
    /\ MaxEntries \in Nat /\ MaxFaults \in Nat

VARIABLES
    gen,        \* per source: the circuit being logged and its rounds so far
    logged,     \* entries logged so far
    seen,       \* entries handed to process_entry
    active,     \* per source: the entries of its active session, <<>> if none
    queue,      \* sessions finalize_session is writing, the first one now
    phase,      \* how far write_session has got with it: "file" or "index"
    files,      \* session files on disk: id -> what is in them
    index,      \* index.json: a sequence of its entries, or how it fails to read
    faults

vars == <<gen, logged, seen, active, queue, phase, files, index, faults>>

--------------------------------------------------------------------------------
(* An audit entry.  Its place in the log stands for its hash links, its
   circuit and heartbeat for where it was made. *)
Kinds == {"ok", "fail", "end"}
Entries == [src : Sources, circuit : 1 .. MaxCircuits, hb : 1 .. MaxRounds, kind : Kinds]

Event(e) ==
    CASE e.kind = "end"  -> "SessionEnded"
      [] e.kind = "ok"   -> IF e.src \in Chained THEN "ChainVerified" ELSE "HeartbeatOk"
      [] e.kind = "fail" -> IF e.src \in Chained THEN "ChainDenied" ELSE "HeartbeatFail"

(* session_id hashes the source, the first timestamp and the first prev_hash:
   the first entry determines it, and no two entries share it. *)
SessionId(s) == s[1]

(* verify_internal_chain serialises the entries anew, with their keys sorted,
   and so finds none of the hashes it looks for. *)
VerifyInternalChain(s) == Len(s) <= 1

(* finalize_session: the content of a session file, which is also what its
   hash stands for. *)
Completed(s) ==
    [session_id       |-> SessionId(s),
     heartbeat_count  |-> s[Len(s)].hb,
     all_authorized   |-> \A i \in DOMAIN s : s[i].kind # "fail",
     all_hashes_valid |-> VerifyInternalChain(s),
     entries          |-> s]

Partial == [entries |-> <<>>]       \* cut short: no session parses from it
Missing == [state |-> "missing"]    \* index.json does not exist
Garbled == [state |-> "garbled"]    \* it exists and does not parse
Listed(l) == [state |-> "read", list |-> l]

CompletedSessions ==
    [session_id : Entries, heartbeat_count : 1 .. MaxRounds, all_authorized : BOOLEAN,
     all_hashes_valid : BOOLEAN, entries : Seq(Entries)]

Readable == index.state = "read"
IndexIds == IF Readable THEN {index.list[i].id : i \in DOMAIN index.list} ELSE {}

--------------------------------------------------------------------------------
TypeOK ==
    /\ gen \in [Sources -> [circuit : 1 .. MaxCircuits, hb : 0 .. MaxRounds,
                            last : Kinds]]
    /\ logged \in 0 .. MaxEntries
    /\ seen \subseteq Entries
    /\ active \in [Sources -> Seq(Entries)]
    /\ queue \in Seq(Seq(Entries))
    /\ phase \in {"file", "index"}
    /\ DOMAIN files \subseteq Entries
    /\ \A id \in DOMAIN files : files[id] = Partial \/ files[id] \in CompletedSessions
    /\ index.state \in {"missing", "garbled", "read"}
    /\ Readable => \A i \in DOMAIN index.list :
                       index.list[i] \in [id : Entries, file_hash : CompletedSessions]
    /\ faults \in 0 .. MaxFaults

Init ==
    /\ gen = [s \in Sources |-> [circuit |-> 1, hb |-> 0, last |-> "ok"]]
    /\ logged = 0
    /\ seen = {}
    /\ active = [s \in Sources |-> <<>>]
    /\ queue = <<>>
    /\ phase = "file"
    /\ files = [id \in {} |-> Partial]
    /\ index = Missing
    /\ faults = 0

Fault == faults < MaxFaults /\ faults' = faults + 1

--------------------------------------------------------------------------------
(* process_entry *)

IsNewSession(e) == e.hb = 1 /\ Event(e) \in {"ChainVerified", "ChainDenied"}
IsSessionEnd(e) == Event(e) = "SessionEnded"

(* Seeded fault: an entry that opens a session leaves the old one in place. *)
Closed_keepsOld(e) ==
    IF (IsSessionEnd(e)) /\ active[e.src] # <<>>
      THEN <<active[e.src]>> ELSE <<>>

(* The session that the entry puts an end to before it is looked at itself:
   active.remove(source) on SessionEnded and on a new session. *)
Closed(e) ==
    IF (IsSessionEnd(e) \/ IsNewSession(e)) /\ active[e.src] # <<>>
      THEN <<active[e.src]>> ELSE <<>>

(* Seeded fault: the session that was closed is copied, not removed. *)
Extended_copies(e) == active[e.src] \o <<e>>

(* The active session with the entry added (or_insert_with makes a new one). *)
Extended(e) == (IF Closed(e) = <<>> THEN active[e.src] ELSE <<>>) \o <<e>>

Finishes(e) == Event(e) \in {"ChainDenied", "HeartbeatFail"}

ProcessEntry(e) ==
    /\ seen' = seen \cup {e}
    /\ IF IsSessionEnd(e)
         THEN /\ active' = [active EXCEPT ![e.src] = <<>>]
              /\ queue' = queue \o Closed(e)
         ELSE /\ active' = [active EXCEPT ![e.src] = IF Finishes(e) THEN <<>>
                                                     ELSE Extended(e)]
              /\ queue' = queue \o Closed(e)
                            \o (IF Finishes(e) THEN <<Extended(e)>> ELSE <<>>)

--------------------------------------------------------------------------------
(* Where the entries come from.  A verifier that denied a round logs nothing
   more of that circuit than its end. *)
NextEntry(s, kind) ==
    [src |-> s, circuit |-> gen[s].circuit, kind |-> kind,
     hb |-> gen[s].hb + (IF kind = "end" THEN 0 ELSE 1)]

CanLog(s, kind) ==
    /\ logged < MaxEntries
    /\ IF kind = "end" THEN gen[s].hb > 0 /\ gen[s].last # "end"
                       ELSE gen[s].last = "ok" /\ gen[s].hb < MaxRounds

Logged(s, kind) ==
    /\ gen' = [gen EXCEPT ![s] = [@ EXCEPT !.hb = NextEntry(s, kind).hb, !.last = kind]]
    /\ logged' = logged + 1

(* An entry arrives; the tracker's mutex is free. *)
Receive(s, kind) ==
    /\ queue = <<>>
    /\ CanLog(s, kind)
    /\ Logged(s, kind)
    /\ ProcessEntry(NextEntry(s, kind))
    /\ UNCHANGED <<phase, files, index, faults>>

(* It does not arrive.  What is lost while write_session runs could as well be
   lost before: the tracker does not notice it. *)
Lose(s, kind) ==
    /\ queue = <<>>
    /\ CanLog(s, kind)
    /\ Logged(s, kind)
    /\ UNCHANGED <<seen, active, queue, phase, files, index, faults>>

(* The next circuit begins, whether or not the last one was closed in the log. *)
NewCircuit(s) ==
    /\ queue = <<>>
    /\ gen[s].hb > 0
    /\ gen[s].circuit < MaxCircuits
    /\ gen' = [gen EXCEPT ![s] = [circuit |-> @.circuit + 1, hb |-> 0, last |-> "ok"]]
    /\ UNCHANGED <<logged, seen, active, queue, phase, files, index, faults>>

--------------------------------------------------------------------------------
(* write_session, for the session at the head of the queue. *)
Put(id, content) ==
    files' = [i \in DOMAIN files \cup {id} |-> IF i = id THEN content ELSE files[i]]

(* The next session of the queue, from its first step. *)
Done == queue' = Tail(queue) /\ phase' = "file"

WriteFile ==
    /\ queue # <<>>
    /\ phase = "file"
    /\ Put(SessionId(Head(queue)), Completed(Head(queue)))
    /\ phase' = "index"
    /\ UNCHANGED <<gen, logged, seen, active, queue, index, faults>>

(* Seeded fault: the error of the write is ignored. *)
WriteFileFails_ignored ==
    /\ queue # <<>>
    /\ phase = "file"
    /\ Fault
    /\ Put(SessionId(Head(queue)), Partial)
    /\ phase' = "index"
    /\ UNCHANGED <<gen, logged, seen, active, queue, index>>

(* std::fs::write truncates the file and fails: the session is not indexed. *)
WriteFileFails ==
    /\ queue # <<>>
    /\ phase = "file"
    /\ Fault
    /\ Put(SessionId(Head(queue)), Partial)
    /\ Done
    /\ UNCHANGED <<gen, logged, seen, active, index>>

(* The index as read back; one that does not parse counts as empty. *)
OldList == IF Readable THEN index.list ELSE <<>>

(* Seeded fault: the index entry is pushed without the hash of its file. *)
IndexEntry_noHash(t) == [id |-> SessionId(t)]

IndexEntry(t) == [id |-> SessionId(t), file_hash |-> Completed(t)]

WriteIndex ==
    /\ queue # <<>>
    /\ phase = "index"
    /\ index' = Listed(Append(OldList, IndexEntry(Head(queue))))
    /\ Done
    /\ UNCHANGED <<gen, logged, seen, active, files, faults>>

(* Reading the index fails and leaves it alone, or writing it fails and leaves
   it cut short. *)
WriteIndexFails ==
    /\ queue # <<>>
    /\ phase = "index"
    /\ Fault
    /\ \/ index # Missing /\ index' = index
       \/ index' = Garbled
    /\ Done
    /\ UNCHANGED <<gen, logged, seen, active, files>>

(* The monitor stops, at any moment, and starts again: SessionTracker::new.  A
   file being written is cut short. *)
Stop ==
    /\ Fault
    /\ active' = [s \in Sources |-> <<>>]
    /\ queue' = <<>>
    /\ phase' = "file"
    /\ \/ UNCHANGED <<files, index>>
       \/ /\ queue # <<>> /\ phase = "file"
          /\ Put(SessionId(Head(queue)), Partial)
          /\ UNCHANGED index
       \/ /\ queue # <<>> /\ phase = "index"
          /\ index' = Garbled
          /\ UNCHANGED files
    /\ UNCHANGED <<gen, logged, seen>>

(* Everything is logged. *)
Idle ==
    /\ queue = <<>>
    /\ \A s \in Sources, kind \in Kinds : ~ CanLog(s, kind)
    /\ UNCHANGED vars

Writing == WriteFile \/ WriteFileFails \/ WriteIndex \/ WriteIndexFails

Next ==
    \/ \E s \in Sources, kind \in Kinds : Receive(s, kind) \/ Lose(s, kind)
    \/ \E s \in Sources : NewCircuit(s)
    \/ Writing
    \/ Stop
    \/ Idle

Spec == Init /\ [][Next]_vars

--------------------------------------------------------------------------------
(* verify_session_integrity: the first index entry of the file, against it. *)
VerifySessionIntegrity(id) ==
    LET i == CHOOSE i \in DOMAIN index.list :
                /\ index.list[i].id = id
                /\ \A j \in 1 .. i - 1 : index.list[j].id # id
    IN  id \in DOMAIN files /\ files[id] = index.list[i].file_hash

(* Whatever writes fail and whenever the monitor stops, each session the index
   lists is on disk in full: verify_session_integrity answers true for it. *)
ListedIsIntact == \A id \in IndexIds : VerifySessionIntegrity(id)

(* All the places a session can be in. *)
Sessions ==
    {active[s] : s \in Sources} \cup ToSet(queue) \cup {files[id].entries : id \in DOMAIN files}

(* A session joins two circuits only where nothing that arrived could have
   told them apart: the first of the two did not fail, its SessionEnded did
   not arrive, and of a verifier that logs ChainVerified the first entry of the
   second circuit is missing too. *)
JoinedMeansLost ==
    \A t \in Sessions : \A i \in 1 .. Len(t) - 1 :
        t[i].circuit # t[i + 1].circuit =>
            /\ t[i].kind = "ok"
            /\ ~ \E e \in seen : /\ e.src = t[i].src
                                 /\ e.circuit = t[i].circuit
                                 /\ e.kind = "end"
            /\ t[i].src \in Chained => t[i + 1].hb # 1

(* No round is counted into two sessions, and a stored session is reported as
   authorized if and only if no denied round of the circuits it covers arrived.
   While no write fails and the monitor is not stopped, no round that arrived is
   left out and every stored session is in the index or about to be. *)
RoundsCountOnce ==
    /\ \A t, u \in Sessions : t # u => ToSet(t) \cap ToSet(u) = {}
    /\ \A id \in DOMAIN files : files[id] # Partial =>
          (files[id].all_authorized <=>
             ~ \E e \in seen : /\ e.kind = "fail" /\ e.src = id.src
                               /\ \E f \in ToSet(files[id].entries) : f.circuit = e.circuit)
    /\ faults = 0 =>
         /\ \A e \in seen : e.kind # "end" => \E t \in Sessions : e \in ToSet(t)
         /\ \A id \in DOMAIN files :
               id \in IndexIds \/ (queue # <<>> /\ SessionId(Head(queue)) = id)
================================================================================
