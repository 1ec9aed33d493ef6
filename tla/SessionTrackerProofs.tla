-------------------------- MODULE SessionTrackerProofs --------------------------
(******************************************************************************)
(* Proofs about SessionTracker: for any verifiers, any entries lost, any      *)
(* writes failed and any stops of the monitor, what the index lists is        *)
(* intact, sessions run together only where the entries between them were     *)
(* lost, and no round is counted twice or left out.                           *)
(*                                                                            *)
(* The three properties are about sessions on disk, and hold because of what  *)
(* was true when the session was cut: Sound says it of a session wherever it  *)
(* is, and Over, that nothing logged later can change it. Over needs Heard,   *)
(* which ties what arrived to the verifiers' logs.                            *)
(******************************************************************************)
EXTENDS SessionTracker, SequenceTheorems, TLAPS

(* What arrived was logged: it is of an earlier circuit than the one being
   logged now, or an earlier round of it; after a denied round or an end the
   circuit is over. *)
Heard ==
    \A e \in seen :
        \/ e.circuit < gen[e.src].circuit
        \/ /\ e.circuit = gen[e.src].circuit
           /\ e.hb <= gen[e.src].hb
           /\ e.kind # "ok" => gen[e.src].last # "ok"

(* A session is cut from one source's entries in their order.  Two of its
   circuits run together only where what tells them apart did not arrive, and a
   denied round of a circuit it covers is in it. *)
Sound(t) ==
    /\ t \in Seq(Entries) /\ t # <<>>
    /\ \A i \in 1 .. Len(t) : t[i] \in seen /\ t[i].src = t[1].src /\ t[i].kind # "end"
    /\ \A i \in 1 .. Len(t) - 1 : t[i].circuit <= t[i + 1].circuit /\ t[i].kind = "ok"
    /\ \A i \in 1 .. Len(t) - 1 : t[i].circuit # t[i + 1].circuit =>
           /\ \A e \in seen : e.src = t[i].src /\ e.circuit = t[i].circuit => e.kind # "end"
           /\ t[i].src \in Chained => t[i + 1].hb # 1
    /\ \A e \in seen : \A i \in 1 .. Len(t) :
           e.kind = "fail" /\ e.src = t[1].src /\ e.circuit = t[i].circuit =>
               \E j \in 1 .. Len(t) : t[j] = e

(* No more rounds can follow of the circuits it covers. *)
Over(t) ==
    \A i \in 1 .. Len(t) :
        \/ t[i].circuit < gen[t[i].src].circuit
        \/ gen[t[i].src].last # "ok"

(* The session being collected. *)
Collecting(s) ==
    active[s] # <<>> =>
        /\ Sound(active[s])
        /\ \A i \in 1 .. Len(active[s]) :
             /\ active[s][i].src = s /\ active[s][i].kind = "ok"
             /\ \A e \in seen : e.src = s /\ e.circuit = active[s][i].circuit => e.kind = "ok"

(* A session file is cut short or holds a session, under the id of it. *)
Holds(id) == /\ Sound(files[id].entries) /\ Over(files[id].entries)
             /\ files[id] = Completed(files[id].entries)
             /\ files[id].entries[1] = id

(* A session file, whole or cut short. *)
FileOK(id) == files[id] = Partial \/ Holds(id)

(* The sessions finalize_session has yet to write. *)
Queued == {queue[i] : i \in 1 .. Len(queue)}

(* Two sessions have no entry in common. *)
Apart(t, u) == \A i \in 1 .. Len(t), j \in 1 .. Len(u) : t[i] # u[j]

(* No entry is in two places, except in a session and the file just written of it. *)
Disjoint ==
    /\ \A s \in Sources, i \in 1 .. Len(queue) : Apart(active[s], queue[i])
    /\ \A s \in Sources, id \in DOMAIN files : Apart(active[s], files[id].entries)
    /\ \A i, j \in 1 .. Len(queue) : i # j => Apart(queue[i], queue[j])
    /\ \A i \in 1 .. Len(queue), id \in DOMAIN files :
         \/ i = 1 /\ phase = "index" /\ id = queue[1][1]
         \/ Apart(queue[i], files[id].entries)
    /\ \A a, b \in DOMAIN files : a # b => Apart(files[a].entries, files[b].entries)

(* Between the two writes of write_session. *)
Written ==
    phase = "index" =>
        /\ queue # <<>>
        /\ queue[1][1] \in DOMAIN files /\ files[queue[1][1]] = Completed(queue[1])
        /\ queue[1][1] \notin IndexIds

(* The index lists sessions on disk, each once. *)
IndexOK ==
    Readable =>
        /\ index.list \in Seq([id : Entries, file_hash : CompletedSessions])
        /\ \A id \in IndexIds : id \in DOMAIN files /\ Holds(id)
        /\ \A i \in 1 .. Len(index.list) : files[index.list[i].id] = index.list[i].file_hash
        /\ \A i, j \in 1 .. Len(index.list) : index.list[i].id = index.list[j].id => i = j

(* An entry is in some session. *)
Covered(e) ==
    \/ \E s \in Sources : \E i \in 1 .. Len(active[s]) : active[s][i] = e
    \/ \E k \in 1 .. Len(queue) : \E i \in 1 .. Len(queue[k]) : queue[k][i] = e
    \/ \E id \in DOMAIN files : \E i \in 1 .. Len(files[id].entries) : files[id].entries[i] = e

(* While nothing has failed nothing is left out. *)
Complete ==
    faults = 0 =>
        /\ index.state # "garbled"
        /\ \A e \in seen : e.kind # "end" => Covered(e)
        /\ \A id \in DOMAIN files : id \in IndexIds \/ (phase = "index" /\ id = queue[1][1])

(* The inductive invariant. *)
IInv ==
    /\ TypeOK
    /\ Heard
    /\ \A s \in Sources : Collecting(s)
    /\ \A t \in Queued : Sound(t) /\ Over(t)
    /\ \A id \in DOMAIN files : FileOK(id)
    /\ Disjoint
    /\ Written
    /\ IndexOK
    /\ Complete
--------------------------------------------------------------------------------
(* A session with an entry added to it. *)
LEMMA Extend ==
    ASSUME NEW S, NEW t \in Seq(S), NEW e \in S, NEW x, x = t \o <<e>>
    PROVE  /\ x \in Seq(S) /\ x # <<>>
           /\ Len(x) = Len(t) + 1 /\ Len(t) \in Nat
           /\ x[Len(t) + 1] = e
           /\ \A i \in 1 .. Len(t) : x[i] = t[i]
<1>1. <<e>> \in Seq(S) /\ Len(<<e>>) = 1 /\ <<e>>[1] = e
  OBVIOUS
<1>2. Len(t) \in Nat
  BY LenProperties
<1> QED BY <1>1, <1>2, ConcatProperties

(* A sequence that is not empty, its head and its tail. *)
LEMMA SeqLengths ==
    ASSUME NEW S, NEW t \in Seq(S), t # <<>>
    PROVE  /\ Len(t) \in Nat /\ Len(t) >= 1 /\ 1 \in 1 .. Len(t) /\ Len(t) \in 1 .. Len(t)
           /\ \A i \in 1 .. Len(t) : t[i] \in S
           /\ Head(t) = t[1]
           /\ Tail(t) \in Seq(S) /\ Len(Tail(t)) = Len(t) - 1
           /\ \A i \in 1 .. Len(Tail(t)) : Tail(t)[i] = t[i + 1] /\ i + 1 \in 1 .. Len(t)
<1>1. Len(t) \in Nat /\ Len(t) # 0
  BY LenProperties, EmptySeq
<1>2. /\ Head(t) = t[1] /\ Tail(t) \in Seq(S) /\ Len(Tail(t)) = Len(t) - 1
      /\ \A i \in 1 .. Len(Tail(t)) : Tail(t)[i] = t[i + 1]
  BY HeadTailProperties
<1>3. \A i \in 1 .. Len(t) : t[i] \in S
  BY ElementOfSeq
<1> QED BY <1>1, <1>2, <1>3

(* The content of a session file is of its type and holds the session. *)
LEMMA CompletedFacts ==
    ASSUME TypeOK, NEW t, Sound(t)
    PROVE  /\ Completed(t).entries = t
           /\ Completed(t) \in CompletedSessions
           /\ t[1] \in Entries
<1>1. /\ t \in Seq(Entries) /\ Len(t) \in 1 .. Len(t) /\ 1 \in 1 .. Len(t)
      /\ \A i \in 1 .. Len(t) : t[i] \in Entries
  BY SeqLengths DEF Sound
<1>2. t[1] \in Entries /\ t[Len(t)].hb \in 1 .. MaxRounds
  BY <1>1 DEF Entries
<1>3. (\A i \in DOMAIN t : t[i].kind # "fail") \in BOOLEAN /\ VerifyInternalChain(t) \in BOOLEAN
  BY DEF VerifyInternalChain
<1>4. Completed(t).entries = t
  BY DEF Completed
<1>5. Completed(t) \in CompletedSessions
  BY <1>1, <1>2, <1>3 DEF Completed, CompletedSessions, SessionId
<1> QED BY <1>2, <1>4, <1>5

(* A file cut short holds no entry, and the empty session is apart from every
   other. *)
LEMMA PartialFacts == Partial.entries = <<>> /\ \A t : Apart(t, <<>>) /\ Apart(<<>>, t)
  BY DEF Partial, Apart

(* Being apart is mutual. *)
LEMMA ApartSym ==
    ASSUME NEW t, NEW u, Apart(t, u)
    PROVE  Apart(u, t)
  BY DEF Apart

(* Steps that leave the logs and what arrived alone. *)
LEMMA SameLogs ==
    ASSUME UNCHANGED <<gen, seen>>, NEW t
    PROVE  (Sound(t) => Sound(t)') /\ (Over(t) => Over(t)')
  BY DEF Sound, Over

(* Steps that leave the sessions being collected alone. *)
LEMMA SameCollecting ==
    ASSUME IInv, UNCHANGED <<gen, seen, active>>
    PROVE  Heard' /\ \A s \in Sources : Collecting(s)'
<1>1. Heard'
  BY DEF IInv, Heard
<1>2. ASSUME NEW s \in Sources PROVE Collecting(s)'
  BY DEF IInv, Collecting, Sound
<1> QED BY <1>1, <1>2

(* A session file that is not written stays what it is. *)
LEMMA SameHolds ==
    ASSUME UNCHANGED <<gen, seen>>, NEW id, files'[id] = files[id], Holds(id)
    PROVE  Holds(id)'
  BY SameLogs DEF Holds, Sound, Over

(* The first start: nothing arrived and nothing is on disk. *)
LEMMA InitIInv == Init => IInv
<1> SUFFICES ASSUME Init PROVE IInv
  OBVIOUS
<1>1. TypeOK
  <2>1. gen \in [Sources -> [circuit : 1 .. MaxCircuits, hb : 0 .. MaxRounds, last : Kinds]]
    BY TrackerAssumption DEF Init, Kinds
  <2>2. logged \in 0 .. MaxEntries /\ faults \in 0 .. MaxFaults /\ seen \subseteq Entries
    BY TrackerAssumption DEF Init
  <2>3. active \in [Sources -> Seq(Entries)] /\ queue \in Seq(Seq(Entries)) /\ phase \in {"file", "index"}
    BY EmptySeq DEF Init
  <2>4. DOMAIN files = {} /\ index.state = "missing"
    BY DEF Init, Missing
  <2> QED BY <2>1, <2>2, <2>3, <2>4 DEF TypeOK, Readable
<1>2. queue = <<>> /\ Len(queue) = 0 /\ DOMAIN files = {} /\ seen = {} /\ index.state = "missing"
      /\ phase = "file" /\ \A s \in Sources : active[s] = <<>>
  BY EmptySeq DEF Init, Missing
<1>3. Heard /\ \A s \in Sources : Collecting(s)
  BY <1>2 DEF Heard, Collecting
<1>4. /\ \A t \in Queued : Sound(t) /\ Over(t)
      /\ \A id \in DOMAIN files : FileOK(id)
  BY <1>2 DEF Queued
<1>5. Disjoint
  BY <1>2 DEF Disjoint
<1>6. Written /\ IndexOK
  BY <1>2 DEF Written, IndexOK, Readable
<1>7. Complete
  BY <1>2 DEF Complete
<1> QED BY <1>1, <1>3, <1>4, <1>5, <1>6, <1>7 DEF IInv

--------------------------------------------------------------------------------
(* The session at the head of the queue. *)
LEMMA HeadOfQueue ==
    ASSUME IInv, queue # <<>>
    PROVE  /\ Head(queue) = queue[1] /\ SessionId(Head(queue)) = queue[1][1]
           /\ Sound(queue[1]) /\ Over(queue[1]) /\ queue[1][1] \in Entries
           /\ queue[1] \in Seq(Entries) /\ 1 \in 1 .. Len(queue[1])
           /\ 1 \in 1 .. Len(queue) /\ Len(queue) \in Nat
           /\ Tail(queue) \in Seq(Seq(Entries)) /\ Len(Tail(queue)) = Len(queue) - 1
           /\ \A i \in 1 .. Len(Tail(queue)) :
                Tail(queue)[i] = queue[i + 1] /\ i + 1 \in 1 .. Len(queue) /\ i + 1 # 1
<1>1. queue \in Seq(Seq(Entries))
  BY DEF IInv, TypeOK
<1>2. /\ Len(queue) \in Nat /\ 1 \in 1 .. Len(queue) /\ Head(queue) = queue[1]
      /\ Tail(queue) \in Seq(Seq(Entries)) /\ Len(Tail(queue)) = Len(queue) - 1
      /\ \A i \in 1 .. Len(Tail(queue)) :
           Tail(queue)[i] = queue[i + 1] /\ i + 1 \in 1 .. Len(queue)
  BY <1>1, SeqLengths
<1>3. Sound(queue[1]) /\ Over(queue[1])
  BY <1>2 DEF IInv, Queued
<1>4. queue[1] \in Seq(Entries) /\ 1 \in 1 .. Len(queue[1]) /\ queue[1][1] \in Entries
  BY <1>3, SeqLengths DEF Sound
<1>5. \A i \in 1 .. Len(Tail(queue)) : i + 1 # 1
  BY <1>2
<1> QED BY <1>2, <1>3, <1>4, <1>5 DEF SessionId

(* Before its file is written, the index knows nothing of a session. *)
LEMMA NotListed ==
    ASSUME IInv, queue # <<>>, phase = "file"
    PROVE  /\ queue[1][1] \notin IndexIds
           /\ Readable => \A i \in 1 .. Len(index.list) : index.list[i].id # queue[1][1]
<1>1. 1 \in 1 .. Len(queue[1]) /\ 1 \in 1 .. Len(queue)
  BY HeadOfQueue
<1>2. ASSUME NEW id \in IndexIds, id = queue[1][1]
      PROVE  FALSE
  <2>1. id \in DOMAIN files /\ Holds(id)
    BY <1>2 DEF IInv, IndexOK, IndexIds
  <2>2. 1 \in 1 .. Len(files[id].entries) /\ files[id].entries[1] = id
    BY <2>1, SeqLengths DEF Holds, Sound
  <2>3. Apart(queue[1], files[id].entries)
    BY <1>1, <2>1 DEF IInv, Disjoint
  <2> QED BY <1>1, <1>2, <2>2, <2>3 DEF Apart
<1>3. Readable => DOMAIN index.list = 1 .. Len(index.list)
  BY DEF IInv, IndexOK
<1> QED BY <1>2, <1>3 DEF IndexIds

(* A whole session file holds the entry that names it. *)
LEMMA HolderFacts ==
    ASSUME NEW id, Holds(id)
    PROVE  1 \in 1 .. Len(files[id].entries) /\ files[id].entries[1] = id
  BY SeqLengths DEF Holds, Sound

(* What is under the id of a session yet to be written is at most a cut file. *)
LEMMA NotWritten ==
    ASSUME IInv, queue # <<>>, phase = "file", queue[1][1] \in DOMAIN files
    PROVE  files[queue[1][1]] = Partial
<1>1. 1 \in 1 .. Len(queue[1]) /\ 1 \in 1 .. Len(queue)
  BY HeadOfQueue
<1>2. Apart(queue[1], files[queue[1][1]].entries)
  BY <1>1 DEF IInv, Disjoint
<1>3. ~Holds(queue[1][1])
  BY <1>1, <1>2, HolderFacts DEF Apart
<1> QED BY <1>3 DEF IInv, FileOK

(* What std::fs::write does to the files. *)
LEMMA PutFacts ==
    ASSUME NEW id, NEW c, Put(id, c)
    PROVE  /\ DOMAIN files' = DOMAIN files \cup {id}
           /\ files'[id] = c
           /\ \A i \in DOMAIN files : i # id => files'[i] = files[i]
  BY DEF Put

(* write_session writes the session file: until the index is written too, the
   session is in the queue and on disk. *)
LEMMA WriteFileKeepsIInv ==
    ASSUME IInv, WriteFile
    PROVE  IInv'
<1>a. queue # <<>> /\ phase = "file" /\ phase' = "index"
      /\ UNCHANGED <<gen, logged, seen, active, queue, index, faults>>
  BY DEF WriteFile
<1>b. PICK id : id = queue[1][1]
  OBVIOUS
<1>0. /\ Sound(queue[1]) /\ Over(queue[1]) /\ id \in Entries /\ 1 \in 1 .. Len(queue)
      /\ Put(id, Completed(queue[1]))
  BY <1>a, <1>b, HeadOfQueue DEF WriteFile
<1>1. /\ DOMAIN files' = DOMAIN files \cup {id} /\ files'[id] = Completed(queue[1])
      /\ \A i \in DOMAIN files : i # id => files'[i] = files[i]
  BY <1>0, PutFacts
<1>2. Completed(queue[1]).entries = queue[1] /\ Completed(queue[1]) \in CompletedSessions
  BY <1>0, CompletedFacts DEF IInv
<1>3. TypeOK'
  BY <1>a, <1>0, <1>1, <1>2 DEF IInv, TypeOK, Readable
<1>4. Heard' /\ \A s \in Sources : Collecting(s)'
  BY <1>a, SameCollecting
<1>5. \A t \in Queued' : Sound(t)' /\ Over(t)'
  BY <1>a, SameLogs DEF IInv, Queued
<1>6. Holds(id)'
  BY <1>a, <1>b, <1>0, <1>1, <1>2, SameLogs DEF Holds, Sound, Over
<1>7. ASSUME NEW i \in DOMAIN files, i # id, Holds(i) PROVE Holds(i)'
  BY <1>a, <1>1, <1>7, SameHolds
<1>8. \A i \in DOMAIN files' : FileOK(i)'
  BY <1>1, <1>6, <1>7 DEF IInv, FileOK
<1>9. Disjoint'
  <2>1. \A i \in DOMAIN files : i # id => files'[i].entries = files[i].entries
    BY <1>1
  <2>2. files'[id].entries = queue[1]
    BY <1>1, <1>2
  <2>3. \A i \in DOMAIN files' : i = id \/ i \in DOMAIN files
    BY <1>1
  <2>4. \A s \in Sources, i \in DOMAIN files' : Apart(active[s], files'[i].entries)
    BY <1>0, <2>1, <2>2, <2>3 DEF IInv, Disjoint
  <2>5. \A k \in 1 .. Len(queue), i \in DOMAIN files' :
          (k = 1 /\ i = id) \/ Apart(queue[k], files'[i].entries)
    BY <1>a, <1>0, <2>1, <2>2, <2>3 DEF IInv, Disjoint
  <2>6. \A i \in DOMAIN files' : i # id => Apart(files'[i].entries, files'[id].entries)
                                           /\ Apart(files'[id].entries, files'[i].entries)
    BY <1>0, <2>2, <2>5, ApartSym
  <2>7. \A i, j \in DOMAIN files' : i # j => Apart(files'[i].entries, files'[j].entries)
    BY <2>1, <2>3, <2>6 DEF IInv, Disjoint
  <2> QED BY <1>a, <1>b, <2>4, <2>5, <2>7 DEF IInv, Disjoint
<1>10. Written'
  <2>1. id \notin IndexIds'
    BY <1>a, <1>b, NotListed DEF IndexIds, Readable
  <2> QED BY <1>a, <1>b, <1>1, <2>1 DEF Written
<1>11. IndexOK'
  <2> SUFFICES ASSUME Readable PROVE IndexOK'
    BY <1>a DEF IndexOK, Readable
  <2>1. /\ \A i \in 1 .. Len(index.list) : index.list[i].id # id /\ index.list[i].id \in IndexIds
        /\ IndexIds' = IndexIds /\ id \notin IndexIds
    BY <1>a, <1>b, NotListed DEF IInv, IndexOK, IndexIds, Readable
  <2>2. \A k \in IndexIds : k \in DOMAIN files /\ Holds(k)
    BY DEF IInv, IndexOK
  <2>3. \A k \in IndexIds' : k \in DOMAIN files' /\ Holds(k)'
    BY <1>1, <1>7, <2>1, <2>2
  <2>4. \A i \in 1 .. Len(index.list) : files'[index.list[i].id] = index.list[i].file_hash
    BY <1>1, <2>1, <2>2 DEF IInv, IndexOK
  <2> QED BY <1>a, <2>3, <2>4 DEF IInv, IndexOK, Readable
<1>12. Complete'
  <2> SUFFICES ASSUME faults = 0 PROVE Complete'
    BY <1>a DEF Complete
  <2>1. ASSUME NEW e, Covered(e) PROVE Covered(e)'
    <3>1. ASSUME NEW i \in DOMAIN files, NEW k \in 1 .. Len(files[i].entries)
          PROVE  i # id
      <4>1. ASSUME i = id PROVE FALSE
        <5>1. files[i].entries = <<>>
          BY <1>a, <1>b, <4>1, NotWritten, PartialFacts
        <5> QED BY <5>1
      <4> QED BY <4>1
    <3>2. ASSUME NEW i \in DOMAIN files, NEW k \in 1 .. Len(files[i].entries), files[i].entries[k] = e
          PROVE  i \in DOMAIN files' /\ files'[i] = files[i]
      BY <1>1, <3>1, <3>2
    <3> QED BY <1>a, <2>1, <3>2 DEF Covered
  <2>2. IndexIds' = IndexIds /\ index'.state = index.state
    BY <1>a DEF IndexIds, Readable
  <2>3. \A i \in DOMAIN files : i \in IndexIds
    BY <1>a DEF IInv, Complete
  <2> QED BY <1>a, <1>b, <1>1, <2>1, <2>2, <2>3 DEF IInv, Complete
<1> QED BY <1>a, <1>3, <1>4, <1>5, <1>8, <1>9, <1>10, <1>11, <1>12 DEF IInv
(* The first session of the queue is done with, well or badly. *)
LEMMA DoneFacts ==
    ASSUME IInv, queue # <<>>, Done
    PROVE  /\ queue' \in Seq(Seq(Entries)) /\ Queued' \subseteq Queued /\ phase' = "file"
           /\ \A k \in 1 .. Len(queue') :
                queue'[k] = queue[k + 1] /\ k + 1 \in 1 .. Len(queue) /\ k + 1 # 1
           /\ \A i, j \in 1 .. Len(queue') : i # j => Apart(queue'[i], queue'[j])
           /\ \A s \in Sources, i \in 1 .. Len(queue') : Apart(active[s], queue'[i])
           /\ \A i \in 1 .. Len(queue'), id \in DOMAIN files : Apart(queue'[i], files[id].entries)
<1>1. /\ queue' \in Seq(Seq(Entries)) /\ phase' = "file"
      /\ \A k \in 1 .. Len(queue') :
           queue'[k] = queue[k + 1] /\ k + 1 \in 1 .. Len(queue) /\ k + 1 # 1
  BY HeadOfQueue DEF Done
<1>2. Queued' \subseteq Queued
  BY <1>1 DEF Queued
<1>3. \A i, j \in 1 .. Len(queue') : i # j => i + 1 # j + 1
  OBVIOUS
<1>4. \A i, j \in 1 .. Len(queue') : i # j => Apart(queue'[i], queue'[j])
  BY <1>1, <1>3 DEF IInv, Disjoint
<1>5. \A s \in Sources, i \in 1 .. Len(queue') : Apart(active[s], queue'[i])
  BY <1>1 DEF IInv, Disjoint
<1>6. \A i \in 1 .. Len(queue'), id \in DOMAIN files : Apart(queue'[i], files[id].entries)
  BY <1>1 DEF IInv, Disjoint
<1> QED BY <1>1, <1>2, <1>4, <1>5, <1>6

(* After a fault the count of faults is not zero. *)
LEMMA FaultFacts ==
    ASSUME IInv, Fault
    PROVE  faults' \in 0 .. MaxFaults /\ faults' # 0
<1>1. faults \in 0 .. MaxFaults /\ MaxFaults \in Nat
  BY TrackerAssumption DEF IInv, TypeOK
<1>2. faults < MaxFaults /\ faults' = faults + 1
  BY DEF Fault
<1> QED BY <1>1, <1>2

(* A file is cut short: what the index lists is not it. *)
LEMMA CutFacts ==
    ASSUME IInv, queue # <<>>, phase = "file", Put(SessionId(Head(queue)), Partial),
           UNCHANGED <<gen, seen>>
    PROVE  /\ DOMAIN files' \subseteq Entries
           /\ \A id \in DOMAIN files' : files'[id] = Partial \/ files'[id] \in CompletedSessions
           /\ \A id \in DOMAIN files' : FileOK(id)'
           /\ \A id \in DOMAIN files' :
                \/ files'[id].entries = <<>>
                \/ id \in DOMAIN files /\ files'[id].entries = files[id].entries
           /\ index' = index => IndexOK'
<1>b. PICK p : p = queue[1][1]
  OBVIOUS
<1>0. p \in Entries /\ Put(p, Partial)
  BY <1>b, HeadOfQueue
<1>1. /\ DOMAIN files' = DOMAIN files \cup {p} /\ files'[p] = Partial
      /\ \A i \in DOMAIN files : i # p => files'[i] = files[i]
  BY <1>0, PutFacts
<1>2. ASSUME NEW i \in DOMAIN files, i # p, Holds(i) PROVE Holds(i)'
  BY <1>1, <1>2, SameHolds
<1>3. \A id \in DOMAIN files' : FileOK(id)'
  BY <1>1, <1>2 DEF IInv, FileOK
<1>4. \A id \in DOMAIN files' :
        \/ files'[id].entries = <<>>
        \/ id \in DOMAIN files /\ files'[id].entries = files[id].entries
  BY <1>1, PartialFacts
<1>5. index' = index => IndexOK'
  <2> SUFFICES ASSUME index' = index, Readable PROVE IndexOK'
    BY DEF IndexOK, Readable
  <2>1. /\ \A i \in 1 .. Len(index.list) : index.list[i].id # p /\ index.list[i].id \in IndexIds
        /\ IndexIds' = IndexIds /\ p \notin IndexIds
    BY <1>b, NotListed DEF IInv, IndexOK, IndexIds, Readable
  <2>2. \A k \in IndexIds : k \in DOMAIN files /\ Holds(k)
    BY DEF IInv, IndexOK
  <2>3. \A k \in IndexIds' : k \in DOMAIN files' /\ Holds(k)'
    BY <1>1, <1>2, <2>1, <2>2
  <2>4. \A i \in 1 .. Len(index.list) : files'[index.list[i].id] = index.list[i].file_hash
    BY <1>1, <2>1, <2>2 DEF IInv, IndexOK
  <2> QED BY <2>3, <2>4 DEF IInv, IndexOK, Readable
<1>6. /\ DOMAIN files' \subseteq Entries
      /\ \A id \in DOMAIN files' : files'[id] = Partial \/ files'[id] \in CompletedSessions
  BY <1>0, <1>1 DEF IInv, TypeOK
<1> QED BY <1>3, <1>4, <1>5, <1>6

(* The write of the session file fails: the session is given up, and the index
   does not hear of it. *)
LEMMA WriteFileFailsKeepsIInv ==
    ASSUME IInv, WriteFileFails
    PROVE  IInv'
<1>a. /\ queue # <<>> /\ phase = "file" /\ Fault /\ Put(SessionId(Head(queue)), Partial) /\ Done
      /\ UNCHANGED <<gen, logged, seen, active, index>>
  BY DEF WriteFileFails
<1>1. /\ queue' \in Seq(Seq(Entries)) /\ Queued' \subseteq Queued /\ phase' = "file"
      /\ \A i, j \in 1 .. Len(queue') : i # j => Apart(queue'[i], queue'[j])
      /\ \A s \in Sources, i \in 1 .. Len(queue') : Apart(active[s], queue'[i])
      /\ \A i \in 1 .. Len(queue'), id \in DOMAIN files : Apart(queue'[i], files[id].entries)
  BY <1>a, DoneFacts
<1>2. faults' \in 0 .. MaxFaults /\ faults' # 0
  BY <1>a, FaultFacts
<1>3. /\ DOMAIN files' \subseteq Entries
      /\ \A id \in DOMAIN files' : files'[id] = Partial \/ files'[id] \in CompletedSessions
      /\ \A id \in DOMAIN files' : FileOK(id)'
      /\ \A id \in DOMAIN files' :
           \/ files'[id].entries = <<>>
           \/ id \in DOMAIN files /\ files'[id].entries = files[id].entries
      /\ IndexOK'
  BY <1>a, CutFacts
<1>4. TypeOK'
  BY <1>a, <1>1, <1>2, <1>3 DEF IInv, TypeOK, Readable
<1>5. Heard' /\ \A s \in Sources : Collecting(s)'
  BY <1>a, SameCollecting
<1>6. \A t \in Queued' : Sound(t)' /\ Over(t)'
  BY <1>a, <1>1, SameLogs DEF IInv
<1>7. Disjoint'
  <2>1. \A t : Apart(t, <<>>) /\ Apart(<<>>, t)
    BY PartialFacts
  <2>2. \A s \in Sources, id \in DOMAIN files' : Apart(active[s], files'[id].entries)
    BY <1>3, <2>1 DEF IInv, Disjoint
  <2>3. \A i \in 1 .. Len(queue'), id \in DOMAIN files' : Apart(queue'[i], files'[id].entries)
    BY <1>1, <1>3, <2>1
  <2>4. \A i, j \in DOMAIN files' : i # j => Apart(files'[i].entries, files'[j].entries)
    BY <1>3, <2>1 DEF IInv, Disjoint
  <2> QED BY <1>a, <1>1, <2>2, <2>3, <2>4 DEF Disjoint
<1>8. Written' /\ Complete'
  BY <1>1, <1>2 DEF Written, Complete
<1> QED BY <1>3, <1>4, <1>5, <1>6, <1>7, <1>8 DEF IInv

(* Reading or writing the index fails: the session file stays, unlisted. *)
LEMMA WriteIndexFailsKeepsIInv ==
    ASSUME IInv, WriteIndexFails
    PROVE  IInv'
<1>a. /\ queue # <<>> /\ phase = "index" /\ Fault /\ Done
      /\ index' = index \/ index' = Garbled
      /\ UNCHANGED <<gen, logged, seen, active, files>>
  BY DEF WriteIndexFails
<1>1. /\ queue' \in Seq(Seq(Entries)) /\ Queued' \subseteq Queued /\ phase' = "file"
      /\ \A i, j \in 1 .. Len(queue') : i # j => Apart(queue'[i], queue'[j])
      /\ \A s \in Sources, i \in 1 .. Len(queue') : Apart(active[s], queue'[i])
      /\ \A i \in 1 .. Len(queue'), id \in DOMAIN files : Apart(queue'[i], files[id].entries)
  BY <1>a, DoneFacts
<1>2. faults' \in 0 .. MaxFaults /\ faults' # 0
  BY <1>a, FaultFacts
<1>3. Garbled.state = "garbled"
  BY DEF Garbled
<1>4. TypeOK'
  <2>1. /\ index'.state \in {"missing", "garbled", "read"}
        /\ Readable' => \A i \in DOMAIN index'.list :
              index'.list[i] \in [id : Entries, file_hash : CompletedSessions]
    BY <1>a, <1>3 DEF IInv, TypeOK, Readable
  <2> QED BY <1>a, <1>1, <1>2, <2>1 DEF IInv, TypeOK
<1>5. Heard' /\ \A s \in Sources : Collecting(s)'
  BY <1>a, SameCollecting
<1>6. \A t \in Queued' : Sound(t)' /\ Over(t)'
  BY <1>a, <1>1, SameLogs DEF IInv
<1>7. \A id : Holds(id) => Holds(id)'
  BY <1>a, SameHolds
<1>8. \A id \in DOMAIN files' : FileOK(id)'
  BY <1>a, <1>7 DEF IInv, FileOK
<1>9. Disjoint'
  BY <1>a, <1>1 DEF IInv, Disjoint
<1>10. IndexOK'
  BY <1>a, <1>3, <1>7 DEF IInv, IndexOK, IndexIds, Readable
<1>11. Written' /\ Complete'
  BY <1>1, <1>2 DEF Written, Complete
<1> QED BY <1>4, <1>5, <1>6, <1>8, <1>9, <1>10, <1>11 DEF IInv

(* The monitor stops and starts: what it collected is gone, and the file being
   written is cut short. *)
LEMMA StopKeepsIInv ==
    ASSUME IInv, Stop
    PROVE  IInv'
<1>a. /\ Fault /\ queue' = <<>> /\ phase' = "file" /\ active' = [s \in Sources |-> <<>>]
      /\ UNCHANGED <<gen, logged, seen>>
      /\ \/ UNCHANGED <<files, index>>
         \/ /\ queue # <<>> /\ phase = "file"
            /\ Put(SessionId(Head(queue)), Partial) /\ UNCHANGED index
         \/ index' = Garbled /\ UNCHANGED files
  BY DEF Stop
<1>1. faults' \in 0 .. MaxFaults /\ faults' # 0
  BY <1>a, FaultFacts
<1>2. Garbled.state = "garbled"
  BY DEF Garbled
<1>3. /\ queue' \in Seq(Seq(Entries)) /\ active' \in [Sources -> Seq(Entries)]
      /\ 1 .. Len(queue') = {} /\ Queued' = {} /\ \A s \in Sources : active'[s] = <<>>
  BY <1>a, EmptySeq DEF Queued
<1>4. /\ DOMAIN files' \subseteq Entries
      /\ \A id \in DOMAIN files' : files'[id] = Partial \/ files'[id] \in CompletedSessions
      /\ \A id \in DOMAIN files' : FileOK(id)'
      /\ \A id \in DOMAIN files' :
           \/ files'[id].entries = <<>>
           \/ id \in DOMAIN files /\ files'[id].entries = files[id].entries
      /\ IndexOK'
  <2>1. CASE files' = files
    <3>1. \A id : Holds(id) => Holds(id)'
      BY <1>a, <2>1, SameHolds
    <3>2. \A id \in DOMAIN files' : FileOK(id)'
      BY <2>1, <3>1 DEF IInv, FileOK
    <3>3. index' = index \/ index' = Garbled
      BY <1>a
    <3>4. IndexOK'
      BY <1>2, <2>1, <3>1, <3>3 DEF IInv, IndexOK, IndexIds, Readable
    <3> QED BY <2>1, <3>2, <3>4 DEF IInv, TypeOK
  <2>2. CASE files' # files
    BY <1>a, <2>2, CutFacts
  <2> QED BY <2>1, <2>2
<1>5. index' = index \/ index' = Garbled
  BY <1>a
<1>6. TypeOK'
  BY <1>a, <1>1, <1>2, <1>3, <1>4, <1>5 DEF IInv, TypeOK, Readable
<1>7. Heard' /\ \A s \in Sources : Collecting(s)'
  BY <1>a, <1>3 DEF IInv, Heard, Collecting
<1>8. Disjoint'
  <2>1. \A t : Apart(t, <<>>) /\ Apart(<<>>, t)
    BY PartialFacts
  <2>2. \A i, j \in DOMAIN files' : i # j => Apart(files'[i].entries, files'[j].entries)
    BY <1>4, <2>1 DEF IInv, Disjoint
  <2> QED BY <1>3, <2>1, <2>2 DEF Disjoint
<1>9. Written' /\ Complete'
  BY <1>a, <1>1 DEF Written, Complete
<1> QED BY <1>3, <1>4, <1>6, <1>7, <1>8, <1>9 DEF IInv

(* write_session adds the session to the index, as its only entry for that id,
   with the hash of the file just written. *)
LEMMA WriteIndexKeepsIInv ==
    ASSUME IInv, WriteIndex
    PROVE  IInv'
<1>a. /\ queue # <<>> /\ phase = "index" /\ Done
      /\ index' = Listed(Append(OldList, IndexEntry(Head(queue))))
      /\ UNCHANGED <<gen, logged, seen, active, files, faults>>
  BY DEF WriteIndex
<1>b. PICK p : p = queue[1][1]
  OBVIOUS
<1> DEFINE L == [id : Entries, file_hash : CompletedSessions]
           x == IndexEntry(Head(queue))
           l == Append(OldList, x)
<1>1. /\ queue' \in Seq(Seq(Entries)) /\ Queued' \subseteq Queued /\ phase' = "file"
      /\ \A i, j \in 1 .. Len(queue') : i # j => Apart(queue'[i], queue'[j])
      /\ \A s \in Sources, i \in 1 .. Len(queue') : Apart(active[s], queue'[i])
      /\ \A i \in 1 .. Len(queue'), id \in DOMAIN files : Apart(queue'[i], files[id].entries)
  BY <1>a, DoneFacts
<1>2. /\ Sound(queue[1]) /\ Over(queue[1]) /\ p \in Entries /\ SessionId(Head(queue)) = p
      /\ Head(queue) = queue[1]
      /\ Completed(queue[1]).entries = queue[1] /\ Completed(queue[1]) \in CompletedSessions
  BY <1>a, <1>b, HeadOfQueue, CompletedFacts DEF IInv
<1>3. p \in DOMAIN files /\ files[p] = Completed(queue[1]) /\ p \notin IndexIds
  BY <1>a, <1>b DEF IInv, Written
<1>4. Holds(p)
  BY <1>b, <1>2, <1>3 DEF Holds
<1>5. x \in L /\ x.id = p /\ x.file_hash = files[p]
  BY <1>2, <1>3 DEF IndexEntry
<1>6. OldList \in Seq(L)
  BY EmptySeq DEF IInv, IndexOK, OldList
<1> HIDE DEF x
<1>7. /\ l \in Seq(L) /\ Len(l) = Len(OldList) + 1 /\ Len(OldList) \in Nat /\ l[Len(OldList) + 1] = x
      /\ \A i \in 1 .. Len(OldList) : l[i] = OldList[i]
  BY <1>5, <1>6, AppendProperties, LenProperties
<1>8. index'.state = "read" /\ index'.list = l /\ Readable'
  BY <1>a DEF Listed, Readable, x
<1>9. \A i \in 1 .. Len(OldList) : Readable /\ OldList = index.list /\ OldList[i].id \in IndexIds
  <2>1. CASE Readable
    BY <2>1 DEF OldList, IndexIds, IInv, IndexOK
  <2>2. CASE ~Readable
    BY <2>2 DEF OldList
  <2> QED BY <2>1, <2>2
<1> HIDE DEF l
<1>10. \A i \in 1 .. Len(l) : i \in 1 .. Len(OldList) \/ i = Len(OldList) + 1
  BY <1>7
<1>11. IndexIds' = IndexIds \cup {p}
  <2>1. IndexIds' = {l[i].id : i \in 1 .. Len(l)}
    BY <1>7, <1>8 DEF IndexIds
  <2>2. IndexIds = {OldList[i].id : i \in 1 .. Len(OldList)}
    <3>1. CASE Readable
      BY <3>1 DEF OldList, IndexIds, IInv, IndexOK
    <3>2. CASE ~Readable
      BY <3>2 DEF OldList, IndexIds
    <3> QED BY <3>1, <3>2
  <2>3. Len(OldList) + 1 \in 1 .. Len(l) /\ 1 .. Len(OldList) \subseteq 1 .. Len(l)
    BY <1>7
  <2> QED BY <1>5, <1>7, <1>10, <2>1, <2>2, <2>3
<1>12. TypeOK'
  <2>1. DOMAIN l = 1 .. Len(l)
    BY <1>7, LenProperties
  <2>2. \A i \in DOMAIN l : l[i] \in L
    BY <1>7, <2>1, ElementOfSeq
  <2>3. /\ index'.state \in {"missing", "garbled", "read"}
        /\ Readable' => \A i \in DOMAIN index'.list : index'.list[i] \in L
    BY <1>8, <2>2
  <2> QED BY <1>a, <1>1, <2>3 DEF IInv, TypeOK
<1>13. Heard' /\ \A s \in Sources : Collecting(s)'
  BY <1>a, SameCollecting
<1>14. \A t \in Queued' : Sound(t)' /\ Over(t)'
  BY <1>a, <1>1, SameLogs DEF IInv
<1>15. \A id : Holds(id) => Holds(id)'
  BY <1>a, SameHolds
<1>16. \A id \in DOMAIN files' : FileOK(id)'
  BY <1>a, <1>15 DEF IInv, FileOK
<1>17. Disjoint'
  BY <1>a, <1>1 DEF IInv, Disjoint
<1>18. IndexOK'
  <2>1. \A id \in IndexIds' : id \in DOMAIN files' /\ Holds(id)'
    <3>1. \A id \in IndexIds : id \in DOMAIN files /\ Holds(id)
      BY DEF IInv, IndexOK, IndexIds
    <3> QED BY <1>a, <1>3, <1>4, <1>11, <1>15, <3>1
  <2>2. \A i \in 1 .. Len(l) : files[l[i].id] = l[i].file_hash
    BY <1>5, <1>7, <1>9, <1>10 DEF IInv, IndexOK
  <2>3. \A i, j \in 1 .. Len(l) : l[i].id = l[j].id => i = j
    <3>1. \A i, j \in 1 .. Len(OldList) : l[i].id = l[j].id => i = j
      BY <1>7, <1>9 DEF IInv, IndexOK
    <3>2. \A i \in 1 .. Len(OldList) : l[i].id # p
      BY <1>3, <1>7, <1>9
    <3> QED BY <1>5, <1>7, <1>10, <3>1, <3>2
  <2> QED BY <1>a, <1>7, <1>8, <2>1, <2>2, <2>3 DEF IndexOK
<1>19. Written'
  BY <1>1 DEF Written
<1>20. Complete'
  <2> SUFFICES ASSUME faults = 0 PROVE Complete'
    BY <1>a DEF Complete
  <2>1. ASSUME NEW e, Covered(e) PROVE Covered(e)'
    <3>1. ASSUME NEW k \in 1 .. Len(queue), NEW i \in 1 .. Len(queue[k]), queue[k][i] = e
          PROVE  Covered(e)'
      <4>1. CASE k = 1
        <5>1. files'[p].entries = queue[1]
          BY <1>a, <1>2, <1>3
        <5> QED BY <1>a, <1>3, <3>1, <4>1, <5>1 DEF Covered
      <4>2. CASE k # 1
        <5>1. k - 1 \in 1 .. Len(queue') /\ queue'[k - 1] = queue[k]
          BY <1>a, <4>2, HeadOfQueue DEF Done
        <5> QED BY <3>1, <5>1 DEF Covered
      <4> QED BY <4>1, <4>2
    <3> QED BY <1>a, <2>1, <3>1 DEF Covered
  <2>2. \A id \in DOMAIN files : id \in IndexIds \/ id = p
    BY <1>b DEF IInv, Complete
  <2> QED BY <1>a, <1>8, <1>11, <2>1, <2>2 DEF IInv, Complete
<1> QED BY <1>12, <1>13, <1>14, <1>16, <1>17, <1>18, <1>19, <1>20 DEF IInv
--------------------------------------------------------------------------------
(* A verifier's log only grows: a later circuit, or a later round of the same
   one, and a circuit that is over stays over. *)
Onward ==
    \A r \in Sources :
        \/ gen'[r].circuit > gen[r].circuit
        \/ /\ gen'[r].circuit = gen[r].circuit
           /\ gen'[r].hb >= gen[r].hb
           /\ gen[r].last # "ok" => gen'[r].last # "ok"

(* The verifiers' logs. *)
GenType == [Sources -> [circuit : 1 .. MaxCircuits, hb : 0 .. MaxRounds, last : Kinds]]

(* What the types say of an entry that arrived and of its verifier's log. *)
LEMMA EntryTypes ==
    ASSUME TypeOK, NEW e \in Entries
    PROVE  /\ e.src \in Sources /\ e.circuit \in Int /\ e.hb \in Int /\ e.hb >= 1
           /\ e.kind \in Kinds
           /\ gen[e.src].circuit \in Int /\ gen[e.src].hb \in Int
  BY DEF TypeOK, Entries

(* What arrived stays explained by the logs as they grow. *)
LEMMA OnwardHeard ==
    ASSUME IInv, Onward, gen' \in GenType, NEW e \in seen
    PROVE  \/ e.circuit < gen'[e.src].circuit
           \/ /\ e.circuit = gen'[e.src].circuit
              /\ e.hb <= gen'[e.src].hb
              /\ e.kind # "ok" => gen'[e.src].last # "ok"
<1>1. e \in Entries /\ TypeOK
  BY DEF IInv, TypeOK
<1>2. /\ e.src \in Sources /\ e.circuit \in Int /\ e.hb \in Int
      /\ gen[e.src].circuit \in Int /\ gen[e.src].hb \in Int
  BY <1>1, EntryTypes
<1>3. gen'[e.src].circuit \in Int /\ gen'[e.src].hb \in Int
  BY <1>2 DEF GenType
<1>4. \/ e.circuit < gen[e.src].circuit
      \/ /\ e.circuit = gen[e.src].circuit
         /\ e.hb <= gen[e.src].hb
         /\ e.kind # "ok" => gen[e.src].last # "ok"
  BY DEF IInv, Heard
<1> QED BY <1>2, <1>3, <1>4 DEF Onward

(* A session whose circuits are over keeps them so. *)
LEMMA OnwardOver ==
    ASSUME IInv, Onward, gen' \in GenType, NEW t, Sound(t), Over(t)
    PROVE  Over(t)'
<1> SUFFICES ASSUME NEW i \in 1 .. Len(t)
             PROVE  t[i].circuit < gen'[t[i].src].circuit \/ gen'[t[i].src].last # "ok"
  BY DEF Over
<1>1. t[i] \in seen /\ t[i] \in Entries /\ TypeOK
  BY DEF Sound, IInv, TypeOK
<1>2. PICK e \in Entries : e = t[i]
  BY <1>1
<1>3. /\ e.src \in Sources /\ e.circuit \in Int /\ gen[e.src].circuit \in Int
  BY <1>1, EntryTypes
<1>4. gen'[e.src].circuit \in Int
  BY <1>3 DEF GenType
<1>5. e.circuit <= gen[e.src].circuit
  BY <1>1, <1>2, <1>3 DEF IInv, Heard
<1>6. e.circuit < gen[e.src].circuit \/ gen[e.src].last # "ok"
  BY <1>2 DEF Over
<1>7. e.circuit < gen'[e.src].circuit \/ gen'[e.src].last # "ok"
  BY <1>3, <1>4, <1>5, <1>6 DEF Onward
<1> QED BY <1>2, <1>7

(* Steps of the verifiers that the monitor does not notice. *)
LEMMA UnnoticedKeepsIInv ==
    ASSUME IInv, Onward, gen' \in GenType, logged' \in 0 .. MaxEntries,
           UNCHANGED <<seen, active, queue, phase, files, index, faults>>
    PROVE  IInv'
<1>1. TypeOK'
  BY DEF IInv, TypeOK, GenType, Readable
<1>2. Heard'
  BY OnwardHeard DEF Heard
<1>3. ASSUME NEW t, Sound(t) PROVE Sound(t)'
  BY <1>3 DEF Sound
<1>4. ASSUME NEW s \in Sources PROVE Collecting(s)'
  BY DEF IInv, Collecting, Sound
<1>5. \A t \in Queued' : Sound(t)' /\ Over(t)'
  BY <1>3, OnwardOver DEF IInv, Queued
<1>6. ASSUME NEW id, Holds(id) PROVE Holds(id)'
  <2>1. Sound(files[id].entries) /\ Over(files[id].entries)
    BY <1>6 DEF Holds
  <2>2. PICK t : t = files[id].entries
    OBVIOUS
  <2>3. Sound(t)' /\ Over(t)'
    BY <1>3, <2>1, <2>2, OnwardOver
  <2>4. Sound(files[id].entries)' /\ Over(files[id].entries)'
    BY <2>2, <2>3 DEF Sound, Over
  <2> QED BY <1>6, <2>4 DEF Holds
<1>7. \A id \in DOMAIN files' : FileOK(id)'
  BY <1>6 DEF IInv, FileOK
<1>8. Disjoint'
  BY DEF IInv, Disjoint
<1>9. Written'
  BY DEF IInv, Written, IndexIds, Readable
<1>10. IndexOK'
  BY <1>6 DEF IInv, IndexOK, IndexIds, Readable
<1>11. Complete'
  BY DEF IInv, Complete, Covered, IndexIds, Readable
<1> QED BY <1>1, <1>2, <1>4, <1>5, <1>7, <1>8, <1>9, <1>10, <1>11 DEF IInv

(* What a verifier does to its log when it logs an entry. *)
LEMMA LoggedFacts ==
    ASSUME IInv, NEW s \in Sources, NEW kind \in Kinds, CanLog(s, kind), Logged(s, kind)
    PROVE  /\ gen' \in GenType /\ logged' \in 0 .. MaxEntries /\ Onward
           /\ NextEntry(s, kind) \in Entries
           /\ NextEntry(s, kind).hb = gen'[s].hb
           /\ gen'[s].last = kind /\ gen'[s].circuit = gen[s].circuit
           /\ kind # "end" => gen[s].last = "ok" /\ gen'[s].hb = gen[s].hb + 1
<1>1. /\ gen \in GenType /\ logged \in Nat /\ MaxEntries \in Nat /\ MaxRounds \in Nat
  BY TrackerAssumption DEF IInv, TypeOK, GenType
<1>2. /\ gen[s].circuit \in 1 .. MaxCircuits /\ gen[s].hb \in 0 .. MaxRounds /\ gen[s].last \in Kinds
  BY <1>1 DEF GenType
<1>3. logged' = logged + 1 /\ logged < MaxEntries
  BY DEF Logged, CanLog
<1>4. PICK h : h = NextEntry(s, kind).hb
  OBVIOUS
<1>5. h = gen[s].hb + (IF kind = "end" THEN 0 ELSE 1)
  BY <1>4 DEF NextEntry
<1>6. /\ kind = "end" => gen[s].hb > 0
      /\ kind # "end" => gen[s].last = "ok" /\ gen[s].hb < MaxRounds
  BY DEF CanLog
<1>7. h \in 1 .. MaxRounds /\ h >= gen[s].hb /\ (kind # "end" => h = gen[s].hb + 1)
  BY <1>1, <1>2, <1>5, <1>6
<1>8. gen' = [gen EXCEPT ![s] = [gen[s] EXCEPT !.hb = h, !.last = kind]]
  BY <1>4 DEF Logged
<1>9. /\ gen'[s].hb = h /\ gen'[s].last = kind /\ gen'[s].circuit = gen[s].circuit
      /\ \A r \in Sources : r # s => gen'[r] = gen[r]
  BY <1>1, <1>2, <1>8 DEF GenType
<1>10. gen' \in GenType
  <2>1. h \in 0 .. MaxRounds
    BY <1>1, <1>7
  <2>2. [gen[s] EXCEPT !.hb = h, !.last = kind]
          \in [circuit : 1 .. MaxCircuits, hb : 0 .. MaxRounds, last : Kinds]
    BY <1>1, <2>1 DEF GenType
  <2> QED BY <1>1, <1>8, <2>2 DEF GenType
<1>11. NextEntry(s, kind) \in Entries
  <2>1. NextEntry(s, kind) = [src |-> s, circuit |-> gen[s].circuit, kind |-> kind, hb |-> h]
    BY <1>5 DEF NextEntry
  <2> QED BY <1>2, <1>7, <2>1 DEF Entries
<1>12. gen[s].last # "ok" => gen'[s].last # "ok"
  BY <1>6, <1>9
<1>13. Onward
  <2> SUFFICES ASSUME NEW r \in Sources
               PROVE  /\ gen'[r].circuit = gen[r].circuit
                      /\ gen'[r].hb >= gen[r].hb
                      /\ gen[r].last # "ok" => gen'[r].last # "ok"
    BY DEF Onward
  <2>1. gen[r].hb \in Int
    BY <1>1 DEF GenType
  <2> QED BY <1>7, <1>9, <1>12, <2>1
<1>14. logged' \in 0 .. MaxEntries
  BY <1>1, <1>3
<1> QED BY <1>4, <1>6, <1>7, <1>9, <1>10, <1>11, <1>13, <1>14

(* An entry is logged and lost. *)
LEMMA LoseKeepsIInv ==
    ASSUME IInv, NEW s \in Sources, NEW kind \in Kinds, Lose(s, kind)
    PROVE  IInv'
  BY LoggedFacts, UnnoticedKeepsIInv DEF Lose

(* A verifier starts the next circuit. *)
LEMMA NewCircuitKeepsIInv ==
    ASSUME IInv, NEW s \in Sources, NewCircuit(s)
    PROVE  IInv'
<1>1. gen \in GenType /\ MaxCircuits \in Nat /\ MaxRounds \in Nat
  BY TrackerAssumption DEF IInv, TypeOK, GenType
<1>2. gen[s].circuit \in 1 .. MaxCircuits /\ gen[s].circuit < MaxCircuits
  BY <1>1 DEF GenType, NewCircuit
<1>3. gen' = [gen EXCEPT ![s] = [circuit |-> gen[s].circuit + 1, hb |-> 0, last |-> "ok"]]
  BY DEF NewCircuit
<1>4. gen' \in GenType
  BY <1>1, <1>2, <1>3 DEF GenType, Kinds
<1>5. gen'[s].circuit = gen[s].circuit + 1 /\ \A r \in Sources : r # s => gen'[r] = gen[r]
  BY <1>1, <1>3 DEF GenType
<1>6. \A r \in Sources : gen[r].circuit \in Int /\ gen[r].hb \in Int
  BY <1>1 DEF GenType
<1>7. Onward
  BY <1>5, <1>6 DEF Onward
<1> QED BY <1>4, <1>7, UnnoticedKeepsIInv DEF NewCircuit, IInv, TypeOK
--------------------------------------------------------------------------------
(* process_entry: the entry closes the session being collected, or not; it is
   added to what is left; and a denied round sends the result to the disk.  The
   session that was being collected, what is left of it and the result are
   named, since all that follows is about them. *)
Closes(e, old) == (e.kind = "end" \/ IsNewSession(e)) /\ old # <<>>

(* The three of them, and where they go. *)
Shape(e, old, base, x) ==
    /\ old \in Seq(Entries)
    /\ base = IF Closes(e, old) THEN <<>> ELSE old
    /\ x = base \o <<e>>
    /\ seen' = seen \cup {e}
    /\ \A r \in Sources : r # e.src => active'[r] = active[r]
    /\ active'[e.src] = IF e.kind = "ok" THEN x ELSE <<>>
    /\ active' \in [Sources -> Seq(Entries)]
    /\ \/ Closes(e, old) /\ e.kind = "fail" /\ queue' = <<old, x>>
       \/ Closes(e, old) /\ e.kind # "fail" /\ queue' = <<old>>
       \/ ~Closes(e, old) /\ e.kind = "fail" /\ queue' = <<x>>
       \/ ~Closes(e, old) /\ e.kind # "fail" /\ queue' = <<>>

(* What process_entry reads off the event of an entry. *)
LEMMA EventFacts ==
    ASSUME NEW e \in Entries
    PROVE  /\ IsSessionEnd(e) <=> e.kind = "end"
           /\ Finishes(e) <=> e.kind = "fail"
           /\ IsNewSession(e) <=> (e.hb = 1 /\ e.src \in Chained /\ e.kind # "end")
  BY DEF Entries, Kinds, Event, IsSessionEnd, Finishes, IsNewSession

(* process_entry has that shape. *)
LEMMA ProcessShape ==
    ASSUME IInv, queue = <<>>, NEW e \in Entries, ProcessEntry(e)
    PROVE  \E old, base, x : old = active[e.src] /\ Shape(e, old, base, x)
<1>1. PICK old : old = active[e.src]
  OBVIOUS
<1>2. PICK base : base = IF Closes(e, old) THEN <<>> ELSE old
  OBVIOUS
<1>3. PICK x : x = base \o <<e>>
  OBVIOUS
<1>4. e.src \in Sources /\ active \in [Sources -> Seq(Entries)] /\ e.kind \in Kinds
  BY DEF Entries, IInv, TypeOK
<1>5. old \in Seq(Entries) /\ <<>> \in Seq(Entries)
  BY <1>1, <1>4, EmptySeq
<1>6. x \in Seq(Entries)
  <2>1. base \in Seq(Entries)
    BY <1>2, <1>5
  <2>2. base \o <<e>> \in Seq(Entries)
    BY <2>1, ConcatProperties
  <2> QED BY <1>3, <2>2
<1>7. Closed(e) = IF Closes(e, old) THEN <<old>> ELSE <<>>
  BY <1>1, EventFacts DEF Closed, Closes
<1>8. Extended(e) = x
  <2>1. (Closed(e) = <<>>) <=> ~Closes(e, old)
    BY <1>7
  <2> QED BY <1>1, <1>2, <1>3, <2>1 DEF Extended
<1>9. /\ seen' = seen \cup {e}
      /\ active' = [active EXCEPT ![e.src] = IF e.kind = "ok" THEN x ELSE <<>>]
  BY <1>4, <1>8, EventFacts DEF ProcessEntry, Kinds
<1>10. queue' = IF e.kind = "fail" THEN (<<>> \o Closed(e)) \o <<x>> ELSE <<>> \o Closed(e)
  <2>1. CASE e.kind = "end"
    BY <1>8, <2>1, EventFacts DEF ProcessEntry
  <2>2. CASE e.kind = "fail"
    BY <1>8, <2>2, EventFacts DEF ProcessEntry
  <2>3. CASE e.kind = "ok"
    <3>1. queue' = queue \o Closed(e) \o <<>>
      BY <2>3, EventFacts DEF ProcessEntry
    <3>2. <<>> \o Closed(e) \in Seq(Seq(Entries))
      BY <1>5, <1>7
    <3> QED BY <2>3, <3>1, <3>2, ConcatEmptySeq
  <2> QED BY <1>4, <2>1, <2>2, <2>3 DEF Kinds
<1>11. /\ Closes(e, old) => <<>> \o Closed(e) = <<old>>
       /\ ~Closes(e, old) => <<>> \o Closed(e) = <<>>
       /\ <<old>> \o <<x>> = <<old, x>> /\ <<>> \o <<x>> = <<x>>
  <2>1. <<old>> \in Seq(Seq(Entries)) /\ <<>> \in Seq(Seq(Entries)) /\ <<x>> \in Seq(Seq(Entries))
    BY <1>5, <1>6
  <2>2. <<old>> \o <<x>> = <<old, x>>
    <3>1. <<old, x>> \in Seq(Seq(Entries)) /\ Len(<<old, x>>) = 2
      BY <1>5, <1>6
    <3>2. /\ <<old>> \o <<x>> \in Seq(Seq(Entries)) /\ Len(<<old>> \o <<x>>) = 2
          /\ (<<old>> \o <<x>>)[1] = old /\ (<<old>> \o <<x>>)[2] = x
      BY <2>1, ConcatProperties
    <3>3. \A i \in 1 .. 2 : (<<old>> \o <<x>>)[i] = <<old, x>>[i]
      BY <3>2
    <3> QED BY <3>1, <3>2, <3>3, SeqEqual
  <2> QED BY <1>7, <2>1, <2>2, ConcatEmptySeq
<1>12. /\ \A r \in Sources : r # e.src => active'[r] = active[r]
       /\ active'[e.src] = IF e.kind = "ok" THEN x ELSE <<>>
       /\ active' \in [Sources -> Seq(Entries)]
  BY <1>4, <1>5, <1>6, <1>9
<1>13. \/ Closes(e, old) /\ e.kind = "fail" /\ queue' = <<old, x>>
       \/ Closes(e, old) /\ e.kind # "fail" /\ queue' = <<old>>
       \/ ~Closes(e, old) /\ e.kind = "fail" /\ queue' = <<x>>
       \/ ~Closes(e, old) /\ e.kind # "fail" /\ queue' = <<>>
  BY <1>10, <1>11
<1>14. Shape(e, old, base, x)
  BY <1>2, <1>3, <1>5, <1>9, <1>12, <1>13 DEF Shape
<1> QED BY <1>1, <1>14
--------------------------------------------------------------------------------
(* The entry just logged, seen from its verifier's log. *)
NewlyLogged(e) ==
    /\ e \in Entries /\ gen' \in GenType /\ Onward
    /\ e.circuit = gen[e.src].circuit /\ gen'[e.src].circuit = gen[e.src].circuit
    /\ e.hb = gen'[e.src].hb /\ gen'[e.src].last = e.kind
    /\ e.kind # "end" => gen[e.src].last = "ok" /\ e.hb = gen[e.src].hb + 1

(* No round arrived before it is logged, nothing but granted rounds of its
   circuit did, and when it is the first round of a circuit everything that
   arrived is of an earlier one. *)
LEMMA NewEntry ==
    ASSUME IInv, NEW e, NewlyLogged(e)
    PROVE  /\ \A f \in seen : f.src = e.src => f.circuit <= e.circuit
           /\ e.kind # "end" => /\ e \notin seen
                                /\ \A f \in seen : f.src = e.src /\ f.circuit = e.circuit => f.kind = "ok"
           /\ IsNewSession(e) => \A f \in seen : f.src = e.src => f.circuit < e.circuit
<1>1. ASSUME NEW f \in seen, f.src = e.src
      PROVE  /\ f.circuit <= e.circuit
             /\ e.kind # "end" => f # e /\ (f.circuit = e.circuit => f.kind = "ok")
             /\ IsNewSession(e) => f.circuit < e.circuit
  <2>1. f \in Entries /\ TypeOK /\ e \in Entries
    BY DEF IInv, TypeOK, NewlyLogged
  <2>2. /\ f.circuit \in Int /\ f.hb \in Int /\ f.hb >= 1
        /\ gen[f.src].circuit \in Int /\ gen[f.src].hb \in Int
    BY <2>1, EntryTypes
  <2>3. \/ f.circuit < gen[f.src].circuit
        \/ /\ f.circuit = gen[f.src].circuit
           /\ f.hb <= gen[f.src].hb
           /\ f.kind # "ok" => gen[f.src].last # "ok"
    BY DEF IInv, Heard
  <2>4. /\ e.circuit = gen[f.src].circuit
        /\ e.kind # "end" => gen[f.src].last = "ok" /\ e.hb = gen[f.src].hb + 1
    BY <1>1 DEF NewlyLogged
  <2>5. IsNewSession(e) => e.kind # "end" /\ e.hb = 1
    BY <2>1, EventFacts
  <2>6. f.circuit <= e.circuit
    BY <2>2, <2>3, <2>4
  <2>7. ASSUME e.kind # "end" PROVE f # e /\ (f.circuit = e.circuit => f.kind = "ok")
    BY <2>2, <2>3, <2>4, <2>7
  <2>8. ASSUME IsNewSession(e) PROVE f.circuit < e.circuit
    BY <2>2, <2>3, <2>4, <2>5, <2>8
  <2> QED BY <2>6, <2>7, <2>8
<1> QED BY <1>1

(* The arrival of an entry changes nothing for a session it can no longer be
   part of. *)
LEMMA SoundKept ==
    ASSUME IInv, NEW e, NewlyLogged(e), seen' = seen \cup {e}, NEW t, Sound(t),
           e.kind # "fail" \/ Over(t) \/ t[1].src # e.src
    PROVE  Sound(t)'
<1>1. /\ t \in Seq(Entries) /\ t # <<>>
      /\ \A i \in 1 .. Len(t) : t[i] \in seen /\ t[i].src = t[1].src /\ t[i].kind # "end"
      /\ \A i \in 1 .. Len(t) - 1 : t[i].circuit <= t[i + 1].circuit /\ t[i].kind = "ok"
  BY DEF Sound
<1>2. \A i \in 1 .. Len(t) : t[i] \in seen'
  BY <1>1
<1>3. Len(t) \in Nat /\ \A i \in 1 .. Len(t) - 1 : i \in 1 .. Len(t) /\ i + 1 \in 1 .. Len(t)
  BY <1>1, LenProperties
<1>4. \A i \in 1 .. Len(t) : t[i].circuit \in Int
  <2>1. \A i \in 1 .. Len(t) : t[i] \in Entries /\ TypeOK
    BY <1>1 DEF IInv, TypeOK
  <2> QED BY <2>1, EntryTypes
<1>5. e.circuit \in Int
  BY EntryTypes DEF NewlyLogged, IInv
<1>6. ASSUME NEW i \in 1 .. Len(t) - 1, t[i].circuit # t[i + 1].circuit
      PROVE  /\ \A f \in seen' : f.src = t[i].src /\ f.circuit = t[i].circuit => f.kind # "end"
             /\ t[i].src \in Chained => t[i + 1].hb # 1
  <2>1. /\ \A f \in seen : f.src = t[i].src /\ f.circuit = t[i].circuit => f.kind # "end"
        /\ t[i].src \in Chained => t[i + 1].hb # 1
    BY <1>6 DEF Sound
  <2>2. ASSUME e.src = t[i].src, e.circuit = t[i].circuit PROVE FALSE
    <3>1. t[i + 1] \in seen /\ t[i + 1].src = t[i].src /\ t[i].circuit <= t[i + 1].circuit
      BY <1>1, <1>3
    <3>2. t[i + 1].circuit <= e.circuit
      BY <2>2, <3>1, NewEntry
    <3> QED BY <1>3, <1>4, <1>6, <2>2, <3>1, <3>2
  <2> QED BY <2>1, <2>2
<1>7. ASSUME NEW f \in seen', NEW i \in 1 .. Len(t),
             f.kind = "fail", f.src = t[1].src, f.circuit = t[i].circuit
      PROVE  \E j \in 1 .. Len(t) : t[j] = f
  <2>1. CASE f \in seen
    BY <1>7, <2>1 DEF Sound
  <2>2. CASE f = e
    <3>1. Over(t)
      BY <1>7, <2>2
    <3>2. t[i].src = e.src
      BY <1>1, <1>7, <2>2
    <3>3. t[i].circuit < gen[e.src].circuit \/ gen[e.src].last # "ok"
      BY <3>1, <3>2 DEF Over
    <3>4. e.circuit = gen[e.src].circuit /\ gen[e.src].last = "ok"
      BY <1>7, <2>2 DEF NewlyLogged
    <3> QED BY <1>5, <1>7, <2>2, <3>3, <3>4
  <2> QED BY <2>1, <2>2
<1> QED BY <1>1, <1>2, <1>6, <1>7 DEF Sound

(* The session that an entry closes is sound and over. *)
LEMMA ClosedIsOver ==
    ASSUME IInv, NEW e, NewlyLogged(e), seen' = seen \cup {e},
           NEW t, t = active[e.src], Closes(e, t)
    PROVE  Sound(t)' /\ Over(t)'
<1>0. e \in Entries /\ e.src \in Sources /\ t # <<>>
  BY EntryTypes DEF NewlyLogged, Closes, IInv
<1>1. Sound(t) /\ \A i \in 1 .. Len(t) : t[i].src = e.src /\ t[i] \in seen
  BY <1>0 DEF IInv, Collecting, Sound
<1>2. IsNewSession(e) => e.kind # "end"
  BY <1>0, EventFacts
<1>3. /\ e.circuit = gen[e.src].circuit /\ gen'[e.src].circuit = gen[e.src].circuit
      /\ gen'[e.src].last = e.kind
  BY DEF NewlyLogged
<1>4. CASE IsNewSession(e)
  <2>1. \A i \in 1 .. Len(t) : t[i].circuit < e.circuit
    BY <1>1, <1>4, NewEntry
  <2>2. Over(t) /\ Over(t)'
    BY <1>1, <1>3, <2>1 DEF Over
  <2> QED BY <1>1, <2>2, SoundKept
<1>5. CASE e.kind = "end"
  <2>1. Over(t)'
    BY <1>1, <1>3, <1>5 DEF Over
  <2> QED BY <1>1, <1>5, <2>1, SoundKept
<1> QED BY <1>4, <1>5 DEF Closes

(* The session an entry is added to. *)
LEMMA ExtendedIsSound ==
    ASSUME IInv, NEW e, NewlyLogged(e), e.kind # "end",
           NEW old, NEW base, NEW x, old = active[e.src], Shape(e, old, base, x)
    PROVE  /\ Sound(x)'
           /\ \A i \in 1 .. Len(x) : x[i].src = e.src
           /\ e.kind = "ok" => \A i \in 1 .. Len(x) :
                /\ x[i].kind = "ok"
                /\ \A f \in seen' : f.src = e.src /\ f.circuit = x[i].circuit => f.kind = "ok"
           /\ e.kind = "fail" => Over(x)'
<1>0. /\ e \in Entries /\ e.src \in Sources /\ TypeOK /\ e.circuit \in Int /\ e.kind \in Kinds
  BY EntryTypes DEF NewlyLogged, IInv
<1>1. /\ old \in Seq(Entries) /\ base = IF Closes(e, old) THEN <<>> ELSE old
      /\ x = base \o <<e>> /\ seen' = seen \cup {e}
  BY DEF Shape
<1>2. base \in Seq(Entries)
  BY <1>1, EmptySeq
<1>3. PICK n \in Nat : n = Len(base)
  BY <1>2, LenProperties
<1>4. /\ x \in Seq(Entries) /\ x # <<>> /\ Len(x) = n + 1 /\ x[n + 1] = e
      /\ \A i \in 1 .. n : x[i] = base[i]
  <2>1. x = base \o <<e>>
    BY <1>1
  <2>2. /\ x \in Seq(Entries) /\ x # <<>> /\ Len(x) = Len(base) + 1 /\ x[Len(base) + 1] = e
        /\ \A i \in 1 .. Len(base) : x[i] = base[i]
    BY <1>0, <1>2, <2>1, Extend
  <2> QED BY <1>3, <2>2
<1>5. ASSUME base # <<>> PROVE Sound(base) /\ base = old /\ ~IsNewSession(e)
  BY <1>0, <1>1, <1>5 DEF Closes, IInv, Collecting
<1>6. \A i \in 1 .. n : base # <<>>
  BY <1>3
<1>7. \A i \in 1 .. n :
        /\ x[i] \in seen /\ x[i].src = e.src /\ x[i].kind = "ok" /\ x[i].circuit \in Int
        /\ \A f \in seen : f.src = e.src /\ f.circuit = x[i].circuit => f.kind = "ok"
  <2> SUFFICES ASSUME NEW i \in 1 .. n
               PROVE  /\ x[i] \in seen /\ x[i].src = e.src /\ x[i].kind = "ok" /\ x[i].circuit \in Int
                      /\ \A f \in seen : f.src = e.src /\ f.circuit = x[i].circuit => f.kind = "ok"
    OBVIOUS
  <2>1. base = old /\ old # <<>> /\ i \in 1 .. Len(old) /\ x[i] = old[i] /\ Sound(old)
    BY <1>3, <1>4, <1>5, <1>6
  <2>2. /\ old[i].src = e.src /\ old[i].kind = "ok"
        /\ \A f \in seen : f.src = e.src /\ f.circuit = old[i].circuit => f.kind = "ok"
    BY <1>0, <2>1 DEF IInv, Collecting
  <2>3. old[i] \in seen /\ old[i] \in Entries
    BY <2>1 DEF Sound, IInv, TypeOK
  <2>4. old[i].circuit \in Int
    BY <1>0, <2>3, EntryTypes
  <2> QED BY <2>1, <2>2, <2>3, <2>4
<1>8. \A i \in 1 .. Len(x) : i \in 1 .. n \/ (i = n + 1 /\ x[i] = e)
  BY <1>4
<1>9. \A i \in 1 .. Len(x) : x[i].src = e.src
  BY <1>7, <1>8
<1>10. 1 \in 1 .. Len(x)
  BY <1>4
<1>11. \A f \in seen : f.src = e.src /\ f.circuit = e.circuit => f.kind = "ok"
  BY NewEntry
<1>12. ASSUME NEW i \in 1 .. Len(x), NEW f \in seen, f.src = e.src, f.circuit = x[i].circuit
       PROVE  f.kind = "ok"
  BY <1>7, <1>8, <1>11, <1>12
<1>13. \A i \in 1 .. Len(x) - 1 : i \in 1 .. n /\ i + 1 \in 1 .. Len(x)
  BY <1>4
<1>14. \A i \in 1 .. Len(x) : x[i] \in seen' /\ x[i].src = x[1].src /\ x[i].kind # "end"
  BY <1>1, <1>7, <1>8, <1>9, <1>10
<1>15. ASSUME NEW i \in 1 .. Len(x) - 1
       PROVE  x[i].circuit <= x[i + 1].circuit /\ x[i].kind = "ok"
  <2>1. CASE i + 1 = n + 1
    <3>1. x[i].circuit <= e.circuit
      BY <1>7, <1>13, NewEntry
    <3> QED BY <1>4, <1>7, <1>13, <2>1, <3>1
  <2>2. CASE i + 1 # n + 1
    <3>1. i + 1 \in 1 .. n /\ i \in 1 .. n /\ n = Len(base) /\ i \in 1 .. Len(base) - 1
      BY <1>3, <1>4, <1>13, <2>2
    <3>2. Sound(base)
      BY <1>5, <1>6, <3>1
    <3>3. base[i].circuit <= base[i + 1].circuit
      BY <3>1, <3>2 DEF Sound
    <3> QED BY <1>4, <1>7, <3>1, <3>3
  <2> QED BY <2>1, <2>2
<1>16. ASSUME NEW i \in 1 .. Len(x) - 1, x[i].circuit # x[i + 1].circuit
       PROVE  /\ \A f \in seen' : f.src = x[i].src /\ f.circuit = x[i].circuit => f.kind # "end"
              /\ x[i].src \in Chained => x[i + 1].hb # 1
  <2>0. i \in 1 .. n /\ x[i].src = e.src
    BY <1>7, <1>13
  <2>1. \A f \in seen' : f.src = x[i].src /\ f.circuit = x[i].circuit => f.kind # "end"
    BY <1>1, <1>7, <2>0
  <2>2. CASE i + 1 = n + 1
    <3>1. ~IsNewSession(e)
      BY <1>5, <1>6, <2>0
    <3>2. e.src \in Chained => e.hb # 1
      BY <1>0, <3>1, EventFacts
    <3> QED BY <1>4, <2>0, <2>1, <2>2, <3>2
  <2>3. CASE i + 1 # n + 1
    <3>1. i + 1 \in 1 .. n /\ n = Len(base) /\ i \in 1 .. Len(base) - 1
      BY <1>3, <1>4, <1>13, <2>3
    <3>2. Sound(base)
      BY <1>5, <1>6, <3>1
    <3>3. x[i] = base[i] /\ x[i + 1] = base[i + 1]
      BY <1>4, <2>0, <3>1
    <3>4. base[i].src \in Chained => base[i + 1].hb # 1
      BY <1>16, <3>1, <3>2, <3>3 DEF Sound
    <3> QED BY <2>1, <3>3, <3>4
  <2> QED BY <2>2, <2>3
<1>17. ASSUME NEW f \in seen', NEW i \in 1 .. Len(x),
              f.kind = "fail", f.src = x[1].src, f.circuit = x[i].circuit
       PROVE  \E j \in 1 .. Len(x) : x[j] = f
  <2>1. CASE f \in seen
    BY <1>9, <1>10, <1>12, <1>17, <2>1
  <2>2. CASE f = e
    BY <1>4, <2>2
  <2> QED BY <1>1, <2>1, <2>2
<1>18. Sound(x)'
  BY <1>4, <1>14, <1>15, <1>16, <1>17 DEF Sound
<1>19. ASSUME e.kind = "ok", NEW i \in 1 .. Len(x)
       PROVE  /\ x[i].kind = "ok"
              /\ \A f \in seen' : f.src = e.src /\ f.circuit = x[i].circuit => f.kind = "ok"
  BY <1>1, <1>7, <1>8, <1>12, <1>19
<1>20. e.kind = "fail" => Over(x)'
  BY <1>9 DEF Over, NewlyLogged
<1> QED BY <1>9, <1>18, <1>19, <1>20

(* Where the entries of a piece come from: the session that was being
   collected, or the entry that arrived. *)
From(e, old, t) ==
    \A i \in 1 .. Len(t) :
        \/ e.kind # "end" /\ t[i] = e
        \/ \E j \in 1 .. Len(old) : t[i] = old[j]

(* The sessions it sends to the disk and where their entries come from. *)
LEMMA ShapePieces ==
    ASSUME NEW e \in Entries, NEW old, NEW base, NEW x, Shape(e, old, base, x)
    PROVE  /\ queue' \in Seq(Seq(Entries))
           /\ \A k \in 1 .. Len(queue') :
                \/ Closes(e, old) /\ queue'[k] = old
                \/ e.kind = "fail" /\ queue'[k] = x
           /\ \A k, l \in 1 .. Len(queue') : k # l =>
                /\ e.kind = "fail" /\ Closes(e, old)
                /\ (queue'[k] = old /\ queue'[l] = x) \/ (queue'[k] = x /\ queue'[l] = old)
           /\ Closes(e, old) => \E k \in 1 .. Len(queue') : queue'[k] = old
           /\ e.kind = "fail" => \E k \in 1 .. Len(queue') : queue'[k] = x
           /\ x \in Seq(Entries) /\ base \in Seq(Entries) /\ Len(base) \in Nat
           /\ Len(x) = Len(base) + 1 /\ x[Len(base) + 1] = e
           /\ \A i \in 1 .. Len(base) : x[i] = base[i]
           /\ \A i \in 1 .. Len(x) : i \in 1 .. Len(base) \/ x[i] = e
           /\ e.kind # "end" => From(e, old, x)
           /\ From(e, old, old)
<1>1. /\ old \in Seq(Entries) /\ base = IF Closes(e, old) THEN <<>> ELSE old
      /\ x = base \o <<e>>
  BY DEF Shape
<1>2. base \in Seq(Entries)
  BY <1>1, EmptySeq
<1>3. /\ x \in Seq(Entries) /\ Len(x) = Len(base) + 1 /\ x[Len(base) + 1] = e
      /\ Len(base) \in Nat /\ \A i \in 1 .. Len(base) : x[i] = base[i]
  BY <1>1, <1>2, Extend
<1>4. \A i \in 1 .. Len(x) : i \in 1 .. Len(base) \/ x[i] = e
  BY <1>3
<1>5. e.kind # "end" => From(e, old, x)
  <2>1. ASSUME NEW i \in 1 .. Len(base) PROVE i \in 1 .. Len(old) /\ x[i] = old[i]
    <3>1. base # <<>>
      OBVIOUS
    <3> QED BY <1>1, <1>3, <3>1
  <2> QED BY <1>4, <2>1 DEF From
<1>6. From(e, old, old)
  BY DEF From
<1>7. /\ queue' \in Seq(Seq(Entries))
      /\ \A k \in 1 .. Len(queue') :
           \/ Closes(e, old) /\ queue'[k] = old
           \/ e.kind = "fail" /\ queue'[k] = x
      /\ \A k, l \in 1 .. Len(queue') : k # l =>
           /\ e.kind = "fail" /\ Closes(e, old)
           /\ (queue'[k] = old /\ queue'[l] = x) \/ (queue'[k] = x /\ queue'[l] = old)
      /\ Closes(e, old) => \E k \in 1 .. Len(queue') : queue'[k] = old
      /\ e.kind = "fail" => \E k \in 1 .. Len(queue') : queue'[k] = x
  <2>1. CASE Closes(e, old) /\ e.kind = "fail" /\ queue' = <<old, x>>
    <3>1. /\ queue' \in Seq(Seq(Entries)) /\ 1 .. Len(queue') = {1, 2}
          /\ queue'[1] = old /\ queue'[2] = x
      BY <1>1, <1>3, <2>1
    <3> QED BY <2>1, <3>1
  <2>2. CASE Closes(e, old) /\ e.kind # "fail" /\ queue' = <<old>>
    <3>1. queue' \in Seq(Seq(Entries)) /\ 1 .. Len(queue') = {1} /\ queue'[1] = old
      BY <1>1, <2>2
    <3> QED BY <2>2, <3>1
  <2>3. CASE ~Closes(e, old) /\ e.kind = "fail" /\ queue' = <<x>>
    <3>1. queue' \in Seq(Seq(Entries)) /\ 1 .. Len(queue') = {1} /\ queue'[1] = x
      BY <1>3, <2>3
    <3> QED BY <2>3, <3>1
  <2>4. CASE ~Closes(e, old) /\ e.kind # "fail" /\ queue' = <<>>
    <3>1. queue' \in Seq(Seq(Entries)) /\ 1 .. Len(queue') = {}
      BY <2>4, EmptySeq
    <3> QED BY <2>4, <3>1
  <2> QED BY <2>1, <2>2, <2>3, <2>4 DEF Shape
<1> QED BY <1>2, <1>3, <1>4, <1>5, <1>6, <1>7

(* An entry arrives: the session it closes is over, the one it is added to is
   sound, and no entry is in two of them. *)
LEMMA ReceiveKeepsIInv ==
    ASSUME IInv, NEW s \in Sources, NEW kind \in Kinds, Receive(s, kind)
    PROVE  IInv'
<1>a. /\ queue = <<>> /\ CanLog(s, kind) /\ Logged(s, kind) /\ ProcessEntry(NextEntry(s, kind))
      /\ UNCHANGED <<phase, files, index, faults>>
  BY DEF Receive
<1>b. PICK e : e = NextEntry(s, kind)
  OBVIOUS
<1>c. e.src = s /\ e.kind = kind /\ e.circuit = gen[s].circuit
  BY <1>b DEF NextEntry
<1>1. gen' \in GenType /\ logged' \in 0 .. MaxEntries /\ NewlyLogged(e) /\ e \in Entries
  BY <1>a, <1>b, <1>c, LoggedFacts DEF NewlyLogged
<1>2. PICK old, base, x : old = active[s] /\ Shape(e, old, base, x)
  BY <1>a, <1>b, <1>c, <1>1, ProcessShape
<1>3. /\ seen' = seen \cup {e} /\ active' \in [Sources -> Seq(Entries)]
      /\ \A r \in Sources : r # s => active'[r] = active[r]
      /\ active'[s] = IF kind = "ok" THEN x ELSE <<>>
      /\ base = IF Closes(e, old) THEN <<>> ELSE old
      /\ old \in Seq(Entries)
  BY <1>c, <1>2 DEF Shape
<1>4. phase = "file"
  BY <1>a DEF IInv, Written, TypeOK
<1>5. /\ queue' \in Seq(Seq(Entries))
      /\ \A k \in 1 .. Len(queue') :
           \/ Closes(e, old) /\ queue'[k] = old
           \/ kind = "fail" /\ queue'[k] = x
      /\ \A k, l \in 1 .. Len(queue') : k # l =>
           /\ kind = "fail" /\ Closes(e, old)
           /\ (queue'[k] = old /\ queue'[l] = x) \/ (queue'[k] = x /\ queue'[l] = old)
      /\ Closes(e, old) => \E k \in 1 .. Len(queue') : queue'[k] = old
      /\ kind = "fail" => \E k \in 1 .. Len(queue') : queue'[k] = x
  BY <1>c, <1>1, <1>2, ShapePieces
<1>6. /\ x \in Seq(Entries) /\ base \in Seq(Entries) /\ Len(base) \in Nat
      /\ Len(x) = Len(base) + 1 /\ x[Len(base) + 1] = e
      /\ \A i \in 1 .. Len(base) : x[i] = base[i]
      /\ \A i \in 1 .. Len(x) : i \in 1 .. Len(base) \/ x[i] = e
      /\ kind # "end" => From(e, old, x)
      /\ From(e, old, old)
  BY <1>c, <1>1, <1>2, ShapePieces
<1>7. Closes(e, old) => Sound(old)' /\ Over(old)'
  BY <1>c, <1>1, <1>2, <1>3, ClosedIsOver
<1>8. kind # "end" =>
        /\ Sound(x)'
        /\ \A i \in 1 .. Len(x) : x[i].src = s
        /\ kind = "ok" => \A i \in 1 .. Len(x) :
             /\ x[i].kind = "ok"
             /\ \A f \in seen' : f.src = s /\ f.circuit = x[i].circuit => f.kind = "ok"
        /\ kind = "fail" => Over(x)'
  <2> SUFFICES ASSUME kind # "end"
               PROVE  /\ Sound(x)'
                      /\ \A i \in 1 .. Len(x) : x[i].src = e.src
                      /\ e.kind = "ok" => \A i \in 1 .. Len(x) :
                           /\ x[i].kind = "ok"
                           /\ \A f \in seen' : f.src = e.src /\ f.circuit = x[i].circuit => f.kind = "ok"
                      /\ e.kind = "fail" => Over(x)'
    BY <1>c
  <2>1. old = active[e.src] /\ e.kind # "end"
    BY <1>c, <1>2
  <2>2. NewlyLogged(e) /\ Shape(e, old, base, x)
    BY <1>1, <1>2
  <2> QED BY <2>1, <2>2, ExtendedIsSound
<1>9. \A t : Sound(t) /\ (Over(t) \/ t[1].src # s) => Sound(t)'
  BY <1>c, <1>1, <1>3, SoundKept
<1>10. \A t : Sound(t) /\ Over(t) => Over(t)'
  BY <1>1, OnwardOver DEF NewlyLogged
<1>11. TypeOK'
  <2>1. seen' \subseteq Entries
    BY <1>1, <1>3 DEF IInv, TypeOK
  <2> QED BY <1>a, <1>1, <1>3, <1>5, <2>1 DEF IInv, TypeOK, GenType, Readable
<1>12. Heard'
  <2>1. ASSUME NEW f \in seen
        PROVE  \/ f.circuit < gen'[f.src].circuit
               \/ /\ f.circuit = gen'[f.src].circuit
                  /\ f.hb <= gen'[f.src].hb
                  /\ f.kind # "ok" => gen'[f.src].last # "ok"
    BY <1>1, OnwardHeard DEF NewlyLogged
  <2>2. e.hb \in Int
    BY <1>1, EntryTypes DEF IInv
  <2>3. /\ e.circuit = gen'[e.src].circuit /\ e.hb <= gen'[e.src].hb
        /\ e.kind # "ok" => gen'[e.src].last # "ok"
    BY <1>1, <2>2 DEF NewlyLogged
  <2> QED BY <1>3, <2>1, <2>3 DEF Heard
<1>13. ASSUME NEW r \in Sources PROVE Collecting(r)'
  <2>1. CASE r = s
    <3>1. CASE kind = "ok"
      <4>1. active'[s] = x
        BY <1>3, <3>1
      <4>2. Sound(active[s])'
        BY <1>8, <3>1, <4>1 DEF Sound
      <4> QED BY <1>8, <2>1, <3>1, <4>1, <4>2 DEF Collecting, Sound
    <3>2. CASE kind # "ok"
      BY <1>3, <2>1, <3>2 DEF Collecting
    <3> QED BY <3>1, <3>2
  <2>2. CASE r # s
    <3>1. PICK a : a = active[r]
      OBVIOUS
    <3>2. active'[r] = a
      BY <1>3, <2>2, <3>1
    <3> SUFFICES ASSUME a # <<>> PROVE Collecting(r)'
      BY <3>2 DEF Collecting
    <3>3. /\ Sound(a)
          /\ \A i \in 1 .. Len(a) :
               /\ a[i].src = r /\ a[i].kind = "ok"
               /\ \A f \in seen : f.src = r /\ f.circuit = a[i].circuit => f.kind = "ok"
      BY <3>1 DEF IInv, Collecting
    <3>4. 1 \in 1 .. Len(a)
      BY <3>3, SeqLengths DEF Sound
    <3>5. Sound(a)'
      BY <1>9, <2>2, <3>3, <3>4
    <3>6. \A i \in 1 .. Len(a) : \A f \in seen' :
            f.src = r /\ f.circuit = a[i].circuit => f.kind = "ok"
      BY <1>c, <1>3, <2>2, <3>3
    <3> QED BY <3>2, <3>3, <3>5, <3>6 DEF Collecting, Sound
  <2> QED BY <2>1, <2>2
<1>14. \A t \in Queued' : Sound(t)' /\ Over(t)'
  <2>1. \A k \in 1 .. Len(queue') : (Closes(e, old) /\ queue'[k] = old) \/ (kind = "fail" /\ queue'[k] = x)
    BY <1>5
  <2>2. \A t \in Queued' : (Closes(e, old) /\ t = old) \/ (kind = "fail" /\ t = x)
    BY <2>1 DEF Queued
  <2> QED BY <1>7, <1>8, <2>2
<1>15. ASSUME NEW id, Holds(id) PROVE Holds(id)'
  <2>1. PICK t : t = files[id].entries
    OBVIOUS
  <2>2. Sound(t) /\ Over(t)
    BY <1>15, <2>1 DEF Holds
  <2>3. Sound(t)' /\ Over(t)'
    BY <1>9, <1>10, <2>2
  <2>4. Sound(files[id].entries)' /\ Over(files[id].entries)'
    BY <1>a, <2>1, <2>3 DEF Sound, Over
  <2> QED BY <1>a, <1>15, <2>4 DEF Holds
<1>16. \A id \in DOMAIN files' : FileOK(id)'
  BY <1>a, <1>15 DEF IInv, FileOK
<1>17. Written'
  BY <1>a, <1>4 DEF Written
<1>18. IndexOK'
  BY <1>a, <1>15 DEF IInv, IndexOK, IndexIds, Readable
<1>19. kind # "end" => e \notin seen
  BY <1>c, <1>1, NewEntry
<1>20. ASSUME NEW r \in Sources, NEW i \in 1 .. Len(active[r])
       PROVE  active[r][i] \in seen /\ active[r][i].src = r
  <2>1. active[r] # <<>>
    OBVIOUS
  <2> QED BY <2>1 DEF IInv, Collecting, Sound
<1>21. Disjoint'
  <2>1. ASSUME NEW id \in DOMAIN files, NEW i \in 1 .. Len(files[id].entries)
        PROVE  files[id].entries[i] \in seen
    <3>1. files[id] # Partial
      BY PartialFacts
    <3> QED BY <3>1 DEF IInv, FileOK, Holds, Sound
  <2>2. ASSUME NEW t, From(e, old, t), NEW id \in DOMAIN files
        PROVE  Apart(t, files[id].entries)
    <3>1. Apart(old, files[id].entries)
      BY <1>2 DEF IInv, Disjoint
    <3> QED BY <1>c, <1>19, <2>1, <2>2, <3>1 DEF From, Apart
  <2>3. ASSUME NEW t, From(e, old, t), NEW r \in Sources, r # s
        PROVE  Apart(active[r], t)
    BY <1>c, <1>2, <1>20, <2>3 DEF From, Apart
  <2>4. \A k \in 1 .. Len(queue') : From(e, old, queue'[k])
    BY <1>5, <1>6
  <2>5. From(e, old, active'[s])
    <3>1. From(e, old, <<>>)
      BY DEF From
    <3> QED BY <1>3, <1>6, <3>1
  <2>6. \A r \in Sources, id \in DOMAIN files : Apart(active'[r], files[id].entries)
    <3>1. \A r \in Sources, id \in DOMAIN files : r # s => Apart(active'[r], files[id].entries)
      BY <1>3 DEF IInv, Disjoint
    <3> QED BY <2>2, <2>5, <3>1
  <2>7. \A k \in 1 .. Len(queue'), id \in DOMAIN files : Apart(queue'[k], files[id].entries)
    BY <2>2, <2>4
  <2>8. Closes(e, old) /\ kind # "end" => Apart(x, old)
    <3> SUFFICES ASSUME Closes(e, old), kind # "end" PROVE Apart(x, old)
      OBVIOUS
    <3>1. Len(base) = 0
      BY <1>3
    <3>2. \A i \in 1 .. Len(x) : x[i] = e
      BY <1>6, <3>1
    <3>3. \A j \in 1 .. Len(old) : old[j] # e
      BY <1>2, <1>19, <1>20
    <3> QED BY <3>2, <3>3 DEF Apart
  <2>9. \A r \in Sources, k \in 1 .. Len(queue') : Apart(active'[r], queue'[k])
    <3> SUFFICES ASSUME NEW r \in Sources, NEW k \in 1 .. Len(queue')
                 PROVE  Apart(active'[r], queue'[k])
      OBVIOUS
    <3>1. CASE r # s
      BY <1>3, <2>3, <2>4, <3>1
    <3>2. CASE r = s /\ kind # "ok"
      BY <1>3, <3>2, PartialFacts
    <3>3. CASE r = s /\ kind = "ok"
      <4>1. Closes(e, old) /\ queue'[k] = old /\ active'[s] = x
        BY <1>3, <1>5, <3>3
      <4> QED BY <2>8, <3>3, <4>1
    <3> QED BY <3>1, <3>2, <3>3
  <2>10. \A k, l \in 1 .. Len(queue') : k # l => Apart(queue'[k], queue'[l])
    <3>1. Closes(e, old) /\ kind = "fail" => Apart(x, old) /\ Apart(old, x)
      BY <2>8, ApartSym
    <3> QED BY <1>5, <3>1
  <2>11. \A a, b \in DOMAIN files : a # b => Apart(files[a].entries, files[b].entries)
    BY DEF IInv, Disjoint
  <2> QED BY <1>a, <2>6, <2>7, <2>9, <2>10, <2>11 DEF Disjoint
<1>22. Complete'
  <2> SUFFICES ASSUME faults = 0 PROVE Complete'
    BY <1>a DEF Complete
  <2>1. ASSUME NEW i \in 1 .. Len(x), kind # "end" PROVE Covered(x[i])'
    <3>1. CASE kind = "ok"
      <4>1. active'[s] = x
        BY <1>3, <3>1
      <4> QED BY <4>1 DEF Covered
    <3>2. CASE kind = "fail"
      <4>1. PICK k \in 1 .. Len(queue') : queue'[k] = x
        BY <1>5, <3>2
      <4> QED BY <4>1 DEF Covered
    <3> QED BY <2>1, <3>1, <3>2 DEF Kinds
  <2>2. kind # "end" => Covered(e)'
    <3>1. Len(base) + 1 \in 1 .. Len(x) /\ x[Len(base) + 1] = e
      BY <1>6
    <3> QED BY <2>1, <3>1
  <2>3. ASSUME NEW i \in 1 .. Len(old) PROVE Covered(old[i])'
    <3>1. CASE Closes(e, old)
      <4>1. PICK k \in 1 .. Len(queue') : queue'[k] = old
        BY <1>5, <3>1
      <4> QED BY <4>1 DEF Covered
    <3>2. CASE ~Closes(e, old)
      <4>1. base = old /\ kind # "end"
        <5>1. old # <<>>
          OBVIOUS
        <5> QED BY <1>c, <1>3, <3>2, <5>1 DEF Closes
      <4>2. i \in 1 .. Len(x) /\ x[i] = old[i]
        BY <1>6, <4>1
      <4> QED BY <2>1, <4>1, <4>2
    <3> QED BY <3>1, <3>2
  <2>4. ASSUME NEW f \in seen, Covered(f) PROVE Covered(f)'
    <3>1. ASSUME NEW r \in Sources, NEW i \in 1 .. Len(active[r]), active[r][i] = f
          PROVE  Covered(f)'
      <4>1. CASE r = s
        BY <1>2, <2>3, <3>1, <4>1
      <4>2. CASE r # s
        <5>1. active'[r] = active[r]
          BY <1>3, <4>2
        <5> QED BY <3>1, <5>1 DEF Covered
      <4> QED BY <4>1, <4>2
    <3>2. ASSUME NEW id \in DOMAIN files, NEW i \in 1 .. Len(files[id].entries),
                 files[id].entries[i] = f
          PROVE  Covered(f)'
      BY <1>a, <3>2 DEF Covered
    <3>3. 1 .. Len(queue) = {}
      BY <1>a
    <3> QED BY <2>4, <3>1, <3>2, <3>3 DEF Covered
  <2>5. \A f \in seen' : f.kind # "end" => Covered(f)'
    BY <1>c, <1>3, <2>2, <2>4 DEF IInv, Complete
  <2>6. IndexIds' = IndexIds /\ index'.state = index.state /\ files' = files /\ phase' = phase
    BY <1>a DEF IndexIds, Readable
  <2>7. index.state # "garbled" /\ \A id \in DOMAIN files : id \in IndexIds
    BY <1>4 DEF IInv, Complete
  <2> QED BY <2>5, <2>6, <2>7 DEF Complete
<1> QED BY <1>11, <1>12, <1>13, <1>14, <1>16, <1>17, <1>18, <1>21, <1>22 DEF IInv

--------------------------------------------------------------------------------
(* Every step of the verifiers and of the monitor keeps the invariant. *)
LEMMA NextKeepsIInv == IInv /\ [Next]_vars => IInv'
<1> SUFFICES ASSUME IInv, [Next]_vars PROVE IInv'
  OBVIOUS
<1>1. ASSUME NEW s \in Sources, NEW kind \in Kinds, Receive(s, kind) PROVE IInv'
  BY <1>1, ReceiveKeepsIInv
<1>2. ASSUME NEW s \in Sources, NEW kind \in Kinds, Lose(s, kind) PROVE IInv'
  BY <1>2, LoseKeepsIInv
<1>3. ASSUME NEW s \in Sources, NewCircuit(s) PROVE IInv'
  BY <1>3, NewCircuitKeepsIInv
<1>4. CASE Writing
  BY <1>4, WriteFileKeepsIInv, WriteFileFailsKeepsIInv, WriteIndexKeepsIInv,
     WriteIndexFailsKeepsIInv DEF Writing
<1>5. CASE Stop
  BY <1>5, StopKeepsIInv
<1>6. CASE UNCHANGED vars
  <2>1. /\ UNCHANGED <<gen, logged, seen, active, queue, phase, files, index, faults>>
    BY <1>6 DEF vars
  <2>2. gen' \in GenType /\ logged' \in 0 .. MaxEntries
    BY <2>1 DEF IInv, TypeOK, GenType
  <2>3. \A r \in Sources : gen[r].hb \in Int
    BY DEF IInv, TypeOK
  <2>4. Onward
    BY <2>1, <2>3 DEF Onward
  <2> QED BY <2>1, <2>2, <2>4, UnnoticedKeepsIInv
<1> QED BY <1>1, <1>2, <1>3, <1>4, <1>5, <1>6 DEF Next, Idle

(* The invariant holds in every state of every behaviour. *)
THEOREM Inductive == Spec => []IInv
  BY InitIInv, NextKeepsIInv, PTL DEF Spec

(* What process_entry, write_session and a restart leave behind has its types:
   a session file is cut short or holds a session, an index entry names one. *)
THEOREM TypeCorrect == Spec => []TypeOK
<1>1. IInv => TypeOK
  BY DEF IInv
<1> QED BY <1>1, Inductive, PTL

(* verify_session_integrity answers true for every session index.json lists,
   whatever writes failed and whenever the monitor was stopped. *)
THEOREM ListedHolds == Spec => []ListedIsIntact
<1>1. ASSUME IInv, NEW id \in IndexIds PROVE VerifySessionIntegrity(id)
  <2>1. Readable /\ index.list \in Seq([id : Entries, file_hash : CompletedSessions])
    BY <1>1 DEF IInv, IndexOK, IndexIds
  <2>2. DOMAIN index.list = 1 .. Len(index.list) /\ Len(index.list) \in Nat
    BY <2>1, LenProperties
  <2>3. PICK k \in DOMAIN index.list : index.list[k].id = id
    BY <1>1, <2>1 DEF IndexIds
  <2>4. \A j \in DOMAIN index.list : index.list[j].id = id => j = k
    BY <1>1, <2>1, <2>2, <2>3 DEF IInv, IndexOK
  <2>5. \A j \in 1 .. k - 1 : j \in DOMAIN index.list /\ j # k
    BY <2>2
  <2>6. \A j \in 1 .. k - 1 : index.list[j].id # id
    BY <2>4, <2>5
  <2> DEFINE P(i) == index.list[i].id = id /\ \A j \in 1 .. i - 1 : index.list[j].id # id
             i0 == CHOOSE i \in DOMAIN index.list : P(i)
  <2>7. P(k)
    BY <2>3, <2>6
  <2> HIDE DEF P
  <2>8. i0 \in DOMAIN index.list /\ P(i0)
    BY <2>7
  <2> USE DEF P
  <2>9. i0 = k
    BY <2>4, <2>8
  <2>10. id \in DOMAIN files /\ files[id] = index.list[k].file_hash
    BY <1>1, <2>1, <2>2, <2>3 DEF IInv, IndexOK
  <2> QED BY <2>9, <2>10 DEF VerifySessionIntegrity
<1>2. IInv => ListedIsIntact
  BY <1>1 DEF ListedIsIntact
<1> QED BY <1>2, Inductive, PTL

(* A session is empty, or sound. *)
LEMMA SessionsAreSound ==
    ASSUME IInv, NEW t \in Sessions
    PROVE  t = <<>> \/ Sound(t)
<1>1. ASSUME NEW s \in Sources PROVE active[s] = <<>> \/ Sound(active[s])
  BY DEF IInv, Collecting
<1>2. ASSUME NEW id \in DOMAIN files PROVE files[id].entries = <<>> \/ Sound(files[id].entries)
  BY PartialFacts DEF IInv, FileOK, Holds
<1>3. \A q \in ToSet(queue) : Sound(q)
  <2>1. DOMAIN queue = 1 .. Len(queue)
    BY DEF IInv, TypeOK
  <2> QED BY <2>1 DEF IInv, Queued, ToSet
<1> QED BY <1>1, <1>2, <1>3 DEF Sessions

(* The tracker runs two circuits together only where the entries that would have
   told them apart did not arrive. *)
THEOREM JoinedHolds == Spec => []JoinedMeansLost
<1>1. ASSUME IInv, NEW t \in Sessions, NEW i \in 1 .. Len(t) - 1, t[i].circuit # t[i + 1].circuit
      PROVE  /\ t[i].kind = "ok"
             /\ ~ \E e \in seen : e.src = t[i].src /\ e.circuit = t[i].circuit /\ e.kind = "end"
             /\ t[i].src \in Chained => t[i + 1].hb # 1
  <2>1. t # <<>>
    OBVIOUS
  <2>2. Sound(t)
    BY <1>1, <2>1, SessionsAreSound
  <2> QED BY <1>1, <2>2 DEF Sound
<1>2. IInv => JoinedMeansLost
  BY <1>1 DEF JoinedMeansLost
<1> QED BY <1>2, Inductive, PTL

(* No two places hold the same entry unless they hold the same session. *)
LEMMA SessionsApart ==
    ASSUME IInv, NEW t \in Sessions, NEW u \in Sessions, t # u
    PROVE  Apart(t, u)
<1>0. DOMAIN queue = 1 .. Len(queue)
  BY DEF IInv, TypeOK
<1>1. ASSUME NEW r \in Sources, NEW s \in Sources, r # s PROVE Apart(active[r], active[s])
  <2>1. \A i \in 1 .. Len(active[r]) : active[r][i].src = r
    BY DEF IInv, Collecting
  <2>2. \A i \in 1 .. Len(active[s]) : active[s][i].src = s
    BY DEF IInv, Collecting
  <2> QED BY <1>1, <2>1, <2>2 DEF Apart
<1>2. ASSUME NEW i \in 1 .. Len(queue), NEW id \in DOMAIN files
      PROVE  queue[i] = files[id].entries \/ Apart(queue[i], files[id].entries)
  <2>1. CASE i = 1 /\ phase = "index" /\ id = queue[1][1]
    <3>1. queue # <<>> /\ files[id] = Completed(queue[1])
      BY <2>1 DEF IInv, Written
    <3> QED BY <2>1, <3>1 DEF Completed
  <2>2. CASE ~(i = 1 /\ phase = "index" /\ id = queue[1][1])
    BY <2>2 DEF IInv, Disjoint
  <2> QED BY <2>1, <2>2
<1>3. CASE \E r \in Sources : t = active[r]
  BY <1>0, <1>1, <1>3, ApartSym DEF IInv, Disjoint, Sessions, ToSet
<1>4. CASE \E i \in 1 .. Len(queue) : t = queue[i]
  BY <1>0, <1>2, <1>4, ApartSym DEF IInv, Disjoint, Sessions, ToSet
<1>5. CASE \E id \in DOMAIN files : t = files[id].entries
  <2>1. PICK id \in DOMAIN files : t = files[id].entries
    BY <1>5
  <2>2. CASE \E r \in Sources : u = active[r]
    BY <2>1, <2>2, ApartSym DEF IInv, Disjoint
  <2>3. CASE \E i \in 1 .. Len(queue) : u = queue[i]
    BY <1>2, <2>1, <2>3, ApartSym
  <2>4. CASE \E a \in DOMAIN files : u = files[a].entries
    BY <2>1, <2>4 DEF IInv, Disjoint
  <2> QED BY <1>0, <2>2, <2>3, <2>4 DEF Sessions, ToSet
<1> QED BY <1>0, <1>3, <1>4, <1>5 DEF Sessions, ToSet

(* Each round is counted into one session, what a stored session says of its
   authorization is what arrived, and while nothing fails nothing is missing. *)
THEOREM RoundsHold == Spec => []RoundsCountOnce
<1>a. \A S : \A t \in Seq(S) : DOMAIN t = 1 .. Len(t)
  BY LenProperties
<1>1. ASSUME IInv, NEW t \in Sessions PROVE DOMAIN t = 1 .. Len(t)
  <2>1. t \in Seq(Entries)
    BY <1>1, SessionsAreSound, EmptySeq DEF Sound
  <2> QED BY <1>a, <2>1
<1>2. ASSUME IInv, NEW t \in Sessions, NEW u \in Sessions, t # u
      PROVE  ToSet(t) \cap ToSet(u) = {}
  <2>1. Apart(t, u)
    BY <1>2, SessionsApart
  <2>2. DOMAIN t = 1 .. Len(t) /\ DOMAIN u = 1 .. Len(u)
    BY <1>1, <1>2
  <2> QED BY <2>1, <2>2 DEF Apart, ToSet
<1>3. ASSUME IInv, NEW id \in DOMAIN files, files[id] # Partial
      PROVE  files[id].all_authorized <=>
               ~ \E e \in seen : /\ e.kind = "fail" /\ e.src = id.src
                                 /\ \E f \in ToSet(files[id].entries) : f.circuit = e.circuit
  <2>1. PICK t : t = files[id].entries
    OBVIOUS
  <2>2. Sound(t) /\ files[id] = Completed(t) /\ t[1] = id
    BY <1>3, <2>1 DEF IInv, FileOK, Holds
  <2>3. DOMAIN t = 1 .. Len(t)
    BY <1>a, <2>2 DEF Sound
  <2>4. files[id].all_authorized <=> \A i \in 1 .. Len(t) : t[i].kind # "fail"
    BY <2>2, <2>3 DEF Completed
  <2>5. (\E e \in seen : /\ e.kind = "fail" /\ e.src = id.src
                         /\ \E f \in ToSet(t) : f.circuit = e.circuit)
           <=> \E i \in 1 .. Len(t) : t[i].kind = "fail"
    <3>1. ASSUME NEW e \in seen, e.kind = "fail", e.src = id.src,
                 NEW f \in ToSet(t), f.circuit = e.circuit
          PROVE  \E i \in 1 .. Len(t) : t[i].kind = "fail"
      <4>1. PICK i \in 1 .. Len(t) : f = t[i]
        BY <2>3 DEF ToSet
      <4>2. PICK j \in 1 .. Len(t) : t[j] = e
        BY <2>2, <3>1, <4>1 DEF Sound
      <4> QED BY <3>1, <4>2
    <3>2. ASSUME NEW i \in 1 .. Len(t), t[i].kind = "fail"
          PROVE  /\ t[i] \in seen /\ t[i].src = id.src /\ t[i] \in ToSet(t)
      BY <2>2, <2>3 DEF Sound, ToSet
    <3> QED BY <3>1, <3>2
  <2> QED BY <2>1, <2>4, <2>5
<1>4. ASSUME IInv, faults = 0, NEW e \in seen, e.kind # "end"
      PROVE  \E t \in Sessions : e \in ToSet(t)
  <2>1. Covered(e)
    BY <1>4 DEF IInv, Complete
  <2>2. DOMAIN queue = 1 .. Len(queue)
    BY <1>4 DEF IInv, TypeOK
  <2>3. PICK t \in Sessions : \E i \in 1 .. Len(t) : t[i] = e
    BY <2>1, <2>2 DEF Covered, Sessions, ToSet
  <2>4. DOMAIN t = 1 .. Len(t)
    BY <1>1, <1>4
  <2> QED BY <2>3, <2>4 DEF ToSet
<1>5. ASSUME IInv, faults = 0, NEW id \in DOMAIN files
      PROVE  id \in IndexIds \/ (queue # <<>> /\ SessionId(Head(queue)) = id)
  <2>1. CASE id \in IndexIds
    BY <2>1
  <2>2. CASE phase = "index" /\ id = queue[1][1]
    <3>1. queue # <<>>
      BY <1>5, <2>2 DEF IInv, Written
    <3> QED BY <1>5, <2>2, <3>1, HeadOfQueue
  <2> QED BY <1>5, <2>1, <2>2 DEF IInv, Complete
<1>6. IInv => RoundsCountOnce
  BY <1>2, <1>3, <1>4, <1>5 DEF RoundsCountOnce
<1> QED BY <1>6, Inductive, PTL
================================================================================
