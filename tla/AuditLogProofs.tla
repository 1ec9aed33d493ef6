----------------------------- MODULE AuditLogProofs -----------------------------
(***************************************************************************)
(* Proofs that the audit log keeps its chain, for any number of entries,   *)
(* failures and loggers.                                                   *)
(*                                                                         *)
(* The argument: hashes are fresh, so the entries of the file carry        *)
(* increasing ids, and only the last one can be the newest (Ordered).  A   *)
(* logger's prev_hash is the last line's hash, or the hash of text that is *)
(* not in the file and never will be, or genesis when there is no entry to *)
(* link to or the file could not be read (LoggerLinks).  An unterminated line belongs to a write that    *)
(* failed, so gluing to it destroys no entry that was acknowledged (OpenTail). *)
(***************************************************************************)
EXTENDS AuditLog, TLAPS

Ordered ==
    /\ \A i \in 1 .. Len(file) : file[i].id <= made /\ file[i].prev <= made
    /\ \A i \in 1 .. Len(file) - 1 : file[i].id < made

LoggerLinks ==
    logger.on =>
        /\ logger.prev <= made
        /\ logger.prev = Genesis =>
             Len(file) = 0 \/ file[Len(file)].id = 0 \/ made \in forgot
        /\ logger.prev # Genesis =>
             \/ /\ Len(file) > 0
                /\ file[Len(file)].id = logger.prev
                /\ file[Len(file)].seq = logger.seq
             \/ logger.prev \notin Readable

OpenTail ==
    open =>
        /\ Len(file) > 0
        /\ made > 0
        /\ made \notin acked
        /\ file[Len(file)].id \notin acked

Whole ==
    (1 .. made \subseteq acked /\ forgot = {}) =>
        /\ open = FALSE
        /\ logger.on => logger.seq = made /\ logger.prev = made

IInv ==
    /\ TypeOK
    /\ Ordered
    /\ LoggerLinks
    /\ OpenTail
    /\ Whole
    /\ FullChain
    /\ BreaksAreLosses
    /\ OneVictim

--------------------------------------------------------------------------------
(* Appending, on a terminated or an unterminated last line: the lines of the
   file before and after, index by index. *)
LEMMA AppendedLines ==
    ASSUME TypeOK, OpenTail, NEW text \in Line
    PROVE  /\ Appended(text) \in Seq(Line)
           /\ open => /\ Len(Appended(text)) = Len(file)
                      /\ Appended(text)[Len(file)] = Torn
                      /\ \A i \in 1 .. Len(file) - 1 : Appended(text)[i] = file[i]
           /\ ~open => /\ Len(Appended(text)) = Len(file) + 1
                       /\ Appended(text)[Len(file) + 1] = text
                       /\ \A i \in 1 .. Len(file) : Appended(text)[i] = file[i]
  <1>1. Torn \in Line
    BY DEF Torn, Line, Genesis
  <1>2. CASE open
    <2>1. Len(file) \in 1 .. Len(file) /\ file \in Seq(Line)
      BY <1>2 DEF TypeOK, OpenTail
    <2>2. Appended(text) = [file EXCEPT ![Len(file)] = Torn]
      BY <1>2 DEF Appended
    <2> QED BY <1>1, <1>2, <2>1, <2>2
  <1>3. CASE ~open
    <2>1. Appended(text) = Append(file, text) /\ file \in Seq(Line)
      BY <1>3 DEF Appended, TypeOK
    <2> QED BY <1>3, <2>1
  <1> QED BY <1>2, <1>3

(* The entry write formats is a line with a fresh hash. *)
LEMMA EntryIsLine ==
    ASSUME TypeOK
    PROVE  NextEntry \in Line /\ Torn \in Line
  BY DEF TypeOK, NextEntry, Line, Torn, Genesis

(* A new logger: what recover_chain_state reads links to the last line. *)
LEMMA NewKeepsIInv ==
    ASSUME IInv, New
    PROVE  IInv'
  <1> DEFINE n == Len(file)
  <1>1. UNCHANGED <<file, open, made, acked, forgot>> /\ logger' = recover_chain_state(file)
    BY DEF New
  <1>2. file \in Seq(Line) /\ n \in Nat /\ made \in Nat /\ (file = <<>> <=> n = 0)
    BY DEF IInv, TypeOK
  <1>3. \A i \in 1 .. n : file[i] \in Line
    BY <1>2
  <1>4. CASE file = <<>>
    <2>1. logger' = [on |-> TRUE, seq |-> 0, prev |-> 0]
      BY <1>1, <1>4 DEF recover_chain_state, Genesis
    <2>2. (1 .. made \subseteq acked /\ forgot = {}) => made = 0
      BY <1>2, <1>4 DEF IInv, FullChain
    <2>3. TypeOK'
      BY <1>1, <2>1 DEF IInv, TypeOK
    <2>4. LoggerLinks'
      BY <1>1, <1>2, <1>4, <2>1 DEF LoggerLinks, Genesis
    <2>5. Whole'
      BY <1>1, <2>1, <2>2 DEF IInv, Whole
    <2> QED BY <1>1, <2>3, <2>4, <2>5
          DEF IInv, Ordered, OpenTail, FullChain, BreaksAreLosses, OneVictim, Readable
  <1>5. CASE file # <<>> /\ file[n].id # 0
    <2>1. logger' = [on |-> TRUE, seq |-> file[n].seq, prev |-> file[n].id]
      BY <1>1, <1>5 DEF recover_chain_state
    <2>2. file[n].seq \in Nat /\ file[n].id \in Nat /\ file[n].id <= made
      BY <1>2, <1>3, <1>5 DEF IInv, Ordered, Line
    <2>3. (1 .. made \subseteq acked /\ forgot = {}) =>
            n = made /\ file[n] = [id |-> n, seq |-> n, prev |-> n - 1]
      BY <1>2, <1>5 DEF IInv, FullChain
    <2>4. TypeOK' /\ LoggerLinks' /\ Whole'
      BY <1>1, <1>2, <1>5, <2>1, <2>2, <2>3 DEF IInv, TypeOK, LoggerLinks, Whole, Genesis
    <2> QED BY <1>1, <2>4
          DEF IInv, Ordered, OpenTail, FullChain, BreaksAreLosses, OneVictim, Readable
  <1>6. CASE file # <<>> /\ file[n].id = 0
    <2>1. logger' = [on |-> TRUE, seq |-> n, prev |-> 0]
      BY <1>1, <1>6 DEF recover_chain_state, Genesis
    <2>2. ~(1 .. made \subseteq acked /\ forgot = {})
      <3>1. SUFFICES ASSUME 1 .. made \subseteq acked, forgot = {} PROVE FALSE
        OBVIOUS
      <3>2. n = made /\ \A i \in 1 .. made : file[i] = [id |-> i, seq |-> i, prev |-> i - 1]
        BY <3>1 DEF IInv, FullChain
      <3>3. n \in 1 .. made
        BY <1>2, <1>6, <3>2
      <3> QED BY <1>6, <3>2, <3>3
    <2>3. TypeOK' /\ LoggerLinks' /\ Whole'
      BY <1>1, <1>2, <1>6, <2>1, <2>2 DEF IInv, TypeOK, LoggerLinks, Whole, Genesis
    <2> QED BY <1>1, <2>3
          DEF IInv, Ordered, OpenTail, FullChain, BreaksAreLosses, OneVictim, Readable
  <1> QED BY <1>4, <1>5, <1>6

(* A new logger that could not read the file starts a second chain. *)
LEMMA NewUnreadKeepsIInv ==
    ASSUME IInv, NewUnread
    PROVE  IInv'
  <1>1. /\ UNCHANGED <<file, open, made, acked>> /\ forgot' = forgot \cup {made}
        /\ logger' = [on |-> TRUE, seq |-> 0, prev |-> 0]
    BY DEF NewUnread, recover_chain_state, Genesis
  <1>2. made \in Nat /\ forgot \subseteq 0 .. made /\ forgot' # {}
    BY <1>1 DEF IInv, TypeOK
  <1>3. TypeOK'
    BY <1>1, <1>2 DEF IInv, TypeOK
  <1>4. LoggerLinks' /\ Whole' /\ FullChain'
    BY <1>1, <1>2 DEF LoggerLinks, Whole, FullChain, Genesis
  <1>5. BreaksAreLosses'
    BY <1>1 DEF IInv, BreaksAreLosses, Readable
  <1> QED BY <1>1, <1>3, <1>4, <1>5 DEF IInv, Ordered, OpenTail, OneVictim, Readable

(* What an append does to the lines, whatever becomes of the newline. *)
LEMMA AppendKeepsLinks ==
    ASSUME IInv, Advance, NEW text \in Line, text \in {NextEntry, Torn},
           file' = Appended(text)
    PROVE  /\ file' \in Seq(Line)
           /\ Readable' \subseteq Readable \cup {made + 1}
           /\ \A k \in Readable : k \in Readable' \/ (open /\ k = file[Len(file)].id)
           /\ Ordered'
           /\ LoggerLinks'
           /\ BreaksAreLosses'
  <1> DEFINE n == Len(file)
  <1>1. /\ file \in Seq(Line) /\ n \in Nat /\ made \in Nat /\ open \in BOOLEAN
        /\ logger.seq \in Nat /\ logger.prev \in Nat /\ logger.on
        /\ logger \in [on : BOOLEAN, seq : Nat, prev : Nat]
    BY DEF IInv, TypeOK, Advance
  <1>2. /\ made' = made + 1 /\ logger' = [logger EXCEPT !.seq = @ + 1, !.prev = made + 1]
        /\ forgot' = forgot
    BY DEF Advance
  <1>3. logger'.seq = logger.seq + 1 /\ logger'.prev = made + 1
    BY <1>1, <1>2
  <1>4. TypeOK /\ OpenTail
    BY DEF IInv
  <1>5. /\ file' \in Seq(Line)
        /\ open => /\ Len(file') = n
                   /\ file'[n] = Torn
                   /\ \A i \in 1 .. n - 1 : file'[i] = file[i]
        /\ ~open => /\ Len(file') = n + 1
                    /\ file'[n + 1] = text
                    /\ \A i \in 1 .. n : file'[i] = file[i]
    BY <1>4, AppendedLines
  <1>6. \A i \in 1 .. n : file[i].id \in Nat /\ file[i].prev \in Nat
    <2>1. \A i \in 1 .. n : file[i] \in Line
      BY <1>1
    <2> QED BY <2>1 DEF Line
  <1>7. /\ Torn.id = 0 /\ Torn.prev = 0
        /\ NextEntry.id = made + 1 /\ NextEntry.prev = logger.prev
        /\ NextEntry.seq = logger.seq + 1
    BY DEF Torn, NextEntry, Genesis
  <1>8. open => n > 0
    BY <1>4 DEF OpenTail
  <1>9. \A i \in 1 .. n : file[i].id <= made /\ file[i].prev <= made
    BY DEF IInv, Ordered
  <1>10. logger.prev <= made
    BY <1>1 DEF IInv, LoggerLinks
  <1>11. Readable' \subseteq Readable \cup {made + 1}
    <2>1. SUFFICES ASSUME NEW i \in 1 .. Len(file'), file'[i].id # 0
                   PROVE  file'[i].id \in Readable \cup {made + 1}
      BY DEF Readable
    <2>2. CASE open
      <3>1. i \in 1 .. n - 1
        BY <1>1, <1>5, <1>7, <1>8, <2>1, <2>2
      <3>2. file'[i] = file[i] /\ i \in 1 .. n
        BY <1>1, <1>5, <2>2, <3>1
      <3> QED BY <2>1, <3>2 DEF Readable
    <2>3. CASE ~open /\ i \in 1 .. n
      BY <1>5, <2>1, <2>3 DEF Readable
    <2>4. CASE ~open /\ i = n + 1
      BY <1>5, <1>7, <2>1, <2>4
    <2> QED BY <1>1, <1>5, <2>2, <2>3, <2>4
  <1>12. \A k \in Readable : k \in Readable' \/ (open /\ k = file[n].id)
    <2>1. SUFFICES ASSUME NEW i \in 1 .. n, file[i].id # 0, ~(open /\ i = n)
                   PROVE  file[i].id \in Readable'
      BY DEF Readable
    <2>2. i \in 1 .. Len(file') /\ file'[i] = file[i]
      BY <1>1, <1>5, <2>1
    <2> QED BY <2>1, <2>2 DEF Readable
  <1>13. Ordered'
    <2>1. ASSUME NEW i \in 1 .. Len(file')
          PROVE  file'[i].id <= made' /\ file'[i].prev <= made'
      <3>1. CASE i \in 1 .. n /\ file'[i] = file[i]
        BY <1>1, <1>2, <1>6, <1>9, <3>1
      <3>2. CASE file'[i] = Torn
        BY <1>1, <1>2, <1>7, <3>2
      <3>3. CASE file'[i] = NextEntry
        BY <1>1, <1>2, <1>7, <1>10, <3>3
      <3>4. \/ i \in 1 .. n /\ file'[i] = file[i]
            \/ file'[i] = Torn
            \/ file'[i] = NextEntry
        BY <1>1, <1>5
      <3> QED BY <3>1, <3>2, <3>3, <3>4
    <2>2. ASSUME NEW i \in 1 .. Len(file') - 1
          PROVE  file'[i].id < made'
      <3>1. i \in 1 .. n /\ file'[i] = file[i]
        BY <1>1, <1>5
      <3> QED BY <1>1, <1>2, <1>6, <1>9, <3>1
    <2> QED BY <2>1, <2>2 DEF Ordered
  <1>14. LoggerLinks'
    <2>1. CASE open
      <3>1. \A k \in Readable' : k <= made
        <4>1. SUFFICES ASSUME NEW i \in 1 .. Len(file'), file'[i].id # 0
                       PROVE  file'[i].id <= made
          BY DEF Readable
        <4>2. i \in 1 .. n - 1 /\ file'[i] = file[i]
          BY <1>1, <1>5, <1>7, <1>8, <2>1, <4>1
        <4> QED BY <1>1, <1>9, <4>2
      <3> QED BY <1>1, <1>2, <1>3, <3>1 DEF LoggerLinks, Genesis
    <2>2. CASE ~open /\ text = NextEntry
      BY <1>1, <1>2, <1>3, <1>5, <1>7, <2>2 DEF LoggerLinks, Genesis
    <2>3. CASE ~open /\ text = Torn
      <3>1. \A k \in Readable' : k <= made
        <4>1. SUFFICES ASSUME NEW i \in 1 .. Len(file'), file'[i].id # 0
                       PROVE  file'[i].id <= made
          BY DEF Readable
        <4>2. i \in 1 .. n /\ file'[i] = file[i]
          BY <1>1, <1>5, <1>7, <2>3, <4>1
        <4> QED BY <1>9, <4>2
      <3> QED BY <1>1, <1>2, <1>3, <3>1 DEF LoggerLinks, Genesis
    <2> QED BY <2>1, <2>2, <2>3
  <1>15. BreaksAreLosses'
    <2>1. SUFFICES ASSUME NEW i \in 1 .. Len(file') - 1,
                          file'[i].id # 0, file'[i + 1].id # 0
                   PROVE  \/ /\ file'[i + 1].prev = file'[i].id
                             /\ file'[i + 1].seq = file'[i].seq + 1
                          \/ file'[i + 1].prev # 0 /\ file'[i + 1].prev \notin Readable'
                          \/ file'[i + 1].prev = 0 /\ file'[i + 1].id - 1 \in forgot
      BY <1>2 DEF BreaksAreLosses, Genesis
    <2>2. CASE i + 1 \in 1 .. n /\ ~(open /\ i + 1 = n)
      <3>1. /\ i \in 1 .. n - 1 /\ file'[i] = file[i] /\ file'[i + 1] = file[i + 1]
        <4>1. i \in Nat /\ i >= 1 /\ i + 1 <= n
          BY <1>1, <2>1, <2>2
        <4>2. CASE open
          <5>1. i \in 1 .. n - 1 /\ i + 1 \in 1 .. n - 1
            BY <1>1, <2>2, <4>1, <4>2
          <5> QED BY <1>5, <4>2, <5>1
        <4>3. CASE ~open
          <5>1. i \in 1 .. n - 1 /\ i \in 1 .. n /\ i + 1 \in 1 .. n
            BY <1>1, <4>1
          <5> QED BY <1>5, <4>3, <5>1
        <4> QED BY <1>1, <4>2, <4>3
      <3>2. \/ /\ file[i + 1].prev = file[i].id
               /\ file[i + 1].seq = file[i].seq + 1
            \/ file[i + 1].prev # 0 /\ file[i + 1].prev \notin Readable
            \/ file[i + 1].prev = 0 /\ file[i + 1].id - 1 \in forgot
        BY <2>1, <3>1 DEF IInv, BreaksAreLosses, Genesis
      <3>3. file[i + 1].prev # made + 1
        BY <1>1, <1>6, <1>9, <2>2
      <3> QED BY <1>11, <3>1, <3>2, <3>3
    <2>3. CASE ~open /\ i = n
      <3>1. /\ file'[i] = file[n] /\ file'[i + 1] = text /\ n \in 1 .. n
            /\ file[n].id # 0 /\ text = NextEntry
        BY <1>1, <1>5, <1>7, <2>1, <2>3
      <3>2. logger.prev = 0 => made \in forgot
        BY <1>1, <3>1 DEF IInv, LoggerLinks, Genesis
      <3>3. logger.prev # 0 =>
              \/ file[n].id = logger.prev /\ file[n].seq = logger.seq
              \/ logger.prev \notin Readable
        BY <1>1 DEF IInv, LoggerLinks, Genesis
      <3>4. logger.prev # made + 1
        BY <1>1, <1>10
      <3>5. NextEntry.id - 1 = made
        BY <1>1, <1>7
      <3> QED BY <1>7, <1>11, <3>1, <3>2, <3>3, <3>4, <3>5
    <2>4. CASE open /\ i + 1 = n
      BY <1>5, <1>7, <2>1, <2>4
    <2> QED BY <1>1, <1>5, <1>8, <2>1, <2>2, <2>3, <2>4
  <1> QED BY <1>5, <1>11, <1>12, <1>13, <1>14, <1>15

(* Advancing the chain in memory keeps the types, whatever the append does. *)
LEMMA AdvanceTypes ==
    ASSUME TypeOK, Advance
    PROVE  /\ logger' \in [on : BOOLEAN, seq : Nat, prev : Nat]
           /\ made' \in Nat
           /\ acked \cup {made + 1} \subseteq 1 .. made'
           /\ forgot' \subseteq 0 .. made'
  <1>1. /\ made' = made + 1 /\ logger' = [logger EXCEPT !.seq = @ + 1, !.prev = made + 1]
        /\ made \in Nat /\ acked \subseteq 1 .. made
        /\ forgot' = forgot /\ forgot \subseteq 0 .. made
        /\ logger \in [on : BOOLEAN, seq : Nat, prev : Nat]
    BY DEF TypeOK, Advance
  <1>2. logger.seq + 1 \in Nat /\ made + 1 \in Nat
    BY <1>1
  <1>3. logger' \in [on : BOOLEAN, seq : Nat, prev : Nat]
    BY <1>1, <1>2, Zenon
  <1>4. ASSUME NEW k \in acked \cup {made + 1} PROVE k \in 1 .. made'
    BY <1>1, <1>4
  <1> QED BY <1>1, <1>2, <1>3, <1>4

(* Every step of a logger, and its end, preserves the invariant. *)
LEMMA WriteOkKeepsIInv ==
    ASSUME IInv, WriteOk
    PROVE  IInv'
  <1> DEFINE n == Len(file)
  <1>1. TypeOK /\ OpenTail /\ Advance /\ file' = Appended(NextEntry) /\ open' = FALSE
        /\ acked' = acked \cup {made + 1}
    BY DEF IInv, WriteOk
  <1>2. NextEntry \in Line
    BY <1>1, EntryIsLine
  <1>3. /\ file' \in Seq(Line)
        /\ Readable' \subseteq Readable \cup {made + 1}
        /\ \A k \in Readable : k \in Readable' \/ (open /\ k = file[n].id)
        /\ Ordered' /\ LoggerLinks' /\ BreaksAreLosses'
    BY <1>1, <1>2, AppendKeepsLinks
  <1>4. /\ made' = made + 1 /\ logger' = [logger EXCEPT !.seq = @ + 1, !.prev = made + 1]
        /\ logger.on /\ made \in Nat /\ n \in Nat /\ acked \subseteq 1 .. made
        /\ logger \in [on : BOOLEAN, seq : Nat, prev : Nat] /\ forgot' = forgot
    BY <1>1 DEF Advance, TypeOK
  <1>5. TypeOK'
    BY <1>1, <1>3, AdvanceTypes DEF TypeOK
  <1>6. OpenTail'
    BY <1>1 DEF OpenTail
  <1>7. ASSUME 1 .. made' \subseteq acked'
        PROVE  1 .. made \subseteq acked
    <2>1. SUFFICES ASSUME NEW k \in 1 .. made PROVE k \in acked
      OBVIOUS
    <2>2. k \in 1 .. made' /\ k # made + 1
      BY <1>4, <2>1
    <2> QED BY <1>1, <1>7, <2>2
  <1>8. Whole'
    <2>1. SUFFICES ASSUME 1 .. made' \subseteq acked', forgot = {}
                   PROVE  logger'.seq = made + 1 /\ logger'.prev = made + 1
      BY <1>1, <1>4 DEF Whole
    <2>2. logger.seq = made
      BY <1>4, <1>7, <2>1 DEF IInv, Whole
    <2> QED BY <1>4, <2>2
  <1>9. /\ ~open => /\ Len(file') = n + 1
                    /\ file'[n + 1] = NextEntry
                    /\ \A i \in 1 .. n : file'[i] = file[i]
    BY <1>1, <1>2, AppendedLines
  <1>10. FullChain'
    <2>1. SUFFICES ASSUME 1 .. made' \subseteq acked', forgot = {}
                   PROVE  /\ Len(file') = made + 1
                          /\ \A i \in 1 .. made + 1 :
                               file'[i] = [id |-> i, seq |-> i, prev |-> i - 1]
      BY <1>4 DEF FullChain
    <2>2. 1 .. made \subseteq acked
      BY <1>7, <2>1
    <2>3. /\ ~open /\ n = made /\ logger.seq = made /\ logger.prev = made
          /\ \A i \in 1 .. made : file[i] = [id |-> i, seq |-> i, prev |-> i - 1]
      BY <1>4, <2>1, <2>2 DEF IInv, Whole, FullChain
    <2>4. file'[made + 1] = [id |-> made + 1, seq |-> made + 1, prev |-> made]
      BY <1>9, <2>3 DEF NextEntry
    <2>5. ASSUME NEW i \in 1 .. made + 1
          PROVE  file'[i] = [id |-> i, seq |-> i, prev |-> i - 1]
      <3>1. CASE i \in 1 .. made
        BY <1>9, <2>3, <3>1
      <3>2. CASE i = made + 1
        BY <1>4, <2>4, <3>2
      <3> QED BY <1>4, <3>1, <3>2
    <2> QED BY <1>4, <1>9, <2>3, <2>5
  <1>11. OneVictim'
    <2>1. SUFFICES ASSUME NEW k \in acked \cup {made + 1}
                   PROVE  k \in Readable' \/ (k > 1 /\ k - 1 \notin acked \cup {made + 1})
      BY <1>1 DEF OneVictim
    <2>2. CASE k \in acked
      <3>1. k \in Readable \/ (k > 1 /\ k - 1 \notin acked)
        BY <2>2 DEF IInv, OneVictim
      <3>2. open => file[n].id # k
        BY <1>1, <2>2 DEF OpenTail
      <3>3. k \in 1 .. made
        BY <1>4, <2>2
      <3> QED BY <1>3, <1>4, <3>1, <3>2, <3>3
    <2>3. CASE k = made + 1 /\ open
      BY <1>1, <1>4, <2>3 DEF OpenTail
    <2>4. CASE k = made + 1 /\ ~open
      <3>1. n + 1 \in 1 .. Len(file') /\ file'[n + 1].id = made + 1
        BY <1>4, <1>9, <2>4 DEF NextEntry
      <3> QED BY <1>4, <2>4, <3>1 DEF Readable
    <2> QED BY <2>2, <2>3, <2>4
  <1> QED BY <1>3, <1>5, <1>6, <1>8, <1>10, <1>11 DEF IInv

(* A write that fails without touching the file: the chain advances past an
   entry that no line will ever hold. *)
LEMMA WriteFailsKeepsIInv ==
    ASSUME IInv, WriteFails
    PROVE  IInv'
  <1>1. /\ file' = file /\ open' = open /\ acked' = acked
        /\ made' = made + 1 /\ logger' = [logger EXCEPT !.seq = @ + 1, !.prev = made + 1]
        /\ logger.on /\ forgot' = forgot
    BY DEF WriteFails, Advance
  <1>2. /\ made \in Nat /\ acked \subseteq 1 .. made
        /\ logger \in [on : BOOLEAN, seq : Nat, prev : Nat]
        /\ file \in Seq(Line)
    BY DEF IInv, TypeOK
  <1>3. made + 1 \in 1 .. made' /\ made + 1 \notin acked
    BY <1>1, <1>2
  <1>4. TypeOK'
    <2>1. TypeOK /\ Advance
      BY DEF IInv, WriteFails
    <2> QED BY <1>1, <2>1, AdvanceTypes DEF TypeOK
  <1>5. \A i \in 1 .. Len(file) : file[i].id \in Nat /\ file[i].prev \in Nat
    <2>1. \A i \in 1 .. Len(file) : file[i] \in Line
      BY <1>2
    <2> QED BY <2>1 DEF Line
  <1>6. Ordered'
    <2>1. /\ \A i \in 1 .. Len(file) : file[i].id <= made /\ file[i].prev <= made
          /\ Len(file) \in Nat
      BY <1>2 DEF IInv, Ordered
    <2>2. ASSUME NEW i \in 1 .. Len(file)
          PROVE  file[i].id < made + 1 /\ file[i].id <= made + 1 /\ file[i].prev <= made + 1
      BY <1>2, <1>5, <2>1
    <2>3. ASSUME NEW i \in 1 .. Len(file) - 1 PROVE file[i].id < made + 1
      <3>1. i \in 1 .. Len(file)
        BY <2>1
      <3> QED BY <2>2, <3>1
    <2> QED BY <1>1, <2>2, <2>3 DEF Ordered
  <1>7. made + 1 \notin Readable
    BY <1>2, <1>5 DEF IInv, Ordered, Readable
  <1>8. LoggerLinks'
    <2>1. Readable' = Readable /\ logger'.prev = made + 1
      BY <1>1, <1>2 DEF Readable
    <2> QED BY <1>1, <1>2, <1>7, <2>1 DEF LoggerLinks, Genesis
  <1>9. OpenTail'
    BY <1>1, <1>2, <1>3 DEF IInv, OpenTail
  <1>10. Whole' /\ FullChain'
    BY <1>1, <1>3 DEF Whole, FullChain
  <1>11. BreaksAreLosses' /\ OneVictim'
    BY <1>1 DEF IInv, BreaksAreLosses, OneVictim, Readable
  <1> QED BY <1>4, <1>6, <1>8, <1>9, <1>10, <1>11 DEF IInv

(* A write that leaves its line without a newline, whether all of the entry is
   there or a part: the line is not an acknowledged one. *)
LEMMA OpenWriteKeepsIInv ==
    ASSUME IInv, Advance, NEW text \in Line, text \in {NextEntry, Torn},
           file' = Appended(text), open' = TRUE, acked' = acked
    PROVE  IInv'
  <1> DEFINE n == Len(file)
  <1>1. TypeOK /\ OpenTail
    BY DEF IInv
  <1>2. /\ file' \in Seq(Line)
        /\ Readable' \subseteq Readable \cup {made + 1}
        /\ \A k \in Readable : k \in Readable' \/ (open /\ k = file[n].id)
        /\ Ordered' /\ LoggerLinks' /\ BreaksAreLosses'
    BY AppendKeepsLinks
  <1>3. /\ made' = made + 1 /\ logger' = [logger EXCEPT !.seq = @ + 1, !.prev = made + 1]
        /\ logger.on /\ made \in Nat /\ n \in Nat /\ acked \subseteq 1 .. made
        /\ logger \in [on : BOOLEAN, seq : Nat, prev : Nat] /\ open \in BOOLEAN
    BY <1>1 DEF Advance, TypeOK
  <1>4. made + 1 \in 1 .. made' /\ made + 1 \notin acked /\ 0 \notin acked
    BY <1>3
  <1>5. TypeOK'
    BY <1>1, <1>2, AdvanceTypes DEF TypeOK
  <1>6. /\ open => /\ Len(file') = n
                   /\ file'[n] = Torn
        /\ ~open => /\ Len(file') = n + 1
                    /\ file'[n + 1] = text
    BY <1>1, AppendedLines
  <1>7. Torn.id = 0 /\ NextEntry.id = made + 1
    BY DEF Torn, NextEntry
  <1>8. Len(file') > 0 /\ file'[Len(file')].id \in {0, made + 1}
    BY <1>1, <1>3, <1>6, <1>7 DEF OpenTail
  <1>9. OpenTail'
    BY <1>3, <1>4, <1>8 DEF OpenTail
  <1>10. Whole' /\ FullChain'
    BY <1>4 DEF Whole, FullChain
  <1>11. OneVictim'
    <2>1. SUFFICES ASSUME NEW k \in acked
                   PROVE  k \in Readable' \/ (k > 1 /\ k - 1 \notin acked)
      BY DEF OneVictim
    <2>2. k \in Readable \/ (k > 1 /\ k - 1 \notin acked)
      BY <2>1 DEF IInv, OneVictim
    <2>3. open => file[n].id # k
      BY <1>1, <2>1 DEF OpenTail
    <2> QED BY <1>2, <2>2, <2>3
  <1> QED BY <1>2, <1>5, <1>9, <1>10, <1>11 DEF IInv

(* The end of a circuit leaves the file alone. *)
LEMMA DropKeepsIInv ==
    ASSUME IInv, Drop
    PROVE  IInv'
  BY DEF IInv, Drop, TypeOK, Ordered, LoggerLinks, OpenTail, Whole, FullChain,
         BreaksAreLosses, OneVictim, Readable, Genesis

--------------------------------------------------------------------------------
(* The inductive invariant holds in every state that AuditLogger, its failures
   and its restarts can reach. *)
THEOREM IInvHolds == Spec => []IInv
  <1>1. Init => IInv
    <2>1. SUFFICES ASSUME Init PROVE IInv
      OBVIOUS
    <2>2. /\ file = <<>> /\ Len(file) = 0 /\ open = FALSE /\ made = 0 /\ acked = {}
          /\ forgot = {} /\ logger = [on |-> FALSE, seq |-> 0, prev |-> 0]
      BY <2>1 DEF Init, Genesis
    <2>3. file \in Seq(Line)
      BY <2>2
    <2>4. TypeOK
      BY <2>2, <2>3 DEF TypeOK
    <2>5. Ordered /\ BreaksAreLosses
      BY <2>2 DEF Ordered, BreaksAreLosses
    <2>6. LoggerLinks /\ OpenTail /\ Whole /\ FullChain /\ OneVictim
      BY <2>2 DEF LoggerLinks, OpenTail, Whole, FullChain, OneVictim
    <2> QED BY <2>4, <2>5, <2>6 DEF IInv
  <1>2. IInv /\ [Next]_vars => IInv'
    <2>1. SUFFICES ASSUME IInv, [Next]_vars PROVE IInv'
      OBVIOUS
    <2>2. CASE New
      BY <2>1, <2>2, NewKeepsIInv
    <2>3. CASE WriteOk
      BY <2>1, <2>3, WriteOkKeepsIInv
    <2>4. CASE WriteFails
      BY <2>1, <2>4, WriteFailsKeepsIInv
    <2>5. CASE WriteTorn
      <3>1. Torn \in Line
        BY <2>1, EntryIsLine DEF IInv
      <3> QED BY <2>1, <2>5, <3>1, OpenWriteKeepsIInv DEF WriteTorn
    <2>6. CASE WriteUnterminated
      <3>1. NextEntry \in Line
        BY <2>1, EntryIsLine DEF IInv
      <3> QED BY <2>1, <2>6, <3>1, OpenWriteKeepsIInv DEF WriteUnterminated
    <2>7. CASE Drop
      BY <2>1, <2>7, DropKeepsIInv
    <2>8. CASE UNCHANGED vars
      BY <2>1, <2>8 DEF vars, IInv, TypeOK, Ordered, LoggerLinks, OpenTail, Whole,
              FullChain, BreaksAreLosses, OneVictim, Readable
    <2>9. CASE NewUnread
      BY <2>1, <2>9, NewUnreadKeepsIInv
    <2> QED BY <2>1, <2>2, <2>3, <2>4, <2>5, <2>6, <2>7, <2>8, <2>9 DEF Next
  <1> QED BY <1>1, <1>2, PTL DEF Spec

(* AuditLogger keeps the types of its chain state and of the file's lines. *)
THEOREM TypeCorrect == Spec => []TypeOK
  <1>1. IInv => TypeOK
    BY DEF IInv
  <1> QED BY <1>1, IInvHolds, PTL

(* While no append and no reading has failed, audit.jsonl is the whole chain from the genesis
   hash, across any number of loggers. *)
THEOREM FullChainHolds == Spec => []FullChain
  <1>1. IInv => FullChain
    BY DEF IInv
  <1> QED BY <1>1, IInvHolds, PTL

(* A broken link between two readable neighbours means that text was lost
   between them, and a second genesis that the file could not be read:
   recover_chain_state never breaks the chain by itself. *)
THEOREM BreaksHolds == Spec => []BreaksAreLosses
  <1>1. IInv => BreaksAreLosses
    BY DEF IInv
  <1> QED BY <1>1, IInvHolds, PTL

(* A write that returned Ok is lost only if the write before it failed. *)
THEOREM OneVictimHolds == Spec => []OneVictim
  <1>1. IInv => OneVictim
    BY DEF IInv
  <1> QED BY <1>1, IInvHolds, PTL
================================================================================
