--------------------------- MODULE AttestationProofs ---------------------------
(******************************************************************************)
(* Proofs about Attestation: what the verdict of a round says of the node's   *)
(* log and of its BPF monitor, for any line set, any thresholds and any       *)
(* bounds.                                                                    *)
(*                                                                            *)
(* The properties of a verdict compare the quote with the tracker, and the    *)
(* tracker was written rounds ago. Tracked carries that across the steps of   *)
(* the node: what the tracker holds is a prefix of the log, and its counter   *)
(* is ordered against the monitor's, unless the history names the step that   *)
(* broke it.                                                                  *)
(******************************************************************************)
EXTENDS Attestation, SequenceTheorems, TLAPS

(* A text is a sequence of lines. *)
LEMMA TextIsSeq ==
    ASSUME NEW t \in Texts
    PROVE  t \in Seq(Lines) /\ Len(t) \in 0 .. MaxLog
  <1>1. PICK n \in 0 .. MaxLog : t \in [1 .. n -> Lines]
    BY DEF Texts
  <1>2. n \in Nat
    BY <1>1, AttestationAssumption
  <1>3. t \in Seq(Lines) /\ Len(t) = n
    BY <1>1, <1>2
  <1> QED BY <1>1, <1>3

(* The empty log is a text. *)
LEMMA NoLines == <<>> \in Texts
  <1>1. <<>> = [i \in 1 .. 0 |-> "none"] /\ 0 \in 0 .. MaxLog
    BY AttestationAssumption
  <1>2. <<>> \in [1 .. 0 -> Lines]
    BY <1>1
  <1> QED BY <1>1, <1>2 DEF Texts

(* Any sequence of lines that is short enough is a text. *)
LEMMA SeqIsText ==
    ASSUME NEW t \in Seq(Lines), Len(t) <= MaxLog
    PROVE  t \in Texts
  <1>1. Len(t) \in 0 .. MaxLog /\ t \in [1 .. Len(t) -> Lines]
    BY AttestationAssumption, LenProperties
  <1> QED BY <1>1 DEF Texts

(* IsPrefix, index by index. *)
LEMMA PrefixPoints ==
    ASSUME NEW S, NEW s \in Seq(S), NEW t \in Seq(S)
    PROVE  IsPrefix(s, t) <=> /\ Len(s) <= Len(t)
                              /\ \A i \in 1 .. Len(s) : s[i] = t[i]
  <1>1. Len(s) \in Nat /\ Len(t) \in Nat
    BY LenProperties
  <1>2. SubSeq(s, 1, Len(s)) = [i \in 1 .. Len(s) |-> s[i]]
    BY <1>1
  <1>3. SubSeq(t, 1, Len(s)) = [i \in 1 .. Len(s) |-> t[i]]
    BY <1>1
  <1> QED BY <1>1, <1>2, <1>3 DEF IsPrefix

(* Every log is a prefix of itself. *)
LEMMA PrefixReflexive ==
    ASSUME NEW S, NEW s \in Seq(S)
    PROVE  IsPrefix(s, s)
  BY PrefixPoints, LenProperties

(* A prefix of a prefix of a log is a prefix of the log: rounds add up. *)
LEMMA PrefixTransitive ==
    ASSUME NEW S, NEW s \in Seq(S), NEW t \in Seq(S), NEW u \in Seq(S),
           IsPrefix(s, t), IsPrefix(t, u)
    PROVE  IsPrefix(s, u)
  <1>1. Len(s) \in Nat /\ Len(t) \in Nat /\ Len(u) \in Nat
    BY LenProperties
  <1>2. /\ Len(s) <= Len(t) /\ \A i \in 1 .. Len(s) : s[i] = t[i]
        /\ Len(t) <= Len(u) /\ \A i \in 1 .. Len(t) : t[i] = u[i]
    BY PrefixPoints
  <1>3. Len(s) <= Len(u) /\ \A i \in 1 .. Len(s) : s[i] = u[i]
    BY <1>1, <1>2
  <1> QED BY <1>3, PrefixPoints

(* A line measured at the end of the log leaves its prefixes what they are. *)
LEMMA PrefixAppend ==
    ASSUME NEW S, NEW s \in Seq(S), NEW t \in Seq(S), NEW e \in S, IsPrefix(s, t)
    PROVE  IsPrefix(s, Append(t, e))
  <1>1. /\ Append(t, e) \in Seq(S) /\ Len(t) \in Nat /\ Len(s) \in Nat
        /\ Len(Append(t, e)) = Len(t) + 1
        /\ \A i \in 1 .. Len(t) : Append(t, e)[i] = t[i]
    BY AppendProperties, LenProperties
  <1>2. Len(s) <= Len(t) /\ \A i \in 1 .. Len(s) : s[i] = t[i]
    BY PrefixPoints
  <1> HIDE DEF IsPrefix
  <1>3. Len(s) <= Len(Append(t, e)) /\ \A i \in 1 .. Len(s) : s[i] = Append(t, e)[i]
    BY <1>1, <1>2
  <1> QED BY <1>1, <1>3, PrefixPoints

(* The first n lines of a text are s if and only if s has n lines and is a prefix. *)
LEMMA SubSeqIsPrefix ==
    ASSUME NEW S, NEW s \in Seq(S), NEW t \in Seq(S), NEW n \in Nat, n <= Len(t)
    PROVE  SubSeq(t, 1, n) = s <=> (Len(s) = n /\ IsPrefix(s, t))
  <1>1. Len(s) \in Nat /\ Len(t) \in Nat
    BY LenProperties
  <1>2. SubSeq(t, 1, n) = [i \in 1 .. n |-> t[i]] /\ Len(SubSeq(t, 1, n)) = n
    BY <1>1
  <1>3. s = [i \in 1 .. Len(s) |-> s[i]]
    BY LenProperties
  <1> QED BY <1>1, <1>2, <1>3, PrefixPoints

--------------------------------------------------------------------------------
(* What verify_attestation and the audit log make of an attestation *)

(* A node that passes a round after the first has a log that continues the one
   the trackers remember. *)
LEMMA PassedContinues ==
    ASSUME NEW att, NEW prev, prev.known, prev.count \in Nat,
           prev.text \in Seq(Lines), att.text \in Seq(Lines),
           NodeToAuditRecord(VerifyAttestation(att, prev)).pass
    PROVE  IsPrefix(prev.text, att.text)
  <1> DEFINE nr == VerifyAttestation(att, prev)
             lines == IF prev.count = 0 THEN 1 ELSE prev.count
  <1>1. nr.pcr_match /\ nr.ima_valid
    BY DEF NodeToAuditRecord
  <1>2. {<<"node", "unbaselined">>, <<"db", "unbaselined">>} \cap att.devs = {}
    BY <1>1 DEF VerifyAttestation
  <1>3. ImaAggregate(att, prev) \in {"first", "ok"}
    BY <1>1, <1>2 DEF VerifyAttestation
  <1>4. Len(att.text) >= lines /\ SubSeq(att.text, 1, lines) = prev.text
    <2>1. Len(att.text) \in Nat
      BY LenProperties
    <2> QED BY <1>3, <2>1 DEF ImaAggregate
  <1>5. lines \in Nat /\ lines <= Len(att.text)
    BY <1>4, LenProperties
  <1> HIDE DEF lines
  <1> QED BY <1>4, <1>5, SubSeqIsPrefix

(* A log that only grew, judged against a quote that read count and text of the
   same log, is called invalid only for its length or its growth. *)
LEMMA HonestIsValid ==
    ASSUME NEW att, NEW prev, prev.known, prev.count = Len(prev.text), prev.count # 0,
           prev.text \in Seq(Lines), att.text \in Seq(Lines), att.count \in Nat,
           IsPrefix(prev.text, att.text), Len(prev.text) <= att.count,
           ~ VerifyAttestation(att, prev).ima_valid
    PROVE  VerifyAttestation(att, prev).count \in {"LOW", "SPIKE", "none"}
  <1> DEFINE nr == VerifyAttestation(att, prev)
             n  == prev.count
  <1>1. n \in Nat /\ Len(att.text) \in Nat /\ n <= Len(att.text)
    BY PrefixPoints, LenProperties
  <1>2. att.text # <<>>
    BY <1>1
  <1>3. SubSeq(att.text, 1, n) = prev.text
    BY <1>1, SubSeqIsPrefix
  <1>4. ImaAggregate(att, prev) = "ok"
    BY <1>1, <1>2, <1>3 DEF ImaAggregate
  <1>5. ImaCount(att, prev) \in {"LOW", "SPIKE", "ok"}
    BY <1>1, AttestationAssumption DEF ImaCount
  <1>6. CASE {<<"node", "unbaselined">>, <<"db", "unbaselined">>} \cap att.devs = {}
    <2>1. /\ nr.count = ImaCount(att, prev)
          /\ ImaCount(att, prev) = "ok" => nr.ima_valid
      BY <1>4, <1>6 DEF VerifyAttestation
    <2> QED BY <1>5, <2>1
  <1>7. CASE {<<"node", "unbaselined">>, <<"db", "unbaselined">>} \cap att.devs # {}
    BY <1>7 DEF VerifyAttestation
  <1> QED BY <1>6, <1>7

(* What VerifyAttestation says of the monitor. *)
LEMMA SysmonCases ==
    ASSUME NEW att, NEW prev
    PROVE  LET nr == VerifyAttestation(att, prev)
           IN  /\ nr.sysmon \in {"none", "UNLOADED", "ANOMALY", "OK"}
               /\ nr.sysmon # "none" => nr.sysmon = Sysmon(att, prev)
               /\ DOMAIN nr.details = Checks
  <1> DEFINE nr == VerifyAttestation(att, prev)
  <1>1. Sysmon(att, prev) \in {"UNLOADED", "ANOMALY", "OK"}
    BY DEF Sysmon
  <1>2. nr.sysmon \in {"none", Sysmon(att, prev)}
    BY DEF VerifyAttestation
  <1>3. DOMAIN nr.details = Checks
    BY DEF VerifyAttestation
  <1> QED BY <1>1, <1>2, <1>3

(* The tier of two records is always one of the three: the search ends with a
   tier, or falls through to one. *)
LEMMA TierCases ==
    ASSUME NEW recs, DOMAIN recs = {1, 2}
    PROVE  ClassifyTier(recs) \in {"Info", "Warning", "Critical"}
  <1> DEFINE early == {i \in DOMAIN recs : EarlyTier(recs[i]) # "none"}
             least == CHOOSE i \in early : \A j \in early : i <= j
  <1>1. \A i \in {1, 2} : EarlyTier(recs[i]) \in {"none", "Warning", "Critical"}
    BY DEF EarlyTier
  <1>2. early # {} => least \in early
    <2>1. SUFFICES ASSUME early # {} PROVE \E i \in early : \A j \in early : i <= j
      OBVIOUS
    <2>2. CASE 1 \in early
      BY <2>2
    <2>3. CASE 1 \notin early
      BY <2>1, <2>3
    <2> QED BY <2>2, <2>3
  <1>3. ClassifyTier(recs) =
          IF early # {} THEN EarlyTier(recs[least])
          ELSE IF \E i \in DOMAIN recs : Warns(recs[i]) THEN "Warning" ELSE "Info"
    BY DEF ClassifyTier
  <1> HIDE DEF least
  <1> QED BY <1>1, <1>2, <1>3

--------------------------------------------------------------------------------
(* The inductive invariant *)

(* What the trackers say of the node as it is now.  As long as the log was not
   rewritten it continues the text read last, and a count read since covers
   that text; as long as the monitor was not reloaded its counter did not go
   back, and it moved exactly if there was an event. *)
Tracked ==
    tracker.known =>
        /\ ~ since.rewritten =>
              /\ IsPrefix(tracker.text, log)
              /\ counted # -1 => Len(tracker.text) <= counted
        /\ ~ since.event => sysmon.n <= tracker.sysmon.n
        /\ ~ since.reloaded => tracker.sysmon.n <= sysmon.n
        /\ since.event /\ ~ since.reloaded => tracker.sysmon.n < sysmon.n /\ sysmon.active

(* The two halves of the type invariant: the state, and the round just judged. *)
TrackerRecords == [known : {TRUE}, count : 0 .. MaxLog, text : Texts, sysmon : Monitors]

(* The node, the tracker and the history. *)
StateOK ==
    /\ log \in Texts
    /\ sysmon \in Monitors
    /\ counted \in -1 .. MaxLog
    /\ tracker = Unknown \/ tracker \in TrackerRecords
    /\ since \in [rewritten : BOOLEAN, event : BOOLEAN, reloaded : BOOLEAN]
    /\ disturbed \in 0 .. MaxDisturbed
    /\ first \in [text : Texts, passed : BOOLEAN]

(* The verdict on a round. *)
ResultOK ==
    res = NoResult \/
      /\ res.tier \in {"Info", "Warning", "Critical"}
      /\ res.forensic.made => /\ res.forensic.trigger_nodes \subseteq {1, 2}
                              /\ res.forensic.trigger_checks \subseteq {1, 2} \X Captured
      /\ \A i \in {1, 2} : DOMAIN res.nodes[i].details = Checks

(* Together they are the type invariant. *)
LEMMA TypeSplits == TypeOK <=> StateOK /\ ResultOK
  BY DEF TypeOK, StateOK, ResultOK, TrackerRecords

(* The inductive invariant. *)
IInv ==
    /\ StateOK
    /\ ResultOK
    /\ Tracked
    /\ ImaHistory
    /\ FalseAlarmIsRace
    /\ SysmonExact

(* A known tracker, field by field. *)
LEMMA TrackerFields ==
    ASSUME StateOK, tracker.known
    PROVE  /\ tracker.count \in 0 .. MaxLog /\ tracker.text \in Texts
           /\ tracker.text \in Seq(Lines)
           /\ tracker.sysmon.n \in Nat /\ tracker.sysmon.active \in BOOLEAN
  <1>1. tracker \in TrackerRecords
    BY DEF StateOK, Unknown
  <1>2. tracker.count \in 0 .. MaxLog /\ tracker.text \in Texts /\ tracker.sysmon \in Monitors
    BY <1>1 DEF TrackerRecords
  <1> QED BY <1>2, TextIsSeq, AttestationAssumption DEF Monitors

(* No round has just been judged: the properties of results hold. *)
LEMMA NoResultIsFine ==
    ASSUME res = NoResult
    PROVE  ResultOK /\ FalseAlarmIsRace /\ SysmonExact
  BY DEF ResultOK, NoResult, FalseAlarmIsRace, SysmonExact

(* A fresh circuit knows nothing and has judged nothing. *)
LEMMA InitIInv == Init => IInv
  <1> SUFFICES ASSUME Init PROVE IInv
    OBVIOUS
  <1>1. <<>> \in Texts
    BY NoLines
  <1>2. StateOK
    BY <1>1, AttestationAssumption DEF Init, StateOK, Unknown, Nothing, Monitors
  <1> QED BY <1>2, NoResultIsFine DEF Init, IInv, Tracked, ImaHistory, Unknown

(* The count of disturbances stays within its bound. *)
LEMMA DisturbType ==
    ASSUME IInv, Disturb
    PROVE  disturbed' \in 0 .. MaxDisturbed
  BY AttestationAssumption DEF IInv, StateOK, Disturb

(* IMA appends a measurement. *)
LEMMA MeasureKeepsIInv ==
    ASSUME IInv, Measure
    PROVE  IInv'
  <1>1. PICK l \in Lines : log' = Append(log, l)
    BY DEF Measure
  <1>2. /\ Len(log) < MaxLog /\ res' = NoResult
        /\ UNCHANGED <<sysmon, counted, tracker, since, first, disturbed>>
    BY DEF Measure
  <1>3. /\ log \in Seq(Lines) /\ Len(log) \in Nat
        /\ log' \in Seq(Lines) /\ Len(log') = Len(log) + 1
    BY <1>1, TextIsSeq, AppendProperties, LenProperties DEF IInv, StateOK
  <1>4. log' \in Texts
    BY <1>2, <1>3, AttestationAssumption, SeqIsText
  <1>5. StateOK'
    BY <1>2, <1>4 DEF IInv, StateOK
  <1>6. Tracked'
    <2>1. ASSUME tracker.known, ~ since.rewritten
          PROVE  IsPrefix(tracker.text, log')
      <3>1. tracker.text \in Seq(Lines)
        BY <2>1, TrackerFields DEF IInv
      <3> QED BY <1>1, <1>3, <2>1, <3>1, PrefixAppend DEF IInv, Tracked
    <2> QED BY <1>2, <2>1 DEF IInv, Tracked
  <1> QED BY <1>2, <1>5, <1>6, NoResultIsFine
        DEF IInv, ResultOK, ImaHistory, FalseAlarmIsRace, SysmonExact, NoResult

(* The IMA log is rewritten: the tracker's text need not be its prefix any
   longer, and the history says so. *)
LEMMA RewriteKeepsIInv ==
    ASSUME IInv, Rewrite
    PROVE  IInv'
  <1>1. /\ disturbed' \in 0 .. MaxDisturbed
        /\ log' \in Texts /\ since' = [since EXCEPT !.rewritten = TRUE]
        /\ res' = NoResult /\ UNCHANGED <<sysmon, counted, tracker, first>>
    BY DisturbType DEF Rewrite
  <1>2. since \in [rewritten : BOOLEAN, event : BOOLEAN, reloaded : BOOLEAN]
    BY DEF IInv, StateOK
  <1>3. since' \in [rewritten : BOOLEAN, event : BOOLEAN, reloaded : BOOLEAN]
    BY <1>1, <1>2
  <1>4. StateOK'
    BY <1>1, <1>3 DEF IInv, StateOK
  <1>5. Tracked'
    BY <1>1 DEF IInv, StateOK, Tracked
  <1> QED BY <1>1, <1>4, <1>5
        DEF IInv, ResultOK, ImaHistory, FalseAlarmIsRace, SysmonExact, NoResult

(* The BPF monitor counts an event: its counter passes the tracker's, and the
   history says so. *)
LEMMA EventKeepsIInv ==
    ASSUME IInv, Event
    PROVE  IInv'
  <1>1. /\ disturbed' \in 0 .. MaxDisturbed
        /\ sysmon.active /\ sysmon.n < MaxEvents
        /\ sysmon' = [sysmon EXCEPT !.n = @ + 1]
        /\ since' = [since EXCEPT !.event = TRUE]
        /\ res' = NoResult /\ UNCHANGED <<log, counted, tracker, first>>
    BY DisturbType DEF Event
  <1>2. since \in [rewritten : BOOLEAN, event : BOOLEAN, reloaded : BOOLEAN]
    BY DEF IInv, StateOK
  <1>3. since' \in [rewritten : BOOLEAN, event : BOOLEAN, reloaded : BOOLEAN]
    BY <1>1, <1>2
  <1>4. /\ sysmon \in Monitors /\ sysmon' \in Monitors
        /\ sysmon'.n = sysmon.n + 1 /\ sysmon'.active = sysmon.active
    <2>1. sysmon \in [active : BOOLEAN, n : 0 .. MaxEvents]
      BY DEF IInv, StateOK, Monitors
    <2>2. sysmon.n + 1 \in 0 .. MaxEvents
      BY <1>1, <2>1, AttestationAssumption
    <2> QED BY <1>1, <2>1, <2>2 DEF Monitors
  <1>5. StateOK'
    BY <1>1, <1>4, <1>3 DEF IInv, StateOK
  <1>6. Tracked'
    <2>1. tracker.known => tracker.sysmon.n \in Nat
      BY TrackerFields DEF IInv
    <2>2. sysmon.n \in Nat
      BY <1>4 DEF Monitors
    <2>3. since' \in [rewritten : BOOLEAN, event : {TRUE}, reloaded : BOOLEAN]
          /\ since'.rewritten = since.rewritten /\ since'.reloaded = since.reloaded
      BY <1>1 DEF IInv, StateOK
    <2> QED BY <1>1, <1>4, <2>1, <2>2, <2>3 DEF IInv, Tracked
  <1> QED BY <1>1, <1>5, <1>6
        DEF IInv, ResultOK, ImaHistory, FalseAlarmIsRace, SysmonExact, NoResult

(* The BPF monitor is unloaded or loaded: its counter starts again, and the
   history says so. *)
LEMMA ReloadKeepsIInv ==
    ASSUME IInv, Reload
    PROVE  IInv'
  <1>1. /\ disturbed' \in 0 .. MaxDisturbed
        /\ sysmon' = [active |-> ~ sysmon.active, n |-> 0]
        /\ since' = [since EXCEPT !.reloaded = TRUE]
        /\ res' = NoResult /\ UNCHANGED <<log, counted, tracker, first>>
    BY DisturbType DEF Reload
  <1>2. since \in [rewritten : BOOLEAN, event : BOOLEAN, reloaded : BOOLEAN]
    BY DEF IInv, StateOK
  <1>3. since' \in [rewritten : BOOLEAN, event : BOOLEAN, reloaded : BOOLEAN]
    BY <1>1, <1>2
  <1>4. sysmon' \in Monitors /\ sysmon'.n = 0
    <2>1. 0 \in 0 .. MaxEvents /\ (~ sysmon.active) \in BOOLEAN
      BY AttestationAssumption
    <2> QED BY <1>1, <2>1 DEF Monitors
  <1>5. StateOK'
    BY <1>1, <1>4, <1>3 DEF IInv, StateOK
  <1>6. Tracked'
    <2>1. tracker.known => tracker.sysmon.n \in Nat
      BY TrackerFields DEF IInv
    <2>2. since'.reloaded /\ since'.rewritten = since.rewritten
      BY <1>1 DEF IInv, StateOK
    <2> QED BY <1>1, <1>4, <2>1, <2>2 DEF IInv, Tracked
  <1> QED BY <1>1, <1>5, <1>6
        DEF IInv, ResultOK, ImaHistory, FalseAlarmIsRace, SysmonExact, NoResult

(* The count is read: it covers what the last round read, if that is still the
   beginning of the log. *)
LEMMA ReadCountKeepsIInv ==
    ASSUME IInv, ReadCount
    PROVE  IInv'
  <1>1. /\ counted' = Len(log) /\ res' = NoResult
        /\ UNCHANGED <<log, sysmon, tracker, since, first, disturbed>>
    BY DEF ReadCount
  <1>2. log \in Seq(Lines) /\ Len(log) \in 0 .. MaxLog
    BY TextIsSeq DEF IInv, StateOK
  <1>3. StateOK'
    BY <1>1, <1>2, AttestationAssumption DEF IInv, StateOK
  <1>4. Tracked'
    <2>1. ASSUME tracker.known, ~ since.rewritten
          PROVE  Len(tracker.text) <= Len(log)
      <3>1. IsPrefix(tracker.text, log)
        BY <2>1 DEF IInv, Tracked
      <3> QED BY <3>1 DEF IsPrefix
    <2> QED BY <1>1, <2>1 DEF IInv, Tracked
  <1> QED BY <1>1, <1>3, <1>4
        DEF IInv, ResultOK, ImaHistory, FalseAlarmIsRace, SysmonExact, NoResult

(* A new circuit starts with empty trackers, and with nothing to compare. *)
LEMMA NewCircuitKeepsIInv ==
    ASSUME IInv, NewCircuit
    PROVE  IInv'
  <1>1. <<>> \in Texts
    BY NoLines
  <1>2. StateOK'
    BY <1>1, AttestationAssumption DEF IInv, StateOK, NewCircuit, Unknown, Nothing
  <1> QED BY <1>2 DEF IInv, NewCircuit, Unknown, ResultOK, Tracked, ImaHistory, FalseAlarmIsRace,
                      SysmonExact, NoResult

(* A round is judged: the result has what the properties ask for, and the
   trackers now remember exactly this round. *)
LEMMA VerifyKeepsIInv ==
    ASSUME IInv, NEW f, Verify(f)
    PROVE  IInv'
  <1> DEFINE att  == [count |-> counted, text |-> log, sysmon |-> sysmon, devs |-> Of(f, 1)]
             own  == VerifyAttestation(Own(Of(f, 2)), OwnBefore(Of(f, 2)))
             nr   == <<VerifyAttestation(att, tracker), own>>
             recs == [i \in {1, 2} |-> NodeToAuditRecord(nr[i])]
  <1>1. /\ counted # -1 /\ counted' = -1 /\ UNCHANGED <<log, sysmon>> /\ since' = Nothing
        /\ tracker' = [known |-> TRUE, count |-> counted, text |-> log, sysmon |-> sysmon]
        /\ res' = [done |-> TRUE, nodes |-> nr, prev |-> tracker, text |-> log,
                   since |-> since, tier |-> ClassifyTier(recs),
                   pass |-> [i \in {1, 2} |-> recs[i].pass],
                   forensic |-> Forensic(ClassifyTier(recs), recs)]
        /\ first' = IF tracker.known THEN [first EXCEPT !.passed = @ /\ recs[1].pass]
                    ELSE [text |-> log, passed |-> recs[1].pass]
    BY DEF Verify
  <1>2. disturbed' \in 0 .. MaxDisturbed
    BY DisturbType DEF Verify, IInv, StateOK
  <1>3. /\ log \in Texts /\ log \in Seq(Lines) /\ Len(log) \in Nat
        /\ counted \in Nat /\ counted \in 0 .. MaxLog
    BY <1>1, TextIsSeq, AttestationAssumption DEF IInv, StateOK
  <1>4. recs[1].pass \in BOOLEAN
    BY DEF NodeToAuditRecord
  <1>5. /\ recs[1] = NodeToAuditRecord(VerifyAttestation(att, tracker))
        /\ nr[1] = VerifyAttestation(att, tracker) /\ nr[2] = own
        /\ DOMAIN recs = {1, 2}
    OBVIOUS
  <1>6. \A i \in {1, 2} : DOMAIN nr[i].details = Checks
    BY <1>5, SysmonCases
  <1>7. nr[1].sysmon # "none" => nr[1].sysmon = Sysmon(att, tracker)
    BY <1>5, SysmonCases
  <1>8. att.text = log /\ att.count = counted /\ att.sysmon = sysmon
    OBVIOUS
  <1> HIDE DEF att, own, nr, recs
  <1>9. StateOK'
    <2>1. tracker' \in TrackerRecords
      BY <1>1, <1>3 DEF IInv, StateOK, TrackerRecords
    <2>2. since' \in [rewritten : BOOLEAN, event : BOOLEAN, reloaded : BOOLEAN]
      BY <1>1 DEF Nothing
    <2>3. first' \in [text : Texts, passed : BOOLEAN]
      BY <1>1, <1>3, <1>4 DEF IInv, StateOK
    <2>4. counted' \in -1 .. MaxLog
      BY <1>1, AttestationAssumption
    <2> QED BY <1>1, <1>2, <2>1, <2>2, <2>3, <2>4 DEF IInv, StateOK
  <1>10. ResultOK'
    <2>1. res'.tier = ClassifyTier(recs) /\ res'.nodes = nr
      BY <1>1
    <2>2. res'.tier \in {"Info", "Warning", "Critical"}
      BY <1>5, <2>1, TierCases
    <2>3. res'.forensic = Forensic(ClassifyTier(recs), recs)
      BY <1>1
    <2>4. res'.forensic.made => /\ res'.forensic.trigger_nodes \subseteq {1, 2}
                                /\ res'.forensic.trigger_checks \subseteq {1, 2} \X Captured
      BY <1>5, <2>3 DEF Forensic, BuildForensicCapture, NoCapture
    <2> QED BY <1>6, <2>1, <2>2, <2>4 DEF ResultOK
  <1>11. Tracked'
    <2>1. IsPrefix(log, log)
      BY <1>3, PrefixReflexive
    <2>2. sysmon.n \in Nat
      BY AttestationAssumption DEF IInv, StateOK, Monitors
    <2> QED BY <1>1, <2>1, <2>2 DEF Tracked, Nothing
  <1>12. ImaHistory'
    <2>1. tracker'.text = log
      BY <1>1
    <2>2. CASE ~ tracker.known
      <3>1. first'.text = log
        BY <1>1, <2>2
      <3> QED BY <1>3, <2>1, <3>1, PrefixReflexive DEF ImaHistory
    <2>3. CASE tracker.known /\ ~ (first.passed /\ recs[1].pass)
      <3>1. ~ first'.passed
        BY <1>1, <2>3 DEF IInv, StateOK
      <3> QED BY <3>1 DEF ImaHistory
    <2>4. CASE tracker.known /\ first.passed /\ recs[1].pass
      <3>1. first'.text = first.text /\ first.text \in Seq(Lines)
        BY <1>1, <2>4, TextIsSeq DEF IInv, StateOK
      <3>2. tracker.text \in Seq(Lines) /\ tracker.count \in Nat
        BY <2>4, TrackerFields, AttestationAssumption DEF IInv
      <3>3. IsPrefix(first.text, tracker.text)
        BY <2>4 DEF IInv, ImaHistory
      <3>4. IsPrefix(tracker.text, log)
        BY <1>3, <1>5, <1>8, <2>4, <3>2, PassedContinues
      <3>5. IsPrefix(first.text, log)
        BY <1>3, <3>1, <3>2, <3>3, <3>4, PrefixTransitive
      <3> QED BY <2>1, <3>1, <3>5 DEF ImaHistory
    <2> QED BY <2>2, <2>3, <2>4
  <1>13. FalseAlarmIsRace'
    <2>1. res'.prev = tracker /\ res'.since = since /\ res'.nodes = nr
      BY <1>1
    <2>2. SUFFICES ASSUME tracker.known, ~ since.rewritten, ~ nr[1].ima_valid,
                          tracker.count = Len(tracker.text), tracker.count # 0
                   PROVE  nr[1].count \in {"LOW", "SPIKE", "none"}
      BY <2>1 DEF FalseAlarmIsRace
    <2>3. tracker.text \in Seq(Lines)
      BY <2>2, TrackerFields DEF IInv
    <2>4. IsPrefix(tracker.text, log) /\ Len(tracker.text) <= counted
      BY <1>1, <2>2 DEF IInv, Tracked
    <2> QED BY <1>3, <1>5, <1>8, <2>2, <2>3, <2>4, HonestIsValid
  <1>14. SysmonExact'
    <2>1. res'.prev = tracker /\ res'.since = since /\ res'.nodes = nr
      BY <1>1
    <2>2. SUFFICES ASSUME nr[1].sysmon # "none"
                   PROVE  /\ nr[1].sysmon = "ANOMALY" => tracker.known /\ since.event
                          /\ tracker.known /\ since.event /\ ~ since.reloaded =>
                                nr[1].sysmon = "ANOMALY"
      BY <2>1 DEF SysmonExact
    <2>3. nr[1].sysmon = Sysmon(att, tracker)
      BY <1>7, <2>2
    <2>4. sysmon.n \in Nat
      BY AttestationAssumption DEF IInv, StateOK, Monitors
    <2>5. tracker.known => tracker.sysmon.n \in Nat
      BY TrackerFields DEF IInv
    <2>6. tracker.known /\ ~ since.event => ~ (sysmon.n > tracker.sysmon.n)
      BY <2>4, <2>5 DEF IInv, Tracked
    <2>7. tracker.known /\ since.event /\ ~ since.reloaded =>
            sysmon.n > tracker.sysmon.n /\ sysmon.active
      BY <2>4, <2>5 DEF IInv, Tracked
    <2> QED BY <1>8, <2>3, <2>6, <2>7 DEF Sysmon
  <1> QED BY <1>9, <1>10, <1>11, <1>12, <1>13, <1>14 DEF IInv

(* Every step of the node and of the verifier keeps the invariant. *)
THEOREM Inductive == Spec => []IInv
  <1>1. IInv /\ [Next]_vars => IInv'
    <2> SUFFICES ASSUME IInv, [Next]_vars PROVE IInv'
      OBVIOUS
    <2>1. CASE UNCHANGED vars
      <3>1. StateOK' /\ ResultOK'
        BY <2>1 DEF vars, IInv, StateOK, ResultOK
      <3>2. Tracked' /\ ImaHistory'
        BY <2>1 DEF vars, IInv, Tracked, ImaHistory
      <3>3. FalseAlarmIsRace' /\ SysmonExact'
        BY <2>1 DEF vars, IInv, FalseAlarmIsRace, SysmonExact
      <3> QED BY <3>1, <3>2, <3>3 DEF IInv
    <2>2. ASSUME NEW f \in Findings, Verify(f) PROVE IInv'
      BY <2>2, VerifyKeepsIInv
    <2> QED BY <2>1, <2>2, MeasureKeepsIInv, RewriteKeepsIInv, EventKeepsIInv, ReloadKeepsIInv,
               ReadCountKeepsIInv, NewCircuitKeepsIInv DEF Next
  <1> QED BY <1>1, InitIInv, PTL DEF Spec

(* Types, for every minimum, growth limit and log mode. *)
THEOREM TypeCorrect == Spec => []TypeOK
  <1>1. IInv => TypeOK
    BY TypeSplits DEF IInv
  <1> QED BY <1>1, Inductive, PTL

(* For logs of any length and any number of rounds, reloads and rewrites: while
   a node passes every round of a circuit, what the first round read of its IMA
   log is still the beginning of it. *)
THEOREM HistoryHolds == Spec => []ImaHistory
  <1>1. IInv => ImaHistory
    BY DEF IInv
  <1> QED BY <1>1, Inductive, PTL

(* An honest node is called tampered only after a quote that counted its log
   before a measurement and read it after, or found it empty. *)
THEOREM FalseAlarmHolds == Spec => []FalseAlarmIsRace
  <1>1. IInv => FalseAlarmIsRace
    BY DEF IInv
  <1> QED BY <1>1, Inductive, PTL

(* The BPF monitor's anomaly means events since the last round, and events mean
   an anomaly unless it was reloaded. *)
THEOREM SysmonHolds == Spec => []SysmonExact
  <1>1. IInv => SysmonExact
    BY DEF IInv
  <1> QED BY <1>1, Inductive, PTL
================================================================================
