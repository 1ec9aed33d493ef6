----------------------------- MODULE Attestation ------------------------------
(******************************************************************************)
(* How a verifier (vm2, vm3) judges the attestation of a node against its     *)
(* baseline and against the round before, and what the audit log makes of it. *)
(*                                                                            *)
(* The node's IMA log grows, or is rewritten; its BPF monitor counts events   *)
(* and may be unloaded and loaded again.  A quote reads the IMA count and the *)
(* IMA text one after the other.  Everything compared with the baseline alone *)
(* is an outcome per check: an input, of which at most MaxDeviations differ   *)
(* from "same".  The second node of a round is the verifier itself; its quote *)
(* is told by how it differs from its quote of the round before, one more     *)
(* outcome.  A hash stands for what it is taken of.                           *)
(******************************************************************************)
EXTENDS Integers, Sequences, FiniteSets, SequencesExt

CONSTANTS
    Lines,          \* what a line of the IMA log can be
    MinCount,       \* a log with fewer lines is too short (200 in the code)
    MaxDelta,       \* lines it may grow by in a round (20)
    LogMode,        \* the audit log's mode: 1, 2 or 3
    MaxLog,         \* bound: lines of the IMA log
    MaxEvents,      \* bound: events the BPF monitor counts
    MaxDeviations,  \* bound: checks of a round that do not come out the same
    MaxDisturbed    \* bound: rewrites, events, reloads and deviating rounds

ASSUME AttestationAssumption ==
    /\ MinCount \in Nat /\ MaxDelta \in Nat /\ LogMode \in 1 .. 3
    /\ MaxLog \in Nat /\ MaxEvents \in Nat
    /\ MaxDeviations \in Nat /\ MaxDisturbed \in Nat

VARIABLES
    log,        \* ascii_runtime_measurements
    sysmon,     \* the BPF monitor: loaded or not, and its counter
    counted,    \* the count a quote under way has read, -1 if none
    tracker,    \* ima_tracker, ima_agg_tracker and sysmon_tracker of the circuit:
                \* the node's entries; the verifier's are written in the same step
    since,      \* history: what happened since the tracker was last written
    first,      \* history: the log as the circuit's first round read it, and
                \* whether the node passed every round since
    disturbed,  \* how often the quiet course of things was disturbed
    res         \* the round just judged, NoResult after any other step

vars == <<log, sysmon, counted, tracker, since, first, disturbed, res>>

--------------------------------------------------------------------------------
(* The checks that compare something with the baseline ... *)
Manifests   == {"userspace", "kthreads"}
Startup     == {"init"}
Accounts    == {"passwd", "ssh"}
Platform    == {"boot", "dev"}
Connections == {"conn"}
Binaries    == {"bin", "bindir"}
Settings    == {"ports", "mnt", "cfg", "sys"}
Firewall    == {"fw"}

Compared == Manifests \cup Startup \cup Accounts \cup Platform \cup Connections
              \cup Binaries \cup Settings \cup Firewall

(* ... and those that need no baseline. *)
Intruders == {"masquerade", "modules"}
Kernel    == {"fd", "kern"}
Filter    == {"xdp"}
Preload   == {"preload"}

Probed == Intruders \cup Kernel \cup Filter \cup Preload
Checks == Compared \cup Probed

(* The checks a forensic capture names: those of the quote itself, and the others
   but for four. *)
Captured == {"pcr", "ak", "sig", "ima"} \cup (Checks \ {"fd", "kern", "init", "bindir"})

(* What can be other than expected.  Either side of a comparison may be absent;
   a quote may be unsigned, and checking its signature may fail. *)
Deviations ==
    (Compared \X {"diff", "unbaselined", "unreported", "neither"})
      \cup (Probed \X {"diff", "unreported"})
      \cup {<<"pcr", "diff">>, <<"ak", "diff">>, <<"ak", "unreported">>,
            <<"ak", "unbaselined">>, <<"sig", "diff">>, <<"sig", "unreported">>,
            <<"sig", "error">>}
      \cup {<<"ebpf", "unbaselined">>, <<"node", "unbaselined">>, <<"db", "unbaselined">>}

(* How the verifier's own IMA log and BPF monitor can differ from what they were
   in its quote of the round before; those of the node are variables. *)
OwnDeviations == ({"ima"} \X {"diff", "fewer", "more"}) \cup ({"sysmon"} \X {"diff", "unreported"})

(* The deviations of a round, at most one per check of the node (1) and of the
   verifier (2). *)
Findings ==
    LET All == ({1} \X Deviations) \cup ({2} \X (Deviations \cup OwnDeviations))
    IN  {f \in {ToSet(q) : q \in UNION {[1 .. k -> All] : k \in 0 .. MaxDeviations}} :
            \A d, e \in f : d[1] = e[1] /\ d[2][1] = e[2][1] => d = e}

(* The deviations of one of the two. *)
Of(f, who) == {d[2] : d \in {d \in f : d[1] = who}}

Texts == UNION {[1 .. n -> Lines] : n \in 0 .. MaxLog}
Monitors == [active : BOOLEAN, n : 0 .. MaxEvents]
Unknown == [known |-> FALSE]
NoResult == [done |-> FALSE]

TypeOK ==
    /\ log \in Texts
    /\ sysmon \in Monitors
    /\ counted \in -1 .. MaxLog
    /\ tracker = Unknown \/ tracker \in [known : {TRUE}, count : 0 .. MaxLog, text : Texts,
                                         sysmon : Monitors]
    /\ since \in [rewritten : BOOLEAN, event : BOOLEAN, reloaded : BOOLEAN]
    /\ disturbed \in 0 .. MaxDisturbed
    /\ first \in [text : Texts, passed : BOOLEAN]
    /\ res = NoResult \/
         /\ res.tier \in {"Info", "Warning", "Critical"}
         /\ res.forensic.made => /\ res.forensic.trigger_nodes \subseteq {1, 2}
                                 /\ res.forensic.trigger_checks \subseteq {1, 2} \X Captured
         /\ \A i \in {1, 2} : DOMAIN res.nodes[i].details = Checks

Nothing == [rewritten |-> FALSE, event |-> FALSE, reloaded |-> FALSE]

Init ==
    /\ log \in {t \in Texts : Len(t) = MinCount}
    /\ sysmon = [active |-> TRUE, n |-> 0]
    /\ counted = -1
    /\ tracker = Unknown
    /\ since = Nothing
    /\ first = [text |-> <<>>, passed |-> TRUE]
    /\ disturbed = 0
    /\ res = NoResult

Disturb == disturbed < MaxDisturbed /\ disturbed' = disturbed + 1

--------------------------------------------------------------------------------
(* The node.  IMA appends a measurement; the log may also be cut or replaced. *)
Measure ==
    /\ Len(log) < MaxLog
    /\ \E l \in Lines : log' = Append(log, l)
    /\ res' = NoResult
    /\ UNCHANGED <<sysmon, counted, tracker, since, first, disturbed>>

Rewrite ==
    /\ Disturb
    /\ log' \in Texts \ {log}
    /\ since' = [since EXCEPT !.rewritten = TRUE]
    /\ res' = NoResult
    /\ UNCHANGED <<sysmon, counted, tracker, first>>

(* An execve, ptrace, mount, unauthorised connect or exotic socket. *)
Event ==
    /\ Disturb
    /\ sysmon.active /\ sysmon.n < MaxEvents
    /\ sysmon' = [sysmon EXCEPT !.n = @ + 1]
    /\ since' = [since EXCEPT !.event = TRUE]
    /\ res' = NoResult
    /\ UNCHANGED <<log, counted, tracker, first>>

(* Its counters are zero when it is loaded again, and read as zero before. *)
Reload ==
    /\ Disturb
    /\ sysmon' = [active |-> ~ sysmon.active, n |-> 0]
    /\ since' = [since EXCEPT !.reloaded = TRUE]
    /\ res' = NoResult
    /\ UNCHANGED <<log, counted, tracker, first>>

--------------------------------------------------------------------------------
(* verify_attestation.  An attestation is the count, the text and the monitor's
   state as read, with the deviations found in the rest. *)

(* What the details say of a check. *)
Outcome(devs, c) ==
    IF c \in Checks /\ {<<"ebpf", "unbaselined">>, <<"node", "unbaselined">>,
                        <<"db", "unbaselined">>} \cap devs # {}
      THEN "neither"
      ELSE IF \E d \in devs : d[1] = c THEN (CHOOSE d \in devs : d[1] = c)[2] ELSE "same"

(* The count against the last one, and against what is expected at all. *)
ImaCount(att, prev) ==
    IF att.count < MinCount THEN "LOW"
    ELSE IF ~ prev.known THEN "first"
    ELSE IF att.count < prev.count THEN "TAMPER"
    ELSE IF att.count - prev.count > MaxDelta THEN "SPIKE"
    ELSE "ok"

(* Seeded fault: the first lines are compared by their number only. *)
ImaAggregate_lengthOnly(att, prev) ==
    IF ~ prev.known THEN "first"
    ELSE IF Len(att.text) < prev.count THEN "truncated" ELSE "ok"

(* Seeded fault: one line too few is hashed. *)
ImaAggregate_offByOne(att, prev) ==
    IF ~ prev.known THEN "first"
    ELSE IF att.text = <<>> THEN "incomplete"
    ELSE IF att.count < prev.count THEN "count_below_prev"
    ELSE IF Len(att.text) < prev.count THEN "truncated"
    ELSE IF SubSeq(att.text, 1, prev.count - 1) = prev.text THEN "ok"
    ELSE "TAMPERED"

(* The hash of as many lines as were counted last time, against the hash of the
   whole text read last time. *)
ImaAggregate(att, prev) ==
    LET lines == IF prev.count = 0 THEN 1 ELSE prev.count
    IN  IF ~ prev.known THEN "first"
        ELSE IF att.text = <<>> THEN "incomplete"
        ELSE IF att.count < prev.count THEN "count_below_prev"
        ELSE IF Len(att.text) < lines THEN "truncated"
        ELSE IF SubSeq(att.text, 1, lines) = prev.text THEN "ok"
        ELSE "TAMPERED"

(* Seeded fault: any count at all is taken for an anomaly. *)
Sysmon_absolute(att, prev) ==
    IF ~ att.sysmon.active THEN "UNLOADED"
    ELSE IF att.sysmon.n > 0 THEN "ANOMALY" ELSE "OK"

(* Counters are compared with the last ones by a subtraction that stops at
   zero; the baseline has the monitor loaded. *)
Sysmon(att, prev) ==
    IF ~ att.sysmon.active THEN "UNLOADED"
    ELSE IF prev.known /\ att.sysmon.n > prev.sysmon.n THEN "ANOMALY" ELSE "OK"

(* The quote itself: its PCRs, its key, and its signature, which counts as good
   if there is none or it cannot be checked, but not if only the key is gone. *)
PcrMatch(att) == Outcome(att.devs, "pcr") = "same"
AkMatch(att) == Outcome(att.devs, "ak") = "same"
SignatureValid(att) ==
    /\ Outcome(att.devs, "sig") # "diff"
    /\ Outcome(att.devs, "ak") = "unreported" => Outcome(att.devs, "sig") = "unreported"

VerifyAttestation(att, prev) ==
    LET known   == {<<"node", "unbaselined">>, <<"db", "unbaselined">>} \cap att.devs = {}
        db      == <<"db", "unbaselined">> \notin att.devs
        ebpf    == known /\ <<"ebpf", "unbaselined">> \notin att.devs
        count   == IF known THEN ImaCount(att, prev) ELSE "none"
        agg     == IF known THEN ImaAggregate(att, prev) ELSE "none"
    IN  [pcr_match       |-> known /\ PcrMatch(att),
         ima_valid       |-> /\ count \in {"first", "ok"} \/ (db /\ ~ known)
                             /\ agg \in {"first", "ok"} \/ (db /\ ~ known),
         ebpf_valid      |-> db,                \* "DEMO MODE": no check clears it
         signature_valid |-> db /\ (known => SignatureValid(att)),
         ak_match        |-> db /\ (known => AkMatch(att)),
         count           |-> count,
         agg             |-> agg,
         sysmon          |-> IF ebpf THEN Sysmon(att, prev) ELSE "none",
         details         |-> [c \in Checks |-> Outcome(att.devs, c)]]

--------------------------------------------------------------------------------
(* The audit log's view of a result. *)
Affirmed == {"fw", "bin", "mnt", "cfg", "sys", "xdp", "fd", "kern", "init"}
Comparable == {"userspace", "kthreads", "conn"}

(* node_to_audit_record looks for a word in the details: some checks must have
   said OK, others must only not have said CHANGED. *)
RecordOk(c, outcome) ==
    IF c \in Affirmed THEN outcome = "same"
    ELSE IF c \in Comparable THEN outcome \in {"same", "unbaselined"}
    ELSE outcome # "diff"

NodeToAuditRecord(nr) ==
    [pass            |-> /\ nr.pcr_match /\ nr.ima_valid /\ nr.ebpf_valid
                         /\ nr.signature_valid /\ nr.ak_match,
     pcr_match       |-> nr.pcr_match,
     ak_match        |-> nr.ak_match,
     sig_valid       |-> nr.signature_valid,
     ima_valid       |-> nr.ima_valid,
     shrunk          |-> nr.count = "TAMPER",           \* ima_delta < 0
     anomaly         |-> nr.sysmon = "ANOMALY",
     unloaded        |-> nr.sysmon = "UNLOADED",
     ok              |-> [c \in Checks |-> RecordOk(c, nr.details[c])]]

AllOk(n, checks) == \A c \in checks : n.ok[c]

FullyOk(n) ==
    /\ n.pass /\ ~ n.anomaly /\ ~ n.unloaded
    /\ AllOk(n, {"fw", "passwd", "ssh", "preload", "boot", "dev", "mnt", "cfg", "sys",
                 "init", "xdp", "fd", "kern", "userspace", "conn", "ports"})

(* The tier classify_tier returns from within its loop, in the order of its
   tests, or none. *)
EarlyTier(n) ==
    IF FullyOk(n) THEN "none"
    ELSE IF \/ ~ n.pcr_match \/ ~ n.ak_match \/ n.unloaded
            \/ ~ AllOk(n, {"bin", "fw", "sys", "masquerade", "modules", "xdp"}) THEN "Critical"
    ELSE IF n.anomaly \/ ~ n.ok["fd"] THEN "Warning"
    ELSE IF \/ ~ AllOk(n, {"kern", "init", "preload", "passwd", "ssh", "boot"})
            \/ ~ n.ima_valid /\ n.shrunk THEN "Critical"
    ELSE "none"

(* What makes it go on with a warning. *)
Warns(n) ==
    /\ ~ FullyOk(n)
    /\ ~ n.ima_valid \/ ~ AllOk(n, {"userspace", "kthreads", "conn", "mnt", "cfg", "ports", "dev"})

(* Seeded fault: the search ends with the first node. *)
ClassifyTier_firstNode(nodes) == EarlyTier(nodes[1])

ClassifyTier(nodes) ==
    LET early == {i \in DOMAIN nodes : EarlyTier(nodes[i]) # "none"}
    IN  IF early # {} THEN EarlyTier(nodes[CHOOSE i \in early : \A j \in early : i <= j])
        ELSE IF \E i \in DOMAIN nodes : Warns(nodes[i]) THEN "Warning" ELSE "Info"

NoCapture == [made |-> FALSE]

(* What a capture has to say of a check of a node. *)
Holds(n, c) ==
    CASE c = "pcr" -> n.pcr_match
      [] c = "ak"  -> n.ak_match
      [] c = "sig" -> n.sig_valid
      [] c = "ima" -> n.ima_valid
      [] OTHER     -> n.ok[c]

(* A capture names the nodes that do not pass and what is wrong with them; the
   checks that do not enter `pass` may leave it without any. *)
BuildForensicCapture(tier, nodes) ==
    LET triggers == {i \in DOMAIN nodes : ~ nodes[i].pass}
    IN  IF tier = "Info" THEN NoCapture
        ELSE [made |-> TRUE, trigger_nodes |-> triggers,
              trigger_checks |-> {x \in triggers \X Captured : ~ Holds(nodes[x[1]], x[2])}]

(* Whether the audit entry carries one. *)
Forensic(tier, nodes) ==
    IF LogMode = 1 THEN NoCapture ELSE BuildForensicCapture(tier, nodes)

--------------------------------------------------------------------------------
(* read_ima_measurements reads the count first. *)
ReadCount ==
    /\ counted = -1
    /\ counted' = Len(log)
    /\ res' = NoResult
    /\ UNCHANGED <<log, sysmon, tracker, since, first, disturbed>>

(* The verifier's own quote, and what its trackers hold of the round before, if
   there was one in this circuit: they differ as its deviations say. *)
Own(devs) ==
    LET n == IF Outcome(devs, "ima") = "more" THEN MinCount + MaxDelta + 1 ELSE MinCount
    IN  [count |-> n, text |-> [i \in 1 .. n |-> "self"], devs |-> devs,
         sysmon |-> [active |-> Outcome(devs, "sysmon") # "unreported",
                     n      |-> IF Outcome(devs, "sysmon") = "diff" THEN 1 ELSE 0]]

OwnBefore(devs) ==
    LET n == IF Outcome(devs, "ima") = "fewer" THEN MinCount + 1 ELSE MinCount
    IN  IF ~ tracker.known THEN Unknown
        ELSE [known |-> TRUE, count |-> n, sysmon |-> [active |-> TRUE, n |-> 0],
              text |-> [i \in 1 .. n |-> IF Outcome(devs, "ima") = "diff" THEN "other" ELSE "self"]]

(* The rest of the quote is taken and judged, and the verifier's own quote after
   it, the trackers take the new values whatever the result, and the round is
   logged. *)
Verify(f) ==
    LET att  == [count |-> counted, text |-> log, sysmon |-> sysmon, devs |-> Of(f, 1)]
        nr   == <<VerifyAttestation(att, tracker),
                  VerifyAttestation(Own(Of(f, 2)), OwnBefore(Of(f, 2)))>>
        recs == [i \in {1, 2} |-> NodeToAuditRecord(nr[i])]
    IN  /\ counted # -1
        /\ IF f = {} THEN UNCHANGED disturbed ELSE Disturb
        /\ res' = [done |-> TRUE, nodes |-> nr, prev |-> tracker, text |-> log,
                   since |-> since, tier |-> ClassifyTier(recs),
                   pass |-> [i \in {1, 2} |-> recs[i].pass],
                   forensic |-> Forensic(ClassifyTier(recs), recs)]
        /\ tracker' = [known |-> TRUE, count |-> counted, text |-> log, sysmon |-> sysmon]
        /\ since' = Nothing
        /\ first' = IF tracker.known THEN [first EXCEPT !.passed = @ /\ recs[1].pass]
                    ELSE [text |-> log, passed |-> recs[1].pass]
        /\ counted' = -1
        /\ UNCHANGED <<log, sysmon>>

(* A new circuit starts with empty trackers. *)
NewCircuit ==
    /\ tracker.known
    /\ tracker' = Unknown
    /\ counted' = -1
    /\ since' = Nothing
    /\ first' = [text |-> <<>>, passed |-> TRUE]
    /\ res' = NoResult
    /\ UNCHANGED <<log, sysmon, disturbed>>

Next ==
    \/ Measure \/ Rewrite \/ Event \/ Reload
    \/ ReadCount \/ NewCircuit
    \/ \E f \in Findings : Verify(f)

Spec == Init /\ [][Next]_vars

--------------------------------------------------------------------------------
(* While a node passes every round of a circuit, its log only ever grew: what
   the first round read is still its beginning. *)
ImaHistory == tracker.known /\ first.passed => IsPrefix(first.text, tracker.text)

(* A round that finds the log of an honest node invalid is one that found it
   too short or grown too fast, or follows one whose quote counted the log
   before a measurement and read it after, or which found it empty. *)
FalseAlarmIsRace ==
    res.done /\ res.prev.known /\ ~ res.since.rewritten /\ ~ res.nodes[1].ima_valid =>
        \/ res.nodes[1].count \in {"LOW", "SPIKE", "none"}
        \/ res.prev.count # Len(res.prev.text) \/ res.prev.count = 0

(* An anomaly is reported for events since the last round, and for all of them
   unless the monitor was reloaded meanwhile or there was no last round. *)
SysmonExact ==
    res.done /\ res.nodes[1].sysmon # "none" =>
        /\ res.nodes[1].sysmon = "ANOMALY" => res.prev.known /\ res.since.event
        /\ res.prev.known /\ res.since.event /\ ~ res.since.reloaded =>
              res.nodes[1].sysmon = "ANOMALY"

(* A preloaded library makes a round critical: verify_attestation's comment on
   that check says so, and classify_tier has a test for it, which a warning for
   events or descriptors keeps it from reaching. *)
PreloadIsCritical ==
    res.done /\ (\E i \in {1, 2} : res.nodes[i].details["preload"] = "diff") => res.tier = "Critical"
================================================================================
