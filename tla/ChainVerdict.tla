------------------------------ MODULE ChainVerdict ------------------------------
(***************************************************************************)
(* What the machines of the verification chain together promise, whatever  *)
(* happens to their connections and processes.  vm1 opens circuits and     *)
(* puts numbered questions to them; the verifier vm2, the authority vm3    *)
(* and vm4 enter their verdicts in logs that only grow.  A verdict is      *)
(* about a question that was asked, each of them is entered once and in    *)
(* order, vm2 enters what vm3 entered before, vm3 says yes only if vm4     *)
(* did, nothing follows the end of a circuit, and vm1 holds a session only *)
(* if all of them said yes to its latest question.                         *)
(***************************************************************************)
EXTENDS Naturals, Sequences

CONSTANTS
    Vm2, Vm3, Vm4,   \* who judges
    Modes,           \* the configurations: "chain1", "chain2", "quorum"
    MaxRounds        \* bound: questions in a circuit

VARIABLES
    mode,      \* the configuration
    circuit,   \* circuits vm1 has opened
    round,     \* questions asked in the last of them
    client,    \* what vm1 does in it: "idle", "asking", "session"
    log        \* the entries of each judge

vars == <<mode, circuit, round, client, log>>

(* The judges whose consent a session needs. *)
Judges ==
    CASE mode = "chain1" -> {Vm2}
      [] mode = "chain2" -> {Vm2, Vm3}
      [] OTHER           -> {Vm2, Vm3, Vm4}

Positive == {"HeartbeatOk", "ChainVerified"}
Negative == {"HeartbeatFail", "ChainDenied"}

(* Entry e is a verdict on question n of circuit c: consent or not. *)
Says(e, c, n, yes) ==
    /\ e.c = c /\ e.n = n
    /\ e.event \in (IF yes THEN Positive ELSE Negative)

Consents(v, c, n) == \E k \in DOMAIN log[v] : Says(log[v][k], c, n, TRUE)

Init ==
    /\ mode \in Modes
    /\ circuit = 0
    /\ round = 0
    /\ client = "idle"
    /\ log = [v \in {Vm2, Vm3, Vm4} |-> <<>>]

Open ==
    /\ client = "idle"
    /\ circuit' = circuit + 1
    /\ round' = 0
    /\ client' = "asking"
    /\ UNCHANGED <<mode, log>>

(* The first question, or the next one of a session. *)
Ask ==
    /\ client = "session" \/ (client = "asking" /\ round = 0)
    /\ round' = round + 1
    /\ client' = "asking"
    /\ UNCHANGED <<mode, circuit, log>>

Grant ==
    /\ client = "asking"
    /\ round > 0
    /\ \A v \in Judges : Consents(v, circuit, round)
    /\ client' = "session"
    /\ UNCHANGED <<mode, circuit, round, log>>

GiveUp ==
    /\ client # "idle"
    /\ client' = "idle"
    /\ UNCHANGED <<mode, circuit, round, log>>

(* Judge v enters its verdict on question n of circuit c. *)
Judge(v, c, n, event, clean) ==
    LET yes == event \in Positive
    IN  /\ c = circuit => n <= round
        /\ \A k \in DOMAIN log[v] :
              /\ log[v][k].c <= c
              /\ log[v][k].c = c => log[v][k].event # "SessionEnded" /\ log[v][k].n < n
        /\ v = Vm2 /\ mode # "chain1" => \E k \in DOMAIN log[Vm3] :
              Says(log[Vm3][k], c, n, yes) /\ log[Vm3][k].clean = clean
        /\ v = Vm3 /\ mode = "quorum" /\ yes => Consents(Vm4, c, n)
        /\ log' = [log EXCEPT ![v] =
                     Append(@, [c |-> c, n |-> n, id |-> n, event |-> event, clean |-> clean])]
        /\ UNCHANGED <<mode, circuit, round, client>>

(* Judge v is through with circuit c, of which it judged question n last. *)
End(v, c, n) ==
    /\ \A k \in DOMAIN log[v] :
          /\ log[v][k].c <= c
          /\ log[v][k].c = c => log[v][k].event # "SessionEnded" /\ log[v][k].n <= n
    /\ \E k \in DOMAIN log[v] : log[v][k].c = c /\ log[v][k].n = n
    /\ log' = [log EXCEPT ![v] =
                 Append(@, [c |-> c, n |-> n, id |-> 0, event |-> "SessionEnded", clean |-> TRUE])]
    /\ UNCHANGED <<mode, circuit, round, client>>

Next ==
    \/ Open \/ Ask \/ Grant \/ GiveUp
    \/ \E c \in 1 .. circuit, n \in 1 .. MaxRounds :
          \/ \E v \in {Vm2, Vm3, Vm4}, event \in Positive \cup Negative, clean \in BOOLEAN :
                Judge(v, c, n, event, clean)
          \/ \E v \in {Vm2, Vm3} : End(v, c, n)

Spec == Init /\ [][Next]_vars
================================================================================
