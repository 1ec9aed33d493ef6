----------------------------- MODULE DualAuthority -----------------------------
(***************************************************************************)
(* The rendezvous on vm4 between a request of vm0 (handle_vm0_attestation, *)
(* one task per connection) and operator B at the CLI (handle_vm4_cli, one *)
(* task per command).                                                      *)
(*                                                                         *)
(* The tasks share one slot, `pending`, behind a mutex.  A handler whose   *)
(* attestation exchange went well overwrites the slot with its request and *)
(* waits on a one-shot channel whose sender sits in the slot; the operator *)
(* takes the sender out and decides.  Dropping a sender closes its channel *)
(* and wakes the handler with a denial.  The wait is limited to 120 s, and *)
(* a handler that gives up empties the slot, whoever is in it.             *)
(*                                                                         *)
(* Authenticate keeps the mutex while it checks the passphrases, so it is  *)
(* two actions; everything else done under the mutex is one.  When the     *)
(* 120 s run out is left open: Expire may happen at any time.              *)
(***************************************************************************)
EXTENDS FiniteSets

CONSTANT Handlers   \* the connections vm0 opens to vm4's attestation port

VARIABLES
    loc,       \* where each handler task is
    chan,      \* the one-shot channel of each handler, seen by the receiver
    pending,   \* SharedPending: the handler whose request is in the slot, or none
    locked,    \* a CLI Authenticate holds the mutex and is checking passphrases
    answer,    \* what the handler concluded (local variable `approved`)
    reply,     \* the PreApproval that reached vm0
    granted,   \* history: requests for which the CLI answered Authorized
    refused    \* history: requests operator B denied (revoke or bad passphrase)

vars == <<loc, chan, pending, locked, answer, reply, granted, refused>>

Locations == {"idle", "exchange", "ready", "waiting", "cleanup", "deciding", "done"}
Channel   == {"none", "open", "true", "false", "closed", "dropped"}

TypeOK ==
    /\ loc \in [Handlers -> Locations]
    /\ chan \in [Handlers -> Channel]
    /\ pending \subseteq Handlers
    /\ locked \in BOOLEAN
    /\ answer \in [Handlers -> BOOLEAN]
    /\ reply \in [Handlers -> {"none", "approved", "denied"}]
    /\ granted \subseteq Handlers
    /\ refused \subseteq Handlers

Init ==
    /\ loc = [h \in Handlers |-> "idle"]
    /\ chan = [h \in Handlers |-> "none"]
    /\ pending = {}
    /\ locked = FALSE
    /\ answer = [h \in Handlers |-> FALSE]
    /\ reply = [h \in Handlers |-> "none"]
    /\ granted = {}
    /\ refused = {}

--------------------------------------------------------------------------------
(* The channels after value v is sent through the sender in the slot (a send
   whose receiver is gone is ignored), or after that sender is dropped
   (v = "closed"). *)
Resolve(v) ==
    [h \in Handlers |-> IF h \in pending /\ chan[h] = "open" THEN v ELSE chan[h]]

(* What vm0 receives if the handler's last send gets through. *)
Decision(approved) == IF approved THEN "approved" ELSE "denied"

--------------------------------------------------------------------------------
(* handle_vm0_attestation *)

(* vm0 connects; keys and attestations are exchanged. *)
Connect(h) ==
    /\ loc[h] = "idle"
    /\ loc' = [loc EXCEPT ![h] = "exchange"]
    /\ UNCHANGED <<chan, pending, locked, answer, reply, granted, refused>>

(* An exchange step failed: the task ends and vm0 sees a closed connection. *)
ExchangeError(h) ==
    /\ loc[h] = "exchange"
    /\ loc' = [loc EXCEPT ![h] = "done"]
    /\ UNCHANGED <<chan, pending, locked, answer, reply, granted, refused>>

(* Both sides are satisfied with the other's attestation, or one is not and
   the request is denied without asking the operator. *)
Exchange(h, vm0_ok, vm0_approved) ==
    /\ loc[h] = "exchange"
    /\ loc' = [loc EXCEPT ![h] = IF vm0_ok /\ vm0_approved THEN "ready" ELSE "done"]
    /\ reply' = IF vm0_ok /\ vm0_approved THEN reply
                ELSE [reply EXCEPT ![h] = "denied"]
    /\ UNCHANGED <<chan, pending, locked, answer, granted, refused>>

(* Seeded fault: the sender of the overwritten request stays alive. *)
Store_leak(h) ==
    /\ loc[h] = "ready"
    /\ ~locked
    /\ chan' = [chan EXCEPT ![h] = "open"]
    /\ pending' = {h}
    /\ loc' = [loc EXCEPT ![h] = "waiting"]
    /\ UNCHANGED <<locked, answer, reply, granted, refused>>

(* The request goes into the slot; a request already there is dropped. *)
Store(h) ==
    /\ loc[h] = "ready"
    /\ ~locked
    /\ chan' = [Resolve("closed") EXCEPT ![h] = "open"]
    /\ pending' = {h}
    /\ loc' = [loc EXCEPT ![h] = "waiting"]
    /\ UNCHANGED <<locked, answer, reply, granted, refused>>

(* Seeded fault: a closed channel counts as consent. *)
Wake_closedApproves(h) ==
    /\ loc[h] = "waiting"
    /\ chan[h] \in {"true", "false", "closed"}
    /\ answer' = [answer EXCEPT ![h] = (chan[h] # "false")]
    /\ loc' = [loc EXCEPT ![h] = "deciding"]
    /\ UNCHANGED <<chan, pending, locked, reply, granted, refused>>

(* Seeded fault: the wait does not end when the channel is closed. *)
Wake_ignoresClosed(h) ==
    /\ loc[h] = "waiting"
    /\ chan[h] \in {"true", "false"}
    /\ answer' = [answer EXCEPT ![h] = (chan[h] = "true")]
    /\ loc' = [loc EXCEPT ![h] = "deciding"]
    /\ UNCHANGED <<chan, pending, locked, reply, granted, refused>>

(* The handler wakes up: a decision, or a channel closed by a drop. *)
Wake(h) ==
    /\ loc[h] = "waiting"
    /\ chan[h] \in {"true", "false", "closed"}
    /\ answer' = [answer EXCEPT ![h] = (chan[h] = "true")]
    /\ loc' = [loc EXCEPT ![h] = "deciding"]
    /\ UNCHANGED <<chan, pending, locked, reply, granted, refused>>

(* The 120 s run out before anything is in the channel; the receiver is gone
   and the handler queues for the mutex. *)
Expire(h) ==
    /\ loc[h] = "waiting"
    /\ chan[h] = "open"
    /\ chan' = [chan EXCEPT ![h] = "dropped"]
    /\ loc' = [loc EXCEPT ![h] = "cleanup"]
    /\ UNCHANGED <<pending, locked, answer, reply, granted, refused>>

(* It empties the slot without looking whose request is in it. *)
Cleanup(h) ==
    /\ loc[h] = "cleanup"
    /\ ~locked
    /\ chan' = Resolve("closed")
    /\ pending' = {}
    /\ answer' = [answer EXCEPT ![h] = FALSE]
    /\ loc' = [loc EXCEPT ![h] = "deciding"]
    /\ UNCHANGED <<locked, reply, granted, refused>>

(* The PreApproval is sent; it is lost if vm0 has gone away meanwhile. *)
Reply(h, delivered) ==
    /\ loc[h] = "deciding"
    /\ loc' = [loc EXCEPT ![h] = "done"]
    /\ reply' = IF delivered THEN [reply EXCEPT ![h] = Decision(answer[h])] ELSE reply
    /\ UNCHANGED <<chan, pending, locked, answer, granted, refused>>

--------------------------------------------------------------------------------
(* handle_vm4_cli.  A Status, and an Authenticate or Revoke with no pending
   request, change nothing. *)

(* Authenticate finds a request and starts checking the passphrases. *)
CliAuthenticate ==
    /\ ~locked
    /\ pending # {}
    /\ locked' = TRUE
    /\ UNCHANGED <<loc, chan, pending, answer, reply, granted, refused>>

(* The passphrases are right: approve, empty the slot, answer Authorized. *)
CliApprove ==
    /\ locked
    /\ chan' = Resolve("true")
    /\ granted' = granted \cup pending
    /\ pending' = {}
    /\ locked' = FALSE
    /\ UNCHANGED <<loc, answer, reply, refused>>

(* They are wrong: deny the request and empty the slot. *)
CliFail ==
    /\ locked
    /\ chan' = Resolve("false")
    /\ refused' = refused \cup pending
    /\ pending' = {}
    /\ locked' = FALSE
    /\ UNCHANGED <<loc, answer, reply, granted>>

(* Revoke denies the request without passphrases. *)
CliRevoke ==
    /\ ~locked
    /\ pending # {}
    /\ chan' = Resolve("false")
    /\ refused' = refused \cup pending
    /\ pending' = {}
    /\ UNCHANGED <<loc, locked, answer, reply, granted>>

--------------------------------------------------------------------------------
Handler(h) ==
    \/ Connect(h)
    \/ ExchangeError(h)
    \/ \E vm0_ok, vm0_approved \in BOOLEAN : Exchange(h, vm0_ok, vm0_approved)
    \/ Store(h)
    \/ Wake(h)
    \/ Expire(h)
    \/ Cleanup(h)
    \/ \E delivered \in BOOLEAN : Reply(h, delivered)

Cli == CliAuthenticate \/ CliApprove \/ CliFail \/ CliRevoke

(* Every connection has been served: vm4 idles. *)
Idle ==
    /\ \A h \in Handlers : loc[h] = "done"
    /\ UNCHANGED vars

Next == (\E h \in Handlers : Handler(h)) \/ Cli \/ Idle

Spec == Init /\ [][Next]_vars

(* A runnable task runs, a timer fires, and a passphrase check ends; vm0 need
   not connect and the operator need not do anything. *)
Fairness ==
    /\ \A h \in Handlers :
        /\ WF_vars(Store(h))
        /\ WF_vars(Wake(h))
        /\ WF_vars(Expire(h))
        /\ WF_vars(Cleanup(h))
        /\ WF_vars(\E delivered \in BOOLEAN : Reply(h, delivered))
    /\ WF_vars(CliApprove \/ CliFail)

FairSpec == Spec /\ Fairness

--------------------------------------------------------------------------------
(* vm0 is told "approved" only for a request that operator B authenticated
   for while that very request was in the slot, and never for one that
   operator B refused: no overwrite, timeout or clean-up by another task can
   carry an approval over to the wrong handler. *)
ApprovalIsOperators ==
    \A h \in Handlers :
        reply[h] = "approved" => h \in granted /\ h \notin refused

(* A handler that still waits for a decision is the one in the slot, so the
   operator can see it and decide on it; a request that was overwritten or
   cleared has been told so. *)
UndecidedIsPending ==
    \A h \in Handlers :
        (loc[h] = "waiting" /\ chan[h] = "open") => pending = {h}

(* A request is decided once: what is in a handler's channel, or that it was
   closed or given up, never changes. *)
DecisionIsFinal ==
    [][\A h \in Handlers :
         chan[h] \notin {"none", "open"} => chan'[h] = chan[h]]_vars

(* Every request that passed the attestation exchange is answered or its
   connection ends, whatever the operator does or leaves undone. *)
EveryRequestEnds ==
    \A h \in Handlers : loc[h] = "ready" ~> loc[h] = "done"

--------------------------------------------------------------------------------
(* When the CLI tells operator B that the session is authorized, vm0 is not
   told that the same request was denied. *)
AuthorizedIsHonoured ==
    \A h \in granted : reply[h] # "denied"
================================================================================
