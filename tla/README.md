# TLA+ specifications of AbertayMFA

AbertayMFA authorizes sessions with a chain of attesting machines. An operator
at the orchestrator (vm0) authenticates, a second operator at the dual
authority (vm4) agrees, the client (vm1) receives a signed INITIATE, builds a
circuit through proxies to the verifiers (vm2 and, through a second chain,
vm3), and the session is kept alive by heartbeats until it expires, is revoked
or fails. The verifiers keep hash-chained audit logs that are forwarded to a
monitor (vm5).

All source paths below are relative to `src/mfa-agent/src/` unless they start
with `mfa-monitor/`.

## Inventory

| Component | State | Operations | Interacts with | What is hard |
|---|---|---|---|---|
| INITIATE verification, replay cache (`orchestrator/mod.rs`) | cached ids with their times | `InitiatePayload::new`, `verify_initiate`, `check_and_record`, `prune` | vm0 by message | two clocks, two clock reads, restarts |
| Dual authority, vm4 (`dual_authority/mod.rs`) | one pending request behind a mutex, a one-shot channel per handler | request of vm0, CLI authenticate / status / revoke, timeout | vm0 by connection, operator B, vm3 | concurrent requests for one slot, timeout against approval, mutex held across an await |
| Orchestrator, vm0 (`main.rs` 1389-1924) | session state, four atomics per session | CLI loop, `handle_authenticate`, `run_heartbeat_driver` | vm4, vm1, operator A | driver beside the CLI loop, revocation, TTLs that start at different times |
| Client, vm1 (`main.rs` 265-507) | the connection being served, its TTL | accept, handshake, chain, session loop | vm0, chain | one connection at a time, disconnects, TTL not watched during a heartbeat |
| Chain: circuit, proxies, ZTS vm2, DA vm3 (`main.rs` 509-1385, 2015-2205) | circuit keys, relay loops, verification counters | extend, relay, submit, verify, heartbeat | each other, vm4, audit log | one circuit at a time, no timeouts, partial failure of a two-chain verification |
| Attestation check, baselines (`protocol/mod.rs`, `tpm/mod.rs`) | baseline database (read-only), per circuit the last IMA count, IMA hash and BPF counters of each node | `read_ima_measurements`, `verify_attestation`, `classify_tier` | all verifiers, audit log | two reads of a growing log, references taken from an earlier round, order of the tests |
| Audit log (`audit/mod.rs`) | file, sequence number, previous hash | `AuditLogger::new`, `write`, `recover_chain_state` | vm2, vm3, log forwarder | failed and partial appends, restarts |
| Log forwarder (`mfa-monitor/src/bin/logfwd.rs`) | file position | tail, send, acknowledge, reconnect | audit file, monitor | lines being written, lines it cannot read, entries written while disconnected, truncation |
| Monitor (`mfa-monitor/src/bin/monitor.rs`) | per-source chain state, alerts | `handle_source`, `cross_verify_sources` | forwarders, tracker | reconnects racing the end of an old task, several lock sections per entry, writes whose failure is ignored |
| Session tracker (`mfa-monitor/src/session_tracker.rs`) | open sessions, archive, index | `process_entry`, `finalize` | monitor | sessions merged when an end is lost, crash between two files |
| XDP filter, BPF monitor (`xdp-entropy.c`, `bpf-sysmon.c`, `xdp/`, `sysmon/`) | kernel maps | per packet / per event | collectors | full maps, per-CPU indices |
| Collectors, TPM, crypto, framing, configuration, tools | none of their own | I/O and library calls | | |

## Modules

| Module | Models |
|---|---|
| `ReplayGuard` | `verify_initiate` and `ReplayCache` on vm1, the payloads vm0 signs, the clocks |
| `DualAuthority` | `handle_vm0_attestation` tasks, `handle_vm4_cli` commands, the pending slot |
| `OperatorSession` | vm0's CLI loop and heartbeat drivers, vm1's accept and session loops, their connections and timers |
| `SessionLifecycle` | what vm0 and vm1 promise together; implemented by `OperatorSession` |
| `AuditLog` | `AuditLogger`, its file, failures of appends, recovery of the chain |
| `AuthChain` | the circuits through both chains, relay loops of the proxies, rounds, verifiers vm2 and vm3, vm4's quorum, crashes and TPM errors |
| `ChainVerdict` | what the machines of the chain promise together; implemented by `AuthChain` |
| `Attestation` | `verify_attestation` with the trackers of a circuit, the reads of a quote, `node_to_audit_record`, `classify_tier`, forensic captures |
| `LogForward` | `FileTailer` and the forwarder's loop, `handle_source` tasks on the monitor's shared state, `cross_verify_sources` |
| `SessionTracker` | `SessionTracker` on vm5: sessions in memory, session files and index on disk |
| `ReplayGuardProofs`, `DualAuthorityProofs`, `AuditLogProofs`, `OperatorSessionProofs`, `AttestationProofs`, `LogForwardProofs`, `SessionTrackerProofs`, `AuthChainProofs` | the theorems |
| `MCReplayGuard`, `MCOperatorSession`, `MCLogForward` | constants of the TLC runs |

Operators called "Seeded fault" are variants of the definition that follows
them, each with one plausible mistake. Nothing in a specification uses them;
they document what each property would catch (PROJECT.json, "mutants").

### ReplayGuard

`now` is vm1's clock; `issued` holds the INITIATEs vm0 signed, which may reach
vm1 any number of times; `seen` is the cache. `verify_initiate` and
`check_and_record` read the clock separately with an RSA verification between
them, so `VerifyOk` moves a payload to `checking` and `Accept` or
`RejectReplay` look it up with a later reading. All the reasons other than the
timestamp for which `verify_initiate` rejects a payload are the value `fault`;
the AK comparison stands apart because vm1 skips it if no key is configured.
`accepted` is a history of acceptances with the incarnation (`boot`) of vm1.
vm1's clock is assumed not to be set back.

### DualAuthority

A handler passes through `idle`, `exchange`, `ready`, `waiting` and, when its
wait times out, `cleanup`, then `deciding` and `done`. `pending` is the slot
(at most one handler), `chan` the state of each one-shot channel as its
receiver sees it: `open` while the sender is in the slot, a value once sent,
`closed` once the sender was dropped without sending, `dropped` once the
receiver gave up. `locked` is the mutex while a CLI `Authenticate` awaits
`validate_operator` under it; the other critical sections contain no await and
are single actions. Because tokio's `timeout` polls the channel first, `Expire`
needs an empty channel.

### OperatorSession and SessionLifecycle

Session number s is the s-th authorization vm0 starts. `auth` is the program
counter of `handle_authenticate`, `state` the `Active` session, `flags` the
atomics, `drv` one record per spawned driver, `conn` one record per connection
with a queue for each direction, `vm1` the program counter of the accept and
session loops. A connection waits in vm1's backlog (`queued`) while vm1 serves
another. Timers are counters that `Tick` decrements together; `Prompt` keeps
time from passing while a step is due, but leaves messages and the chain free
to take any time. `expiresIn` stands for `session_expiry`, which vm1 fixes
before it builds the chain, while the two TTL timers start after it: the gap
lets vm0 admit a new `Authenticate` while the old driver still runs, which is
what `ServedIsRevocable` is about. A crash of vm0 ends its drivers; the model
then raises `ended` of the lost session for the sake of the liveness
properties, where the program has lost the flag altogether.

`SessionLifecycle` has three variables: the session vm1 serves, the latest it
began, the one vm0's commands apply to. `OperatorSession` implements it with
`served <- Served` and `active <- state`.

The source has a missing brace at `main.rs:467`, and the module `yubikey` that
`validate_operator` calls is not in the repository; the first is modelled as
its indentation shows, the second as an input that says whether the
passphrases were right.

### AuditLog

`file` is a sequence of lines, each an entry (its hash is the number under
which it was formatted) or `Torn`, text that is not an entry; `open` says that
the last line lacks its newline, so that whatever is appended next is glued to
it and both become one unreadable line. `write` advances the chain in memory
first (`Advance`); the append then succeeds (`WriteOk`) or fails in one of three
ways. Callers ignore the error, so the logger goes on after each. `New` is a
logger of the next circuit; `NewUnread` the case of a file that
`read_to_string` cannot read. `acked` and `forgot` are histories. What an entry says
plays no part in the chain and is `Attestation`'s subject.

### AuthChain

The machines form a line, 0 = vm1, proxies, `Z` = vm2, proxies, `D` = vm3,
`D + 1` = vm4. `pc[i]` is the await at which machine i's loop stands, `circ[i]`
the circuit it serves, `link[<<c, i>>]` the connection made to it for circuit c:
whether each end is open, whether it still waits in the backlog, and what
travels in either direction. vm1 and vm2 build circuits with the same code
(`build_circuit`, `collect_proxy_attestations`), so `ExtendNext` and `RoundNext`
take the base as parameter. A cell carries the number of proxies that still
forward it; layers and keys are left out because a key belongs to one
connection. `VerifyChain` and `VerifyFull` report whether all attestations
passed (`clean`, an input) and leave the verdict alone, as the code does. `log`
has the entries the verifiers hand to their audit logger (whose failures are
`AuditLog`'s subject) and vm4's decisions. Sending on a connection the other end
has closed either fails or is lost unnoticed (`error`), which decides whether a
verifier logs SESSION_ENDED. `Crash` closes all connections of a process;
`QuoteFails` is every `generate_quote(..)?`. A machine that loses power without
closing its connections is not modelled: its neighbours would wait for ever.

`ChainVerdict` knows no machines, connections or faults: vm1 opens circuits,
asks numbered questions and holds a session or not (`circuit`, `round`,
`client`), and three judges write logs. Its guards are what a reader of the logs
relies on: a verdict is about a question that was asked, each judge enters one
per question and in order, vm2 only what vm3 entered before (the node results
included), vm3 says yes only after vm4 did, nothing follows the end of a
circuit, and vm1's session rests on everybody's yes to its latest question.
`AuthChain` implements it with `circuit <- circ[0]`, `client <- Client` and the
logs as they are; building, relaying, breaking and restarting are steps in which
nothing of this changes, except that vm1 may give up at any time.

### Attestation

`log` is the node's IMA log, `sysmon` its BPF monitor, `counted` the count a
quote under way has read: `read_ima_measurements` reads the count, then the
text, and the log may grow or be rewritten between the two (`ReadCount`,
`Verify`). `tracker` holds what the verifier remembers of the last round of the
circuit; it is written whatever the result. The twenty-one checks that only compare
a value with the baseline, or probe the host, are an outcome each (same,
different, absent on either side or both); `Deviations` are the outcomes other
than "same", and a round has a bounded number of them on either of its two
nodes. The second node is the verifier, which quotes itself and judges the quote
against its own entries in the same trackers (`Own`, `OwnBefore`). Its log and
monitor are not variables: what its quote says of them is told by how it differs
from the round before, which is all the comparison sees, and is one more outcome
(`OwnDeviations`: other text, fewer or too many lines, events, unloaded).
`VerifyAttestation` computes the five verdicts of a `NodeResult` and what
its details say, `NodeToAuditRecord` the audit log's reading of those details
(some checks must have said OK, others must only not have said CHANGED), and
`ClassifyTier` keeps the order of the tests and their early returns. A forensic
capture names the checks in `Captured`; `fd`, `kern`, `init` and `bindir` are not
among those the code lists. A hash
stands for the text it is taken of. `since` and `first` are histories.

### LogForward

`file[s]` counts pieces, two per line, so that a tailer can find a line
unfinished (`Torn`). `fw[s]` is the forwarder: its place, connection number,
tailer position and the batch it is sending. `task[s][c]` is the monitor's task
for connection c; its places are the lock and socket operations of
`handle_source`, so that the task of an old connection and that of a new one
interleave on the same `SourceState` (`src[s]`). `link[s][c].cut` says that the
connection is broken; each side finds out by itself. An entry's number stands
for its hash and heartbeat. `overtaken` is a history: a task of an older
connection wrote to the state of a newer one.

`stream[s]` lists the entries `handle_source` tried to store and `disk[s]` what
the file got of each. `writeln!` is two writes: `AppendLine` writes the text,
all of it, a part or nothing (the file does not open), and `EndLine` the newline
if the text went through, and then sends the Ack in any case, as the code does.
An unterminated line is continued by whatever is written next, by this task or
by that of another connection of the source (`Glued`, `Readable`).

`CutCharacter` is an append of the audit log that failed inside a character of
several bytes. `read_line` refuses such a line, and one whose unfinished end
falls inside a character; `ReadEnds` are the places where `read_new_lines` can
stop. A tailer before a cut character does not move again on its connection
(`Stuck`).

Not considered: a file cut to a part of its length (`Truncate` empties it; the
tailer would read the rest again from its beginning, `logfwd.rs:57`), and the
verified log, to which the tasks of both sources append the same lines. The
rings of recent entries, the alerts and the pages that display them are left
out.

### SessionTracker

`active[s]` is the session being collected for a verifier, `queue` the sessions
`finalize_session` is writing, `phase` how far `write_session` has got. A file
is its content, or `Partial` when a write was cut short; `index` is a list,
missing, or garbled. Entries come from an environment that logs what a verifier
can log (rounds in order, nothing but the end after a denial) and may lose any
of them, which is what `LogForward` allows. The identity of a session is its
first entry.

## Runs

| Run | Checks | Bounds and why they suffice |
|---|---|---|
| `replay_guard` | types, `ReplaySpacing` with clocks off either way and a tick between the two reads, no AK configured | two ids, window 2, time to 6, one restart: an entry is made, kept to the last tick of the window, pruned and made again; a skew beyond the limit of 1 so that the rejection happens |
| `replay_twice` | `AtMostOnce` fails with vm0 one tick ahead | |
| `dual_authority` | `ApprovalIsOperators`, `UndecidedIsPending`, `EveryRequestEnds` | three handlers: one in the slot, one displaced, one cleaning up |
| `dual_honoured` | `AuthorizedIsHonoured` fails | two handlers |
| `session` | types, `ServedIsRevocable`, `DriverBounded`, `PublishedResult`, `ImplementsLifecycle`, `RevokeEnds`, `ClientFollows`, `AuthenticateReturns` | two sessions (the second starts while the first's driver lives), a tick is 30 s, TTLs of 2 (expires before the first result) and 5 (two heartbeats), one crash |
| `auth_chain` | types, `AnswersTheQuestion`, `SessionIsWitnessed`, `LogsAgree`, `EndIsTheEnd`, `ImplementsVerdict`, `RoundEnds`, `TeardownReaches` | one proxy in each chain (it extends, attests and forwards), two circuits (the second waits behind the remains of the first), two rounds (authorization and heartbeat), all three configurations, one crash or TPM error anywhere |
| `quorum_unreachable` | `UnreachableIsDenied` fails | vm4 goes down and stays down |
| `audit_log` | types, `FullChain`, `BreaksAreLosses`, `OneVictim` | six entries: a failure, its victim, and loggers before, between and after |
| `log_forward` | types, `StoredOnce`, `GapIsReported`, `LossIsBounded`, `CrossVerifiedIsIntact`, `ShowsNewest`, `EntryArrives` | vm2 writes three entries, in pieces, over two connections (a gap needs an entry before and after it; a race an old and a new task); vm3 has one entry and is there to be compared; one fault of any kind. The invariants hold as well with two faults (7.4 million states, about five minutes) |
| `session_tracker` | types, `ListedIsIntact`, `JoinedMeansLost`, `RoundsCountOnce` | both kinds of verifier, two circuits of two rounds, five entries, each lost or not, two failed writes or stops (one to garble, one to go wrong afterwards) |
| `attestation` | types, `ImaHistory`, `FalseAlarmIsRace`, `SysmonExact` | two kinds of line, logs of up to two lines with a minimum of one (rewritten without changing length, shortened, grown past the first round), two events, any single deviation on either node, two disturbances |
| `tier_preload` | `PreloadIsCritical` fails | as `attestation`: one deviation and one event |

### What the failing runs show

- `replay_twice`: the cache keeps an id for the window counted from its
  acceptance, the payload is valid for the window counted from its timestamp. A
  timestamp ahead of vm1's clock (10 s are tolerated) outlives the entry, and
  the INITIATE is accepted again. `SpacingHolds` and `OnceWhenInSync` below say
  what remains true.
- `dual_honoured`: operator B's command holds the mutex when the 120 s run out.
  The approval goes to a dropped receiver, which `let _ =` hides; operator B
  reads "SESSION AUTHORIZED" and vm0 is told the request was denied. The safe
  direction holds: vm0 is never told "approved" without B (`ApprovalIsOperators`).
- `quorum_unreachable`: vm3's branch "vm4 unreachable - denying" is taken when a
  connection breaks, not when vm4 is down: `network::connect` retries for ever.
  vm3, vm2 and every proxy wait with it; vm1's heartbeat hangs and vm0 gives up
  after its 30 s. Nobody gets a session in the meantime (`SessionIsWitnessed`).
- `tier_preload`: `verify_attestation` says "ld.so.preload: CRITICAL if not safe"
  and `classify_tier` has a test for it, but returns Warning for events or
  descriptors before it gets there. One event since the last round is enough.
  The same holds of kernel state, init scripts, passwd, ssh and boot parameters,
  and of every test of a later node.

### Remarks from the passing runs

Some properties hold only with the exceptions their statements name; these are
what a reader of the code may not expect.

- After "Session revoked", Status reports the session as active until the driver
  reads its flag, a ping interval and a reply timeout later at most
  (`DriverBounded`); after that it does not (`RevokeEnds`).
- A monitor task that is held up between Welcome and its insert, or that ends
  late, resets or marks the state of a newer connection (`overtaken` in
  `GapIsReported` and `ShowsNewest`). A reconnect starts with an intact chain
  again: the break of the last connection remains only among the alerts.
- What is written while a forwarder is disconnected never reaches the monitor,
  and no break is reported for it, since the first entry of a connection is not
  compared; `GapIsReported` therefore speaks of one connection.
- `verify_internal_chain` serialises entries anew, with sorted keys, so
  `all_hashes_valid` is false for every session of two or more entries
  (`VerifyInternalChain`).
- vm2's entries never open a session (`IsNewSession` asks for ChainVerified or
  ChainDenied), so two circuits of vm2 are one session whenever SessionEnded was
  lost (`JoinedMeansLost`).
- A measurement between the two reads of a quote makes the *next* round of an
  honest node say "IMA AGG TAMPERED" (`FalseAlarmIsRace`); so does a log that
  was empty.
- The trackers follow the log whatever the verdict, so a rewritten log is
  reported once per circuit; `ImaHistory` says what a node that passed every
  round proves.
- Node results are computed, logged and displayed, but neither verifier's
  `all_ok` depends on them (`VerifyChain`, `VerifyFull`), and vm4 sets
  `chain1_ok` and `chain2_ok` to true ("DEMO"), so that it approves with "all
  chain nodes passed" a round with a failed node. The verdicts that do count
  (vm4's check of vm3, the operators, reachability of every machine) are those
  of `SessionIsWitnessed`.
- What makes a node "fully ok" for `classify_tier` leaves out masquerading
  processes, kernel modules, binaries, kernel threads and the signature
  (`FullyOk`): with nothing else wrong the node is skipped before the tests that
  would return Critical for the first three, the tier is Info and there is no
  forensic capture.
- A capture names only nodes that do not `pass`, which most checks do not
  influence: the one of `tier_preload`'s trace names none.
- An entry whose write failed is acknowledged all the same, and no break is
  reported for it, then or later: the chain is compared in memory, where the
  entry arrived. `GapIsReported` therefore speaks of what was received;
  `LossIsBounded` says what the failure can cost: the entry itself and one that
  shares its line.
- One line that is not UTF-8 stops a forwarder for the rest of its connection
  without a message (`Stuck` in `EntryArrives`).

## Fairness

`DualAuthority`: weak fairness of each handler's own steps (tokio runs a
runnable task, timers fire) and of the end of a passphrase check. Nothing is
assumed of vm0, of the exchange, or of operator B.

`OperatorSession`: weak fairness of time, of each driver, of vm0's receiving
steps and of vm1's steps that do not wait for the chain. The chain has no
timeouts, so it may block for ever; `ClientFollows` and `AuthenticateReturns`
are therefore stated under the condition that it is idle again and again, while
`RevokeEnds` needs no such condition. The operators need not do anything.

`AuthChain`: weak fairness of every machine's own steps, which wait for nothing
but messages; when sessions start and end is left open. `RoundEnds` and
`TeardownReaches` also need that a machine that went down is started again
(`LiveSpec`), since `connect` waits for it; `quorum_unreachable` shows what
happens otherwise.

`LogForward`: weak fairness of the forwarders and the monitor's tasks together,
which poll what is ready. Nothing makes a verifier write or a connection break;
`EntryArrives` promises nothing once the connection is lost, the file is
truncated or the tailer is stuck, and does not promise that the entry can be
read in the stream file once a write or anything else has failed.

`Attestation` and `SessionTracker` have safety properties only.

## Proofs

All of them hold for every value of the constants that satisfies the named
assumptions; every proof is checked to the last leaf.

- `ReplayGuardProofs`: `TypeCorrect`, `SpacingHolds`, `WindowHolds`,
  `OnceWhenInSync`. The inductive invariant says that every acceptance of this
  incarnation that is at most a window old is still in the cache under its own
  time (pruning removes nothing younger), that acceptances lie in the past, and
  that the payload being checked was inside the window when the clock was read.
  `OnceWhenInSync` adds the assumption that vm0 is never ahead and that
  verification takes no time; the acceptance window then ends within the
  cache's.
- `DualAuthorityProofs`: `TypeCorrect`, `ApprovalHolds`, `UndecidedHolds`,
  `FinalHolds`. The invariant ties the three places of a request together: the
  slot holds at most one handler, an open channel means that its handler is in
  the slot, a channel holds "true" only if the CLI granted that handler, and a
  handler's conclusion agrees with its channel.
- `AuditLogProofs`: `TypeCorrect`, `FullChainHolds`, `BreaksHolds`,
  `OneVictimHolds`. The invariant says that ids in the file are in the past
  (`Ordered`), that the logger's previous hash is the last line's, or belongs to
  text that is nowhere in the file, or is the genesis hash with nothing to link
  to (`LoggerLinks`), and that an unterminated line belongs to a failed append
  (`OpenTail`). Without `OpenTail`, gluing could destroy an acknowledged entry;
  without `LoggerLinks`, nothing is known of the entry written next.
- `OperatorSessionProofs`: `TypeCorrect`, `DriverIsBounded`, `ResultIsCurrent`,
  `OperatorKeepsControl`, and `RefinesLifecycle`: vm0 and vm1 with their
  connections implement `SessionLifecycle`. The invariant places a session in
  the command loop, its driver, the connection and vm1 (`Places`, `Ends`), says
  that one heartbeat is under way at a time and that ping, answer and driver
  carry one number (`Lockstep`), and weighs the ages that `DriverBounded` bounds
  against the driver's countdowns (`RevokeTimer`, `EndTimer`, `TtlTimer`): a
  bound on an age is not inductive unless it says how much of it the driver has
  left where it stands. `RefinesLifecycle` maps each action to one step of the
  abstract specification or to none, from the same invariant.
- `AttestationProofs`: `TypeCorrect`, `HistoryHolds`, `FalseAlarmHolds`,
  `SysmonHolds`. A verdict compares a quote with a tracker that was
  written rounds ago; `Tracked` carries what was true then across the node's
  steps: the tracked text is a prefix of the log and the tracked counter is not
  ahead of the monitor's, unless the history names the step that broke it. The
  lemmas on prefixes (`PrefixTransitive`, `SubSeqIsPrefix`) make the rounds add
  up; `PassedContinues`, `HonestIsValid`, `SysmonCases` and `TierCases` say what
  the verification operators return.
- `SessionTrackerProofs`: `TypeCorrect`, `ListedHolds`, `JoinedHolds`,
  `RoundsHold`. The properties are about sessions on disk and hold because of
  what was true when the session was cut. `Sound` says it of a session wherever
  it is (collected, queued, in a file), `Over` that nothing logged later changes
  it, `Heard` ties what arrived to the verifiers' logs, `Disjoint` keeps an entry
  out of two sessions, `Written` and `IndexOK` describe the moment between the
  two writes, and `Complete` says that nothing is left out before a fault.
- `LogForwardProofs`: `TypeCorrect`, `StoredOnceHolds`, `GapHolds`, `CrossHolds`,
  `NewestHolds`. Every entry is in one place at most: in the stream file, in the
  hands of a task, on a connection, or ahead of the forwarder (`Once`, `Ahead`);
  the `Frontier` separates what the forwarder has read from what it has not, and
  all that was sent lies behind it (`Behind`); a connection holds one line
  because the forwarder waits for the answer (`Lockstep`). `Owned` says what the
  shared `SourceState` tells about a connection until a task of an older one
  writes to it, which is where `GapIsReported` and `ShowsNewest` stop promising.
  `GapHolds` is about any two entries of a connection with others between them.
  `Owned` says that the state's `prev` is the number of the entry the connection
  handed over last and that the next one follows it or is marked (`Follows`);
  `Gap` adds that there is such a last entry, and then carries the claim from
  pairs ending there to pairs ending at the new one. A failed write disturbs
  none of this, because `prev` advances before the write; `OnDisk`, a second
  invariant, has the types of what the file got.
- `AuthChainProofs`: `TypeCorrect`, `SessionsAreWitnessed`, `TheLogsAgree`,
  `QuestionsAreAnswered`, `EndsAreFinal` and `RefinesVerdict` (the chain
  implements `ChainVerdict`), for chains of any length, every configuration and any
  number of circuits, rounds and faults. No machine compares the `chain_id` of a
  result with that of its submission; a reply is the right one because each part
  of a circuit (vm1 to vm2, vm2 to vm3) passes a single turn along (`Single`).
  That survives crashes because a connection breaks with either of its ends
  (`Wire`). `Phase` ties the turn to what the base of the part waits for; `Ids`
  and `Counts` tie its number to the base's round and to what the verifier at
  the end has counted; `Notes` says that a result is in the logs before it
  travels back, which is what `SessionIsWitnessed` rests on. When vm2 is gone
  while vm1 still waits, what is left in chain 2 is about vm1's round: without
  that clause of `Ids` a late result could meet a newer question. The actions
  come down to eight moves of the turn (`UpMove`, `DownMove`, `Absorb`, `Hold`,
  `Accepted`, `Connected`, `Established`, `Depart`), each shown once to keep what
  holds of a circuit. `BoundAssumption` asks for at least one round, the one
  that authorizes.

  `EndsAreFinal` and `RefinesVerdict` need a second invariant, `EInv`
  (`EndInductive`), which is inductive relative to the first. The difficult half
  of `EndIsTheEnd` is what a run without faults excludes: every error return
  that logs nothing must be impossible then. `Calm` says why: as long as
  `faults` is 0, a connection is closed only behind vm1, who gives a circuit up
  when no answer is outstanding (`Owes`), so that nobody finds the next machine
  gone in the middle of something. For that one has to know that machines take
  circuits in order and each once (`Backlog`), that both ends of a connection in
  use are open (`Joined`), and that a cell finds the machine it is for
  (`Aimed`); otherwise a proxy without an onward connection would leave with an
  error. `Begun` and `Opening` say that no verifier is ahead of vm1's round. On
  the side of the logs, `Orderly` numbers the entries, `Counting` says that a
  waiting verifier has logged what it has counted, and `Concluded` is
  `EndIsTheEnd` with the state of vm1. Every step is shown to log nothing
  (`Silent`), to enter a verdict (`Judges`) or to end a circuit (`Closing`);
  each of the three keeps the logs' part once, and each is a step of
  `ChainVerdict` or none. Checking this module from nothing takes about a
  quarter of an hour.

Each inductive invariant was checked by TLC on the instance of the component's
run before it was proved; in each module the theorem `Inductive` states it (and
`EndInductive` the second one of `AuthChainProofs`).

`OnceWhenInSync` states `AtMostOnce`, which `replay_twice` refutes without its two
assumptions. `WindowHolds` (an INITIATE is accepted only within its window, widened by the
time verification took), `FinalHolds` (a decision in a channel never changes)
and the types of `DualAuthority` are proved and checked by no run.

Only model-checked: the liveness properties (`EveryRequestEnds`, `RevokeEnds`,
`ClientFollows`, `AuthenticateReturns`, `RoundEnds`, `TeardownReaches`,
`EntryArrives`), since the prover handles neither fairness nor ENABLED, and
`LossIsBounded`, which counts lines by how they are glued. Every other invariant
and every refinement that a passing run checks is a theorem.

## Not modelled

- The dashboard, the HTTP server and the terminal display of the monitor (about
  2100 of its 2784 lines): they format a state they do not change.
- The collectors of host state (`ebpf/`, `netfilter/`): I/O and parsing of
  external text. Their results are the outcomes of `Attestation`'s checks.
- The XDP filter (`xdp-entropy.c`, `xdp/`): per-packet arithmetic on raw bytes;
  the rest of the system only asks whether it is attached.
- The event ring and per-CPU index of the BPF monitor; its counters are
  modelled.
- Cryptography, TPM commands and framing: secure connections and inputs instead.
- One-shot tools and configuration.

## Plan

What is left to do, in order of use:

1. `AuthChain` composed with `OperatorSession`, whose chain outcome then is no
   longer an input but a step of `ChainVerdict`: the abstract specification that
   `AuthChain` implements is what `OperatorSession` would be composed with.
2. The BPF monitor's ring and the XDP filter's connection table at their limits.
