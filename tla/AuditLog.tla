------------------------------- MODULE AuditLog -------------------------------
(***************************************************************************)
(* The hash-chained audit log of a verifier (vm2 or vm3): AuditLogger, the *)
(* file it appends to, and recover_chain_state, which picks the chain up   *)
(* from the file whenever a new circuit creates a new logger.              *)
(*                                                                         *)
(* write advances seq and prev_hash in memory before it appends, and its   *)
(* callers ignore its result, so a logger goes on after a failed append.   *)
(* writeln! hands the JSON and the newline to the kernel separately and    *)
(* either may be cut short, by a full disk or by the end of the process.   *)
(* What follows an unterminated line is glued to it.  A file that cannot   *)
(* be read (an I/O error, a cut in the middle of a UTF-8 character) makes  *)
(* the next logger start from nothing.                                     *)
(*                                                                         *)
(* The n-th entry that is formatted has hash n; 0 is the genesis hash.     *)
(***************************************************************************)
EXTENDS Integers, Sequences

CONSTANT MaxEntries   \* bound: entries formatted

ASSUME EntriesAssumption == MaxEntries \in Nat

Genesis == 0

(* A line of the file: an entry, or text that is not the JSON of one entry. *)
Line == [id : Nat, seq : Nat, prev : Nat]
Torn == [id |-> 0, seq |-> 0, prev |-> Genesis]

VARIABLES
    file,      \* the non-empty lines of audit.jsonl
    open,      \* the last line has no newline
    logger,    \* the AuditLogger: whether there is one, its seq and prev_hash
    made,      \* how many entries have been formatted
    acked,     \* history: the entries whose write returned Ok
    forgot     \* history: the values of made when a logger could not read the file

vars == <<file, open, logger, made, acked, forgot>>

TypeOK ==
    /\ file \in Seq(Line)
    /\ open \in BOOLEAN
    /\ logger \in [on : BOOLEAN, seq : Nat, prev : Nat]
    /\ made \in Nat
    /\ acked \subseteq 1 .. made
    /\ forgot \subseteq 0 .. made

Init ==
    /\ file = <<>>
    /\ open = FALSE
    /\ logger = [on |-> FALSE, seq |-> 0, prev |-> Genesis]
    /\ made = 0
    /\ acked = {}
    /\ forgot = {}

--------------------------------------------------------------------------------
(* Seeded fault: the last entry's prev_hash is taken for its hash. *)
recover_prevField(f) ==
    IF f = <<>> THEN [on |-> TRUE, seq |-> 0, prev |-> Genesis]
    ELSE IF f[Len(f)].id # 0
    THEN [on |-> TRUE, seq |-> f[Len(f)].seq, prev |-> f[Len(f)].prev]
    ELSE [on |-> TRUE, seq |-> Len(f), prev |-> Genesis]

(* Seeded fault: the last line is never parsed. *)
recover_countsLines(f) == [on |-> TRUE, seq |-> Len(f), prev |-> Genesis]

(* Seeded fault: an unreadable last line yields no hash at all. *)
recover_noHash(f) ==
    IF f = <<>> THEN [on |-> TRUE, seq |-> 0, prev |-> Genesis]
    ELSE IF f[Len(f)].id # 0
    THEN [on |-> TRUE, seq |-> f[Len(f)].seq, prev |-> f[Len(f)].id]
    ELSE [on |-> TRUE, seq |-> Len(f), prev |-> -1]

(* What a new logger takes from the file: seq and hash of the last line if it
   is an entry, else the number of lines and the genesis hash. *)
recover_chain_state(f) ==
    IF f = <<>> THEN [on |-> TRUE, seq |-> 0, prev |-> Genesis]
    ELSE IF f[Len(f)].id # 0
    THEN [on |-> TRUE, seq |-> f[Len(f)].seq, prev |-> f[Len(f)].id]
    ELSE [on |-> TRUE, seq |-> Len(f), prev |-> Genesis]

(* Seeded fault: the file is opened for writing from its beginning. *)
Appended_truncates(text) == <<text>>

(* The file after text is appended; on an unterminated line it is lost, and
   the line with it. *)
Appended(text) ==
    IF open THEN [file EXCEPT ![Len(file)] = Torn] ELSE Append(file, text)

--------------------------------------------------------------------------------
(* AuditLogger::new, at the start of a circuit. *)
New ==
    /\ ~logger.on
    /\ logger' = recover_chain_state(file)
    /\ UNCHANGED <<file, open, made, acked, forgot>>

(* The same when the file cannot be read. *)
NewUnread ==
    /\ ~logger.on
    /\ logger' = recover_chain_state(<<>>)
    /\ forgot' = forgot \cup {made}
    /\ UNCHANGED <<file, open, made, acked>>

(* AuditLogger::write.  The entry is formatted and the chain advanced; then the
   append succeeds, leaves nothing, a part of the entry, or all but the
   newline. *)
NextEntry == [id |-> made + 1, seq |-> logger.seq + 1, prev |-> logger.prev]

Advance ==
    /\ logger.on
    /\ made < MaxEntries
    /\ made' = made + 1
    /\ logger' = [logger EXCEPT !.seq = @ + 1, !.prev = made + 1]
    /\ UNCHANGED forgot

WriteOk ==
    /\ Advance
    /\ file' = Appended(NextEntry)
    /\ open' = FALSE
    /\ acked' = acked \cup {made + 1}

WriteFails ==
    /\ Advance
    /\ UNCHANGED <<file, open, acked>>

WriteTorn ==
    /\ Advance
    /\ file' = Appended(Torn)
    /\ open' = TRUE
    /\ UNCHANGED acked

WriteUnterminated ==
    /\ Advance
    /\ file' = Appended(NextEntry)
    /\ open' = TRUE
    /\ UNCHANGED acked

(* The circuit or the process ends; the next circuit makes a new logger. *)
Drop ==
    /\ logger.on
    /\ logger' = [on |-> FALSE, seq |-> 0, prev |-> Genesis]
    /\ UNCHANGED <<file, open, made, acked, forgot>>

Next ==
    New \/ NewUnread \/ WriteOk \/ WriteFails \/ WriteTorn \/ WriteUnterminated \/ Drop

Spec == Init /\ [][Next]_vars

--------------------------------------------------------------------------------
(* The entries that can be read back from the file. *)
Readable == {file[i].id : i \in 1 .. Len(file)} \ {0}

(* If no append and no reading of the file ever failed, the file is one
   unbroken chain from the genesis hash, numbered from 1, whatever number of
   loggers has written it. *)
FullChain ==
    (1 .. made \subseteq acked /\ forgot = {}) =>
        /\ Len(file) = made
        /\ \A i \in 1 .. made : file[i] = [id |-> i, seq |-> i, prev |-> i - 1]

(* Two entries that follow each other in the file are linked by hash and
   number, unless an entry between them is missing from the file, or the
   second is the first of a logger that could not read the file: a restart of
   the logger, or a failure further up, never breaks a link, so that a broken
   link means lost text and a second genesis an unreadable file. *)
BreaksAreLosses ==
    \A i \in 1 .. Len(file) - 1 :
        (file[i].id # 0 /\ file[i + 1].id # 0) =>
            \/ /\ file[i + 1].prev = file[i].id
               /\ file[i + 1].seq = file[i].seq + 1
            \/ file[i + 1].prev # Genesis /\ file[i + 1].prev \notin Readable
            \/ file[i + 1].prev = Genesis /\ file[i + 1].id - 1 \in forgot

(* A failed append costs at most itself and the next entry: an entry whose
   write returned Ok can be read back for good unless the write right before
   it had failed. *)
OneVictim ==
    \A k \in acked : k \in Readable \/ (k > 1 /\ k - 1 \notin acked)
================================================================================
