------------------------------ MODULE RecordStore ------------------------------
(***************************************************************************)
(* The append-only JSONL file of benchmarks/internal/collect: Store        *)
(* (NewStore, Append) and the readers that share its parser (LoadRecords). *)
(*                                                                         *)
(* file holds the records of the terminated lines that parse, in order; no *)
(* reader returns the others.  tail is the unterminated last line, as the  *)
(* pieces that successive writes left on it: a whole record or the torn    *)
(* front of one.                                                           *)
(***************************************************************************)
EXTENDS Naturals, Sequences, SequencesExt

CONSTANT Torn    \* the front part of a record whose write fell short

VARIABLES
    file,        \* the records on terminated lines
    tail,        \* the pieces on the last line, which has no newline
    collected,   \* Store.collected: the prompts this process will not collect
    acked,       \* history: the prompts whose Append returned nil
    tears        \* history: the writes that fell short

storeVars == <<file, tail, collected, acked, tears>>

IsRecord(line) == Len(line) = 1 /\ line[1] # Torn

PromptsOf(records) == {r.prompt : r \in ToSet(records)}

\* What the scanner of NewStore and LoadRecords finds: a last line without a
\* newline is a line, a line that is not exactly one record is skipped.
Loaded == file \o (IF IsRecord(tail) THEN tail ELSE <<>>)

StoreInit ==
    /\ file = <<>> /\ tail = <<>>
    /\ collected = {} /\ acked = {} /\ tears = 0

-----------------------------------------------------------------------------
\* NewStore: a record counts as collected whether or not it holds an error.
NewStore ==
    /\ collected' = PromptsOf(Loaded)
    /\ UNCHANGED <<file, tail, acked, tears>>

\* Opening the file fails, or the write does before its first byte.
AppendFails == UNCHANGED storeVars

\* Mutant of AppendShort: Append does not look at the result of the write.
AppendShortUnnoticed(rec) ==
    /\ tail' \in {Append(tail, Torn), Append(tail, rec)}
    /\ tears' = tears + 1
    /\ collected' = collected \cup {rec.prompt}
    /\ acked' = acked \cup {rec.prompt}
    /\ UNCHANGED file

\* The write falls short (the disk is full, the machine stops): a part of the
\* record stays on the last line, at most all of it but the newline.
AppendShort(rec) ==
    /\ tail' \in {Append(tail, Torn), Append(tail, rec)}
    /\ tears' = tears + 1
    /\ UNCHANGED <<file, collected, acked>>

\* The whole line is written.  It ends whatever line was left unterminated,
\* and only an empty tail makes it a line of its own.
WriteLine(rec) ==
    /\ file' = IF tail = <<>> THEN Append(file, rec) ELSE file
    /\ tail' = <<>>
    /\ UNCHANGED tears

\* The write succeeds and Sync does not: the record is there, Append failed.
AppendUnsynced(rec) == WriteLine(rec) /\ UNCHANGED <<collected, acked>>

AppendOk(rec) ==
    /\ WriteLine(rec)
    /\ collected' = collected \cup {rec.prompt}
    /\ acked' = acked \cup {rec.prompt}

=============================================================================
