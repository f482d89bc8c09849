---------------------------- MODULE FileJournal ----------------------------
(***************************************************************************)
(* The append-only journal of JSON lines (crates/persistence/src/file.rs). *)
(* A write may stop anywhere in the line it appends, and reopening the     *)
(* file keeps whatever is there, so a line of the file is the sequence of  *)
(* fragments written since the last newline.  A fragment is a record whose *)
(* text is whole or cut short.                                             *)
(***************************************************************************)
EXTENDS Integers, Sequences

VARIABLES
    lines,      \* the lines that end in a newline
    tail,       \* the fragments after the last newline
    acked       \* the records whose append returned Ok, in order

journalVars == <<lines, tail, acked>>

JournalInit == lines = <<>> /\ tail = <<>> /\ acked = <<>>

Fragment(r, whole) == [rec |-> r, whole |-> whole]

\* FileJournal::append.  The line is written, flushed and synced before it
\* returns; nothing looks at what the file already ends in.
AppendRecord(r) ==
    /\ lines' = Append(lines, Append(tail, Fragment(r, TRUE)))
    /\ tail' = <<>>
    /\ acked' = Append(acked, r)

\* The process dies inside an append: a prefix of the line is on disk, up to
\* all of it but the newline.  The caller never got an answer.
TearRecord(r) ==
    /\ \E whole \in BOOLEAN : tail' = Append(tail, Fragment(r, whole))
    /\ UNCHANGED <<lines, acked>>

\* What BufReader::lines yields: an unterminated tail is a line as well.
AllLines == IF tail = <<>> THEN lines ELSE Append(lines, tail)

\* serde_json::from_str accepts exactly one whole record and nothing after it.
Parses(line) == Len(line) = 1 /\ line[1].whole

\* FileJournal::replay returns Ok: only the final line may fail to parse.
Readable == LET all == AllLines IN \A i \in 1..(Len(all) - 1) : Parses(all[i])

\* The records FileJournal::replay then returns.
Replayed ==
    LET all == AllLines
        n == Len(all)
        kept == IF n > 0 /\ ~Parses(all[n]) THEN n - 1 ELSE n
    IN  [i \in 1..kept |-> all[i][1].rec]

-----------------------------------------------------------------------------

\* Some append was glued to what an earlier, interrupted one left behind.
Glued == Len(tail) > 1 \/ \E i \in 1..Len(lines) : Len(lines[i]) > 1

\* Journal: as long as no append followed an interrupted one, replay
\* succeeds and returns every acknowledged record in order, plus at most the
\* record whose append was cut off just before its newline.
CleanLogReplays ==
    ~Glued => /\ Readable
              /\ \/ Replayed = acked
                 \/ \E r \in {tail[i].rec : i \in 1..Len(tail)} :
                        Replayed = Append(acked, r)

\* Journal: whenever replay succeeds, however often appends were cut off,
\* it differs from what was acknowledged in at most the final record.
LossBounded ==
    Readable => \/ Replayed = acked
                \/ \E i \in 1..Len(tail) : Replayed = Append(acked, tail[i].rec)
                \/ acked # <<>> /\ Replayed = SubSeq(acked, 1, Len(acked) - 1)

=============================================================================
