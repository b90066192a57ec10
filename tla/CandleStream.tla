---------------------------- MODULE CandleStream ----------------------------
(***************************************************************************)
(* The candle stream (src/shims.rs): a parquet file is read one record      *)
(* batch at a time into a buffer, and handed out row by row under a budget. *)
(*                                                                         *)
(* A file is the sequence of its batch ends: batch i holds the rows after   *)
(* ends[i - 1] up to ends[i], none when the two are equal.  A row is its    *)
(* number in the file; its columns and the unit of its timestamp are not    *)
(* looked at.  The batch numbered badBatch cannot be read or has the wrong  *)
(* columns, and panics the reader.                                          *)
(***************************************************************************)
EXTENDS Integers, Sequences, FiniteSetsExt

CONSTANTS
    File,       \* the files, each the ends of its batches
    Budget,     \* what open_bounded may be given
    Unbounded   \* the budget of open, i64::MAX: more than any file has

IsFile(ends) ==
    /\ ends \in Seq(Nat)
    /\ \A i, j \in 1..Len(ends) : i <= j => ends[i] <= ends[j]

\* Row ends[Len(ends)] is the last one, and metadata counts the rows.
Rows(ends) == IF ends = <<>> THEN 0 ELSE ends[Len(ends)]

ASSUME StreamAssumption ==
    /\ \A f \in File : IsFile(f) /\ Rows(f) <= Unbounded
    /\ Budget \subseteq Int
    /\ Unbounded \in Nat

VARIABLES
    ends,        \* the file that was opened
    badBatch,    \* its unreadable batch, 0 when there is none
    limit,       \* the budget it was opened with
    nextBatch,   \* the batch the parquet reader returns next
    buffer,      \* the rows of the current batch
    pos,         \* rows of the buffer handed out
    remaining,
    emitted,     \* every row handed out
    ended,       \* next has answered None
    broken       \* next has panicked

fileVars == <<ends, badBatch, limit>>
streamVars ==
    <<fileVars, nextBatch, buffer, pos, remaining, emitted, ended, broken>>

-----------------------------------------------------------------------------

First(i) == IF i = 1 THEN 0 ELSE ends[i - 1]
Empty(i) == ends[i] = First(i) /\ i # badBatch

\* The rows of a batch, in order.
BatchRows(i) == [k \in 1..(ends[i] - First(i)) |-> First(i) + k]

\* Batches the reader has yet to return that are not skipped.
Ahead == {i \in nextBatch..Len(ends) : ~ Empty(i)}

\* i64::max(n, 0), or no cap at all.
Capped(n) == IF n > 0 THEN n ELSE 0

StreamInit ==
    /\ ends \in File
    /\ badBatch \in 0..Len(ends)
    /\ limit \in {Capped(n) : n \in Budget} \cup {Unbounded}
    /\ nextBatch = 1
    /\ buffer = <<>>
    /\ pos = 0
    /\ remaining = limit
    /\ emitted = <<>>
    /\ ended = FALSE
    /\ broken = FALSE

Exhausted == pos >= Len(buffer)

\* A row still in the buffer.
NextBuffered ==
    /\ remaining > 0
    /\ ~ Exhausted
    /\ emitted' = Append(emitted, buffer[pos + 1])
    /\ pos' = pos + 1
    /\ remaining' = remaining - 1
    /\ UNCHANGED <<fileVars, nextBatch, buffer, ended, broken>>

\* Variant: the cursor survives the refill.
NextRefilledKeepsPos ==
    /\ remaining > 0
    /\ Exhausted
    /\ Ahead # {} /\ Min(Ahead) # badBatch
    /\ pos < ends[Min(Ahead)] - First(Min(Ahead))
    /\ nextBatch' = Min(Ahead) + 1
    /\ buffer' = BatchRows(Min(Ahead))
    /\ emitted' = Append(emitted, buffer'[pos + 1])
    /\ pos' = pos + 1
    /\ remaining' = remaining - 1
    /\ UNCHANGED <<fileVars, ended, broken>>

\* The first row of the next batch that has any.
NextRefilled ==
    /\ remaining > 0
    /\ Exhausted
    /\ Ahead # {} /\ Min(Ahead) # badBatch
    /\ nextBatch' = Min(Ahead) + 1
    /\ buffer' = BatchRows(Min(Ahead))
    /\ emitted' = Append(emitted, First(Min(Ahead)) + 1)
    /\ pos' = 1
    /\ remaining' = remaining - 1
    /\ UNCHANGED <<fileVars, ended, broken>>

\* Nothing is left to read; the buffer is kept.
NextNone ==
    /\ remaining > 0
    /\ Exhausted
    /\ Ahead = {}
    /\ nextBatch' = Len(ends) + 1
    /\ ended' = TRUE
    /\ UNCHANGED <<fileVars, buffer, pos, remaining, emitted, broken>>

\* The budget is spent.
NextOverBudget ==
    /\ remaining <= 0
    /\ ended' = TRUE
    /\ UNCHANGED <<fileVars, nextBatch, buffer, pos, remaining, emitted, broken>>

NextPanics ==
    /\ remaining > 0
    /\ Exhausted
    /\ Ahead # {} /\ Min(Ahead) = badBatch
    /\ broken' = TRUE
    /\ UNCHANGED <<fileVars, nextBatch, buffer, pos, remaining, emitted, ended>>

NextRow == NextBuffered \/ NextRefilled
NextEnd == NextNone \/ NextOverBudget

\* A caller may go on asking after None, never after a panic.
StreamNext ==
    /\ ~ broken
    /\ NextRow \/ NextEnd \/ NextPanics

StreamSpec == StreamInit /\ [][StreamNext]_streamVars

-----------------------------------------------------------------------------
(* Properties *)

\* The rows before the unreadable batch, all of them when there is none.
Readable == IF badBatch = 0 THEN Rows(ends) ELSE First(badBatch)

\* Types, and the cursor stays inside what was read.
StreamTypeOK ==
    /\ ends \in File /\ badBatch \in 0..Len(ends)
    /\ limit \in Nat /\ remaining \in 0..limit
    /\ nextBatch \in 1..(Len(ends) + 1)
    /\ buffer \in Seq(Nat) /\ pos \in 0..Len(buffer)
    /\ emitted \in Seq(Nat)
    /\ ended \in BOOLEAN /\ broken \in BOOLEAN

\* Whatever the batches are cut into, the rows come out as the file has
\* them, one by one with none lost or repeated at a batch's end, as many as
\* the budget allows and the file can give; None comes only after the last
\* of them and a panic only where the file is bad.
RowsInOrder ==
    /\ \A i \in 1..Len(emitted) : emitted[i] = i
    /\ Len(emitted) <= limit /\ Len(emitted) <= Readable
    /\ ended => Len(emitted) = limit \/ (badBatch = 0 /\ Len(emitted) = Rows(ends))
    /\ broken => badBatch # 0 /\ Len(emitted) = Readable

=============================================================================
