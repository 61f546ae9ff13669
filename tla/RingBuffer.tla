------------------------------ MODULE RingBuffer ------------------------------
(***************************************************************************)
(* The ring buffer (src/util/RingBuffer.cpp) between the mixing thread,    *)
(* its only writer, and the callback of an audio backend, its only reader. *)
(*                                                                         *)
(* Both sides run without a lock: a call loads the other side's index,     *)
(* copies cell by cell, and stores its own index, and every one of these   *)
(* is a step.  The indices are volatile, not atomic: a processor that does *)
(* not keep the order of stores may show an index to the other side before *)
(* the copy it announces is complete (Reordering).                         *)
(*                                                                         *)
(* An index runs over 0 .. Size: a call that ends exactly at the end of    *)
(* the buffer leaves its index at Size, the same cell as 0.                *)
(***************************************************************************)
EXTENDS Integers, Sequences

CONSTANTS
    Size,           \* m_buffer.getSize(), in frames
    Reordering,     \* whether an index may be published before the copy is done
    Resets,         \* when the mixing thread calls reset(): "never", while no read is
                    \* in progress ("quiet"), or whenever it likes ("any")
    MaxFrames       \* bound on the frames written

ASSUME SizeAssumption == Size \in Nat \ {0} /\ MaxFrames \in Nat

ASSUME FlagsAssumption == Reordering \in BOOLEAN /\ Resets \in {"never", "quiet", "any"}

VARIABLES
    m_read, m_write,
    buffer,         \* the cells: the number of the frame in each, 0 for none
    writer, reader, \* the call each side is in
    written, taken, \* history: frames written and read since the last reset
    target          \* history: the frames the current read has copied

ringVars == <<m_read, m_write, buffer, writer, reader, written, taken, target>>

Cells == 0 .. Size - 1
Indices == 0 .. Size

NoCall == [busy |-> FALSE, start |-> 0, size |-> 0, done |-> 0, stored |-> FALSE]

RingInit ==
    /\ m_read = 0
    /\ m_write = 0
    /\ buffer = [c \in Cells |-> 0]
    /\ writer = NoCall
    /\ reader = NoCall
    /\ written = 0
    /\ taken = 0
    /\ target = <<>>
------------------------------------------------------------------------------
Least(a, b) == IF a < b THEN a ELSE b

\* Slip: the last frame always stays in the buffer.
ReadSize_OneLeft(read, write) ==
    IF read > write THEN write + Size - read - 1 ELSE write - Least(read + 1, write)

\* getReadSize() and getWriteSize(): one cell always stays free.
ReadSize(read, write) == IF read > write THEN write + Size - read ELSE write - read

\* Slip: the buffer may be filled to the last cell.
WriteSize_Full(read, write) == IF read > write THEN read - write ELSE read + Size - write

WriteSize(read, write) ==
    IF read > write THEN read - write - 1 ELSE read + Size - write - 1

\* The k-th cell of a copy that starts at index i and wraps after the last cell.
Cell(i, k) == IF i + k < Size THEN i + k ELSE i + k - Size

\* The index after a call that moved n frames from start.  A call that wraps stores
\* what it computed; any other adds n to the index as it is by then.
Moved(start, i, n) == IF start + n > Size THEN start + n - Size ELSE i + n

\* A call is over when it has copied everything and stored its index.
Rest(c) == IF c.done = c.size /\ c.stored THEN NoCall ELSE c

\* write(): the size of the call is fixed by the indices it loads, ...
WriteBegin(n) ==
    /\ ~writer.busy
    /\ written + n <= MaxFrames
    /\ LET size == Least(n, WriteSize(m_read, m_write)) IN
         /\ size > 0
         /\ writer' = [busy |-> TRUE, start |-> m_write, size |-> size, done |-> 0,
                       stored |-> FALSE]
    /\ UNCHANGED <<m_read, m_write, buffer, reader, written, taken, target>>

\* ... the copy goes cell by cell, ...
WriteCopy ==
    /\ writer.busy /\ writer.done < writer.size
    /\ buffer' = [buffer EXCEPT ![Cell(writer.start, writer.done)] =
                     (IF writer.stored THEN written - writer.size ELSE written)
                        + writer.done + 1]
    /\ writer' = Rest([writer EXCEPT !.done = @ + 1])
    /\ UNCHANGED <<m_read, m_write, reader, written, taken, target>>

\* ... and the index is stored.
WriteStore ==
    /\ writer.busy /\ ~writer.stored
    /\ writer.done = writer.size \/ Reordering
    /\ m_write' = Moved(writer.start, m_write, writer.size)
    /\ written' = written + writer.size
    /\ writer' = Rest([writer EXCEPT !.stored = TRUE])
    /\ UNCHANGED <<m_read, buffer, reader, taken, target>>

\* read(), in the same three phases.
ReadBegin(n) ==
    /\ ~reader.busy
    /\ LET size == Least(n, ReadSize(m_read, m_write)) IN
         /\ size > 0
         /\ reader' = [busy |-> TRUE, start |-> m_read, size |-> size, done |-> 0,
                       stored |-> FALSE]
    /\ target' = <<>>
    /\ UNCHANGED <<m_read, m_write, buffer, writer, written, taken>>

ReadCopy ==
    /\ reader.busy /\ reader.done < reader.size
    /\ target' = Append(target, buffer[Cell(reader.start, reader.done)])
    /\ reader' = Rest([reader EXCEPT !.done = @ + 1])
    /\ UNCHANGED <<m_read, m_write, buffer, writer, written, taken>>

\* Slip: the frames are handed back before they have been copied out.
ReadStore_Early ==
    /\ reader.busy /\ ~reader.stored
    /\ m_read' = Moved(reader.start, m_read, reader.size)
    /\ taken' = taken + reader.size
    /\ reader' = Rest([reader EXCEPT !.stored = TRUE])
    /\ UNCHANGED <<m_write, buffer, writer, written, target>>

ReadStore ==
    /\ reader.busy /\ ~reader.stored
    /\ reader.done = reader.size \/ Reordering
    /\ m_read' = Moved(reader.start, m_read, reader.size)
    /\ taken' = taken + reader.size
    /\ reader' = Rest([reader EXCEPT !.stored = TRUE])
    /\ UNCHANGED <<m_write, buffer, writer, written, target>>

\* reset() by the mixing thread, between two of its writes.  A frame written
\* afterwards is frame 1 again.
Reset ==
    /\ Resets # "never" /\ ~writer.busy
    /\ Resets = "quiet" => ~reader.busy
    /\ m_read' = 0
    /\ m_write' = 0
    /\ written' = 0
    /\ taken' = 0
    /\ UNCHANGED <<buffer, writer, reader, target>>

Writer == (\E n \in 1 .. Size : WriteBegin(n)) \/ WriteCopy \/ WriteStore \/ Reset
Reader == (\E n \in 1 .. Size : ReadBegin(n)) \/ ReadCopy \/ ReadStore

RingNext == Writer \/ Reader

\* The backend keeps asking for frames.
RingSpec == RingInit /\ [][RingNext]_ringVars /\ WF_ringVars(Reader)
------------------------------------------------------------------------------
(* Properties. *)

Call == [busy : BOOLEAN, start : Indices, size : Indices, done : Indices, stored : BOOLEAN]

\* Every variable keeps its type; an index never leaves 0 .. Size.
RingTypeOK ==
    /\ m_read \in Indices
    /\ m_write \in Indices
    /\ buffer \in [Cells -> Nat]
    /\ writer \in Call
    /\ reader \in Call
    /\ written \in Nat
    /\ taken \in Nat
    /\ target \in Seq(Nat)

\* The cells a call still has to touch.
Pending(c) == {Cell(c.start, k) : k \in c.done .. c.size - 1}

\* Writer and reader never have the same cell to copy: the memory accesses of the
\* two memcpy()s do not conflict although no lock separates them.
NoOverlap == Pending(writer) \cap Pending(reader) = {}

\* What a read hands out are the next frames, in order, none lost, none twice and
\* none half overwritten.
InOrder ==
    reader.busy =>
        \A i \in 1 .. Len(target) :
            target[i] = (IF reader.stored THEN taken - reader.size ELSE taken) + i

\* What the reader may take is what was written and not yet taken: the indices
\* never announce frames that do not exist.
OnlyWrittenFrames == ReadSize(m_read, m_write) = written - taken

\* All three: what the two sides do without a lock never meets, comes out in order and
\* is announced truthfully.
CopiesAreRight == NoOverlap /\ InOrder /\ OnlyWrittenFrames

\* The buffer implements a bounded first-in first-out queue, by its contents.
Contents == [i \in 1 .. ReadSize(m_read, m_write) |-> buffer[Cell(m_read, i - 1)]]
Queue == INSTANCE FrameQueue WITH Capacity <- Size - 1, queue <- Contents, next <- written + 1
ImplementsQueue == Queue!QSpec

\* A written frame is read, or dropped by a reset(), in the end, wherever in the
\* buffer its copy wrapped.
EveryFrameIsRead ==
    \A k \in 1 .. MaxFrames : written >= k ~> (taken >= k \/ written < k)
=============================================================================
