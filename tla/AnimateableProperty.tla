-------------------------- MODULE AnimateableProperty --------------------------
(***************************************************************************)
(* A value that is animated over frames (AnimateableProperty.cpp in        *)
(* src/sequence/): an application writes some frames, in any order, and    *)
(* the readers of a sequence or an effect read all of them.                *)
(*                                                                         *)
(* Frames that were not written repeat the last one before them that was.  *)
(* They are filled in when a write comes, not when one is read, and        *)
(* m_unknown remembers which they are, so that a later write knows what it *)
(* has to fill in again.  One number stands for the count of a frame; the  *)
(* interpolation between two frames is left out.                           *)
(*                                                                         *)
(* What has the name of a part of SequenceReader begins with Anim: the     *)
(* proofs about the two share a module.                                    *)
(***************************************************************************)
EXTENDS Integers, SequencesExt

CONSTANTS
    Values,     \* what a frame may be
    First,      \* the value the property is created with
    MaxFrame,   \* bound: frames are 0 .. MaxFrame
    MaxCount,   \* bound on the frames of one write
    MaxWrites,  \* bound on the writes
    Rewrites,   \* whether the frame before an unknown range is written again, and empty ranges are
    Shortens    \* whether an animation replaces a longer one, after a static value

ASSUME PropertyAssumption ==
    /\ First \in Values
    /\ MaxFrame \in Nat /\ MaxCount \in Nat /\ MaxWrites \in Nat
    /\ Rewrites \in BOOLEAN /\ Shortens \in BOOLEAN

VARIABLES
    buffer,         \* the frames
    m_isAnimated,
    m_unknown,      \* the ranges of frames that were not written, in order
    default,        \* history: what holds before the first frame that was written
    written,        \* history: the frames that were written
    writes          \* writes so far

animVars == <<buffer, m_isAnimated, m_unknown, default, written, writes>>

Frames == 0 .. MaxFrame
Size == Cardinality(DOMAIN buffer)
Nothing == [f \in {} |-> First]

AnimInit ==
    /\ buffer = [f \in {0} |-> First]
    /\ m_isAnimated = FALSE /\ m_unknown = <<>>
    /\ default = First /\ written = Nothing
    /\ writes = 0
------------------------------------------------------------------------------
\* updateUnknownCache(): zero order interpolation of b from frame start to end.
Cached(b, start, end) == [f \in DOMAIN b |-> IF f \in start .. end THEN b[start - 1] ELSE b[f]]

\* The copy of the data over the frames of b.
Over(data, b) == [f \in DOMAIN data \cup DOMAIN b |-> IF f \in DOMAIN data THEN data[f] ELSE b[f]]

\* assureSize() and the copy; new frames before the data are filled in at once.
Extended(b, data, end) ==
    Over(data, [f \in 0 .. Max({Size, end}) - 1 |-> IF f < Size THEN b[f] ELSE First])

\* What is left of a range when count frames from position on were written.
Parts(u, position, count) ==
    IF u.end < position \/ u.start >= position + count THEN <<u>>
    ELSE (IF u.start < position THEN <<[u EXCEPT !.end = position - 1]>> ELSE <<>>)
         \o (IF position + count <= u.end THEN <<[u EXCEPT !.start = position + count]>> ELSE <<>>)

\* Slip: what follows the write is not filled in again when the write splits a range.
Filled_FirstPartOnly(b, position, count) ==
    LET next == position + count
        after == {i \in DOMAIN m_unknown : /\ m_unknown[i].start < next /\ next <= m_unknown[i].end
                                           /\ position <= m_unknown[i].start}
    IN IF after = {} THEN b ELSE Cached(b, next, m_unknown[CHOOSE i \in after : TRUE].end)

\* The rest of a range that was written into repeats the last frame of the write.
Filled(b, position, count) ==
    LET next == position + count
        after == {i \in DOMAIN m_unknown : m_unknown[i].start < next /\ next <= m_unknown[i].end}
    IN IF after = {} THEN b ELSE Cached(b, next, m_unknown[CHOOSE i \in after : TRUE].end)

\* Slip: a range that is split keeps its first part only.
UpdateUnknownAfterWrite_NoSecond(b, pos, position, count) ==
    IF pos < position
    THEN /\ m_unknown' = Append(m_unknown, [start |-> pos, end |-> position - 1])
         /\ buffer' = Cached(b, Max({pos, 1}), position - 1)
    ELSE /\ m_unknown' = FlattenSeq([i \in DOMAIN m_unknown |->
                            LET ps == Parts(m_unknown[i], position, count)
                            IN IF Len(ps) = 2 THEN <<ps[1]>> ELSE ps])
         /\ buffer' = Filled(b, position, count)

\* updateUnknownAfterWrite(): a write behind the end leaves a new range, any other one
\* takes its frames out of the ranges.  (The walk over the list ends at the first range
\* behind the write: the list is in order.)
UpdateUnknownAfterWrite(b, pos, position, count) ==
    IF pos < position
    THEN /\ m_unknown' = Append(m_unknown, [start |-> pos, end |-> position - 1])
         /\ buffer' = Cached(b, Max({pos, 1}), position - 1)
    ELSE /\ m_unknown' = FlattenSeq([i \in DOMAIN m_unknown |-> Parts(m_unknown[i], position, count)])
         /\ buffer' = Filled(b, position, count)

\* What an application that knows the weak points of the code leaves alone: a write that
\* ends just before an unknown range does not fill it in again (an empty write splits one
\* in two such), and frames of an earlier, longer animation come back.
Allowed(position, count) ==
    /\ Rewrites \/ (count > 0 /\ \A i \in DOMAIN m_unknown : m_unknown[i].start # position + count)
    /\ Shortens \/ m_isAnimated \/ position + count >= Size

\* A static value has no frames.
KnownSize == IF m_isAnimated THEN Size ELSE 0

Writes == writes < MaxWrites /\ writes' = writes + 1

\* write() of a static value.
WriteStatic(v) ==
    /\ Writes
    /\ m_isAnimated' = FALSE /\ m_unknown' = <<>>
    /\ buffer' = [buffer EXCEPT ![0] = v]
    /\ default' = v /\ written' = Nothing

\* write() of some frames.
Write(position, data) ==
    LET count == Cardinality(DOMAIN data) IN
    /\ Writes /\ Allowed(position, count)
    /\ m_isAnimated' = TRUE
    /\ UpdateUnknownAfterWrite(Extended(buffer, data, position + count), KnownSize, position, count)
    /\ written' = Over(data, written)
    /\ UNCHANGED default

\* writeConstantRange(): the first value of an animation is its default, too.
WriteConstantRange(v, start, end) ==
    LET data == [f \in start .. end - 1 |-> v]
        b == IF m_isAnimated THEN buffer ELSE [buffer EXCEPT ![0] = v]
    IN /\ Writes /\ Allowed(start, end - start)
       /\ m_isAnimated' = TRUE
       /\ UpdateUnknownAfterWrite(Extended(b, data, end), KnownSize, start, end - start)
       /\ written' = Over(data, written)
       /\ default' = IF m_isAnimated THEN default ELSE v

AnimNext ==
    \/ \E v \in Values : WriteStatic(v)
    \/ \E p \in Frames, n \in 1 .. MaxCount :
          /\ p + n - 1 \in Frames
          /\ \E data \in [p .. p + n - 1 -> Values] : Write(p, data)
    \/ \E v \in Values, p, q \in Frames : p <= q /\ WriteConstantRange(v, p, q)

AnimSpec == AnimInit /\ [][AnimNext]_animVars
------------------------------------------------------------------------------
(* Properties. *)

\* Every variable keeps its type.
AnimTypeOK ==
    /\ DOMAIN buffer = 0 .. Size - 1 /\ Size \in 1 .. MaxFrame + 1
    /\ \A f \in DOMAIN buffer : buffer[f] \in Values
    /\ m_isAnimated \in BOOLEAN
    /\ \A i \in DOMAIN m_unknown : m_unknown[i] \in [start : Frames, end : Frames]

\* read() of a frame.
Read(f) == IF m_isAnimated THEN buffer[Min({f, Size - 1})] ELSE buffer[0]

\* What zero order interpolation of the written frames is at f.
Held(f) ==
    LET before == {g \in DOMAIN written : g <= f}
    IN IF before = {} THEN default ELSE written[Max(before)]

\* In whatever order frames were written, split and overwritten, a frame reads as the
\* last one that was written before it (updateUnknownCache(): "we need zero order
\* interpolation here").
ReadsAreHeld == \A f \in Frames : Read(f) = Held(f)

\* The unknown ranges are in order and disjoint, and are exactly the frames up to the end
\* of the animation that were never written.
UnknownIsUnwritten ==
    m_isAnimated =>
        /\ \A i, j \in DOMAIN m_unknown : i < j => m_unknown[i].end < m_unknown[j].start
        /\ UNION {m_unknown[i].start .. m_unknown[i].end : i \in DOMAIN m_unknown}
              = DOMAIN buffer \ DOMAIN written
=============================================================================
