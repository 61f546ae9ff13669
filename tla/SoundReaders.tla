----------------------------- MODULE SoundReaders -----------------------------
(***************************************************************************)
(* The readers that repeat, cut, delay, reverse and join other readers:    *)
(* LoopReader, LimiterReader, DelayReader and ReverseReader (fx/),         *)
(* DoubleReader and SuperposeReader (sequence/), over BufferReader (util/).*)
(* A sound is a tree of them; createReader() builds a tree of readers, and *)
(* every seek() and read() goes down that tree.                            *)
(*                                                                         *)
(* A frame is the set of the frames of buffers that sound in it: silence   *)
(* is the empty set and superposing is union.  Times are in frames, and    *)
(* all readers have the same specs.  read() takes its eos by reference: a  *)
(* reader that does not set it leaves what the caller's variable holds.    *)
(***************************************************************************)
EXTENDS Integers, Sequences, SequencesExt, FiniteSetsExt

CONSTANTS
    Sounds,     \* the trees to read
    Seeks,      \* for each of them, the positions clients seek
    Sizes,      \* the sizes of reads
    Horizon,    \* how many frames of an endless sound the reference gives
    MaxCalls    \* bound on the calls of the client

ASSUME ReadersAssumption == Sizes \subseteq Nat \ {0} /\ MaxCalls \in Nat /\ Horizon \in Nat

VARIABLES
    sound, reader,
    at,         \* history: where the next read is to begin
    got,        \* what the last read gave: from where, for which size, the frames and eos
    calls       \* so far

vars == <<sound, reader, at, got, calls>>
------------------------------------------------------------------------------
(* Sounds: a kind, the sounds inside, and the arguments of the constructor. *)

Node(kind, of, a, b) == [kind |-> kind, of |-> of, a |-> a, b |-> b]

Buffer(id, length) == Node("buffer", <<>>, length, id)
Loop(s, count) == Node("loop", <<s>>, count, 0)
Limiter(s, start, end) == Node("limiter", <<s>>, start, end)
Delay(s, delay) == Node("delay", <<s>>, delay, 0)
Reversed(s) == Node("reverse", <<s>>, 0, 0)
Double(s, t) == Node("double", <<s, t>>, 0, 0)
Superpose(s, t) == Node("superpose", <<s, t>>, 0, 0)

PingPong(s) == Double(s, Reversed(s))

Inner(s, Holds(_)) == \A i \in DOMAIN s.of : Holds(s.of[i])

Silence(n) == [i \in 1 .. n |-> {}]

\* f and g at once; the shorter one is silent at its end.
Together(f, g) ==
    [i \in 1 .. Max({Len(f), Len(g)}) |->
        (IF i <= Len(f) THEN f[i] ELSE {}) \cup (IF i <= Len(g) THEN g[i] ELSE {})]

\* The reference: the frames a sound stands for.
RECURSIVE Frames(_)
Frames(s) ==
    LET f == Frames(s.of[1])
        g == Frames(s.of[2])
    IN CASE s.kind = "buffer" -> [i \in 1 .. s.a |-> {<<s.b, i>>}]
         [] s.kind = "loop" -> [i \in 1 .. (IF s.a < 0 THEN Horizon ELSE (s.a + 1) * Len(f)) |->
                                  f[((i - 1) % Len(f)) + 1]]
         [] s.kind = "limiter" -> SubSeq(f, s.a + 1, IF s.b < 0 THEN Len(f) ELSE Min({Len(f), s.b}))
         [] s.kind = "delay" -> Silence(s.a) \o f
         [] s.kind = "reverse" -> Reverse(f)
         [] s.kind = "double" -> f \o g
         [] s.kind = "superpose" -> Together(f, g)

RECURSIVE Endless(_)
Endless(s) == (s.kind = "loop" /\ s.a < 0) \/ (s.kind # "limiter" /\ ~Inner(s, LAMBDA t : ~Endless(t)))
------------------------------------------------------------------------------
(* Readers: the node of the sound and its state. *)

RECURSIVE Length(_), Position(_), SeekTo(_, _), Read(_, _, _, _), NewReader(_)

PositionLoop(r) == Position(r.of[1]) * (IF r.a < 0 THEN 1 ELSE r.a)

PositionLimiter(r) == Min({Position(r.of[1]), r.b}) - r.a

\* Slip: what has passed is not the delay but what is left of it.
PositionDelay_Left(r) == IF r.left > 0 THEN r.left ELSE Position(r.of[1]) + r.a

PositionDelay(r) == IF r.left > 0 THEN r.a - r.left ELSE Position(r.of[1]) + r.a

\* getPosition()
Position(r) ==
    CASE r.kind \in {"buffer", "reverse"} -> r.pos
      [] r.kind = "loop" -> PositionLoop(r)
      [] r.kind = "limiter" -> PositionLimiter(r)
      [] r.kind = "delay" -> PositionDelay(r)
      [] r.kind = "double" -> Position(r.of[1]) + Position(r.of[2])
      [] r.kind = "superpose" -> Max({Position(r.of[1]), Position(r.of[2])})

LengthLoop(r) == IF r.a < 0 THEN -1 ELSE Length(r.of[1]) * r.a

LengthLimiter(r) ==
    LET len == Length(r.of[1]) IN (IF len < 0 \/ (len > r.b /\ r.b >= 0) THEN r.b ELSE len) - r.a

LengthOfTwo(r, len) == IF Length(r.of[1]) < 0 \/ Length(r.of[2]) < 0 THEN -1 ELSE len

\* getLength(); a ReverseReader keeps the length it found when it was made.
Length(r) ==
    CASE r.kind = "buffer" -> r.a
      [] r.kind = "loop" -> LengthLoop(r)
      [] r.kind = "limiter" -> LengthLimiter(r)
      [] r.kind = "delay" -> LET len == Length(r.of[1]) IN IF len < 0 THEN len ELSE len + r.a
      [] r.kind = "reverse" -> r.b
      [] r.kind = "double" -> LengthOfTwo(r, Length(r.of[1]) + Length(r.of[2]))
      [] r.kind = "superpose" -> LengthOfTwo(r, Max({Length(r.of[1]), Length(r.of[2])}))

\* seek() of each reader.
SeekLoop(r, p) ==
    LET len == Length(r.of[1])
    IN IF len < 0 THEN [r EXCEPT !.of[1] = SeekTo(@, p)]
       ELSE [r EXCEPT !.of[1] = SeekTo(@, p % len),
                      !.left = IF r.a >= 0 THEN Max({r.a - p \div len, 0}) ELSE @]

\* Slip: what is left of the delay is not set when the position is behind it.
SeekDelay_KeepsLeft(r, p) ==
    IF p < r.a THEN [r EXCEPT !.left = r.a - p, !.of[1] = SeekTo(@, 0)]
    ELSE [r EXCEPT !.of[1] = SeekTo(@, p - r.a)]

SeekDelay(r, p) ==
    IF p < r.a THEN [r EXCEPT !.left = r.a - p, !.of[1] = SeekTo(@, 0)]
    ELSE [r EXCEPT !.left = 0, !.of[1] = SeekTo(@, p - r.a)]

\* The first reader has finished if it does not get as far as it is sought.
SeekDouble(r, p) ==
    LET first == SeekTo(r.of[1], p)
        beyond == p - Position(first)
    IN [r EXCEPT !.of = <<first, SeekTo(r.of[2], Max({beyond, 0}))>>, !.finished = beyond > 0]

SeekTo(r, p) ==
    CASE r.kind \in {"buffer", "reverse"} -> [r EXCEPT !.pos = p]
      [] r.kind = "loop" -> SeekLoop(r, p)
      [] r.kind = "limiter" -> [r EXCEPT !.of[1] = SeekTo(@, p + r.a)]
      [] r.kind = "delay" -> SeekDelay(r, p)
      [] r.kind = "double" -> SeekDouble(r, p)
      [] r.kind = "superpose" -> [r EXCEPT !.of = <<SeekTo(r.of[1], p), SeekTo(r.of[2], p)>>]

\* The constructors.  All readers here can seek: a LimiterReader skips to its start.
NewReader(s) ==
    LET r == [kind |-> s.kind, of |-> [i \in DOMAIN s.of |-> NewReader(s.of[i])], a |-> s.a,
              b |-> IF s.kind = "reverse" THEN Length(NewReader(s.of[1])) ELSE s.b,
              pos |-> 0, left |-> s.a, finished |-> FALSE]
    IN IF s.kind = "limiter" /\ s.a > 0 THEN [r EXCEPT !.of[1] = SeekTo(@, s.a)] ELSE r
------------------------------------------------------------------------------
(* read(): n frames are asked for, eos is what the caller's variable holds, and junk what a *)
(* variable holds that nobody has set.  The result is the reader after it, the frames, and eos. *)

Result(r, out, eos) == [reader |-> r, out |-> out, eos |-> eos]

\* The result x of the reader inside, as the result of r, behind the frames before.
Passed(r, before, x) == Result([r EXCEPT !.of[1] = x.reader], before \o x.out, x.eos)

ReadBuffer(r, n) ==
    LET len == Min({n, r.a - r.pos})
    IN IF len < 0 THEN Result(r, <<>>, TRUE)
       ELSE Result([r EXCEPT !.pos = @ + len], [i \in 1 .. len |-> {<<r.b, r.pos + i>>}], r.a < r.pos + n)

\* While the sound has ended too early and there are loops left, it starts again.
RECURSIVE LoopOn(_, _, _)
LoopOn(x, n, junk) ==
    LET r == x.reader
        next == Read(SeekTo(r.of[1], 0), n - Len(x.out), x.eos, junk)
        y == Passed([r EXCEPT !.left = IF @ > 0 THEN @ - 1 ELSE @], x.out, next)
    IN IF Len(x.out) = n \/ ~x.eos \/ r.left = 0 THEN x
       ELSE IF next.out = <<>> THEN y ELSE LoopOn(y, n, junk)

ReadLoop(r, n, eos, junk) == LoopOn(Passed(r, <<>>, Read(r.of[1], n, eos, junk)), n, junk)

\* Slip: the end is announced only if the sound inside ends there.
ReadLimiter_PassesEnd(r, n, junk) ==
    LET pos == Position(r.of[1])
        len == IF r.b >= 0 THEN Min({n, r.b - pos}) ELSE n
    IN IF len < 0 THEN Result(r, <<>>, TRUE) ELSE Passed(r, <<>>, Read(r.of[1], len, FALSE, junk))

\* A read is cut at the end, and what lies before the start is skipped.
ReadLimiter(r, n, junk) ==
    LET pos == Position(r.of[1])
        cut == r.b >= 0 /\ pos + n > r.b
        len == IF cut THEN r.b - pos ELSE n
        before == r.b >= 0 /\ pos < r.a
        skipped == IF before /\ ~cut THEN Read(r.of[1], r.a - pos, FALSE, junk) ELSE Result(r.of[1], <<>>, cut)
        x == Read(skipped.reader, len, skipped.eos, junk)
    IN IF len < 0 \/ (before /\ pos + Len(skipped.out) < r.a)
       THEN Passed(r, <<>>, [skipped EXCEPT !.out = <<>>])
       ELSE Passed(r, <<>>, [x EXCEPT !.eos = @ \/ skipped.eos])

\* A read that the delay fills leaves eos alone.
ReadDelay(r, n, eos, junk) ==
    IF n <= r.left THEN Result([r EXCEPT !.left = @ - n], Silence(n), eos)
    ELSE Passed([r EXCEPT !.left = 0], Silence(r.left), Read(r.of[1], n - r.left, eos, junk))

\* A frame of the caller's buffer that nobody has written.
Unwritten == {<<0, 0>>}

\* The n frames of a buffer that got those of out, after the first that are missing were
\* zeroed and the swaps: each of the first n \div 2 with the one as far before the end of out.
\* The frames of out are reversed if none are missing.
Swapped(out, n) ==
    LET len == Len(out)
        swaps == 0 .. n \div 2 - 1
        before(j) == IF j \in 0 .. n - len - 1 THEN {}
                     ELSE IF j \in 0 .. len - 1 THEN out[j + 1] ELSE Unwritten
        opposite(j) == len - 1 - j
        moved(j) == (j \in swaps) # (opposite(j) \in swaps)
    IN [i \in 1 .. n |-> before(IF moved(i - 1) THEN opposite(i - 1) ELSE i - 1)]

\* The end is announced by a read that gives nothing.
ReadReverse(r, n, eos, junk) ==
    LET len == Min({n, r.b - r.pos})
        x == Read(SeekTo(r.of[1], r.b - r.pos - len), len, eos, junk)
    IN IF len <= 0 THEN Result(r, <<>>, TRUE)
       ELSE Result([r EXCEPT !.of[1] = x.reader, !.pos = @ + len], Swapped(x.out, len), FALSE)

\* What the first reader does not fill is read from the second one.
ReadDouble(r, n, junk) ==
    LET x == IF r.finished THEN Result(r.of[1], <<>>, TRUE) ELSE Read(r.of[1], n, FALSE, junk)
        y == IF Len(x.out) < n THEN Read(r.of[2], n - Len(x.out), FALSE, junk) ELSE Result(r.of[2], <<>>, FALSE)
    IN Result([r EXCEPT !.of = <<x.reader, y.reader>>, !.finished = x.eos], x.out \o y.out, y.eos)

\* The eos of the second reader is read into a variable that is not initialized.
ReadSuperpose(r, n, eos, junk) ==
    LET x == Read(r.of[1], n, eos, junk)
        y == Read(r.of[2], n, junk, junk)
    IN Result([r EXCEPT !.of = <<x.reader, y.reader>>], Together(x.out, y.out), x.eos /\ y.eos)

Read(r, n, eos, junk) ==
    CASE r.kind = "buffer" -> ReadBuffer(r, n)
      [] r.kind = "loop" -> ReadLoop(r, n, eos, junk)
      [] r.kind = "limiter" -> ReadLimiter(r, n, junk)
      [] r.kind = "delay" -> ReadDelay(r, n, eos, junk)
      [] r.kind = "reverse" -> ReadReverse(r, n, eos, junk)
      [] r.kind = "double" -> ReadDouble(r, n, junk)
      [] r.kind = "superpose" -> ReadSuperpose(r, n, eos, junk)
------------------------------------------------------------------------------
Init ==
    /\ sound \in Sounds
    /\ reader = NewReader(sound)
    /\ at = 0
    /\ got = [from |-> 0, size |-> 0, out |-> <<>>, eos |-> FALSE]
    /\ calls = 0

Call == calls < MaxCalls /\ calls' = calls + 1 /\ UNCHANGED sound

\* A caller sets eos to false before it reads.
ReadNext(n, junk) ==
    /\ Call
    /\ LET x == Read(reader, n, FALSE, junk)
       IN /\ reader' = x.reader
          /\ at' = at + Len(x.out)
          /\ got' = [from |-> at, size |-> n, out |-> x.out, eos |-> x.eos]

Seek(p) ==
    /\ Call
    /\ reader' = SeekTo(reader, p)
    /\ at' = p
    /\ got' = [from |-> p, size |-> 0, out |-> <<>>, eos |-> FALSE]

Next ==
    \/ \E n \in Sizes, junk \in BOOLEAN : ReadNext(n, junk)
    \/ \E p \in Seeks[sound] : Seek(p)

Spec == Init /\ [][Next]_vars
------------------------------------------------------------------------------
(* Which sounds may be put into which.  Nothing in the program checks these; they are what  *)
(* the properties below need, and the model shows a counterexample for each when it is left *)
(* out. *)

\* getPosition() and getLength() are right: a LoopReader multiplies both by its count, and a
\* LimiterReader without an end takes the minimum of the position and its negative end.
RECURSIVE Measured(_)
Measured(s) == s.kind # "loop" /\ ~(s.kind = "limiter" /\ s.b < 0) /\ Inner(s, Measured)

\* Every read sets eos: a DelayReader does not.
RECURSIVE SetsEnd(_)
SetsEnd(s) ==
    CASE s.kind = "delay" -> FALSE
      [] s.kind = "loop" -> SetsEnd(s.of[1])
      [] s.kind = "superpose" -> SetsEnd(s.of[1]) /\ SetsEnd(s.of[2])
      [] OTHER -> TRUE

\* A read that gives less than was asked for announces the end: a ReverseReader does so only
\* with the next one.
RECURSIVE EndsAtOnce(_)
EndsAtOnce(s) ==
    CASE s.kind = "reverse" -> FALSE
      [] s.kind = "double" -> EndsAtOnce(s.of[2])
      [] OTHER -> Inner(s, EndsAtOnce)

\* How far a sound can be sought: a DoubleReader does not find its second sound, and a
\* LoopReader that is sought to its end plays the last pass again.
RECURSIVE Reach(_)
Reach(s) ==
    LET len == Len(Frames(s))
        whole(t) == Reach(t) >= Len(Frames(t))
        within(t) == IF whole(t) THEN len ELSE Reach(t)
    IN CASE s.kind \in {"buffer", "reverse"} -> len
         [] s.kind = "loop" -> IF whole(s.of[1]) THEN Min({len - 1, Horizon \div 2}) ELSE Reach(s.of[1])
         [] s.kind = "limiter" -> Min({Reach(s.of[1]) - s.a, len})
         [] s.kind = "delay" -> Reach(s.of[1]) + s.a
         [] s.kind = "double" -> Min({Reach(s.of[1]), Len(Frames(s.of[1]))})
         [] s.kind = "superpose" -> Min({within(s.of[1]), within(s.of[2])})

RECURSIVE Composes(_)
Composes(s) ==
    LET t == s.of[1] IN
    /\ Inner(s, Composes)
    /\ s.kind = "loop" => Measured(t) /\ EndsAtOnce(t) /\ SetsEnd(t)
    /\ s.kind \in {"limiter", "double"} => Measured(t)
    /\ s.kind = "reverse" => Reach(t) >= Len(Frames(t))
    /\ s.kind = "superpose" => SetsEnd(s.of[2])
------------------------------------------------------------------------------
(* Properties. *)

\* Whatever is read and sought, a read gives the frames that the sound stands for, from the
\* position where the last one ended or that was sought.
ReadsAreRight ==
    got.out = SubSeq(Frames(sound), got.from + 1, Min({got.from + Len(got.out), Len(Frames(sound))}))

\* A reader ends when, and only when, all of its sound was read: eos and a smaller value
\* mean the end, as IReader.h promises, and a read that gives nothing says eos.
EndIsRight ==
    /\ got.eos \/ Len(got.out) < got.size => at >= Len(Frames(sound)) /\ ~Endless(sound)
    /\ got.out = <<>> /\ got.size > 0 => got.eos

\* getPosition() and getLength(), from which a LimiterReader, a DoubleReader and a
\* ReverseReader take where they are, agree with what was read.
PositionIsRight ==
    Measured(sound) => Position(reader) = at /\ Length(reader) = Len(Frames(sound))
=============================================================================
