------------------------------- MODULE Convolver -------------------------------
(***************************************************************************)
(* The convolution of a sound with a long impulse response, block by block *)
(* on a pool of threads: ConvolverReader.cpp, Convolver.cpp and            *)
(* FFTConvolver.cpp in src/fx/, on ThreadPool.cpp in src/util/.            *)
(*                                                                         *)
(* A reader that runs out of output loads a block: it queues one task for  *)
(* some channels each, and waits for them.  Such a task first waits for    *)
(* the tasks that its channel queued in the same pool for the block before *)
(* and that have computed all but the newest part of the sum; then it adds *)
(* that part, and queues the tasks for the block to come.                  *)
(*                                                                         *)
(* The Fourier transform of a window of two blocks stands for the window;  *)
(* a sum is the set of its terms, one part of the impulse response times   *)
(* one window each.  Samples are numbered from 1; 0 is silence.            *)
(***************************************************************************)
EXTENDS Integers, SequencesExt

CONSTANTS
    Threads,        \* the threads of the pool
    Channels,       \* m_inChannels
    L,              \* half the size of the transform: the length of a block
    P,              \* the parts of the impulse response
    IRLength,       \* m_irLength
    InputLength,    \* the length of the sound
    Wanted,         \* the lengths of the reads
    Places,         \* the positions of the seeks
    MaxSeeks        \* bound on the seeks

ASSUME ConvolverAssumption ==
    /\ IsFiniteSet(Threads) /\ Threads # {} /\ Channels \in Nat \ {0}
    /\ L \in Nat \ {0} /\ IRLength \in (P - 1) * L + 1 .. P * L /\ P \in Nat \ {0}
    /\ InputLength \in Nat /\ Wanted \subseteq Nat \ {0} /\ Places \subseteq Nat /\ MaxSeeks \in Nat

VARIABLES
    m_queue,        \* the tasks of the pool
    work,           \* the task of each thread
    m_futures,      \* the tasks of each channel that were not waited for
    done,           \* those that have finished
    m_resetFlag,    \* of each channel
    shift, line,    \* the window of each channel, and the earlier ones
    acc, tail,      \* the sum so far, and m_tailCounter
    inOut,          \* m_vecInOut
    lengthIn,       \* m_lastLengthIn
    results,        \* what the tasks of the reader have returned
    m_eosTail,
    out,            \* the output buffer, [buf, pos, len]
    reader,         \* where read() and seek() are
    position,       \* of the sound that is convolved
    base, total,    \* history: where it began, and the samples that were read since
    seeks           \* seeks so far

pool == <<m_queue, work, done>>
convolvers == <<m_futures, m_resetFlag, shift, line, acc, tail>>
vars == <<pool, convolvers, inOut, lengthIn, results, m_eosTail, out, reader, position, base, total, seeks>>

Channel == 0 .. Channels - 1
Silence(n) == [k \in 1 .. n |-> 0]

\* A sample of the sound, as the samples of the output are: place at of a block's sum.
Input(n) == [sum |-> {}, at |-> n]

\* The product of a part of the impulse response and a window.
Term(i, window) == IF window = Silence(2 * L) THEN {} ELSE {<<i, window>>}

Cleared == [c \in Channel |-> [p \in 1 .. P |-> Silence(2 * L)]]
Idle == [kind |-> "none"]
NoChannel == -1

CeilDiv(a, b) == (a + b - 1) \div b

\* The items of task id when n items, from the first one on, are shared by some tasks.
Share(id, tasks, first, n) ==
    LET share == CeilDiv(n, tasks)
    IN {i \in first + id * share .. first + (id + 1) * share - 1 : i < first + n}

\* The number of tasks for the channels, and for the older parts of the impulse response.
m_nChannelThreads == Min({Cardinality(Threads), Channels})
m_numThreads == Min({Cardinality(Threads), P - 1})

Init ==
    /\ m_queue = <<>> /\ done = {}
    /\ work = [t \in Threads |-> Idle]
    /\ m_futures = [c \in Channel |-> {}] /\ m_resetFlag = [c \in Channel |-> FALSE]
    /\ shift = [c \in Channel |-> Silence(2 * L)] /\ line = Cleared
    /\ acc = [c \in Channel |-> {}] /\ tail = [c \in Channel |-> 0]
    /\ inOut = [c \in Channel |-> [k \in 1 .. L |-> Input(0)]]
    /\ lengthIn = 0 /\ results = <<>> /\ m_eosTail = FALSE
    /\ out = [buf |-> <<>>, pos |-> L, len |-> L]
    /\ reader = [at |-> "idle", got |-> <<>>]
    /\ position = 0 /\ base = 0 /\ total = 0 /\ seeks = 0
------------------------------------------------------------------------------
(* ConvolverReader::read(), seek() and loadBuffer(). *)

\* Samples in the buffer, and how many the next turn of the loop wants from it.
Rest == out.len - out.pos
WriteLength(want) == Min({want, out.len + Rest})

Read(n) ==
    /\ reader.at = "idle"
    /\ reader' = [at |-> "copy", want |-> n, got |-> <<>>]
    /\ UNCHANGED <<pool, convolvers, inOut, lengthIn, results, m_eosTail, out, position, base, total, seeks>>

\* The loop of read() copies what the buffer has, ends with the tail, or loads a block.
Copy ==
    /\ reader.at = "copy"
    /\ LET w == WriteLength(reader.want)
           n == Min({w, Rest})
           got == reader.got \o SubSeq(out.buf, out.pos + 1, out.pos + n)
       IN /\ out' = [out EXCEPT !.pos = @ + n]
          /\ IF Rest < w /\ ~m_eosTail
             THEN /\ reader' = [at |-> "load", want |-> reader.want, got |-> got, rest |-> n, w |-> w]
                  /\ UNCHANGED total
             ELSE /\ reader' = [at |-> "idle", got |-> got]
                  /\ total' = total + Len(got)
    /\ UNCHANGED <<pool, convolvers, inOut, lengthIn, results, m_eosTail, position, base, seeks>>

\* loadBuffer() reads a block and queues a task for each share of the channels.
LoadBuffer ==
    /\ reader.at = "load"
    /\ LET n == Max({0, Min({L, InputLength - position})}) IN
       /\ lengthIn' = IF n > 0 THEN n ELSE L
       /\ inOut' = [c \in Channel |-> [k \in 1 .. L |-> IF k <= n THEN Input(position + k) ELSE inOut[c][k]]]
       /\ position' = position + n
       /\ m_queue' = m_queue \o [i \in 1 .. m_nChannelThreads |->
                                    [kind |-> "channels", id |-> i - 1, input |-> n > 0]]
    /\ results' = [i \in 0 .. m_nChannelThreads - 1 |-> -1]
    /\ reader' = [reader EXCEPT !.at = "wait"]
    /\ UNCHANGED <<work, done, convolvers, m_eosTail, out, base, total, seeks>>

\* It waits for all of them; the result of the last one is the length of the block.
BlockLoaded ==
    /\ reader.at = "wait" /\ \A i \in DOMAIN results : results[i] >= 0
    /\ LET len == results[m_nChannelThreads - 1]
           buf == [k \in 1 .. len |-> [c \in Channel |-> inOut[c][k]]]
           more == Min({reader.w - reader.rest, len})
           want == reader.want - Min({reader.want, len + reader.rest})
           got == reader.got \o SubSeq(buf, 1, more)
       IN /\ out' = [buf |-> buf, pos |-> more, len |-> len]
          /\ IF want > 0
             THEN reader' = [at |-> "copy", want |-> want, got |-> got] /\ UNCHANGED total
             ELSE reader' = [at |-> "idle", got |-> got] /\ total' = total + Len(got)
    /\ UNCHANGED <<pool, convolvers, inOut, lengthIn, results, m_eosTail, position, base, seeks>>

Seek(p) ==
    /\ reader.at = "idle" /\ seeks < MaxSeeks
    /\ reader' = [at |-> "reset", to |-> p, channel |-> 0, got |-> <<>>]
    /\ m_resetFlag' = [m_resetFlag EXCEPT ![0] = TRUE]
    /\ UNCHANGED <<pool, m_futures, shift, line, acc, tail, inOut, lengthIn, results, m_eosTail, out,
                   position, base, total, seeks>>

Finished(c) == \A id \in m_futures[c] : [channel |-> c, id |-> id] \in done

\* reset() of each channel in turn waits for its tasks and clears what they left.
Reset ==
    /\ reader.at = "reset" /\ Finished(reader.channel)
    /\ LET c == reader.channel IN
       /\ m_futures' = [m_futures EXCEPT ![c] = {}]
       /\ done' = {d \in done : d.channel # c}
       /\ shift' = [shift EXCEPT ![c] = Silence(2 * L)]
       /\ line' = [line EXCEPT ![c] = Cleared[c]]
       /\ acc' = [acc EXCEPT ![c] = {}] /\ tail' = [tail EXCEPT ![c] = 0]
       /\ IF c + 1 \in Channel
          THEN /\ reader' = [reader EXCEPT !.channel = c + 1]
               /\ m_resetFlag' = [m_resetFlag EXCEPT ![c] = FALSE, ![c + 1] = TRUE]
               /\ UNCHANGED <<m_eosTail, out, position, base, total, seeks>>
          ELSE /\ reader' = [at |-> "idle", got |-> <<>>]
               /\ m_resetFlag' = [m_resetFlag EXCEPT ![c] = FALSE]
               /\ m_eosTail' = FALSE
               /\ out' = [out EXCEPT !.pos = L, !.len = L]
               /\ position' = reader.to /\ base' = reader.to /\ total' = 0 /\ seeks' = seeks + 1
    /\ UNCHANGED <<m_queue, work, inOut, lengthIn, results>>

Reader == Copy \/ LoadBuffer \/ BlockLoaded \/ Reset
------------------------------------------------------------------------------
(* The pool. *)

\* The first channel of a share, or none.
Begun(task) ==
    IF task.kind = "part" THEN task
    ELSE [kind |-> "channels", id |-> task.id, input |-> task.input, l |-> lengthIn, queues |-> NoChannel,
          left |-> Share(task.id, m_nChannelThreads, 0, Channels)]

\* Slip: the newest task is taken first.
TakeTask_Newest(t) ==
    /\ work[t] = Idle /\ m_queue # <<>>
    /\ work' = [work EXCEPT ![t] = Begun(Last(m_queue))]
    /\ m_queue' = Front(m_queue)
    /\ UNCHANGED <<done, convolvers, inOut, lengthIn, results, m_eosTail, out, reader, position, base, total, seeks>>

\* A thread takes the task that has waited longest.
TakeTask(t) ==
    /\ work[t] = Idle /\ m_queue # <<>>
    /\ work' = [work EXCEPT ![t] = Begun(Head(m_queue))]
    /\ m_queue' = Tail(m_queue)
    /\ UNCHANGED <<done, convolvers, inOut, lengthIn, results, m_eosTail, out, reader, position, base, total, seeks>>

\* threadFunction() of the convolver: its share of the older parts joins the sum.
\* (A reset that is waiting for the task makes it stop early.)
SumParts(t) ==
    /\ work[t].kind = "part"
    /\ LET c == work[t].channel
           terms == UNION {Term(i, line[c][i + 1]) : i \in Share(work[t].id, m_numThreads, 1, P - 1)}
       IN /\ acc' = [acc EXCEPT ![c] = IF m_resetFlag[c] THEN @ ELSE @ \cup terms]
          /\ done' = done \cup {[channel |-> c, id |-> work[t].id]}
    /\ work' = [work EXCEPT ![t] = Idle]
    /\ UNCHANGED <<m_queue, m_futures, m_resetFlag, shift, line, tail, inOut, lengthIn, results, m_eosTail,
                   out, reader, position, base, total, seeks>>

Getting(t) == work[t].kind = "channels" /\ work[t].queues = NoChannel /\ work[t].left # {}

\* Slip: the line is not turned.
Turned_Not(windows) == windows

\* The delay line is turned: what was newest is one block old, the oldest is overwritten next.
Turned(windows) == <<windows[P]>> \o SubSeq(windows, 1, P - 1)

\* Slip: one block of silence too many.
LastBlock_Late(input, count) == ~input /\ count > P

\* The tail ends when silence has reached the last part of the impulse response.
LastBlock(input, count) == ~input /\ count >= P

\* getNextFDL(): the second half of the window moves to the first.  What a partial block
\* does not overwrite stays behind it, for the window after.
Shifted(c, data) == SubSeq(shift[c], L + 1, 2 * L) \o data \o SubSeq(shift[c], L + Len(data) + 1, 2 * L)
Window(c, data) == SubSeq(shift[c], L + 1, 2 * L) \o data \o Silence(L - Len(data))

\* getNext() for the next channel of a task's share.
GetNext(t) ==
    /\ Getting(t) /\ Finished(Min(work[t].left))
    /\ LET c == Min(work[t].left)
           w == work[t]
           data == IF w.input THEN [k \in 1 .. w.l |-> inOut[c][k].at] ELSE Silence(w.l)
           sum == acc[c] \cup Term(0, Window(c, data))
           count == IF w.input THEN tail[c] ELSE tail[c] + 1
           last == LastBlock(w.input, count)
       IN /\ shift' = [shift EXCEPT ![c] = Shifted(c, data)]
          /\ line' = [line EXCEPT ![c] = Turned([@ EXCEPT ![1] = Window(c, data)])]
          /\ inOut' = [inOut EXCEPT ![c] = [k \in 1 .. L |-> [sum |-> sum, at |-> k]]]
          /\ acc' = [acc EXCEPT ![c] = {}]
          /\ tail' = [tail EXCEPT ![c] = count]
          /\ m_eosTail' = last
          /\ m_futures' = [m_futures EXCEPT ![c] = {}]
          /\ done' = {d \in done : d.channel # c}
          /\ work' = [work EXCEPT ![t].left = @ \ {c},
                                  ![t].queues = IF last \/ m_numThreads = 0 THEN NoChannel ELSE c,
                                  ![t].l = IF last /\ IRLength % L # 0 THEN IRLength % L ELSE L]
    /\ UNCHANGED <<m_queue, m_resetFlag, lengthIn, results, out, reader, position, base, total, seeks>>

\* ... and the tasks for the block to come, one after the other.
Enqueue(t) ==
    /\ work[t].kind = "channels" /\ work[t].queues # NoChannel
    /\ LET c == work[t].queues
           id == Cardinality(m_futures[c])
       IN /\ m_queue' = Append(m_queue, [kind |-> "part", channel |-> c, id |-> id])
          /\ m_futures' = [m_futures EXCEPT ![c] = @ \cup {id}]
          /\ work' = [work EXCEPT ![t].queues = IF id + 1 < m_numThreads THEN @ ELSE NoChannel]
    /\ UNCHANGED <<done, m_resetFlag, shift, line, acc, tail, inOut, lengthIn, results, m_eosTail, out,
                   reader, position, base, total, seeks>>

\* A task without a channel left returns the length of the last block it got.
EndTask(t) ==
    /\ work[t].kind = "channels" /\ work[t].queues = NoChannel /\ work[t].left = {}
    /\ results' = [results EXCEPT ![work[t].id] = work[t].l]
    /\ work' = [work EXCEPT ![t] = Idle]
    /\ UNCHANGED <<m_queue, done, convolvers, inOut, lengthIn, m_eosTail, out, reader, position, base, total, seeks>>

Pool(t) == TakeTask(t) \/ SumParts(t) \/ GetNext(t) \/ Enqueue(t) \/ EndTask(t)

Next ==
    \/ (\E n \in Wanted : Read(n)) \/ (\E p \in Places : Seek(p))
    \/ Reader
    \/ \E t \in Threads : Pool(t)

\* The threads run whenever they can; nobody has to go on reading.
Spec == Init /\ [][Next]_vars /\ WF_vars(Reader) /\ \A t \in Threads : WF_vars(Pool(t))
------------------------------------------------------------------------------
(* Properties. *)

\* Every variable keeps its type.
TypeOK ==
    /\ \A i \in DOMAIN m_queue : m_queue[i].kind \in {"part", "channels"}
    /\ \A c \in Channel : m_futures[c] \subseteq 0 .. m_numThreads - 1
    /\ \A c \in Channel : Len(shift[c]) = 2 * L /\ Len(line[c]) = P /\ Len(inOut[c]) = L
    /\ tail \in [Channel -> 0 .. P] /\ m_eosTail \in BOOLEAN
    /\ reader.at \in {"idle", "copy", "load", "wait", "reset"}
    /\ position \in 0 .. Max(Places \cup {InputLength})

\* The window of block n of the sound from base on, with silence before it and after.
SoundWindow(n) ==
    [k \in 1 .. 2 * L |->
        LET j == (n - 2) * L + k IN IF j >= 1 /\ base + j <= InputLength THEN base + j ELSE 0]

\* The sample at place j of the convolution.
Convolved(j) ==
    LET n == CeilDiv(j, L)
    IN [sum |-> UNION {Term(i, SoundWindow(n - i)) : i \in 0 .. P - 1}, at |-> j - (n - 1) * L]

\* What a read returns, in every channel, is the convolution: each part of the impulse
\* response times the block that many blocks ago, each once, in whatever order the tasks
\* have run, and nothing of what was there before a seek.
OutputIsConvolution ==
    reader.at = "idle" =>
        \A j \in DOMAIN reader.got : \A c \in Channel :
            reader.got[j][c] = Convolved(total - Len(reader.got) + j)

\* The output ends when the impulse response has passed the last block, not before
\* and not later, and the samples that were announced have all been read.
BlocksOfSound == IF base >= InputLength THEN 0 ELSE CeilDiv(InputLength - base, L)
TailIsWhole ==
    /\ total <= BlocksOfSound * L + IRLength
    /\ m_eosTail /\ reader.at = "idle" =>
           total + Rest = BlocksOfSound * L + IRLength

\* A read or a seek returns: no task waits for one that no thread is left to run.
CallsReturn == reader.at # "idle" ~> reader.at = "idle"
=============================================================================
