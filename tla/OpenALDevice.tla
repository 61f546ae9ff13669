----------------------------- MODULE OpenALDevice -----------------------------
(***************************************************************************)
(* The OpenAL device (OpenALDevice.cpp in plugins/openal/): OpenAL mixes,  *)
(* one source per sound, each with a queue of buffers; a thread of the     *)
(* device, which runs as long as something plays, refills the queues and   *)
(* watches for sources that have stopped.                                  *)
(*                                                                         *)
(* All of the device's own state is under its mutex, which the thread      *)
(* holds for a whole round; the sources go on playing meanwhile.  OpenAL's *)
(* side is modelled from its use: a source plays its queue in order,       *)
(* counts the buffers it has processed, stops behind the last one, and     *)
(* plays the queue from its start when it is played after it has stopped.  *)
(* A sound is a sequence of chunks, each of which fills a buffer.          *)
(***************************************************************************)
EXTENDS Integers, Sequences, FiniteSets

CONSTANTS
    Handles,
    Length,         \* the chunks of each sound
    Announced,      \* the sounds whose last chunk comes with the end of stream
    CycleBuffers,   \* CYCLE_BUFFERS
    Loops,          \* the loop counts of a sound when it is started
    MaxOps,         \* bound on the calls of clients
    MaxErrors,      \* bound on the rounds that find an error of OpenAL
    KeepsUp,        \* whether the thread refills a queue before it runs dry
    PausesAtEnd     \* whether clients pause sounds that have been read to their end

ASSUME OpenALAssumption ==
    /\ Length \in [Handles -> Nat \ {0}] /\ Announced \subseteq Handles
    /\ CycleBuffers \in Nat \ {0} /\ Loops \subseteq Nat
    /\ MaxOps \in Nat /\ MaxErrors \in Nat /\ KeepsUp \in BOOLEAN /\ PausesAtEnd \in BOOLEAN

VARIABLES
    status, keep,
    stream,         \* what each sound has read, and its queue (see Stream)
    source,         \* the state of each source
    m_playing,
    thread,         \* where the thread of the device is
    scan,           \* the sounds the round has still to visit, and the one it visits
    ending,         \* the sounds the round has found stopped
    closing,        \* the destructor
    ops, errors,    \* so far
    abandoned,      \* history: what played when a round failed, until the next start()
    heard           \* history: the last chunk heard, and the loops that are still due

sounds == <<status, keep, stream, source, heard>>
round == <<thread, scan, ending>>
vars == <<sounds, m_playing, round, closing, ops, errors, abandoned>>

Playing == {h \in Handles : status[h] = "PLAYING"}
Valid(h) == status[h] \in {"PLAYING", "PAUSED", "STOPPED"}

\* A sound to be read from chunk p on, with nothing in its queue.
Stream(p, loops) ==
    [next |-> p, eos |-> FALSE, loops |-> loops, queue |-> <<>>, processed |-> 0,
     unused |-> CycleBuffers, got |-> 0]

Init ==
    /\ status = [h \in Handles |-> "UNBORN"] /\ keep = [h \in Handles |-> FALSE]
    /\ stream = [h \in Handles |-> Stream(1, 0)]
    /\ source = [h \in Handles |-> "INITIAL"]
    /\ m_playing = FALSE
    /\ thread = "none" /\ scan = [left |-> {}, at |-> {}] /\ ending = {}
    /\ closing = "no"
    /\ ops = 0 /\ errors = 0 /\ abandoned = {}
    /\ heard = [h \in Handles |-> [last |-> 0, due |-> 0, right |-> TRUE]]
------------------------------------------------------------------------------
(* Reading. *)

\* read() of a sound: got is its next chunk, or 0.
ReadChunk(h, s) ==
    IF s.next <= Length[h]
    THEN [s EXCEPT !.got = s.next, !.next = @ + 1, !.eos = (h \in Announced /\ s.next = Length[h])]
    ELSE [s EXCEPT !.got = 0, !.eos = TRUE]

\* The chunk goes to a buffer that was not used yet, or to the one played first.
Queued(s) ==
    IF s.unused > 0 THEN [s EXCEPT !.unused = @ - 1, !.queue = Append(@, s.got)]
    ELSE [s EXCEPT !.processed = @ - 1, !.queue = Append(Tail(@), s.got)]

\* The loops that fill the buffers before a source plays, when a sound starts and when
\* it is sought: they stop at the first read that gives nothing.
FillOnce(h, n, s) ==
    LET r == ReadChunk(h, s)
    IN IF n > 1 /\ s.got = 0 THEN s ELSE IF r.got = 0 THEN r ELSE Queued(r)

Filled(h, p, loops) ==
    LET fill[n \in 0 .. CycleBuffers] ==
            IF n = 0 THEN Stream(p, loops) ELSE FillOnce(h, n, fill[n - 1])
    IN fill[CycleBuffers]

\* A read that gives nothing starts the sound again if it loops.
Looped(h, s) ==
    LET a == ReadChunk(h, s)
        b == IF a.got = 0 /\ a.loops # 0 THEN ReadChunk(h, [a EXCEPT !.loops = @ - 1, !.next = 1]) ELSE a
    IN IF b.loops # 0 THEN [b EXCEPT !.eos = FALSE] ELSE b

\* updateStreams() refills every buffer that was played or not used.
RefillOnce(h, s) ==
    LET r == Looped(h, s)
    IN IF s.eos \/ s.got = 0 THEN s ELSE IF r.got = 0 THEN r ELSE Queued(r)

Refilled(h, s) ==
    LET fill[n \in 0 .. s.processed + s.unused] ==
            IF n = 0 THEN [s EXCEPT !.got = 1] ELSE RefillOnce(h, fill[n - 1])
    IN [fill[s.processed + s.unused] EXCEPT !.got = 0]
------------------------------------------------------------------------------
(* Clients; the thread does not hold the mutex while it sleeps or is gone. *)

Free == thread \in {"none", "asleep"}
Client == ops < MaxOps /\ ops' = ops + 1 /\ Free /\ closing = "no" /\ UNCHANGED <<closing, errors, scan, ending>>

\* start(): a thread that has gone is replaced.
StartThread ==
    /\ m_playing' = TRUE
    /\ thread' = IF m_playing THEN thread ELSE "asleep"
    /\ abandoned' = {}

\* play(), with setLoopCount() before the device is unlocked.
Play(h, k, loops) ==
    /\ status[h] = "UNBORN" /\ Client
    /\ status' = [status EXCEPT ![h] = "PLAYING"]
    /\ keep' = [keep EXCEPT ![h] = k]
    /\ stream' = [stream EXCEPT ![h] = [Filled(h, 1, loops) EXCEPT !.eos = FALSE, !.got = 0]]
    /\ heard' = [heard EXCEPT ![h].due = loops]
    /\ StartThread
    /\ UNCHANGED source

\* A round after a resume() would find the source PAUSED and the sound read to its end.
EndIsRead(h) == source[h] # "INITIAL" /\ Refilled(h, stream[h]).eos

Pause(h) ==
    /\ status[h] = "PLAYING" /\ Client
    /\ PausesAtEnd \/ ~EndIsRead(h)
    /\ status' = [status EXCEPT ![h] = "PAUSED"]
    /\ source' = [source EXCEPT ![h] = IF @ = "PLAYING" THEN "PAUSED" ELSE @]
    /\ UNCHANGED <<keep, stream, heard, m_playing, thread, abandoned>>

Resume(h) ==
    /\ status[h] = "PAUSED" /\ Client
    /\ status' = [status EXCEPT ![h] = "PLAYING"]
    /\ StartThread
    /\ UNCHANGED <<keep, stream, source, heard>>

Stop(h) ==
    /\ Valid(h) /\ Client
    /\ status' = [status EXCEPT ![h] = "INVALID"]
    /\ UNCHANGED <<keep, stream, source, heard, m_playing, thread, abandoned>>

SetKeep(h) ==
    /\ Valid(h) /\ Client
    /\ keep' = [keep EXCEPT ![h] = ~@]
    /\ UNCHANGED <<status, stream, source, heard, m_playing, thread, abandoned>>

\* seek() empties the queue and fills it from the new position.
Seek(h, p) ==
    /\ Valid(h) /\ Client
    /\ LET s == Filled(h, p, stream[h].loops) IN
       stream' = [stream EXCEPT ![h] = [s EXCEPT !.got = 0, !.eos = s.eos /\ s.loops = 0]]
    /\ source' = [source EXCEPT ![h] = "INITIAL"]
    /\ status' = [status EXCEPT ![h] = IF @ = "STOPPED" THEN "PAUSED" ELSE @]
    /\ heard' = [heard EXCEPT ![h] = [last |-> p - 1, due |-> stream[h].loops, right |-> TRUE]]
    /\ UNCHANGED <<keep, m_playing, thread, abandoned>>

\* The destructor stops all sounds and waits for the thread.
Close ==
    /\ closing = "no" /\ Free
    /\ closing' = "joining"
    /\ status' = [h \in Handles |-> IF Valid(h) THEN "INVALID" ELSE status[h]]
    /\ UNCHANGED <<keep, stream, source, heard, m_playing, round, ops, errors, abandoned>>

Closed ==
    /\ closing = "joining" /\ thread = "none"
    /\ closing' = "yes"
    /\ UNCHANGED <<sounds, m_playing, round, ops, errors, abandoned>>

Clients ==
    \/ \E h \in Handles :
          \/ \E k \in BOOLEAN, n \in Loops : Play(h, k, n)
          \/ Pause(h) \/ Resume(h) \/ Stop(h) \/ SetKeep(h)
          \/ \E p \in 1 .. Length[h] + 1 : Seek(h, p)
    \/ Close
------------------------------------------------------------------------------
(* updateStreams(). *)

RoundBegins ==
    /\ thread = "asleep"
    /\ thread' = "scanning"
    /\ scan' = [left |-> Playing, at |-> {}] /\ ending' = {}
    /\ UNCHANGED <<sounds, m_playing, closing, ops, errors, abandoned>>

\* Slip: m_playing is reset only when nothing plays.
RoundFails_NoReset ==
    /\ thread = "asleep" /\ errors < MaxErrors
    /\ errors' = errors + 1
    /\ thread' = "none" /\ m_playing' = (Playing # {})
    /\ abandoned' = Playing
    /\ UNCHANGED <<sounds, scan, ending, closing, ops>>

\* An error of OpenAL ends the thread, whatever plays.
RoundFails ==
    /\ thread = "asleep" /\ errors < MaxErrors
    /\ errors' = errors + 1
    /\ thread' = "none" /\ m_playing' = FALSE
    /\ abandoned' = Playing
    /\ UNCHANGED <<sounds, scan, ending, closing, ops>>

Refill(h) ==
    /\ thread = "scanning" /\ scan.at = {} /\ h \in scan.left
    /\ stream' = [stream EXCEPT ![h] = Refilled(h, stream[h])]
    /\ scan' = [left |-> scan.left \ {h}, at |-> {h}]
    /\ UNCHANGED <<status, keep, source, heard, m_playing, thread, ending, closing, ops, errors, abandoned>>

\* Slip: a source that has stopped has ended, whatever there is to read.
HasEnded_Stopped(h) == source[h] \notin {"PLAYING", "INITIAL"}

HasEnded(h) == source[h] \notin {"PLAYING", "INITIAL"} /\ stream[h].eos

\* Slip: only a source that was never played is played.
CheckSource_OnlyNew(h) ==
    /\ thread = "scanning" /\ scan.at = {h}
    /\ scan' = [scan EXCEPT !.at = {}]
    /\ ending' = IF HasEnded(h) THEN ending \cup {h} ELSE ending
    /\ source' = [source EXCEPT ![h] = IF @ = "INITIAL" /\ stream[h].queue # <<>> THEN "PLAYING" ELSE @]
    /\ UNCHANGED <<status, keep, stream, heard, m_playing, thread, closing, ops, errors, abandoned>>

\* A source that does not play has ended, or is to be played.
CheckSource(h) ==
    /\ thread = "scanning" /\ scan.at = {h}
    /\ scan' = [scan EXCEPT !.at = {}]
    /\ IF HasEnded(h) THEN ending' = ending \cup {h} /\ UNCHANGED <<source, stream>>
       ELSE /\ UNCHANGED ending
            /\ source' = [source EXCEPT ![h] = IF stream[h].queue = <<>> THEN "STOPPED" ELSE "PLAYING"]
            /\ stream' = [stream EXCEPT ![h].processed = IF source[h] \in {"INITIAL", "STOPPED"} THEN 0 ELSE @]
    /\ UNCHANGED <<status, keep, heard, m_playing, thread, closing, ops, errors, abandoned>>

\* What the sounds that have ended become.
AfterRound == [h \in Handles |-> IF h \notin ending THEN status[h] ELSE IF keep[h] THEN "STOPPED" ELSE "INVALID"]

\* Slip: m_playing is not reset when the thread ends.
RoundEnds_NoReset ==
    /\ thread = "scanning" /\ scan = [left |-> {}, at |-> {}]
    /\ status' = AfterRound
    /\ thread' = IF \A h \in Handles : AfterRound[h] # "PLAYING" THEN "none" ELSE "asleep"
    /\ ending' = {}
    /\ UNCHANGED <<keep, stream, source, heard, m_playing, scan, closing, ops, errors, abandoned>>

\* The sounds that have ended are paused or stopped; without any that plays the thread ends.
RoundEnds ==
    /\ thread = "scanning" /\ scan = [left |-> {}, at |-> {}]
    /\ status' = AfterRound
    /\ IF \A h \in Handles : AfterRound[h] # "PLAYING"
       THEN thread' = "none" /\ m_playing' = FALSE
       ELSE thread' = "asleep" /\ UNCHANGED m_playing
    /\ heard' = [h \in Handles |->
                    IF h \in ending
                    THEN [heard[h] EXCEPT !.right = @ /\ heard[h].last >= Length[h] /\ heard[h].due = 0]
                    ELSE heard[h]]
    /\ ending' = {}
    /\ UNCHANGED <<keep, stream, source, scan, closing, ops, errors, abandoned>>

Thread == RoundBegins \/ (\E h \in Handles : Refill(h) \/ CheckSource(h)) \/ RoundEnds

\* OpenAL plays a buffer.  A source runs dry before its sound is read to the end only where
\* the thread does not keep up.
Mix(h) ==
    LET s == stream[h]
        chunk == s.queue[s.processed + 1]
    IN /\ source[h] = "PLAYING" /\ status[h] = "PLAYING"
       /\ KeepsUp => s.processed + 1 < Len(s.queue) \/ s.eos
       /\ stream' = [stream EXCEPT ![h].processed = @ + 1]
       /\ source' = [source EXCEPT ![h] = IF s.processed + 1 = Len(s.queue) THEN "STOPPED" ELSE @]
       /\ heard' = [heard EXCEPT ![h] =
                       [last |-> chunk,
                        due |-> IF chunk = 1 /\ @.last = Length[h] THEN @.due - 1 ELSE @.due,
                        right |-> @.right /\ (chunk = @.last + 1 \/ (chunk = 1 /\ @.last >= Length[h] /\ @.due > 0))]]
       /\ UNCHANGED <<status, keep, m_playing, round, closing, ops, errors, abandoned>>

Next ==
    \/ Clients \/ Closed
    \/ Thread \/ RoundFails
    \/ \E h \in Handles : Mix(h)

\* The thread runs, its rounds fail only so often, and OpenAL plays what is queued.
Spec ==
    /\ Init /\ [][Next]_vars
    /\ WF_vars(Thread) /\ WF_vars(Closed) /\ \A h \in Handles : WF_vars(Mix(h))
------------------------------------------------------------------------------
(* Properties. *)

\* Every variable keeps its type.
TypeOK ==
    /\ status \in [Handles -> {"UNBORN", "PLAYING", "PAUSED", "STOPPED", "INVALID"}]
    /\ source \in [Handles -> {"INITIAL", "PLAYING", "PAUSED", "STOPPED"}]
    /\ keep \in [Handles -> BOOLEAN]
    /\ \A h \in Handles : LET s == stream[h] IN
          /\ s.unused + Len(s.queue) = CycleBuffers
          /\ s.processed \in 0 .. Len(s.queue) /\ s.next \in 1 .. Length[h] + 1
    /\ thread \in {"none", "asleep", "scanning"} /\ m_playing \in BOOLEAN
    /\ scan.left \subseteq Handles /\ scan.at \subseteq Handles /\ ending \subseteq Handles
    /\ abandoned \subseteq Handles

\* What is heard of a sound are its chunks in order, each once in every pass, from where
\* it was started or sought; and a sound has ended only when all of it was heard.
WholeSoundIsHeard == \A h \in Handles : heard[h].right

\* A sound that plays without a thread to serve it was playing when a round failed, and no
\* sound has been started or resumed since: a thread that found nothing to play leaves none
\* behind, and after a failure the next start() brings a thread for all that play.
SoundsHaveThread == thread = "none" => Playing \subseteq abandoned

\* A sound that plays ends, and the destructor returns: the thread does not leave a source
\* standing, nor does it go on without sounds.
SoundsAndThreadEnd ==
    /\ \A h \in Handles : status[h] = "PLAYING" ~> status[h] # "PLAYING" \/ ~m_playing
    /\ closing = "joining" ~> closing = "yes"
=============================================================================
