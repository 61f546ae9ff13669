-------------------------- MODULE OpenALDevice_proofs --------------------------
(***************************************************************************)
(* Theorems about OpenALDevice, for any sounds, buffers and clients: that  *)
(* no sound but those a failed round leaves behind lacks a thread, also    *)
(* where it does not keep up or sounds are paused at their end; and, where *)
(* not, that sounds are heard whole.                                       *)
(***************************************************************************)
EXTENDS OpenALDevice, SequenceTheorems, WellFoundedInduction, TLAPS

\* start() looks at m_playing only, so m_playing has to say whether there is a thread;
\* and what the round has collected plays, because the mutex is held.
IInv ==
    /\ m_playing \in BOOLEAN
    /\ thread \in {"none", "asleep", "scanning"}
    /\ m_playing <=> thread # "none"
    /\ status \in [Handles -> {"UNBORN", "PLAYING", "PAUSED", "STOPPED", "INVALID"}]
    /\ SoundsHaveThread

\* The initial state satisfies the invariant.
LEMMA InitHoldsIInv == Init => IInv
<1> SUFFICES ASSUME Init PROVE IInv
  OBVIOUS
<1>1. Playing = {}
  BY DEF Init, Playing
<1> QED
  BY <1>1 DEF Init, IInv, SoundsHaveThread

\* An operation that starts the thread, or that leaves it alone and starts no sound.
LEMMA ClientsKeepIInv ==
    ASSUME IInv,
           status' \in [Handles -> {"UNBORN", "PLAYING", "PAUSED", "STOPPED", "INVALID"}],
           StartThread \/ (UNCHANGED <<m_playing, thread, abandoned>> /\ Playing' \subseteq Playing)
    PROVE  IInv'
<1>1. CASE StartThread
  BY <1>1 DEF IInv, StartThread, SoundsHaveThread
<1>2. CASE UNCHANGED <<m_playing, thread, abandoned>> /\ Playing' \subseteq Playing
  BY <1>2 DEF IInv, SoundsHaveThread
<1> QED
  BY <1>1, <1>2

\* Every step keeps the invariant.
LEMMA NextKeepsIInv == IInv /\ [Next]_vars => IInv'
<1> SUFFICES ASSUME IInv, [Next]_vars PROVE IInv'
  OBVIOUS
<1> USE DEF IInv
<1>1. ASSUME NEW h \in Handles, NEW k \in BOOLEAN, NEW n \in Loops, Play(h, k, n) PROVE IInv'
  <2>1. status' \in [Handles -> {"UNBORN", "PLAYING", "PAUSED", "STOPPED", "INVALID"}]
        /\ StartThread
    BY <1>1 DEF Play, Client
  <2> QED
    BY <2>1, ClientsKeepIInv
<1>2. ASSUME NEW h \in Handles, Pause(h) PROVE IInv'
  BY <1>2, ClientsKeepIInv DEF Pause, Client, Playing
<1>3. ASSUME NEW h \in Handles, Resume(h) PROVE IInv'
  BY <1>3, ClientsKeepIInv DEF Resume, Client
<1>4. ASSUME NEW h \in Handles, Stop(h) PROVE IInv'
  BY <1>4, ClientsKeepIInv DEF Stop, Client, Playing
<1>5. ASSUME NEW h \in Handles, SetKeep(h) PROVE IInv'
  BY <1>5, ClientsKeepIInv DEF SetKeep, Client, Playing
<1>6. ASSUME NEW h \in Handles, NEW p, Seek(h, p) PROVE IInv'
  BY <1>6, ClientsKeepIInv DEF Seek, Client, Playing
<1>7. CASE Close
  BY <1>7, ClientsKeepIInv DEF Close, Playing, round
<1>8. CASE Closed
  BY <1>8, ClientsKeepIInv DEF Closed, Playing, round, sounds
<1>9. CASE RoundBegins
  BY <1>9 DEF RoundBegins, sounds, SoundsHaveThread, Playing
<1>10. CASE RoundFails
  \* What plays is what is abandoned.
  <2>1. abandoned' = Playing /\ m_playing' = FALSE /\ thread' = "none" /\ status' = status
    BY <1>10 DEF RoundFails, sounds
  <2> QED
    BY <2>1 DEF SoundsHaveThread, Playing
<1>11. ASSUME NEW h \in Handles, Refill(h) PROVE IInv'
  BY <1>11, ClientsKeepIInv DEF Refill, Playing
<1>12. ASSUME NEW h \in Handles, CheckSource(h) PROVE IInv'
  BY <1>12, ClientsKeepIInv DEF CheckSource, Playing
<1>13. CASE RoundEnds
  \* The thread ends in the step that leaves no sound playing.
  <2>1. status' = AfterRound
        /\ status' \in [Handles -> {"UNBORN", "PLAYING", "PAUSED", "STOPPED", "INVALID"}]
    BY <1>13 DEF RoundEnds, AfterRound
  <2>2. CASE \A h \in Handles : AfterRound[h] # "PLAYING"
    <3>1. Playing' = {} /\ m_playing' = FALSE /\ thread' = "none"
      BY <1>13, <2>1, <2>2 DEF RoundEnds, Playing
    <3> QED
      BY <2>1, <3>1 DEF SoundsHaveThread
  <2>3. CASE ~(\A h \in Handles : AfterRound[h] # "PLAYING")
    BY <1>13, <2>1, <2>3 DEF RoundEnds, SoundsHaveThread
  <2> QED
    BY <2>2, <2>3
<1>14. ASSUME NEW h \in Handles, Mix(h) PROVE IInv'
  BY <1>14, ClientsKeepIInv DEF Mix, round, Playing
<1>15. CASE UNCHANGED vars
  BY <1>15, ClientsKeepIInv DEF vars, sounds, round, Playing
<1> QED
  BY <1>1, <1>2, <1>3, <1>4, <1>5, <1>6, <1>7, <1>8, <1>9, <1>10, <1>11, <1>12, <1>13, <1>14, <1>15
     DEF Next, Clients, Thread

\* Whatever clients do and however often rounds fail, a sound that plays without a thread
\* was playing when a round failed, and nothing was started since: a thread that ends by
\* itself leaves nothing playing, and it resets m_playing both when it finds nothing to
\* play and when it fails, so that the next start() brings a thread.
THEOREM OpenALSoundsHaveThread == Spec => []SoundsHaveThread
<1>1. IInv => SoundsHaveThread
  BY DEF IInv
<1> QED
  BY <1>1, InitHoldsIInv, NextKeepsIInv, PTL DEF Spec
------------------------------------------------------------------------------
(* What is heard, where the thread keeps up and nobody pauses a sound at its end. *)

Conforming == KeepsUp /\ ~PausesAtEnd

StreamType(h) ==
    [next : 1 .. Length[h] + 1, eos : BOOLEAN, loops : Nat, queue : Seq(1 .. Length[h]),
     processed : Nat, unused : Nat, got : 0 .. Length[h]]

\* Chunk b, with e loops still due, comes behind chunk a with d loops due.
Follows(h, a, d, b, e) ==
    \/ b = a + 1 /\ b <= Length[h] /\ e = d
    \/ a = Length[h] /\ b = 1 /\ d = e + 1

\* There is no gap from the chunk heard last over those of the queue u that p chunks of were
\* played to chunk x, with e loops due: q is the chunk at each place, d the loops due then.
Continues(h, u, p, x, e, last, due) ==
    \E q \in [p .. Len(u) -> 0 .. Length[h]], d \in [p .. Len(u) -> Nat] :
        /\ q[p] = last /\ d[p] = due /\ q[Len(u)] = x /\ d[Len(u)] = e
        /\ \A i \in p + 1 .. Len(u) : q[i] = u[i] /\ Follows(h, q[i - 1], d[i - 1], q[i], d[i])

StreamOK(h, s, last, due) ==
    /\ s \in StreamType(h)
    /\ s.unused + Len(s.queue) = CycleBuffers /\ s.processed <= Len(s.queue)
    /\ Continues(h, s.queue, s.processed, s.next - 1, s.loops, last, due)

\* The end of stream is seen behind the last chunk of the last pass.
EndIsEnd(h, s) == s.eos => s.next = Length[h] + 1 /\ s.loops = 0

HeardType(h) == [last : 0 .. Length[h], due : Nat, right : BOOLEAN]

\* The state of a source says what its queue looks like; one that is paused has not been
\* read to the end, nor will it be by the round that finds it paused.
SourceOK(h) ==
    LET s == stream[h] IN
    /\ source[h] = "INITIAL" => s.processed = 0
    /\ source[h] \in {"PLAYING", "PAUSED"} => s.processed < Len(s.queue)
    /\ source[h] = "STOPPED" => s.eos /\ s.processed = Len(s.queue)
    /\ source[h] = "PAUSED" => IF scan.at = {h} THEN ~s.eos ELSE ~Refilled(h, s).eos
    /\ scan.at = {h} => s.eos \/ s.queue # <<>>
    /\ h \in ending => source[h] = "STOPPED"

\* A sound that was never played is as in the initial state, and no round visits it.
UnbornOK(h) ==
    status[h] = "UNBORN" => source[h] = "INITIAL" /\ heard[h].last = 0 /\ h \notin scan.left /\ scan.at # {h}

SoundOK(h) ==
    /\ StreamOK(h, stream[h], heard[h].last, heard[h].due)
    /\ stream[h].got = 0 /\ EndIsEnd(h, stream[h])
    /\ heard[h] \in HeardType(h) /\ heard[h].right
    /\ source[h] \in {"INITIAL", "PLAYING", "PAUSED", "STOPPED"}
    /\ SourceOK(h) /\ UnbornOK(h)

MapsOK ==
    /\ DOMAIN stream = Handles /\ DOMAIN source = Handles /\ DOMAIN heard = Handles
    /\ DOMAIN status = Handles
    /\ scan \in [left : SUBSET Handles, at : SUBSET Handles]

HearInv ==
    /\ MapsOK
    /\ thread # "scanning" => scan.at = {} /\ ending = {}
    /\ \A h \in Handles : SoundOK(h)
------------------------------------------------------------------------------
(* Reading and queueing. *)

\* A set of numbers that is not empty has a least one.
LEMMA LeastNumber ==
    ASSUME NEW T, T \subseteq Nat, T # {}
    PROVE  \E n \in T : \A m \in T : n <= m
<1>1. IsWellFoundedOn(OpToRel(<, Nat), Nat)
  BY NatLessThanWellFounded
<1>2. PICK n \in T : \A m \in T : ~(<<m, n>> \in OpToRel(<, Nat))
  BY <1>1, WFMin
<1>3. \A m \in T : ~(m < n)
  BY <1>2 DEF OpToRel
<1> QED
  BY <1>3

LEMMA HandleFacts ==
    ASSUME NEW h \in Handles
    PROVE  Length[h] \in Nat /\ Length[h] >= 1 /\ CycleBuffers \in Nat /\ CycleBuffers >= 1
BY OpenALAssumption

(* One field of a stream is replaced. *)

LEMMA NextReplaced ==
    ASSUME NEW h, NEW s \in StreamType(h), NEW v \in 1 .. Length[h] + 1
    PROVE  LET r == [s EXCEPT !.next = v] IN
           /\ r \in StreamType(h) /\ r.next = v
           /\ r.eos = s.eos /\ r.loops = s.loops /\ r.queue = s.queue
           /\ r.processed = s.processed /\ r.unused = s.unused /\ r.got = s.got
BY DEF StreamType

LEMMA EosReplaced ==
    ASSUME NEW h, NEW s \in StreamType(h), NEW v \in BOOLEAN
    PROVE  LET r == [s EXCEPT !.eos = v] IN
           /\ r \in StreamType(h) /\ r.eos = v
           /\ r.next = s.next /\ r.loops = s.loops /\ r.queue = s.queue
           /\ r.processed = s.processed /\ r.unused = s.unused /\ r.got = s.got
BY DEF StreamType

LEMMA ProcessedReplaced ==
    ASSUME NEW h, NEW s \in StreamType(h), NEW v \in Nat
    PROVE  LET r == [s EXCEPT !.processed = v] IN
           /\ r \in StreamType(h) /\ r.processed = v
           /\ r.next = s.next /\ r.eos = s.eos /\ r.loops = s.loops
           /\ r.queue = s.queue /\ r.unused = s.unused /\ r.got = s.got
BY DEF StreamType

LEMMA UnusedReplaced ==
    ASSUME NEW h, NEW s \in StreamType(h), NEW v \in Nat
    PROVE  LET r == [s EXCEPT !.unused = v] IN
           /\ r \in StreamType(h) /\ r.unused = v
           /\ r.next = s.next /\ r.eos = s.eos /\ r.loops = s.loops
           /\ r.queue = s.queue /\ r.processed = s.processed /\ r.got = s.got
BY DEF StreamType

LEMMA GotReplaced ==
    ASSUME NEW h, NEW s \in StreamType(h), NEW v \in 0 .. Length[h]
    PROVE  LET r == [s EXCEPT !.got = v] IN
           /\ r \in StreamType(h) /\ r.got = v
           /\ r.next = s.next /\ r.eos = s.eos /\ r.loops = s.loops
           /\ r.queue = s.queue /\ r.processed = s.processed /\ r.unused = s.unused
BY DEF StreamType

\* Only what a read is about changes.
SameQueue(r, s) == r.queue = s.queue /\ r.processed = s.processed /\ r.unused = s.unused

LEMMA ReadChunkReads ==
    ASSUME NEW h \in Handles, NEW s \in StreamType(h)
    PROVE  LET r == ReadChunk(h, s) IN
           /\ r \in StreamType(h) /\ SameQueue(r, s) /\ r.loops = s.loops
           /\ r.eos => r.next = Length[h] + 1
           /\ s.next <= Length[h] => r.got = s.next /\ r.next = s.next + 1
           /\ s.next > Length[h] => r.got = 0 /\ r.next = s.next /\ r.eos
<1> DEFINE r == ReadChunk(h, s)
<1>1. Length[h] \in Nat /\ Length[h] >= 1 /\ s.next \in 1 .. Length[h] + 1
  BY HandleFacts DEF StreamType
<1>2. CASE s.next <= Length[h]
  <2> DEFINE e == (h \in Announced /\ s.next = Length[h])
             s1 == [s EXCEPT !.got = s.next]
             s2 == [s1 EXCEPT !.next = s.next + 1]
  <2>1. r = [s2 EXCEPT !.eos = e]
    <3>1. s1.next = s.next /\ s2.eos = s.eos
      BY DEF StreamType
    <3> QED
      BY <1>2, <3>1 DEF ReadChunk
  <2>2. s.next \in 0 .. Length[h] /\ s.next + 1 \in 1 .. Length[h] + 1 /\ e \in BOOLEAN
        /\ (e => s.next = Length[h])
    BY <1>1, <1>2
  <2> HIDE DEF e, s1, s2, r
  <2>3. /\ s1 \in StreamType(h) /\ SameQueue(s1, s) /\ s1.loops = s.loops /\ s1.got = s.next
    BY <2>2, GotReplaced DEF s1, SameQueue
  <2>4. /\ s2 \in StreamType(h) /\ SameQueue(s2, s) /\ s2.loops = s.loops /\ s2.got = s.next
        /\ s2.next = s.next + 1
    BY <2>2, <2>3, NextReplaced DEF s2, SameQueue
  <2>5. /\ r \in StreamType(h) /\ SameQueue(r, s) /\ r.loops = s.loops /\ r.got = s.next
        /\ r.next = s.next + 1 /\ r.eos = e
    BY <2>1, <2>2, <2>4, EosReplaced DEF SameQueue
  <2> QED
    BY <1>1, <1>2, <2>2, <2>5 DEF r
<1>3. CASE s.next > Length[h]
  <2> DEFINE s1 == [s EXCEPT !.got = 0]
  <2>1. r = [s1 EXCEPT !.eos = TRUE] /\ s.next = Length[h] + 1
    BY <1>1, <1>3 DEF ReadChunk
  <2> HIDE DEF s1, r
  <2>2. s1 \in StreamType(h) /\ SameQueue(s1, s) /\ s1.loops = s.loops /\ s1.got = 0 /\ s1.next = s.next
    BY <1>1, GotReplaced DEF s1, SameQueue
  <2>3. /\ r \in StreamType(h) /\ SameQueue(r, s) /\ r.loops = s.loops /\ r.got = 0
        /\ r.next = s.next /\ r.eos
    BY <2>1, <2>2, EosReplaced DEF SameQueue
  <2> QED
    BY <1>1, <1>3, <2>1, <2>3 DEF r
<1> QED
  BY <1>1, <1>2, <1>3

\* The thread reads what follows, or has seen the end of the last pass.
LEMMA LoopedReads ==
    ASSUME NEW h \in Handles, NEW s \in StreamType(h)
    PROVE  LET r == Looped(h, s) IN
           /\ r \in StreamType(h) /\ SameQueue(r, s) /\ EndIsEnd(h, r)
           /\ r.got # 0 => Follows(h, s.next - 1, s.loops, r.got, r.loops) /\ r.next = r.got + 1
           /\ r.got = 0 => r.next = s.next /\ r.loops = s.loops /\ r.eos
<1> DEFINE a == ReadChunk(h, s)
           t == [a EXCEPT !.loops = a.loops - 1, !.next = 1]
           b == IF a.got = 0 /\ a.loops # 0 THEN ReadChunk(h, t) ELSE a
<1>1. Length[h] \in Nat /\ Length[h] >= 1
  BY HandleFacts
<1>2. /\ a \in StreamType(h) /\ SameQueue(a, s) /\ a.loops = s.loops
      /\ a.eos => a.next = Length[h] + 1
      /\ s.next <= Length[h] => a.got = s.next /\ a.next = s.next + 1
      /\ s.next > Length[h] => a.got = 0 /\ a.next = s.next /\ a.eos
  BY ReadChunkReads
<1>3. Looped(h, s) = IF b.loops # 0 THEN [b EXCEPT !.eos = FALSE] ELSE b
  BY DEF Looped
<1>s. s.next \in 1 .. Length[h] + 1 /\ s.loops \in Nat
  BY DEF StreamType
<1> HIDE DEF a
<1>4. /\ b \in StreamType(h) /\ SameQueue(b, s)
      /\ b.eos => b.next = Length[h] + 1
      /\ b.got # 0 => Follows(h, s.next - 1, s.loops, b.got, b.loops) /\ b.next = b.got + 1
      /\ b.got = 0 => b.next = s.next /\ b.loops = s.loops /\ b.loops = 0 /\ b.eos
  <2>1. CASE a.got = 0 /\ a.loops # 0
    <3>1. t \in StreamType(h) /\ SameQueue(t, a) /\ t.next = 1 /\ t.loops = a.loops - 1
      <4>1. a.loops - 1 \in Nat /\ 1 \in 1 .. Length[h] + 1
        BY <1>1, <1>2, <1>s, <2>1
      <4> QED
        BY <1>2, <4>1 DEF StreamType, SameQueue
    <3> HIDE DEF t
    <3>2. /\ ReadChunk(h, t) \in StreamType(h) /\ SameQueue(ReadChunk(h, t), t)
          /\ ReadChunk(h, t).loops = t.loops
          /\ ReadChunk(h, t).eos => ReadChunk(h, t).next = Length[h] + 1
          /\ ReadChunk(h, t).got = 1 /\ ReadChunk(h, t).next = 2
      BY <1>1, <3>1, ReadChunkReads
    <3>3. b = ReadChunk(h, t)
      BY <2>1
    <3> HIDE DEF b
    <3>4. s.next = Length[h] + 1
      BY <1>1, <1>2, <1>s, <2>1
    <3>5. Follows(h, s.next - 1, s.loops, b.got, b.loops)
      BY <1>1, <1>2, <1>s, <3>1, <3>2, <3>3, <3>4 DEF Follows
    <3> QED
      BY <1>2, <3>1, <3>2, <3>3, <3>5 DEF SameQueue
  <2>2. CASE ~(a.got = 0 /\ a.loops # 0)
    <3>1. b = a
      BY <2>2
    <3> HIDE DEF b
    <3>2. a.got # 0 => Follows(h, s.next - 1, s.loops, a.got, a.loops) /\ a.next = a.got + 1
      BY <1>1, <1>2, <1>s DEF Follows
    <3>3. a.got = 0 => a.next = s.next /\ a.loops = 0 /\ a.eos
      BY <1>1, <1>2, <1>s, <2>2
    <3> QED
      BY <1>2, <3>1, <3>2, <3>3
  <2> QED
    BY <2>1, <2>2
<1> HIDE DEF b
<1>5. CASE b.loops # 0
  <2>1. Looped(h, s) = [b EXCEPT !.eos = FALSE] /\ b.got # 0
    BY <1>3, <1>4, <1>5
  <2> QED
    BY <1>4, <2>1 DEF StreamType, SameQueue, EndIsEnd
<1>6. CASE b.loops = 0
  <2>1. Looped(h, s) = b
    BY <1>3, <1>6
  <2> QED
    BY <1>4, <1>6, <2>1 DEF EndIsEnd
<1> QED
  BY <1>5, <1>6

\* A chunk that is put at the end of the queue is heard behind the others ...
LEMMA AppendContinues ==
    ASSUME NEW h \in Handles, NEW u \in Seq(1 .. Length[h]), NEW p \in Nat, p <= Len(u),
           NEW x, NEW e, NEW last, NEW due, Continues(h, u, p, x, e, last, due),
           NEW c \in 1 .. Length[h], NEW f \in Nat, Follows(h, x, e, c, f)
    PROVE  Continues(h, Append(u, c), p, c, f, last, due)
<1>1. Length[h] \in Nat
  BY HandleFacts
<1>2. PICK n \in Nat : n = Len(u)
  BY LenProperties
<1>3. PICK q \in [p .. n -> 0 .. Length[h]], d \in [p .. n -> Nat] :
          /\ q[p] = last /\ d[p] = due /\ q[n] = x /\ d[n] = e
          /\ \A i \in p + 1 .. n : q[i] = u[i] /\ Follows(h, q[i - 1], d[i - 1], q[i], d[i])
  BY <1>2 DEF Continues
<1>4. PICK w : w = Append(u, c)
  OBVIOUS
<1>5. Len(w) = n + 1 /\ w[n + 1] = c /\ \A i \in 1 .. n : w[i] = u[i]
  BY <1>2, <1>4, AppendProperties
<1> DEFINE q2 == [i \in p .. n + 1 |-> IF i = n + 1 THEN c ELSE q[i]]
           d2 == [i \in p .. n + 1 |-> IF i = n + 1 THEN f ELSE d[i]]
<1>p. p <= n
  BY <1>2
<1>6. q2 \in [p .. n + 1 -> 0 .. Length[h]] /\ d2 \in [p .. n + 1 -> Nat]
  <2>1. c \in 0 .. Length[h] /\ \A i \in p .. n + 1 : i = n + 1 \/ i \in p .. n
    BY <1>1, <1>2
  <2> QED
    BY <2>1
<1>7. q2[p] = last /\ d2[p] = due /\ q2[n + 1] = c /\ d2[n + 1] = f
  BY <1>p, <1>3
<1>8. ASSUME NEW i \in p + 1 .. n + 1
      PROVE  q2[i] = w[i] /\ Follows(h, q2[i - 1], d2[i - 1], q2[i], d2[i])
  <2>1. CASE i = n + 1
    <3>1. q2[i] = c /\ d2[i] = f /\ q2[i - 1] = x /\ d2[i - 1] = e /\ w[i] = c
      BY <1>p, <1>3, <1>5, <2>1
    <3> QED
      BY <3>1
  <2>2. CASE i \in p + 1 .. n
    <3>1. q2[i] = q[i] /\ d2[i] = d[i] /\ q2[i - 1] = q[i - 1] /\ d2[i - 1] = d[i - 1] /\ i \in 1 .. n
      BY <1>p, <2>2
    <3> HIDE DEF q2, d2
    <3> QED
      BY <1>3, <1>5, <2>2, <3>1
  <2> QED
    BY <1>8, <2>1, <2>2
<1> HIDE DEF q2, d2
<1>9. Continues(h, w, p, c, f, last, due)
  <2>1. q2 \in [p .. Len(w) -> 0 .. Length[h]] /\ d2 \in [p .. Len(w) -> Nat]
    BY <1>5, <1>6
  <2>2. /\ q2[p] = last /\ d2[p] = due /\ q2[Len(w)] = c /\ d2[Len(w)] = f
        /\ \A i \in p + 1 .. Len(w) : q2[i] = w[i] /\ Follows(h, q2[i - 1], d2[i - 1], q2[i], d2[i])
    BY <1>5, <1>7, <1>8
  <2> QED
    BY <2>1, <2>2, Zenon DEF Continues
<1> QED
  BY <1>4, <1>9

\* ... also where the first buffer, which was played, is taken away.
LEMMA TailContinues ==
    ASSUME NEW h \in Handles, NEW u \in Seq(1 .. Length[h]), NEW p \in Nat \ {0}, p <= Len(u),
           NEW x, NEW e, NEW last, NEW due, Continues(h, u, p, x, e, last, due)
    PROVE  Continues(h, Tail(u), p - 1, x, e, last, due)
<1>2. PICK n \in Nat : n = Len(u)
  BY LenProperties
<1>3. PICK q \in [p .. n -> 0 .. Length[h]], d \in [p .. n -> Nat] :
          /\ q[p] = last /\ d[p] = due /\ q[n] = x /\ d[n] = e
          /\ \A i \in p + 1 .. n : q[i] = u[i] /\ Follows(h, q[i - 1], d[i - 1], q[i], d[i])
  BY <1>2 DEF Continues
<1>4. PICK w : w = Tail(u)
  OBVIOUS
<1>p. p <= n
  BY <1>2
<1>5. Len(w) = n - 1 /\ \A i \in 1 .. n - 1 : w[i] = u[i + 1]
  <2>1. u # <<>>
    BY <1>2, <1>p, EmptySeq
  <2> QED
    BY <1>2, <1>4, <2>1, HeadTailProperties
<1> DEFINE q2 == [i \in p - 1 .. n - 1 |-> q[i + 1]]
           d2 == [i \in p - 1 .. n - 1 |-> d[i + 1]]
<1>6. q2 \in [p - 1 .. n - 1 -> 0 .. Length[h]] /\ d2 \in [p - 1 .. n - 1 -> Nat]
  <2>1. \A i \in p - 1 .. n - 1 : i + 1 \in p .. n
    BY <1>p
  <2> QED
    BY <2>1
<1>7. q2[p - 1] = last /\ d2[p - 1] = due /\ q2[n - 1] = x /\ d2[n - 1] = e
  BY <1>p, <1>3
<1>8. ASSUME NEW i \in p .. n - 1
      PROVE  q2[i] = w[i] /\ Follows(h, q2[i - 1], d2[i - 1], q2[i], d2[i])
  <2>1. /\ q2[i] = q[i + 1] /\ d2[i] = d[i + 1] /\ q2[i - 1] = q[i] /\ d2[i - 1] = d[i]
        /\ i \in 1 .. n - 1 /\ i + 1 \in p + 1 .. n /\ (i + 1) - 1 = i
    BY <1>p, <1>8
  <2> HIDE DEF q2, d2
  <2> QED
    BY <1>3, <1>5, <2>1
<1> HIDE DEF q2, d2
<1>9. (p - 1) + 1 = p
  OBVIOUS
<1>10. Continues(h, w, p - 1, x, e, last, due)
  <2>1. q2 \in [p - 1 .. Len(w) -> 0 .. Length[h]] /\ d2 \in [p - 1 .. Len(w) -> Nat]
    BY <1>5, <1>6
  <2>2. /\ q2[p - 1] = last /\ d2[p - 1] = due /\ q2[Len(w)] = x /\ d2[Len(w)] = e
        /\ \A i \in (p - 1) + 1 .. Len(w) :
               q2[i] = w[i] /\ Follows(h, q2[i - 1], d2[i - 1], q2[i], d2[i])
    BY <1>5, <1>7, <1>8, <1>9
  <2> QED
    BY <2>1, <2>2, Zenon DEF Continues
<1> QED
  BY <1>4, <1>10

\* What is played next follows what was heard last.
LEMMA NextContinues ==
    ASSUME NEW h \in Handles, NEW u \in Seq(1 .. Length[h]), NEW p \in Nat, p < Len(u),
           NEW x, NEW e, NEW last, NEW due, Continues(h, u, p, x, e, last, due)
    PROVE  \E f \in Nat : Follows(h, last, due, u[p + 1], f) /\ Continues(h, u, p + 1, x, e, u[p + 1], f)
<1>2. PICK n \in Nat : n = Len(u)
  BY LenProperties
<1>3. PICK q \in [p .. n -> 0 .. Length[h]], d \in [p .. n -> Nat] :
          /\ q[p] = last /\ d[p] = due /\ q[n] = x /\ d[n] = e
          /\ \A i \in p + 1 .. n : q[i] = u[i] /\ Follows(h, q[i - 1], d[i - 1], q[i], d[i])
  BY <1>2 DEF Continues
<1>4. p + 1 \in p + 1 .. n /\ p + 1 \in p .. n /\ (p + 1) - 1 = p
  BY <1>2
<1>5. d[p + 1] \in Nat /\ q[p + 1] = u[p + 1] /\ Follows(h, last, due, u[p + 1], d[p + 1])
  BY <1>3, <1>4
<1> DEFINE q2 == [i \in p + 1 .. n |-> q[i]]
           d2 == [i \in p + 1 .. n |-> d[i]]
<1>6. q2 \in [p + 1 .. n -> 0 .. Length[h]] /\ d2 \in [p + 1 .. n -> Nat]
  <2>1. \A i \in p + 1 .. n : i \in p .. n
    OBVIOUS
  <2> QED
    BY <2>1
<1>7. q2[p + 1] = u[p + 1] /\ d2[p + 1] = d[p + 1] /\ q2[n] = x /\ d2[n] = e
  BY <1>3, <1>4, <1>5
<1>8. ASSUME NEW i \in (p + 1) + 1 .. n
      PROVE  q2[i] = u[i] /\ Follows(h, q2[i - 1], d2[i - 1], q2[i], d2[i])
  <2>1. q2[i] = q[i] /\ d2[i] = d[i] /\ q2[i - 1] = q[i - 1] /\ d2[i - 1] = d[i - 1] /\ i \in p + 1 .. n
    BY <1>8
  <2> HIDE DEF q2, d2
  <2> QED
    BY <1>3, <2>1
<1> HIDE DEF q2, d2
<1>9. Continues(h, u, p + 1, x, e, u[p + 1], d[p + 1])
  BY <1>2, <1>6, <1>7, <1>8 DEF Continues
<1> QED
  BY <1>5, <1>9

\* The refilled buffer continues what is heard.
LEMMA QueuedContinues ==
    ASSUME NEW h \in Handles, NEW s, NEW last, NEW due, StreamOK(h, s, last, due),
           NEW r \in StreamType(h), SameQueue(r, s), r.got # 0, r.next = r.got + 1,
           Follows(h, s.next - 1, s.loops, r.got, r.loops), s.processed + s.unused >= 1
    PROVE  LET t == Queued(r) IN
           /\ StreamOK(h, t, last, due)
           /\ t.next = r.next /\ t.loops = r.loops /\ t.eos = r.eos /\ t.got = r.got
           /\ t.processed <= s.processed /\ t.queue # <<>>
           /\ t.processed + t.unused = s.processed + s.unused - 1
           /\ Len(t.queue) - t.processed = Len(s.queue) - s.processed + 1
           /\ s.unused > 0 => t.processed = s.processed
<1> DEFINE t == Queued(r)
<1>1. PICK c \in 1 .. Length[h], f \in Nat : c = r.got /\ f = r.loops
  BY HandleFacts DEF StreamType
<1>2. PICK u \in Seq(1 .. Length[h]), p \in Nat, k \in Nat, x \in Int, e \in Nat :
          u = s.queue /\ p = s.processed /\ k = s.unused /\ x = s.next - 1 /\ e = s.loops
  BY DEF StreamOK, StreamType
<1>3. PICK n \in Nat : n = Len(u)
  BY LenProperties
<1>4. p <= n /\ k + n = CycleBuffers /\ p + k >= 1 /\ Continues(h, u, p, x, e, last, due)
      /\ Follows(h, x, e, c, f)
  BY <1>1, <1>2, <1>3 DEF StreamOK
<1>5. r.queue = u /\ r.processed = p /\ r.unused = k
  BY <1>2 DEF SameQueue
\* What is left to show in both cases.
<1> DEFINE Done(v, p2, k2) ==
        /\ v \in Seq(1 .. Length[h]) /\ Len(v) = CycleBuffers - k2 /\ Len(v) >= 1
        /\ p2 \in Nat /\ k2 \in Nat /\ p2 <= Len(v) /\ Continues(h, v, p2, c, f, last, due)
        /\ p2 <= p /\ p2 + k2 = p + k - 1 /\ (k > 0 => p2 = p)
        /\ t \in StreamType(h) /\ t.queue = v /\ t.processed = p2 /\ t.unused = k2
        /\ t.next = r.next /\ t.loops = f /\ t.eos = r.eos /\ t.got = c
<1>6. ASSUME NEW v, NEW p2, NEW k2, Done(v, p2, k2)
      PROVE  /\ StreamOK(h, t, last, due)
             /\ t.next = r.next /\ t.loops = r.loops /\ t.eos = r.eos /\ t.got = r.got
             /\ t.processed <= s.processed /\ t.queue # <<>>
             /\ t.processed + t.unused = s.processed + s.unused - 1
             /\ Len(t.queue) - t.processed = Len(s.queue) - s.processed + 1
             /\ s.unused > 0 => t.processed = s.processed
  <2>1. CycleBuffers \in Nat
    BY HandleFacts
  <2> HIDE DEF t
  <2>2. t.next - 1 = c
    BY <1>1, <1>6
  <2>3. StreamOK(h, t, last, due)
    BY <1>6, <2>1, <2>2 DEF StreamOK
  <2>4. v # <<>>
    BY <1>6, EmptySeq
  <2>5. Len(v) - p2 = n - p + 1
    BY <1>4, <1>6, <2>1
  <2> QED
    BY <1>1, <1>2, <1>3, <1>6, <2>3, <2>4, <2>5
<1>7. CASE k > 0
  <2> DEFINE r1 == [r EXCEPT !.unused = k - 1]
             v == Append(u, c)
  <2>1. t = [r1 EXCEPT !.queue = v]
    <3>1. r1.queue = u /\ r1.got = c
      BY <1>1, <1>5 DEF StreamType
    <3> QED
      BY <1>1, <1>5, <1>7, <3>1 DEF Queued
  <2>2. k - 1 \in Nat
    BY <1>7
  <2>3. v \in Seq(1 .. Length[h]) /\ Len(v) = n + 1
    BY <1>3, AppendProperties
  <2>4. Continues(h, v, p, c, f, last, due)
    BY <1>3, <1>4, AppendContinues
  <2> HIDE DEF t, v, r1
  <2>5. /\ r1 \in StreamType(h) /\ r1.unused = k - 1 /\ r1.processed = p /\ r1.next = r.next
        /\ r1.loops = f /\ r1.eos = r.eos /\ r1.got = c
    BY <1>1, <1>5, <2>2, UnusedReplaced DEF r1
  <2>6. /\ t \in StreamType(h) /\ t.unused = k - 1 /\ t.processed = p /\ t.next = r.next
        /\ t.loops = f /\ t.eos = r.eos /\ t.got = c /\ t.queue = v
    <3>1. LET z == [r1 EXCEPT !.queue = v] IN
          /\ z \in StreamType(h) /\ z.queue = v
          /\ z.next = r1.next /\ z.eos = r1.eos /\ z.loops = r1.loops
          /\ z.processed = r1.processed /\ z.unused = r1.unused /\ z.got = r1.got
      BY <2>3, <2>5 DEF StreamType
    <3> QED
      BY <2>1, <2>5, <3>1
  <2>7. Done(v, p, k - 1)
    BY <1>4, <1>7, <2>2, <2>3, <2>4, <2>6
  <2> QED
    BY <1>6, <2>7 DEF t
<1>8. CASE k = 0
  <2> DEFINE r1 == [r EXCEPT !.processed = p - 1]
             v == Append(Tail(u), c)
  <2>1. t = [r1 EXCEPT !.queue = v]
    <3>1. r1.queue = u /\ r1.got = c
      BY <1>1, <1>5 DEF StreamType
    <3> QED
      BY <1>1, <1>5, <1>8, <3>1 DEF Queued
  <2>2. p - 1 \in Nat /\ p \in Nat \ {0} /\ n >= 1 /\ u # <<>>
    BY <1>3, <1>4, <1>8, EmptySeq
  <2>3. Tail(u) \in Seq(1 .. Length[h]) /\ Len(Tail(u)) = n - 1
    BY <1>3, <2>2, HeadTailProperties
  <2>4. v \in Seq(1 .. Length[h]) /\ Len(v) = n
    BY <2>2, <2>3, AppendProperties
  <2>5. Continues(h, v, p - 1, c, f, last, due)
    <3>1. Continues(h, Tail(u), p - 1, x, e, last, due)
      BY <1>3, <1>4, <2>2, TailContinues
    <3>2. p - 1 <= Len(Tail(u))
      BY <1>4, <2>3
    <3> QED
      BY <1>4, <2>2, <2>3, <3>1, <3>2, AppendContinues
  <2> HIDE DEF t, v, r1
  <2>6. /\ r1 \in StreamType(h) /\ r1.processed = p - 1 /\ r1.unused = k /\ r1.next = r.next
        /\ r1.loops = f /\ r1.eos = r.eos /\ r1.got = c
    BY <1>1, <1>5, <2>2, ProcessedReplaced DEF r1
  <2>7. /\ t \in StreamType(h) /\ t.unused = k /\ t.processed = p - 1 /\ t.next = r.next
        /\ t.loops = f /\ t.eos = r.eos /\ t.got = c /\ t.queue = v
    <3>1. LET z == [r1 EXCEPT !.queue = v] IN
          /\ z \in StreamType(h) /\ z.queue = v
          /\ z.next = r1.next /\ z.eos = r1.eos /\ z.loops = r1.loops
          /\ z.processed = r1.processed /\ z.unused = r1.unused /\ z.got = r1.got
      BY <2>4, <2>6 DEF StreamType
    <3> QED
      BY <2>1, <2>6, <3>1
  <2>8. Done(v, p - 1, k)
    BY <1>4, <1>8, <2>2, <2>4, <2>5, <2>7
  <2> QED
    BY <1>6, <2>8 DEF t
<1> QED
  BY <1>7, <1>8

\* g is the stream after each of the N reads of a loop that begins with start.
Fills(h, start, N, g) == g = [n \in 0 .. N |-> IF n = 0 THEN start ELSE FillOnce(h, n, g[n - 1])]
Refills(h, start, N, g) == g = [n \in 0 .. N |-> IF n = 0 THEN start ELSE RefillOnce(h, g[n - 1])]

\* The loops terminate.
LEMMA LoopsExist ==
    ASSUME NEW h, NEW start, NEW N \in Nat
    PROVE  (\E g : Fills(h, start, N, g)) /\ (\E g : Refills(h, start, N, g))
<1> DEFINE A(g, m) == [n \in 0 .. m |-> IF n = 0 THEN start ELSE FillOnce(h, n, g[n - 1])]
           B(g, m) == [n \in 0 .. m |-> IF n = 0 THEN start ELSE RefillOnce(h, g[n - 1])]
           bad == {m \in Nat : ~((\E g : g = A(g, m)) /\ (\E g : g = B(g, m)))}
<1>1. ASSUME bad # {} PROVE FALSE
  <2>1. PICK m \in bad : \A k \in bad : m <= k
    BY <1>1, LeastNumber
  <2>2. m # 0
    <3>1. ASSUME NEW g, g = [n \in 0 .. 0 |-> start] PROVE g = A(g, 0) /\ g = B(g, 0)
      BY <3>1
    <3> QED
      BY <2>1, <3>1
  <2>3. m - 1 \in Nat /\ m - 1 \notin bad
    <3>1. m \in Nat
      BY <2>1
    <3> HIDE DEF bad
    <3> QED
      BY <2>1, <2>2, <3>1
  <2>4. PICK a : a = A(a, m - 1)
    BY <2>3
  <2>5. PICK b : b = B(b, m - 1)
    BY <2>3
  <2> DEFINE a2 == [n \in 0 .. m |-> IF n = m THEN FillOnce(h, m, a[m - 1]) ELSE a[n]]
             b2 == [n \in 0 .. m |-> IF n = m THEN RefillOnce(h, b[m - 1]) ELSE b[n]]
  <2>6. \A n \in 0 .. m : n = m \/ n \in 0 .. m - 1
    BY <2>1
  <2>7. a2 = A(a2, m)
    <3>1. \A n \in 0 .. m - 1 : a[n] = IF n = 0 THEN start ELSE FillOnce(h, n, a[n - 1])
      BY <2>4
    <3>2. \A n \in 0 .. m : a2[n] = IF n = 0 THEN start ELSE FillOnce(h, n, a2[n - 1])
      BY <2>1, <2>2, <2>6, <3>1
    <3> QED
      BY <3>2
  <2>8. b2 = B(b2, m)
    <3>1. \A n \in 0 .. m - 1 : b[n] = IF n = 0 THEN start ELSE RefillOnce(h, b[n - 1])
      BY <2>5
    <3>2. \A n \in 0 .. m : b2[n] = IF n = 0 THEN start ELSE RefillOnce(h, b2[n - 1])
      BY <2>1, <2>2, <2>6, <3>1
    <3> QED
      BY <3>2
  <2> HIDE DEF A, B, a2, b2
  <2>9. m \notin bad
    BY <2>7, <2>8
  <2> QED
    BY <2>1, <2>9
<1> QED
  BY <1>1 DEF Fills, Refills

\* A stream with nothing in its queue.
LEMMA StreamStarts ==
    ASSUME NEW h \in Handles, NEW p \in 1 .. Length[h] + 1, NEW loops \in Nat
    PROVE  LET s == Stream(p, loops) IN
           /\ StreamOK(h, s, p - 1, loops) /\ s.processed = 0 /\ s.loops = loops /\ ~s.eos
           /\ s.queue = <<>> /\ s.unused = CycleBuffers /\ s.got = 0
<1> DEFINE s == Stream(p, loops)
<1>1. Length[h] \in Nat /\ CycleBuffers \in Nat /\ p - 1 \in 0 .. Length[h]
  BY HandleFacts
<1>2. s \in StreamType(h)
  BY <1>1 DEF Stream, StreamType
<1>3. /\ s.next = p /\ s.eos = FALSE /\ s.loops = loops /\ s.queue = <<>> /\ s.processed = 0
      /\ s.unused = CycleBuffers /\ s.got = 0
  BY DEF Stream
<1> HIDE DEF s
<1>4. Continues(h, <<>>, 0, p - 1, loops, p - 1, loops)
  <2>1. Len(<<>>) = 0 /\ 0 + 1 .. 0 = {}
    OBVIOUS
  <2> DEFINE q == [i \in 0 .. 0 |-> p - 1]
             d == [i \in 0 .. 0 |-> loops]
  <2>2. q \in [0 .. 0 -> 0 .. Length[h]] /\ d \in [0 .. 0 -> Nat] /\ q[0] = p - 1 /\ d[0] = loops
    BY <1>1
  <2> HIDE DEF q, d
  <2> QED
    BY <2>1, <2>2 DEF Continues
<1>5. Len(<<>>) = 0
  OBVIOUS
<1>6. StreamOK(h, s, p - 1, loops)
  BY <1>1, <1>2, <1>3, <1>4, <1>5 DEF StreamOK
<1> QED
  BY <1>3, <1>6 DEF s

\* The buffers are filled from chunk p on without a gap.
LEMMA FilledContinues ==
    ASSUME NEW h \in Handles, NEW p \in 1 .. Length[h] + 1, NEW loops \in Nat
    PROVE  LET s == Filled(h, p, loops) IN
           /\ StreamOK(h, s, p - 1, loops) /\ s.processed = 0 /\ s.loops = loops
           /\ s.eos => s.next = Length[h] + 1
<1>1. PICK N \in Nat : N = CycleBuffers
  BY HandleFacts
<1>2. PICK g : Fills(h, Stream(p, loops), N, g) /\ Filled(h, p, loops) = g[N]
  <2> DEFINE f == CHOOSE g : g = [n \in 0 .. CycleBuffers |->
                                     IF n = 0 THEN Stream(p, loops) ELSE FillOnce(h, n, g[n - 1])]
  <2>1. CycleBuffers \in Nat
    BY <1>1
  <2>2. \E g : Fills(h, Stream(p, loops), CycleBuffers, g)
    BY <2>1, LoopsExist
  <2>3. Fills(h, Stream(p, loops), CycleBuffers, f)
    BY <2>2, Zenon DEF Fills
  <2>4. Filled(h, p, loops) = f[CycleBuffers]
    BY DEF Filled
  <2> HIDE DEF f
  <2> QED
    BY <1>1, <2>3, <2>4
<1>3. /\ g[0] = Stream(p, loops)
      /\ \A n \in 1 .. N : g[n] = FillOnce(h, n, g[n - 1])
  <2>1. \A n \in 1 .. N : n \in 0 .. N /\ n # 0
    OBVIOUS
  <2>2. 0 \in 0 .. N
    OBVIOUS
  <2>3. \A n \in 0 .. N : g[n] = IF n = 0 THEN Stream(p, loops) ELSE FillOnce(h, n, g[n - 1])
    BY <1>2 DEF Fills
  <2> QED
    BY <2>1, <2>2, <2>3
<1> DEFINE Good(n, x) ==
        /\ StreamOK(h, x, p - 1, loops) /\ x.processed = 0 /\ x.loops = loops
        /\ x.eos => x.next = Length[h] + 1
        /\ (n > 0 /\ x.got = 0) \/ x.unused = N - n
<1>4. Good(0, Stream(p, loops))
  BY <1>1, StreamStarts
<1>5. ASSUME NEW n \in 1 .. N, NEW x, Good(n - 1, x) PROVE Good(n, FillOnce(h, n, x))
  <2> DEFINE r == ReadChunk(h, x)
  <2>1. Length[h] \in Nat /\ Length[h] >= 1
    BY HandleFacts
  <2>2. x \in StreamType(h) /\ x.next \in 1 .. Length[h] + 1 /\ x.unused \in Nat /\ x.processed \in Nat
    BY <1>5 DEF StreamOK, StreamType
  <2>3. /\ r \in StreamType(h) /\ SameQueue(r, x) /\ r.loops = x.loops
        /\ r.eos => r.next = Length[h] + 1
        /\ x.next <= Length[h] => r.got = x.next /\ r.next = x.next + 1
        /\ x.next > Length[h] => r.got = 0 /\ r.next = x.next /\ r.eos
    BY <2>2, ReadChunkReads
  <2>4. CASE n > 1 /\ x.got = 0
    BY <1>5, <2>4 DEF FillOnce
  <2> HIDE DEF r
  <2>5. CASE ~(n > 1 /\ x.got = 0) /\ r.got = 0
    <3>1. FillOnce(h, n, x) = r
      BY <2>5 DEF FillOnce, r
    <3>2. StreamOK(h, r, p - 1, loops)
      BY <1>5, <2>1, <2>2, <2>3, <2>5 DEF StreamOK, SameQueue
    <3> QED
      BY <1>5, <2>1, <2>2, <2>3, <2>5, <3>1, <3>2 DEF SameQueue
  <2>6. CASE ~(n > 1 /\ x.got = 0) /\ r.got # 0
    <3>1. FillOnce(h, n, x) = Queued(r)
      BY <2>6 DEF FillOnce, r
    <3>2. x.unused = N - (n - 1) /\ x.unused > 0
      BY <1>5, <2>6
    <3>3. Follows(h, x.next - 1, x.loops, r.got, r.loops) /\ r.next = r.got + 1
      BY <2>1, <2>2, <2>3, <2>6 DEF Follows
    <3> DEFINE t == Queued(r)
    <3>4. /\ StreamOK(h, t, p - 1, loops)
          /\ t.next = r.next /\ t.loops = r.loops /\ t.eos = r.eos /\ t.got = r.got
          /\ t.processed + t.unused = x.processed + x.unused - 1
          /\ x.unused > 0 => t.processed = x.processed
      BY <1>5, <2>2, <2>3, <2>6, <3>2, <3>3, QueuedContinues
    <3>5. t.unused \in Nat
      BY <3>4 DEF StreamOK, StreamType
    <3> HIDE DEF t
    <3> QED
      BY <1>5, <2>2, <2>3, <3>1, <3>2, <3>4, <3>5 DEF t
  <2> QED
    BY <2>4, <2>5, <2>6
<1> DEFINE bad == {n \in 0 .. N : ~Good(n, g[n])}
<1>6. ASSUME bad # {} PROVE FALSE
  <2>0. bad \subseteq Nat
    OBVIOUS
  <2>1. PICK m \in bad : \A k \in bad : m <= k
    <3> HIDE DEF bad
    <3> QED
      BY <1>6, <2>0, LeastNumber
  <2> HIDE DEF Good
  <2>2. m # 0
    BY <1>3, <1>4, <2>1
  <2>3. m \in 1 .. N /\ m - 1 \in 0 .. N /\ m - 1 \notin bad
    BY <2>1, <2>2
  <2>4. Good(m - 1, g[m - 1])
    BY <2>3
  <2>5. Good(m, g[m])
    BY <1>3, <1>5, <2>3, <2>4
  <2> QED
    BY <2>1, <2>5
<1>7. Good(N, g[N])
  <2> HIDE DEF Good
  <2> QED
    BY <1>6
<1> QED
  BY <1>2, <1>7

\* A round refills the queue without a gap, keeps what is not played yet, and leaves a queue
\* empty only at the end.
LEMMA RefilledContinues ==
    ASSUME NEW h \in Handles, NEW s, NEW last, NEW due, StreamOK(h, s, last, due), EndIsEnd(h, s)
    PROVE  LET r == Refilled(h, s) IN
           /\ StreamOK(h, r, last, due) /\ EndIsEnd(h, r) /\ r.got = 0
           /\ r.processed <= s.processed
           /\ Len(r.queue) - r.processed >= Len(s.queue) - s.processed
           /\ s.eos => r.eos /\ r.processed = s.processed /\ r.queue = s.queue
           /\ r.eos \/ r.queue # <<>>
<1> DEFINE start == [s EXCEPT !.got = 1]
<1>1. /\ s \in StreamType(h) /\ s.processed \in Nat /\ s.unused \in Nat /\ Len(s.queue) \in Nat
      /\ s.unused + Len(s.queue) = CycleBuffers /\ CycleBuffers >= 1
      /\ Length[h] \in Nat /\ Length[h] >= 1 /\ s.queue \in Seq(1 .. Length[h])
  BY HandleFacts, LenProperties DEF StreamOK, StreamType
<1>2. PICK N \in Nat : N = s.processed + s.unused
  BY <1>1
<1>3. PICK g : Refills(h, start, N, g) /\ Refilled(h, s) = [g[N] EXCEPT !.got = 0]
  <2> DEFINE f == CHOOSE g : g = [n \in 0 .. s.processed + s.unused |->
                                     IF n = 0 THEN [s EXCEPT !.got = 1] ELSE RefillOnce(h, g[n - 1])]
  <2>1. s.processed + s.unused \in Nat
    BY <1>1
  <2>2. \E g : Refills(h, [s EXCEPT !.got = 1], s.processed + s.unused, g)
    BY <2>1, LoopsExist
  <2>3. Refills(h, [s EXCEPT !.got = 1], s.processed + s.unused, f)
    BY <2>2, Zenon DEF Refills
  <2>4. Refilled(h, s) = [f[s.processed + s.unused] EXCEPT !.got = 0]
    BY DEF Refilled
  <2> HIDE DEF f
  <2> QED
    BY <1>2, <2>3, <2>4
<1>4. /\ g[0] = start
      /\ \A n \in 1 .. N : g[n] = RefillOnce(h, g[n - 1])
  <2>1. \A n \in 1 .. N : n \in 0 .. N /\ n # 0
    OBVIOUS
  <2>2. 0 \in 0 .. N
    OBVIOUS
  <2>3. \A n \in 0 .. N : g[n] = IF n = 0 THEN start ELSE RefillOnce(h, g[n - 1])
    BY <1>3 DEF Refills
  <2> QED
    BY <2>1, <2>2, <2>3
<1>5. /\ start \in StreamType(h) /\ SameQueue(start, s) /\ start.got = 1
      /\ start.next = s.next /\ start.eos = s.eos /\ start.loops = s.loops
  <2>1. 1 \in 0 .. Length[h] /\ s \in StreamType(h)
    BY <1>1
  <2>2. LET z == [s EXCEPT !.got = 1] IN
        /\ z \in StreamType(h) /\ z.got = 1
        /\ z.next = s.next /\ z.eos = s.eos /\ z.loops = s.loops
        /\ z.queue = s.queue /\ z.processed = s.processed /\ z.unused = s.unused
    BY <2>1 DEF StreamType
  <2> QED
    BY <2>2 DEF SameQueue
<1> HIDE DEF start
<1> DEFINE Good(n, x) ==
        /\ StreamOK(h, x, last, due) /\ EndIsEnd(h, x)
        /\ x.processed <= s.processed /\ Len(x.queue) - x.processed >= Len(s.queue) - s.processed
        /\ s.eos => x = start
        /\ x.eos \/ (x.got # 0 /\ x.processed + x.unused = N - n)
        /\ n >= 1 => x.eos \/ x.queue # <<>>
<1>6. Good(0, start)
  <2>1. StreamOK(h, start, last, due) /\ EndIsEnd(h, start)
    BY <1>5 DEF StreamOK, EndIsEnd, SameQueue
  <2> QED
    BY <1>1, <1>2, <1>5, <2>1 DEF SameQueue
<1>7. ASSUME NEW n \in 1 .. N, NEW x, Good(n - 1, x) PROVE Good(n, RefillOnce(h, x))
  <2> DEFINE r == Looped(h, x)
  <2>1. /\ x \in StreamType(h) /\ x.unused \in Nat /\ x.processed \in Nat
        /\ x.queue \in Seq(1 .. Length[h]) /\ Len(x.queue) \in Nat
    BY <1>7, LenProperties DEF StreamOK, StreamType
  <2>2. /\ r \in StreamType(h) /\ SameQueue(r, x) /\ EndIsEnd(h, r)
        /\ r.got # 0 => Follows(h, x.next - 1, x.loops, r.got, r.loops) /\ r.next = r.got + 1
        /\ r.got = 0 => r.next = x.next /\ r.loops = x.loops /\ r.eos
    BY <2>1, LoopedReads
  <2>3. CASE x.eos \/ x.got = 0
    <3>1. RefillOnce(h, x) = x
      BY <2>3 DEF RefillOnce
    <3> QED
      BY <1>7, <2>3, <3>1
  <2> HIDE DEF r
  <2>4. CASE ~(x.eos \/ x.got = 0) /\ r.got = 0
    <3>1. RefillOnce(h, x) = r
      BY <2>4 DEF RefillOnce, r
    <3>2. StreamOK(h, r, last, due)
      BY <1>7, <2>2, <2>4 DEF StreamOK, SameQueue
    <3>3. ~s.eos
      BY <1>5, <1>7, <2>4
    <3> QED
      BY <1>7, <2>1, <2>2, <2>4, <3>1, <3>2, <3>3 DEF SameQueue
  <2>5. CASE ~(x.eos \/ x.got = 0) /\ r.got # 0
    <3> DEFINE t == Queued(r)
    <3>1. RefillOnce(h, x) = t
      BY <2>5 DEF RefillOnce, r
    <3>2. ~s.eos
      BY <1>5, <1>7, <2>5
    <3>3. x.processed + x.unused = N - (n - 1) /\ x.processed + x.unused >= 1
      BY <1>7, <2>5
    <3>4. /\ StreamOK(h, t, last, due)
          /\ t.next = r.next /\ t.loops = r.loops /\ t.eos = r.eos /\ t.got = r.got
          /\ t.processed <= x.processed /\ t.queue # <<>>
          /\ t.processed + t.unused = x.processed + x.unused - 1
          /\ Len(t.queue) - t.processed = Len(x.queue) - x.processed + 1
      BY <1>7, <2>2, <2>5, <3>3, QueuedContinues
    <3>5. t.processed \in Nat /\ t.unused \in Nat /\ Len(t.queue) \in Nat
      BY <3>4, LenProperties DEF StreamOK, StreamType
    <3> HIDE DEF t
    <3>6. EndIsEnd(h, t)
      BY <2>2, <3>4 DEF EndIsEnd
    <3>7. t.processed <= s.processed /\ Len(t.queue) - t.processed >= Len(s.queue) - s.processed
      <4>1. /\ x.processed <= s.processed
            /\ Len(x.queue) - x.processed >= Len(s.queue) - s.processed
        BY <1>7
      <4>2. /\ s.processed \in Nat /\ Len(s.queue) \in Nat
            /\ x.processed \in Nat /\ Len(x.queue) \in Nat
        BY <1>1, <2>1
      <4> QED
        BY <3>4, <3>5, <4>1, <4>2
    <3>8. t.got # 0 /\ t.processed + t.unused = N - n
      <4>1. t.got # 0
        BY <2>5, <3>4
      <4>2. x.processed \in Nat /\ x.unused \in Nat /\ n \in Nat /\ N \in Nat
        BY <1>2, <2>1
      <4>3. t.processed + t.unused = N - n
        <5>1. t.processed + t.unused = x.processed + x.unused - 1
          BY <3>4
        <5>2. x.processed + x.unused = N - (n - 1)
          BY <3>3
        <5> QED
          BY <3>5, <4>2, <5>1, <5>2
      <4> QED
        BY <4>1, <4>3
    <3> QED
      BY <3>1, <3>2, <3>4, <3>6, <3>7, <3>8
  <2> QED
    BY <2>3, <2>4, <2>5
<1> DEFINE bad == {n \in 0 .. N : ~Good(n, g[n])}
<1>8. ASSUME bad # {} PROVE FALSE
  <2>0. bad \subseteq Nat
    OBVIOUS
  <2>1. PICK m \in bad : \A k \in bad : m <= k
    <3> HIDE DEF bad
    <3> QED
      BY <1>8, <2>0, LeastNumber
  <2> HIDE DEF Good
  <2>2. m # 0
    BY <1>4, <1>6, <2>1
  <2>3. m \in 1 .. N /\ m - 1 \in 0 .. N /\ m - 1 \notin bad
    BY <2>1, <2>2
  <2>4. Good(m - 1, g[m - 1])
    BY <2>3
  <2>5. Good(m, g[m])
    BY <1>4, <1>7, <2>3, <2>4
  <2> QED
    BY <2>1, <2>5
<1>9. Good(N, g[N])
  <2> HIDE DEF Good
  <2> QED
    BY <1>8
<1> DEFINE x == g[N]
           r == [x EXCEPT !.got = 0]
<1>10. Refilled(h, s) = r /\ Good(N, x)
  BY <1>3, <1>9
<1> HIDE DEF x, r
<1>11. /\ r \in StreamType(h) /\ SameQueue(r, x) /\ r.got = 0
       /\ r.next = x.next /\ r.eos = x.eos /\ r.loops = x.loops
  <2>1. x \in StreamType(h) /\ 0 \in 0 .. Length[h]
    BY <1>1, <1>10 DEF StreamOK
  <2> QED
    BY <2>1, GotReplaced DEF r, SameQueue
<1>12. StreamOK(h, r, last, due) /\ EndIsEnd(h, r)
  BY <1>10, <1>11 DEF StreamOK, EndIsEnd, SameQueue
<1>13. r.eos \/ r.queue # <<>>
  <2>1. CASE N >= 1
    BY <1>10, <1>11, <2>1 DEF SameQueue
  <2>2. CASE N = 0
    <3>1. Len(s.queue) >= 1 /\ Len(x.queue) - x.processed >= Len(s.queue) - s.processed /\ s.processed = 0
      BY <1>1, <1>2, <1>10, <2>2
    <3>2. Len(x.queue) \in Nat /\ x.processed \in Nat
      BY <1>10, LenProperties DEF StreamOK, StreamType
    <3>3. Len(x.queue) # 0
      BY <1>1, <3>1, <3>2
    <3> QED
      BY <1>11, <3>3, EmptySeq DEF SameQueue
  <2> QED
    BY <2>1, <2>2
<1>14. s.eos => r.eos /\ r.processed = s.processed /\ r.queue = s.queue
  BY <1>5, <1>10, <1>11 DEF SameQueue
<1> QED
  BY <1>10, <1>11, <1>12, <1>13, <1>14 DEF SameQueue
------------------------------------------------------------------------------
(* The invariant holds. *)

\* The initial state satisfies it.
LEMMA InitHears == Init => HearInv
<1> SUFFICES ASSUME Init PROVE HearInv
  OBVIOUS
<1>1. MapsOK /\ scan.at = {} /\ scan.left = {} /\ ending = {}
  BY DEF Init, MapsOK
<1>2. ASSUME NEW h \in Handles PROVE SoundOK(h)
  <2>1. /\ stream[h] = Stream(1, 0) /\ heard[h] = [last |-> 0, due |-> 0, right |-> TRUE]
        /\ source[h] = "INITIAL"
    BY DEF Init
  <2>2. Length[h] \in Nat /\ 1 \in 1 .. Length[h] + 1 /\ 0 \in Nat /\ 1 - 1 = 0
    BY HandleFacts
  <2>3. /\ StreamOK(h, Stream(1, 0), 0, 0) /\ stream[h].processed = 0 /\ ~stream[h].eos
        /\ stream[h].got = 0
    BY <2>1, <2>2, StreamStarts
  <2>4. heard[h] \in HeardType(h)
    BY <2>1, <2>2 DEF HeardType
  <2> QED
    BY <1>1, <2>1, <2>3, <2>4 DEF SoundOK, EndIsEnd, SourceOK, UnbornOK
<1> QED
  BY <1>1, <1>2 DEF HearInv

\* A sound that a step does not touch.
LEMMA UntouchedIsKept ==
    ASSUME NEW h, SoundOK(h),
           stream'[h] = stream[h], source'[h] = source[h], heard'[h] = heard[h],
           status'[h] = "UNBORN" => status[h] = "UNBORN" /\ (h \in scan'.left => h \in scan.left),
           scan'.at = {h} <=> scan.at = {h}, h \in ending' => h \in ending
    PROVE  SoundOK(h)'
BY DEF SoundOK, SourceOK, UnbornOK

\* Clients that do not touch the streams.
LEMMA StatusChangesAreHeard ==
    ASSUME HearInv, UNCHANGED <<stream, heard, scan, ending>>,
           thread # "scanning",
           DOMAIN source' = Handles, DOMAIN status' = Handles,
           \A h \in Handles :
               /\ status'[h] = "UNBORN" => status[h] = "UNBORN"
               /\ source'[h] = source[h]
    PROVE  HearInv'
<1>1. MapsOK'
  BY DEF HearInv, MapsOK
<1>2. ASSUME NEW h \in Handles PROVE SoundOK(h)'
  BY UntouchedIsKept DEF HearInv
<1> QED
  BY <1>1, <1>2 DEF HearInv

\* Nothing wrong was heard of a sound so far.
HeardFrom(h, last, due) ==
    /\ DOMAIN heard = Handles /\ heard[h] \in HeardType(h)
    /\ heard[h].last = last /\ heard[h].due = due /\ heard[h].right

\* A client that starts a sound or seeks it, and so fills its queue again.
LEMMA FilledIsHeard ==
    ASSUME HearInv, thread # "scanning", UNCHANGED <<scan, ending>>, NEW h \in Handles,
           NEW p \in 1 .. Length[h] + 1, NEW loops \in Nat, NEW e \in BOOLEAN,
           stream' = [stream EXCEPT ![h] = [Filled(h, p, loops) EXCEPT !.eos = e, !.got = 0]],
           e => Filled(h, p, loops).eos /\ loops = 0,
           HeardFrom(h, p - 1, loops)', \A k \in Handles : k # h => heard'[k] = heard[k],
           DOMAIN source' = Handles, source'[h] = "INITIAL",
           \A k \in Handles : k # h => source'[k] = source[k],
           DOMAIN status' = Handles, status'[h] # "UNBORN",
           \A k \in Handles : status'[k] = "UNBORN" => status[k] = "UNBORN"
    PROVE  HearInv'
<1> DEFINE s == Filled(h, p, loops)
           t == [s EXCEPT !.eos = e, !.got = 0]
<1>1. MapsOK' /\ scan'.at = {} /\ ending' = {}
  BY DEF HearInv, MapsOK, HeardFrom
<1>2. Length[h] \in Nat /\ p - 1 \in 0 .. Length[h]
  BY HandleFacts
<1>3. /\ StreamOK(h, s, p - 1, loops) /\ s.processed = 0 /\ s.loops = loops
      /\ s.eos => s.next = Length[h] + 1
  BY FilledContinues
<1>4. /\ stream'[h] = t /\ source'[h] = "INITIAL"
  BY DEF HearInv, MapsOK
<1> HIDE DEF s
<1>5. /\ t \in StreamType(h) /\ SameQueue(t, s) /\ t.next = s.next /\ t.loops = s.loops
      /\ t.got = 0 /\ t.eos = e
  <2>1. s \in StreamType(h) /\ 0 \in 0 .. Length[h]
    BY <1>2, <1>3 DEF StreamOK
  <2> QED
    BY <2>1 DEF StreamType, SameQueue
<1> HIDE DEF t
<1>6. StreamOK(h, t, p - 1, loops) /\ t.processed = 0 /\ EndIsEnd(h, t)
  BY <1>3, <1>5 DEF StreamOK, SameQueue, EndIsEnd, s
<1>8. SoundOK(h)'
  BY <1>1, <1>4, <1>5, <1>6 DEF HeardFrom, SoundOK, SourceOK, UnbornOK
<1>9. ASSUME NEW k \in Handles, k # h PROVE SoundOK(k)'
  <2>1. stream'[k] = stream[k] /\ source'[k] = source[k] /\ heard'[k] = heard[k]
    BY <1>9 DEF HearInv, MapsOK
  <2> QED
    BY <2>1, UntouchedIsKept DEF HearInv
<1> QED
  BY <1>1, <1>8, <1>9 DEF HearInv

\* The calls of clients.
LEMMA ClientsAreHeard == HearInv /\ Conforming /\ Clients => HearInv'
<1> SUFFICES ASSUME HearInv, Conforming, Clients PROVE HearInv'
  OBVIOUS
<1>0. MapsOK /\ \A h \in Handles : SoundOK(h)
  BY DEF HearInv
<1>1. ASSUME NEW h \in Handles, NEW k \in BOOLEAN, NEW n \in Loops, Play(h, k, n) PROVE HearInv'
  <2>1. n \in Nat /\ 1 \in 1 .. Length[h] + 1 /\ 1 - 1 = 0
    BY HandleFacts, OpenALAssumption
  <2>2. thread # "scanning" /\ UNCHANGED <<scan, ending>>
    BY <1>1 DEF Play, Client, Free
  <2>3. heard[h] \in HeardType(h) /\ heard[h].right /\ heard[h].last = 0 /\ source[h] = "INITIAL"
    BY <1>0, <1>1 DEF Play, SoundOK, UnbornOK
  <2>4. HeardFrom(h, 0, n)' /\ \A j \in Handles : j # h => heard'[j] = heard[j]
    <3>1. heard'[h] = [heard[h] EXCEPT !.due = n] /\ DOMAIN heard' = Handles
          /\ \A j \in Handles : j # h => heard'[j] = heard[j]
      BY <1>0, <1>1 DEF Play, MapsOK
    <3> QED
      BY <2>1, <2>3, <3>1 DEF HeardFrom, HeardType
  <2>5. /\ DOMAIN source' = Handles /\ source'[h] = "INITIAL"
        /\ \A j \in Handles : j # h => source'[j] = source[j]
    BY <1>0, <1>1, <2>3 DEF Play, MapsOK
  <2>6. stream' = [stream EXCEPT ![h] = [Filled(h, 1, n) EXCEPT !.eos = FALSE, !.got = 0]]
    BY <1>1 DEF Play
  <2>7. /\ DOMAIN status' = Handles /\ status'[h] # "UNBORN"
        /\ \A j \in Handles : status'[j] = "UNBORN" => status[j] = "UNBORN"
    BY <1>0, <1>1 DEF Play, MapsOK
  <2> QED
    BY <2>1, <2>2, <2>4, <2>5, <2>6, <2>7, FilledIsHeard
<1>2. ASSUME NEW h \in Handles, Pause(h) PROVE HearInv'
  <2>1. /\ thread # "scanning" /\ thread' = thread /\ UNCHANGED <<scan, ending, stream, heard>>
        /\ status' = [status EXCEPT ![h] = "PAUSED"]
        /\ source' = [source EXCEPT ![h] = IF source[h] = "PLAYING" THEN "PAUSED" ELSE source[h]]
        /\ source[h] # "INITIAL" => ~Refilled(h, stream[h]).eos
    BY <1>2 DEF Pause, Client, Free, EndIsRead, Conforming
  <2>2. MapsOK' /\ scan'.at = {} /\ ending' = {}
    BY <1>0, <2>1 DEF HearInv, MapsOK
  <2>3. SoundOK(h)'
    <3>1. stream'[h] = stream[h] /\ heard'[h] = heard[h] /\ SoundOK(h) /\ scan.at = {} /\ ending = {}
      BY <1>0, <2>1 DEF HearInv
    <3>2. source'[h] = (IF source[h] = "PLAYING" THEN "PAUSED" ELSE source[h]) /\ status'[h] = "PAUSED"
      BY <1>0, <2>1 DEF MapsOK
    <3> QED
      BY <2>1, <2>2, <3>1, <3>2 DEF SoundOK, SourceOK, UnbornOK
  <2>4. ASSUME NEW k \in Handles, k # h PROVE SoundOK(k)'
    <3>1. source'[k] = source[k] /\ status'[k] = status[k]
      BY <1>0, <2>1, <2>4 DEF MapsOK
    <3> QED
      BY <1>0, <2>1, <3>1, UntouchedIsKept
  <2> QED
    BY <2>1, <2>2, <2>3, <2>4 DEF HearInv
<1>3. ASSUME NEW h \in Handles, Resume(h) \/ Stop(h) \/ SetKeep(h) PROVE HearInv'
  <2>1. /\ thread # "scanning" /\ UNCHANGED <<scan, ending, stream, heard, source>>
        /\ DOMAIN status' = Handles
        /\ \A j \in Handles : status'[j] = "UNBORN" => status[j] = "UNBORN"
    BY <1>0, <1>3 DEF Resume, Stop, SetKeep, Client, Free, MapsOK
  <2> QED
    BY <1>0, <2>1, StatusChangesAreHeard DEF MapsOK
<1>4. ASSUME NEW h \in Handles, NEW p \in 1 .. Length[h] + 1, Seek(h, p) PROVE HearInv'
  <2>1. PICK n \in Nat : n = stream[h].loops
    BY <1>0 DEF SoundOK, StreamOK, StreamType
  <2>2. Filled(h, p, n).loops = n /\ Filled(h, p, n).eos \in BOOLEAN
    BY <2>1, FilledContinues DEF StreamOK, StreamType
  <2>8. PICK e \in BOOLEAN : e = (Filled(h, p, n).eos /\ Filled(h, p, n).loops = 0)
    OBVIOUS
  <2>3. thread # "scanning" /\ UNCHANGED <<scan, ending>>
    BY <1>4 DEF Seek, Client, Free
  <2>4. /\ HeardFrom(h, p - 1, n)' /\ \A j \in Handles : j # h => heard'[j] = heard[j]
        /\ DOMAIN source' = Handles /\ source'[h] = "INITIAL"
        /\ \A j \in Handles : j # h => source'[j] = source[j]
    <3>1. PICK q \in Nat : q = p - 1 /\ q \in 0 .. Length[h]
      BY HandleFacts
    <3>2. [last |-> q, due |-> n, right |-> TRUE] \in HeardType(h)
      BY <2>1, <3>1, Zenon DEF HeardType
    <3>3. heard'[h] = [last |-> q, due |-> n, right |-> TRUE] /\ DOMAIN heard' = Handles
          /\ \A j \in Handles : j # h => heard'[j] = heard[j]
      BY <1>0, <1>4, <2>1, <3>1 DEF Seek, MapsOK
    <3>4. heard'[h].last = q /\ heard'[h].due = n /\ heard'[h].right
      BY <3>3
    <3>5. HeardFrom(h, p - 1, n)'
      BY <3>1, <3>2, <3>3, <3>4 DEF HeardFrom
    <3> QED
      BY <1>0, <1>4, <3>3, <3>5 DEF Seek, MapsOK
  <2>5. stream' = [stream EXCEPT ![h] = [Filled(h, p, n) EXCEPT !.eos = e, !.got = 0]]
    <3>1. stream' = [stream EXCEPT ![h] = [Filled(h, p, n) EXCEPT !.got = 0, !.eos = e]]
      BY <1>4, <2>1, <2>8 DEF Seek
    <3>2. [Filled(h, p, n) EXCEPT !.got = 0, !.eos = e] = [Filled(h, p, n) EXCEPT !.eos = e, !.got = 0]
      <4>1. Filled(h, p, n) \in StreamType(h)
        BY <2>1, FilledContinues DEF StreamOK
      <4> QED
        BY <4>1 DEF StreamType
    <3> QED
      BY <3>1, <3>2
  <2>6. /\ DOMAIN status' = Handles /\ status'[h] # "UNBORN"
        /\ \A j \in Handles : status'[j] = "UNBORN" => status[j] = "UNBORN"
    BY <1>0, <1>4 DEF Seek, Valid, MapsOK
  <2>7. e \in BOOLEAN /\ (e => Filled(h, p, n).eos /\ n = 0)
    BY <2>2, <2>8
  <2> QED
    BY <2>1, <2>3, <2>4, <2>5, <2>6, <2>7, FilledIsHeard
<1>5. ASSUME Close PROVE HearInv'
  <2>1. /\ thread # "scanning" /\ UNCHANGED <<scan, ending, stream, heard, source>>
        /\ DOMAIN status' = Handles
        /\ \A j \in Handles : status'[j] = "UNBORN" => status[j] = "UNBORN"
    BY <1>5 DEF Close, Free, round
  <2> QED
    BY <1>0, <2>1, StatusChangesAreHeard DEF MapsOK
<1> QED
  BY <1>1, <1>2, <1>3, <1>4, <1>5 DEF Clients

\* The rounds of the thread.
LEMMA ThreadIsHeard == HearInv /\ Conforming /\ (Thread \/ RoundFails) => HearInv'
<1> SUFFICES ASSUME HearInv, Conforming, Thread \/ RoundFails PROVE HearInv'
  OBVIOUS
<1>0. MapsOK /\ \A h \in Handles : SoundOK(h)
  BY DEF HearInv
<1>1. CASE RoundBegins
  <2>1. /\ UNCHANGED <<stream, source, heard, status>>
        /\ scan' = [left |-> Playing, at |-> {}] /\ ending' = {} /\ scan.at = {}
    BY <1>1 DEF RoundBegins, sounds, HearInv
  <2>2. MapsOK' /\ scan'.at = {}
    BY <1>0, <2>1 DEF MapsOK, Playing
  <2>3. ASSUME NEW h \in Handles PROVE SoundOK(h)'
    <3>1. status'[h] = "UNBORN" => h \notin scan'.left
      BY <2>1 DEF Playing
    <3> QED
      BY <1>0, <2>1, <3>1, UntouchedIsKept
  <2> QED
    BY <2>1, <2>2, <2>3 DEF HearInv
<1>2. CASE RoundFails
  <2>1. UNCHANGED <<stream, source, heard, status, scan, ending>> /\ thread # "scanning"
    BY <1>2 DEF RoundFails, sounds
  <2> QED
    BY <1>0, <2>1, StatusChangesAreHeard DEF MapsOK
<1>3. ASSUME NEW h \in Handles, Refill(h) PROVE HearInv'
  <2> DEFINE s == stream[h]
             r == Refilled(h, s)
  <2>1. /\ UNCHANGED <<source, heard, status, ending, thread>> /\ thread = "scanning"
        /\ stream' = [stream EXCEPT ![h] = r]
        /\ scan' = [left |-> scan.left \ {h}, at |-> {h}] /\ scan.at = {} /\ h \in scan.left
    BY <1>3 DEF Refill
  <2>2. MapsOK' /\ stream'[h] = r /\ \A k \in Handles : k # h => stream'[k] = stream[k]
    BY <1>0, <2>1 DEF MapsOK
  <2>3. SoundOK(h)'
    <3>1. /\ StreamOK(h, s, heard[h].last, heard[h].due) /\ EndIsEnd(h, s)
          /\ SourceOK(h) /\ UnbornOK(h)
      BY <1>0 DEF SoundOK
    <3>2. /\ StreamOK(h, r, heard[h].last, heard[h].due) /\ EndIsEnd(h, r) /\ r.got = 0
          /\ r.processed <= s.processed
          /\ Len(r.queue) - r.processed >= Len(s.queue) - s.processed
          /\ s.eos => r.eos /\ r.processed = s.processed /\ r.queue = s.queue
          /\ r.eos \/ r.queue # <<>>
      BY <3>1, RefilledContinues
    <3>3. /\ r.processed \in Nat /\ Len(r.queue) \in Nat
          /\ s.processed \in Nat /\ Len(s.queue) \in Nat
      BY <3>1, <3>2, LenProperties DEF StreamOK, StreamType
    <3>4. source[h] = "PAUSED" => ~r.eos
      BY <2>1, <3>1 DEF SourceOK
    <3> HIDE DEF r
    <3>5. /\ source[h] = "INITIAL" => r.processed = 0
          /\ source[h] \in {"PLAYING", "PAUSED"} => r.processed < Len(r.queue)
          /\ source[h] = "STOPPED" => r.eos /\ r.processed = Len(r.queue)
      <4>1. /\ source[h] = "INITIAL" => s.processed = 0
            /\ source[h] \in {"PLAYING", "PAUSED"} => s.processed < Len(s.queue)
            /\ source[h] = "STOPPED" => s.eos /\ s.processed = Len(s.queue)
        BY <3>1 DEF SourceOK
      <4> HIDE DEF s
      <4>2. source[h] = "INITIAL" => r.processed = 0
        BY <3>2, <3>3, <4>1
      <4>3. source[h] \in {"PLAYING", "PAUSED"} => r.processed < Len(r.queue)
        <5>1. Len(r.queue) - r.processed >= Len(s.queue) - s.processed
          BY <3>2
        <5> QED
          BY <3>3, <4>1, <5>1
      <4>4. source[h] = "STOPPED" => r.eos /\ r.processed = Len(r.queue)
        BY <3>2, <4>1
      <4> QED
        BY <4>2, <4>3, <4>4
    <3>6. SourceOK(h)'
      BY <2>1, <2>2, <3>1, <3>2, <3>4, <3>5 DEF SourceOK
    <3>7. UnbornOK(h)'
      BY <2>1, <3>1 DEF UnbornOK
    <3> QED
      BY <1>0, <2>1, <2>2, <3>2, <3>6, <3>7 DEF SoundOK
  <2>4. ASSUME NEW k \in Handles, k # h PROVE SoundOK(k)'
    BY <1>0, <2>1, <2>2, <2>4, UntouchedIsKept
  <2> QED
    BY <2>1, <2>2, <2>3, <2>4 DEF HearInv
<1>4. ASSUME NEW h \in Handles, CheckSource(h) PROVE HearInv'
  <2>1. /\ UNCHANGED <<heard, status, thread>> /\ thread = "scanning" /\ scan.at = {h}
        /\ scan' = [scan EXCEPT !.at = {}]
    BY <1>4 DEF CheckSource
  <2>2. scan'.at = {} /\ scan'.left = scan.left /\ scan' \in [left : SUBSET Handles, at : SUBSET Handles]
    BY <1>0, <2>1 DEF MapsOK
  <2>3. /\ SoundOK(h) /\ SourceOK(h) /\ UnbornOK(h) /\ status[h] # "UNBORN"
        /\ source[h] \in {"INITIAL", "PLAYING", "PAUSED", "STOPPED"}
    BY <1>0, <2>1 DEF SoundOK, UnbornOK
  <2>4. CASE HasEnded(h)
    <3>1. ending' = ending \cup {h} /\ UNCHANGED <<source, stream>>
      BY <1>4, <2>4 DEF CheckSource
    <3>2. source[h] = "STOPPED"
      BY <2>1, <2>3, <2>4 DEF HasEnded, SourceOK
    <3>3. SoundOK(h)'
      BY <2>1, <2>2, <2>3, <3>1, <3>2 DEF SoundOK, SourceOK, UnbornOK
    <3>4. ASSUME NEW k \in Handles, k # h PROVE SoundOK(k)'
      BY <1>0, <2>1, <2>2, <3>1, <3>4, UntouchedIsKept
    <3> QED
      BY <1>0, <2>1, <2>2, <3>1, <3>3, <3>4 DEF HearInv, MapsOK
  <2>5. CASE ~HasEnded(h)
    <3>1. /\ ending' = ending
          /\ source' = [source EXCEPT ![h] = IF stream[h].queue = <<>> THEN "STOPPED" ELSE "PLAYING"]
          /\ stream' = [stream EXCEPT ![h] = [stream[h] EXCEPT !.processed =
                           IF source[h] \in {"INITIAL", "STOPPED"} THEN 0 ELSE stream[h].processed]]
      BY <1>4, <2>5 DEF CheckSource
    <3>2. stream[h] \in StreamType(h) /\ stream[h].processed \in Nat
          /\ stream[h].queue \in Seq(1 .. Length[h]) /\ Len(stream[h].queue) \in Nat
          /\ stream[h].processed <= Len(stream[h].queue)
      BY <2>3, LenProperties DEF SoundOK, StreamOK, StreamType
    <3>3. source[h] # "STOPPED" /\ h \notin ending
      BY <2>3, <2>5 DEF HasEnded, SourceOK
    <3>4. stream'[h] = stream[h] /\ DOMAIN stream' = Handles
          /\ \A k \in Handles : k # h => stream'[k] = stream[k]
      <4>1. source[h] \in {"INITIAL", "STOPPED"} => stream[h].processed = 0
        BY <2>3, <3>3 DEF SourceOK
      <4>2. stream' = [stream EXCEPT ![h] = [stream[h] EXCEPT !.processed = stream[h].processed]]
        BY <3>1, <4>1
      <4>3. [stream[h] EXCEPT !.processed = stream[h].processed] = stream[h]
        BY <3>2 DEF StreamType
      <4> QED
        BY <1>0, <4>2, <4>3 DEF MapsOK
    <3>5. /\ source'[h] = (IF stream[h].queue = <<>> THEN "STOPPED" ELSE "PLAYING")
          /\ DOMAIN source' = Handles /\ \A k \in Handles : k # h => source'[k] = source[k]
      BY <1>0, <3>1 DEF MapsOK
    <3>6. SoundOK(h)'
      <4>1. CASE stream[h].queue = <<>>
        <5>1. stream[h].eos /\ Len(stream[h].queue) = 0 /\ stream[h].processed = 0
          BY <2>1, <2>3, <3>2, <4>1 DEF SourceOK
        <5> QED
          BY <2>1, <2>2, <2>3, <3>1, <3>3, <3>4, <3>5, <4>1, <5>1 DEF SoundOK, SourceOK, UnbornOK
      <4>2. CASE stream[h].queue # <<>>
        <5>1. Len(stream[h].queue) # 0
          BY <3>2, <4>2, EmptySeq
        <5>2. stream[h].processed < Len(stream[h].queue)
          BY <2>3, <3>2, <3>3, <5>1 DEF SourceOK
        <5> QED
          BY <2>1, <2>2, <2>3, <3>1, <3>3, <3>4, <3>5, <4>2, <5>2 DEF SoundOK, SourceOK, UnbornOK
      <4> QED
        BY <4>1, <4>2
    <3>7. ASSUME NEW k \in Handles, k # h PROVE SoundOK(k)'
      BY <1>0, <2>1, <2>2, <3>1, <3>4, <3>5, <3>7, UntouchedIsKept
    <3> QED
      BY <1>0, <2>1, <2>2, <3>4, <3>5, <3>6, <3>7 DEF HearInv, MapsOK
  <2> QED
    BY <2>4, <2>5
<1>5. CASE RoundEnds
  <2>1. /\ UNCHANGED <<stream, source, scan>> /\ scan.at = {} /\ ending' = {}
        /\ status' = AfterRound
        /\ heard' = [h \in Handles |->
                        IF h \in ending
                        THEN [heard[h] EXCEPT !.right = heard[h].right /\ heard[h].last >= Length[h]
                                                        /\ heard[h].due = 0]
                        ELSE heard[h]]
    BY <1>5 DEF RoundEnds
  <2>2. MapsOK' /\ scan'.at = {}
    BY <1>0, <2>1 DEF MapsOK, AfterRound
  <2>3. ASSUME NEW h \in Handles PROVE SoundOK(h)'
    <3>1. status'[h] = "UNBORN" => status[h] = "UNBORN"
      BY <2>1 DEF AfterRound
    <3>2. heard'[h] = heard[h]
      <4>1. CASE h \in ending
        <5>1. SoundOK(h) /\ stream[h].processed = Len(stream[h].queue)
              /\ stream[h].next = Length[h] + 1 /\ stream[h].loops = 0
          BY <1>0, <4>1 DEF SoundOK, SourceOK, EndIsEnd
        <5>2. heard[h].last = Length[h] /\ heard[h].due = 0
          BY <5>1, HandleFacts DEF SoundOK, StreamOK, Continues
        <5>3. heard[h] \in HeardType(h) /\ heard[h].right
          BY <5>1 DEF SoundOK
        <5>4. heard'[h] = [heard[h] EXCEPT !.right = heard[h].right /\ heard[h].last >= Length[h]
                                                     /\ heard[h].due = 0]
          BY <2>1, <4>1
        <5>5. heard'[h] = [heard[h] EXCEPT !.right = heard[h].right]
          <6>1. (heard[h].right /\ heard[h].last >= Length[h] /\ heard[h].due = 0) = heard[h].right
            <7>1. heard[h].last >= Length[h]
              BY <5>2, HandleFacts
            <7>2. heard[h].right \in BOOLEAN
              BY <5>3 DEF HeardType
            <7> QED
              BY <5>2, <7>1, <7>2
          <6> QED
            BY <5>4, <6>1
        <5> QED
          BY <5>3, <5>5 DEF HeardType
      <4>2. CASE h \notin ending
        BY <2>1, <4>2
      <4> QED
        BY <4>1, <4>2
    <3> QED
      BY <1>0, <2>1, <2>2, <3>1, <3>2, UntouchedIsKept
  <2> QED
    BY <2>1, <2>2, <2>3 DEF HearInv
<1> QED
  BY <1>1, <1>2, <1>3, <1>4, <1>5 DEF Thread

\* What OpenAL plays: the next chunk of the queue is the one that is to be heard.
LEMMA MixIsHeard ==
    ASSUME HearInv, Conforming, NEW h \in Handles, Mix(h)
    PROVE  HearInv'
<1> DEFINE s == stream[h]
           chunk == s.queue[s.processed + 1]
<1>0. MapsOK /\ \A k \in Handles : SoundOK(k)
  BY DEF HearInv
<1>1. /\ source[h] = "PLAYING" /\ status[h] = "PLAYING"
      /\ s.processed + 1 < Len(s.queue) \/ s.eos
      /\ stream' = [stream EXCEPT ![h].processed = s.processed + 1]
      /\ source' = [source EXCEPT ![h] = IF s.processed + 1 = Len(s.queue) THEN "STOPPED" ELSE source[h]]
      /\ UNCHANGED <<status, thread, scan, ending>>
  BY DEF Mix, Conforming, round
<1>2. heard' = [heard EXCEPT ![h] =
                  [last |-> chunk,
                   due |-> IF chunk = 1 /\ heard[h].last = Length[h] THEN heard[h].due - 1 ELSE heard[h].due,
                   right |-> heard[h].right /\ (chunk = heard[h].last + 1
                                \/ (chunk = 1 /\ heard[h].last >= Length[h] /\ heard[h].due > 0))]]
  BY DEF Mix
<1>3. /\ s \in StreamType(h) /\ s.processed \in Nat /\ s.queue \in Seq(1 .. Length[h]) /\ Len(s.queue) \in Nat
      /\ s.processed < Len(s.queue) /\ s.unused + Len(s.queue) = CycleBuffers
      /\ Continues(h, s.queue, s.processed, s.next - 1, s.loops, heard[h].last, heard[h].due)
      /\ s.got = 0 /\ EndIsEnd(h, s) /\ h \notin ending /\ (scan.at = {h} => s.eos \/ s.queue # <<>>)
  BY <1>0, <1>1, LenProperties DEF SoundOK, SourceOK, StreamOK, StreamType
<1>4. Length[h] \in Nat /\ Length[h] >= 1
  BY HandleFacts
<1>c. PICK c \in 1 .. Length[h] : c = chunk
  <2>1. s.processed + 1 \in 1 .. Len(s.queue)
    BY <1>3
  <2> HIDE DEF s
  <2> QED
    BY <1>3, <2>1, ElementOfSeq
<1>5. /\ heard[h].last \in 0 .. Length[h] /\ heard[h].due \in Nat /\ heard[h].right
  BY <1>0 DEF SoundOK, HeardType
<1>6. PICK f \in Nat : /\ Follows(h, heard[h].last, heard[h].due, chunk, f)
                       /\ Continues(h, s.queue, s.processed + 1, s.next - 1, s.loops, chunk, f)
  BY <1>3, NextContinues
<1> DEFINE x == [s EXCEPT !.processed = s.processed + 1]
<1>7. /\ x \in StreamType(h) /\ x.processed = s.processed + 1
      /\ x.next = s.next /\ x.eos = s.eos /\ x.loops = s.loops
      /\ x.queue = s.queue /\ x.unused = s.unused /\ x.got = s.got
  <2>1. s.processed + 1 \in Nat /\ s \in StreamType(h)
    BY <1>3
  <2> HIDE DEF s
  <2> QED
    BY <2>1 DEF StreamType
<1>8. stream'[h] = x /\ DOMAIN stream' = Handles /\ \A k \in Handles : k # h => stream'[k] = stream[k]
  BY <1>0, <1>1 DEF MapsOK
<1>9. /\ source'[h] = (IF s.processed + 1 = Len(s.queue) THEN "STOPPED" ELSE "PLAYING")
      /\ DOMAIN source' = Handles /\ \A k \in Handles : k # h => source'[k] = source[k]
  BY <1>0, <1>1 DEF MapsOK
<1> HIDE DEF x, chunk
<1>10. HeardFrom(h, c, f)' /\ \A k \in Handles : k # h => heard'[k] = heard[k]
  <2>1. /\ f = IF c = 1 /\ heard[h].last = Length[h] THEN heard[h].due - 1 ELSE heard[h].due
        /\ c = heard[h].last + 1 \/ (c = 1 /\ heard[h].last >= Length[h] /\ heard[h].due > 0)
    BY <1>4, <1>5, <1>6, <1>c DEF Follows
  <2>2. heard' = [heard EXCEPT ![h] = [last |-> c, due |-> f, right |-> TRUE]]
    <3>1. (heard[h].right /\ (c = heard[h].last + 1
              \/ (c = 1 /\ heard[h].last >= Length[h] /\ heard[h].due > 0))) = TRUE
      BY <1>5, <2>1
    <3> QED
      BY <1>2, <1>c, <2>1, <3>1, Zenon
  <2>4. [last |-> c, due |-> f, right |-> TRUE] \in HeardType(h)
    <3>1. c \in 0 .. Length[h]
      BY <1>4
    <3> QED
      BY <3>1, Zenon DEF HeardType
  <2>5. heard'[h] = [last |-> c, due |-> f, right |-> TRUE] /\ DOMAIN heard' = Handles
        /\ \A k \in Handles : k # h => heard'[k] = heard[k]
    BY <1>0, <2>2 DEF MapsOK
  <2>6. heard'[h].last = c /\ heard'[h].due = f /\ heard'[h].right
    BY <2>5
  <2> QED
    BY <2>4, <2>5, <2>6 DEF HeardFrom
<1>11. SoundOK(h)'
  <2>1. StreamOK(h, x, c, f)
    <3>1. x.processed <= Len(x.queue) /\ x.unused + Len(x.queue) = CycleBuffers
      BY <1>3, <1>7
    <3>2. Continues(h, x.queue, x.processed, x.next - 1, x.loops, c, f)
      BY <1>6, <1>7, <1>c
    <3> QED
      BY <1>7, <3>1, <3>2 DEF StreamOK
  <2>2. x.got = 0 /\ EndIsEnd(h, x)
    BY <1>3, <1>7 DEF EndIsEnd
  <2>3. /\ source'[h] = "PLAYING" => x.processed < Len(x.queue)
        /\ source'[h] = "STOPPED" => x.eos /\ x.processed = Len(x.queue)
    <3>1. CASE s.processed + 1 = Len(s.queue)
      BY <1>1, <1>7, <1>9, <3>1
    <3>2. CASE s.processed + 1 # Len(s.queue)
      BY <1>3, <1>7, <1>9, <3>2
    <3> QED
      BY <3>1, <3>2
  <2>4. SourceOK(h)'
    BY <1>1, <1>3, <1>7, <1>8, <1>9, <2>3 DEF SourceOK
  <2>5. UnbornOK(h)'
    BY <1>1 DEF UnbornOK
  <2> QED
    BY <1>8, <1>9, <1>10, <2>1, <2>2, <2>4, <2>5 DEF SoundOK, HeardFrom
<1>12. ASSUME NEW k \in Handles, k # h PROVE SoundOK(k)'
  BY <1>0, <1>1, <1>8, <1>9, <1>10, <1>12, UntouchedIsKept
<1> QED
  BY <1>0, <1>1, <1>8, <1>9, <1>10, <1>11, <1>12 DEF HearInv, MapsOK, HeardFrom

\* Every step keeps the invariant.
LEMMA NextIsHeard == HearInv /\ Conforming /\ [Next]_vars => HearInv'
<1> SUFFICES ASSUME HearInv, Conforming, [Next]_vars PROVE HearInv'
  OBVIOUS
<1>1. CASE Closed \/ UNCHANGED vars
  <2>1. UNCHANGED <<stream, source, heard, status, scan, ending, thread>>
    BY <1>1 DEF Closed, vars, sounds, round
  <2>2. ASSUME NEW h \in Handles PROVE SoundOK(h)'
    BY <2>1, UntouchedIsKept DEF HearInv
  <2> QED
    BY <2>1, <2>2 DEF HearInv, MapsOK
<1> QED
  BY <1>1, ClientsAreHeard, ThreadIsHeard, MixIsHeard DEF Next

\* Where the thread keeps up and nobody pauses a sound that was read to its end, what is heard
\* of a sound are its chunks in order, from where it was started or sought, for as many passes
\* as it loops, and a sound that the thread has found to have ended was heard to its end:
\* for sounds of any length, with any number of buffers, looped and sought at any time.
THEOREM OpenALPlaysWholeSounds == Conforming => (Spec => []WholeSoundIsHeard)
<1> SUFFICES ASSUME Conforming PROVE Spec => []WholeSoundIsHeard
  OBVIOUS
<1>1. HearInv => WholeSoundIsHeard
  BY DEF HearInv, SoundOK, WholeSoundIsHeard
<1>2. HearInv /\ [Next]_vars => HearInv'
  BY NextIsHeard
<1> QED
  BY <1>1, <1>2, InitHears, PTL DEF Spec
=============================================================================
