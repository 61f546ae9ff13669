-------------------------- MODULE DynamicMusic_proofs --------------------------
(***************************************************************************)
(* Theorems about DynamicMusic for any number of scenes, any transitions,  *)
(* volumes and calls, and any bound on the handles, when the client makes  *)
(* no change while a transition with a sound of its own takes place, and   *)
(* no callback runs between an operation's copy of the pointer and its use.*)
(***************************************************************************)
EXTENDS DynamicMusic, FiniteSetTheorems, TLAPS

\* The two conditions under which the code is right.
Conforming == Patient /\ ~Handover

\* A pointer that leads to no sound.
Dead(h) == h \in Handles => ~Valid(h)

\* A client that is in no call is at no step of one, and the threads likewise.
Phases ==
    /\ Idle <=> call.at = "idle"
    /\ FadeOver <=> fade.at = "idle"
    /\ DeviceFree <=> mix.at = "idle"

\* While a transition with a sound of its own is scheduled or in course, nothing fades and
\* the scene is not changed; no callback runs for a sound that stop() has been at, or is
\* about to stop; a fade is announced by m_transitioning from its first to its last step.
OneAtATime ==
    /\ SoundInCourse => FadeOver /\ call.op # "changeScene"
    /\ ~DeviceFree => /\ ~silenced /\ call.at # "apply"
                      /\ call.op = "stop" => call.at \notin {"transition", "return"}
    /\ ~FadeOver => m_transitioning
    /\ call.op = "changeScene" => ~m_transitioning

\* The other pointer leads to a sound only while that is faded out; the fading threads
\* find the handles they were started for.
FadeHandles ==
    /\ FadeOver \/ fade.kind = "in" \/ fade.at = "publish" => Dead(m_transitionHandle)
    /\ FadesOut => m_transitionHandle \in Handles
    /\ FadesIn => m_currentHandle \in Handles

\* What plays is in the matrix of scenes, and only the sound of a transition, or one that
\* is followed by a transition, comes to an end.
SoundsAreKnown ==
    \A h \in Handles : Valid(h) =>
        /\ handle[h].sound \in sounds
        /\ handle[h].loops = 0 =>
               h = mix.sound \/ handle[h].callback = "transition" \/ (m_transitioning /\ FadeOver)

\* Which sound the current handle plays.
CurrentSound ==
    m_currentHandle \in Handles /\ Valid(m_currentHandle) =>
        /\ ~m_transitioning => handle[m_currentHandle].sound = <<m_id, m_id>>
        /\ ~FadeOver => handle[m_currentHandle].sound = <<m_soundTarget, m_soundTarget>>
        /\ mix.at = "publish" => /\ handle[m_currentHandle].sound = <<m_soundTarget, m_soundTarget>>
                                 /\ handle[m_currentHandle].loops = -1

\* A callback runs for the current handle, which carries it, and replaces it.
CallbackHandle ==
    /\ mix.at \in {"transition", "play", "scene"} => mix.sound = m_currentHandle
    /\ mix.at \in {"transition", "play"} => Scheduled(mix.sound)
    /\ mix.at \in {"scene", "publish"} =>
           Valid(mix.sound) /\ handle[mix.sound].callback = "scene" /\ m_transitioning

\* The places of the matrix the callbacks and the threads look at hold a sound.
TargetsAreKnown ==
    /\ m_id # -1
    /\ ~FadeOver => m_soundTarget # -1
    /\ \A h \in Handles :
          /\ Scheduled(h) => <<m_id, m_soundTarget>> \in sounds
          /\ Valid(h) /\ handle[h].callback = "scene" =>
                 /\ handle[h].loops = 0
                 /\ h # mix.sound \/ mix.at # "none" => <<m_soundTarget, m_soundTarget>> \in sounds

\* Nothing but an empty current handle is ever dereferenced.
SoundsAreFound == crashed \in {"no", "handle"}

\* The client's copy of the pointer is current, and stop() silences one pointer after the other.
CallHandle ==
    /\ call.at = "apply" => call.ptr = m_currentHandle /\ m_currentHandle \in Handles
    /\ call.op = "stop" /\ call.at \in {"transition", "return"} => Dead(m_currentHandle)
    /\ call.op = "stop" /\ call.at = "return" => Dead(m_transitionHandle)

SilentAfterStop ==
    silenced => m_id = 0 /\ FadeOver /\ call.op # "changeScene" /\ \A h \in Handles : ~Valid(h)

MusicInv ==
    /\ TypeOK /\ Phases /\ OneAtATime /\ FadeHandles /\ NoOrphans /\ SoundsAreKnown /\ CurrentSound
    /\ CallbackHandle /\ TargetsAreKnown /\ SoundsAreFound /\ CallHandle /\ SilentAfterStop
------------------------------------------------------------------------------
(* What the operations do to the handles. *)

HandleType ==
    [status : {"PLAYING", "PAUSED", "INVALID"}, sound : Pairs, loops : {-1, 0},
     callback : {"none", "transition", "scene"}, volume : Nat]

\* Nothing begins to sound, and what sounds remains what it is.
Tames(new) ==
    /\ new \in [Handles -> HandleType]
    /\ \A h \in Handles : new[h].status # "INVALID" =>
           /\ Valid(h)
           /\ new[h].sound = handle[h].sound
           /\ new[h].loops = handle[h].loops
           /\ new[h].callback = handle[h].callback

LEMMA HandleTyped ==
    ASSUME TypeOK
    PROVE  handle \in [Handles -> HandleType] /\ Tames(handle)
BY DEF TypeOK, HandleType, Tames, Valid

\* stop() makes its handle invalid and does no more; setVolume() does not even that.
LEMMA StoppedTames ==
    ASSUME TypeOK, NEW h
    PROVE  Tames(Stopped(h)) /\ (h \in Handles => Stopped(h)[h].status = "INVALID")
<1>1. handle \in [Handles -> HandleType]
  BY HandleTyped
<1>2. \A g \in Handles : Stopped(h)[g] = IF g = h THEN [handle[g] EXCEPT !.status = "INVALID"]
                                                  ELSE handle[g]
  BY <1>1 DEF Stopped
<1>3. \A r \in HandleType : /\ [r EXCEPT !.status = "INVALID"] \in HandleType
                            /\ [r EXCEPT !.status = "INVALID"].status = "INVALID"
  BY DEF HandleType
<1>4. Stopped(h) \in [Handles -> HandleType]
  BY <1>1, <1>2, <1>3 DEF Stopped
<1>5. h \in Handles => Stopped(h)[h].status = "INVALID"
  BY <1>1, <1>2, <1>3
<1>6. \A g \in Handles : Stopped(h)[g].status # "INVALID" => Stopped(h)[g] = handle[g]
  BY <1>2, <1>5
<1>7. Tames(Stopped(h))
  BY <1>4, <1>6, Zenon DEF Tames, Valid
<1> QED
  BY <1>5, <1>7

LEMMA WithVolumeTames ==
    ASSUME TypeOK, NEW hs, NEW v \in Nat
    PROVE  Tames(WithVolume(hs, v))
<1>1. handle \in [Handles -> HandleType]
  BY HandleTyped
<1>2. \A r \in HandleType :
          LET w == [r EXCEPT !.volume = v] IN
          /\ w \in HandleType /\ w.status = r.status /\ w.sound = r.sound
          /\ w.loops = r.loops /\ w.callback = r.callback
  BY DEF HandleType
<1>3. \A g \in Handles : /\ WithVolume(hs, v)[g] \in {handle[g], [handle[g] EXCEPT !.volume = v]}
  BY DEF WithVolume
<1>4. WithVolume(hs, v) \in [Handles -> HandleType]
  BY <1>1, <1>2, <1>3 DEF WithVolume
<1> QED
  BY <1>1, <1>2, <1>3, <1>4 DEF Tames, Valid

\* Neither do the operations of the client.
LEMMA AppliedTames ==
    ASSUME TypeOK, NEW op, NEW h \in Handles
    PROVE  Tames(Applied(op, h)) /\ (op = "stop" => Applied(op, h)[h].status = "INVALID")
<1>1. handle \in [Handles -> HandleType] /\ Tames(handle) /\ m_volume \in Nat
  BY HandleTyped DEF TypeOK
<1>2. ASSUME NEW s \in {"PLAYING", "PAUSED"}, Valid(h) PROVE Tames([handle EXCEPT ![h].status = s])
  <2>1. handle[h] \in HandleType
    BY <1>1
  <2>2. [handle[h] EXCEPT !.status = s] \in HandleType
    BY <2>1 DEF HandleType
  <2>3. [handle EXCEPT ![h].status = s] \in [Handles -> HandleType]
    BY <1>1, <2>2
  <2> QED
    BY <1>1, <1>2, <2>1, <2>3 DEF Tames, Valid, HandleType
<1>3. op # "stop" => Tames(Applied(op, h))
  BY <1>1, <1>2, WithVolumeTames DEF Applied, Valid
<1>4. op = "stop" => Applied(op, h) = Stopped(h)
  BY DEF Applied
<1> QED
  BY <1>3, <1>4, StoppedTames

\* play() takes a handle n nobody refers to.
Plays(n, pair, loops, cb) ==
    /\ n \in Handles /\ ~Valid(n)
    /\ n \notin {m_currentHandle, m_transitionHandle, mix.sound, call.ptr}
    /\ handle' \in [Handles -> HandleType]
    /\ handle'[n].status = "PLAYING" /\ handle'[n].sound = pair
    /\ handle'[n].loops = loops /\ handle'[n].callback = cb
    /\ \A h \in Handles \ {n} : handle'[h] = handle[h]

LEMMA PlayedHandle ==
    ASSUME TypeOK, Room, NEW pair \in Pairs, NEW loops \in {-1, 0}, NEW v \in Nat,
           NEW cb \in {"none", "transition", "scene"}, handle' = Played(pair, loops, v, cb)
    PROVE  Plays(NewHandle, pair, loops, cb)
<1> DEFINE r == [status |-> "PLAYING", sound |-> pair, loops |-> loops, callback |-> cb, volume |-> v]
<1>1. NewHandle \in Handles /\ Unused(NewHandle)
  BY DEF Room, NewHandle
<1>2. /\ r \in HandleType
      /\ r.status = "PLAYING" /\ r.sound = pair /\ r.loops = loops /\ r.callback = cb
  BY DEF HandleType
<1>3. handle' = [handle EXCEPT ![NewHandle] = r]
  BY DEF Played
<1> HIDE DEF r
<1>4. handle' \in [Handles -> HandleType] /\ handle'[NewHandle] = r
  BY <1>1, <1>2, <1>3, HandleTyped
<1>5. \A h \in Handles \ {NewHandle} : handle'[h] = handle[h]
  BY <1>3, HandleTyped
<1> QED
  BY <1>1, <1>2, <1>4, <1>5 DEF Plays, Unused

------------------------------------------------------------------------------
(* Steps that leave the music as it is. *)

\* The part of the invariant that is about what plays.
HearInv ==
    NoOrphans /\ SoundsAreKnown /\ CurrentSound /\ CallbackHandle /\ TargetsAreKnown /\ SoundsAreFound

\* A step that only tames sounds, and begins and ends no fade.
Quiet ==
    /\ UNCHANGED <<m_id, m_soundTarget, m_transitioning, m_currentHandle, m_transitionHandle, mix>>
    /\ sounds \subseteq sounds' /\ crashed' \in {"no", "handle"}
    /\ FadeOver' = FadeOver
    /\ Tames(handle')

LEMMA QuietKeepsMusic ==
    ASSUME TypeOK, Phases, HearInv, DeviceFree \/ handle' = handle, Quiet
    PROVE  HearInv' /\ (SoundInCourse' => SoundInCourse)
<1> USE DEF HearInv
<1>1. mix' = mix /\ FadeOver' = FadeOver /\ (DeviceFree => mix.sound = NoHandle /\ mix.at = "idle")
  BY DEF Phases, DeviceFree, Quiet
<1>2. \A h \in Handles : Valid(h)' =>
          /\ Valid(h) /\ handle'[h].sound = handle[h].sound
          /\ handle'[h].loops = handle[h].loops /\ handle'[h].callback = handle[h].callback
  BY DEF Quiet, Tames, Valid
<1>3. UNCHANGED <<m_id, m_soundTarget, m_transitioning, m_currentHandle, m_transitionHandle>>
  BY DEF Quiet
<1>4. \A h \in Handles : Scheduled(h)' => Scheduled(h)
  BY <1>2 DEF Scheduled
<1>5. SoundInCourse' => SoundInCourse
  BY <1>1, <1>3, <1>4 DEF SoundInCourse, DeviceFree
<1>6. NoOrphans' /\ SoundsAreKnown'
  BY <1>1, <1>2, <1>3 DEF NoOrphans, SoundsAreKnown, Quiet
<1>7. CurrentSound' /\ CallbackHandle'
  BY <1>1, <1>2, <1>3 DEF CurrentSound, CallbackHandle, Scheduled, Valid
<1>8. TargetsAreKnown' /\ SoundsAreFound'
  BY <1>1, <1>2, <1>3, <1>4 DEF TargetsAreKnown, SoundsAreFound, Quiet
<1> QED
  BY <1>5, <1>6, <1>7, <1>8

FadeType ==
    [kind : {"none", "cross", "in", "out", "done"},
     at : {"idle", "start", "test", "apply", "end", "publish"}, low : Nat, high : Nat]

\* A fade takes its steps while nothing else is in course.
LEMMA FadeKeepsMusic ==
    ASSUME MusicInv, FadeThread
    PROVE  MusicInv'
<1> USE DEF MusicInv
<1>1. /\ ~FadeOver /\ ~SoundInCourse /\ m_transitioning /\ ~silenced
      /\ fade.kind \in {"cross", "in", "out"}
  BY DEF FadeThread, FadeBegins, FadeTest, FadeApply, FadeEnds, FadePublished, Phases, OneAtATime,
     FadeOver, SilentAfterStop, TypeOK
<1>2. UNCHANGED <<mix, call, calls, silenced, sounds, scenes, crashed, m_stopThread, m_volume, m_soundTarget,
                  m_currentHandle, m_transitionHandle>>
  BY DEF FadeThread, FadeBegins, FadeTest, FadeApply, FadeEnds, FadePublished, music, handles, matrix
<1>3. fade' \in FadeType /\ Tames(handle') /\ m_id' \in -1 .. MaxScene /\ m_transitioning' \in BOOLEAN
  <2> USE DEF FadeType
  <2>t. fade \in FadeType /\ m_id \in -1 .. MaxScene /\ m_transitioning \in BOOLEAN /\ Tames(handle)
    BY HandleTyped DEF TypeOK
  <2>1. CASE FadeBegins
    <3>1. /\ FadesOut => handle[m_transitionHandle].volume \in Nat
          /\ FadesIn => handle[m_currentHandle].volume \in Nat
      BY DEF FadeHandles, TypeOK
    <3> QED
      BY <2>t, <2>1, <3>1 DEF FadeBegins, music, handles
  <2>2. CASE FadeTest
    <3>1. \A d \in Increments : d \in Nat
      BY DEF Increments, TypeOK
    <3>2. \A d \in Nat, v \in Nat : Quieter(v - d) \in Nat /\ Louder(v + d) \in Nat
      BY DEF Quieter, Louder, TypeOK
    <3>3. /\ UNCHANGED <<music, handles>>
          /\ \/ fade' = [fade EXCEPT !.at = "end"]
             \/ \E d \in Nat : fade' = [fade EXCEPT !.at = "apply", !.low = Quieter(@ - d),
                                                    !.high = Louder(@ + d)]
      BY <2>2, <3>1 DEF FadeTest
    <3>4. fade' \in FadeType
      <4>1. fade.low \in Nat /\ fade.high \in Nat
        BY <2>t
      <4>2. ASSUME NEW d \in Nat, fade' = [fade EXCEPT !.at = "apply", !.low = Quieter(@ - d),
                                                       !.high = Louder(@ + d)]
            PROVE  fade' \in FadeType
        <5>1. Quieter(fade.low - d) \in Nat /\ Louder(fade.high + d) \in Nat
          BY <3>2, <4>1
        <5> QED
          BY <2>t, <4>2, <5>1
      <4> QED
        BY <2>t, <3>3, <4>2
    <3> QED
      BY <2>t, <3>3, <3>4 DEF music, handles
  <2>3. CASE FadeApply
    <3>1. fade' = [fade EXCEPT !.at = "test"] /\ UNCHANGED music
      BY <2>3 DEF FadeApply
    <3>2. handle \in [Handles -> HandleType] /\ fade.high \in Nat /\ fade.low \in Nat
      BY HandleTyped DEF TypeOK
    <3>3. \A r \in HandleType, v \in Nat :
              /\ [r EXCEPT !.volume = v] \in HandleType /\ [r EXCEPT !.volume = v].status = r.status
              /\ [r EXCEPT !.volume = v].sound = r.sound /\ [r EXCEPT !.volume = v].loops = r.loops
              /\ [r EXCEPT !.volume = v].callback = r.callback
      BY DEF HandleType
    <3>4. \A h \in Handles : handle'[h] \in {handle[h], [handle[h] EXCEPT !.volume = fade.high],
                                             [handle[h] EXCEPT !.volume = fade.low]}
      BY <2>3, <3>2 DEF FadeApply
    <3>5. handle' \in [Handles -> HandleType]
      BY <2>3, <3>2, <3>3, <3>4 DEF FadeApply
    <3>6. Tames(handle')
      <4> SUFFICES ASSUME NEW h \in Handles, handle'[h].status # "INVALID"
                   PROVE  /\ Valid(h) /\ handle'[h].sound = handle[h].sound
                          /\ handle'[h].loops = handle[h].loops
                          /\ handle'[h].callback = handle[h].callback
        BY <3>5 DEF Tames
      <4>1. handle[h] \in HandleType
        BY <3>2
      <4>2. QED
        <5>1. \/ handle'[h] = handle[h]
              \/ \E v \in Nat : handle'[h] = [handle[h] EXCEPT !.volume = v]
          BY <3>2, <3>4
        <5>2. CASE handle'[h] = handle[h]
          BY <5>2 DEF Valid
        <5>3. ASSUME NEW v \in Nat, handle'[h] = [handle[h] EXCEPT !.volume = v]
              PROVE  /\ Valid(h) /\ handle'[h].sound = handle[h].sound
                     /\ handle'[h].loops = handle[h].loops
                     /\ handle'[h].callback = handle[h].callback
          BY <3>3, <4>1, <5>3 DEF Valid
        <5> QED
          BY <5>1, <5>2, <5>3
    <3> QED
      BY <2>t, <3>1, <3>6 DEF music
  <2>4. CASE FadeEnds
    <3>1. Tames(handle')
      BY <2>4, <2>t, StoppedTames, WithVolumeTames DEF FadeEnds, TypeOK
    <3> QED
      BY <2>t, <2>4, <3>1 DEF FadeEnds, music
  <2>5. CASE FadePublished
    BY <2>t, <2>5 DEF FadePublished, NoFade, handles, TypeOK
  <2> QED
    BY <2>1, <2>2, <2>3, <2>4, <2>5 DEF FadeThread
<1>t. TypeOK'
  BY <1>2, <1>3 DEF TypeOK, FadeType, Tames, HandleType
<1>4. CASE FadeBegins \/ FadeTest \/ FadeApply \/ FadeEnds
  <2>1. fade'.kind = fade.kind /\ fade'.at # "idle" /\ UNCHANGED <<m_id, m_transitioning>>
    BY <1>4 DEF FadeBegins, FadeTest, FadeApply, FadeEnds, TypeOK, music
  <2>2. Quiet
    BY <1>2, <1>3, <2>1 DEF Quiet, FadeOver, SoundsAreFound
  <2>3. HearInv' /\ ~SoundInCourse'
    BY <1>1, <2>2, QuietKeepsMusic DEF HearInv, SoundInCourse
  <2>4. \A p : Dead(p) => Dead(p)'
    BY <1>3 DEF Dead, Tames, Valid
  <2>5. fade'.at = "publish" /\ fade.kind # "in" => Dead(m_transitionHandle)'
    <3>1. CASE FadeEnds
      BY <1>1, <1>2, <3>1, StoppedTames DEF FadeEnds, FadesOut, FadeOver, Dead, Valid
    <3>2. CASE FadeBegins \/ FadeTest \/ FadeApply
      BY <3>2 DEF FadeBegins, FadeTest, FadeApply, TypeOK
    <3> QED
      BY <1>4, <3>1, <3>2
  <2>6. FadeHandles'
    BY <1>1, <1>2, <2>1, <2>4, <2>5 DEF FadeHandles, FadeOver, FadesIn, FadesOut, Dead
  <2>7. Phases' /\ OneAtATime' /\ SilentAfterStop'
    BY <1>1, <1>2, <2>1, <2>3 DEF Phases, OneAtATime, SilentAfterStop, FadeOver, DeviceFree, Idle
  <2>8. CallHandle'
    BY <1>2, <2>4 DEF CallHandle, Dead
  <2> QED
    BY <1>t, <2>3, <2>6, <2>7, <2>8 DEF HearInv
<1>5. CASE FadePublished
  <2>1. /\ m_id' = m_soundTarget /\ m_transitioning' = FALSE /\ handle' = handle
        /\ fade'.kind = "done" /\ fade'.at = "idle" /\ fade.at = "publish"
    BY <1>5 DEF FadePublished, NoFade, handles
  <2>2. FadeOver' /\ mix.sound = NoHandle /\ mix.at = "idle"
    BY <1>1, <2>1 DEF FadeOver, SoundInCourse, DeviceFree, Phases
  <2>3. \A h \in Handles : ~Scheduled(h)'
    BY <1>1, <2>1 DEF SoundInCourse, Scheduled, Valid
  <2>4. ~SoundInCourse'
    BY <1>2, <2>1, <2>2, <2>3 DEF SoundInCourse, DeviceFree
  <2>5. Phases' /\ OneAtATime' /\ SilentAfterStop' /\ CallHandle'
    BY <1>1, <1>2, <2>1, <2>2, <2>4
       DEF Phases, OneAtATime, SilentAfterStop, CallHandle, Idle, DeviceFree, Dead, Valid
  <2>6. FadeHandles'
    BY <1>2, <2>1, <2>2 DEF FadeHandles, FadesIn, FadesOut, Dead, Valid
  <2>7. NoOrphans' /\ SoundsAreKnown' /\ CallbackHandle' /\ SoundsAreFound'
    BY <1>1, <1>2, <2>1, <2>2 DEF NoOrphans, SoundsAreKnown, CallbackHandle, SoundsAreFound, Valid
  <2>8. CurrentSound'
    BY <1>1, <1>2, <2>1, <2>2 DEF CurrentSound, Valid
  <2>9. TargetsAreKnown'
    <3>1. \A h \in Handles : Valid(h) => handle[h].callback # "scene"
      BY <1>1, <2>2, MusicAssumption DEF TargetsAreKnown, SoundsAreKnown
    <3> QED
      BY <1>1, <1>2, <2>1, <2>2, <2>3, <3>1 DEF TargetsAreKnown, Valid
  <2> QED
    BY <1>t, <2>5, <2>6, <2>7, <2>8, <2>9
<1> QED
  BY <1>4, <1>5 DEF FadeThread

\* What is left to show of a quiet step that starts no fade.
LEMMA QuietKeepsInv ==
    ASSUME MusicInv, DeviceFree \/ handle' = handle, Quiet, TypeOK', CallHandle',
           Idle' <=> call'.at = "idle",
           fade' = fade \/ (FadeOver /\ fade' = NoFade),
           call'.op = "changeScene" => ~m_transitioning /\ ~SoundInCourse,
           ~DeviceFree => call'.at # "apply" /\ (call'.op = "stop" => call'.at \notin {"transition", "return"}),
           silenced' => silenced /\ call'.op # "changeScene"
    PROVE  MusicInv'
<1> USE DEF MusicInv
<1>1. HearInv' /\ (SoundInCourse' => SoundInCourse)
  BY QuietKeepsMusic DEF HearInv
<1>2. /\ UNCHANGED <<m_id, m_transitioning, m_currentHandle, m_transitionHandle, mix>>
      /\ FadeOver' = FadeOver
  BY DEF Quiet
<1>3. \A p : Dead(p) => Dead(p)'
  BY DEF Quiet, Dead, Tames, Valid
<1>4. Phases'
  BY <1>2 DEF Phases, FadeOver, NoFade, DeviceFree
<1>5. OneAtATime'
  BY <1>1, <1>2 DEF OneAtATime, DeviceFree
<1>6. FadeHandles'
  BY <1>2, <1>3 DEF FadeHandles, FadesIn, FadesOut, FadeOver, NoFade
<1>7. SilentAfterStop'
  BY <1>2, <1>3 DEF SilentAfterStop, Dead
<1> QED
  BY <1>1, <1>4, <1>5, <1>6, <1>7 DEF HearInv

\* The client changes nothing while a transition is in course; its other calls are quiet.
LEMMA CallKeepsMusic ==
    ASSUME MusicInv, Conforming,
           \/ AddScene
           \/ \E st \in Custom : AddTransition(st[1], st[2])
           \/ \E id \in 0 .. MaxScene : ChangeBegins(id)
           \/ \E op \in Operations : OperationBegins(op)
           \/ ChangeJoins \/ PointerRead \/ CurrentDone \/ OtherDone \/ Returns \/ StopReturns
    PROVE  MusicInv'
<1> USE DEF MusicInv, Conforming
<1>t. /\ Tames(handle) /\ (\A p : Dead(p) => (p \in Handles => ~Valid(p)))
      /\ crashed \in {"no", "handle"}
  BY HandleTyped DEF Dead, SoundsAreFound
<1>o. Operations \subseteq {"stop", "pause", "resume", "seek", "setVolume"}
  BY MusicAssumption
<1>1. CASE AddScene
  <2>1. ~SoundInCourse /\ calls + 1 \in 0 .. MaxCalls
    BY <1>1, MusicAssumption DEF AddScene, Begin, MayChange, TypeOK
  <2>2. /\ scenes' = scenes + 1 /\ sounds' = sounds \cup {<<scenes, scenes>>} /\ calls' = calls + 1
        /\ UNCHANGED <<music, handles, fade, mix, call, crashed, silenced>>
        /\ scenes \in 1 .. MaxScene
    BY <1>1, MusicAssumption DEF AddScene, Begin, TypeOK
  <2>3. scenes' \in 1 .. MaxScene + 1 /\ sounds' \in SUBSET Pairs
    BY <2>2, MusicAssumption DEF TypeOK, Pairs
  <2>4. TypeOK'
    BY <2>1, <2>2, <2>3 DEF TypeOK, music, handles
  <2>5. Quiet
    BY <1>t, <2>2 DEF Quiet, music, handles, FadeOver
  <2> QED
    BY <2>1, <2>2, <2>4, <2>5, QuietKeepsInv
       DEF SoundInCourse, CallHandle, Dead, Valid, handles, music, Phases, OneAtATime, SilentAfterStop, Idle
<1>2. ASSUME NEW st \in Custom, AddTransition(st[1], st[2]) PROVE MusicInv'
  <2>1. ~SoundInCourse /\ calls + 1 \in 0 .. MaxCalls
    BY <1>2, MusicAssumption DEF AddTransition, Begin, MayChange, TypeOK
  <2>2. /\ sounds' = sounds \cup {<<st[1], st[2]>>} /\ calls' = calls + 1
        /\ UNCHANGED <<music, handles, scenes, fade, mix, call, crashed, silenced>>
    BY <1>2 DEF AddTransition, Begin
  <2>3. sounds' \in SUBSET Pairs
    BY <2>2, MusicAssumption DEF TypeOK, Pairs
  <2>4. TypeOK'
    BY <2>1, <2>2, <2>3 DEF TypeOK, music, handles
  <2>5. Quiet
    BY <1>t, <2>2 DEF Quiet, music, handles, FadeOver
  <2> QED
    BY <2>1, <2>2, <2>4, <2>5, QuietKeepsInv
       DEF SoundInCourse, CallHandle, Dead, Valid, handles, music, Phases, OneAtATime, SilentAfterStop, Idle
<1>3. ASSUME NEW id \in 0 .. MaxScene, ChangeBegins(id) PROVE MusicInv'
  <2>1. ~SoundInCourse /\ calls + 1 \in 0 .. MaxCalls /\ ~m_transitioning
    BY <1>3, MusicAssumption DEF ChangeBegins, Begin, MayChange, TypeOK
  <2>2. /\ call' = [op |-> "changeScene", at |-> "join", id |-> id, ptr |-> NoHandle]
        /\ silenced' = FALSE /\ calls' = calls + 1
        /\ UNCHANGED <<music, handles, matrix, fade, mix, crashed>>
    BY <1>3 DEF ChangeBegins, Begin
  <2>3. /\ call'.op = "changeScene" /\ call'.at = "join"
        /\ call' \in [op : {"none", "changeScene"} \cup Operations,
                      at : {"idle", "join", "change", "current", "apply", "transition", "return"},
                      id : 0 .. MaxScene, ptr : Handles \cup {NoHandle}]
    BY <2>2
  <2>4. TypeOK'
    <3>1. silenced' \in BOOLEAN /\ calls' \in 0 .. MaxCalls
      BY <2>1, <2>2
    <3>2. UNCHANGED <<m_id, m_soundTarget, m_transitioning, m_stopThread, m_volume, m_currentHandle,
                      m_transitionHandle, handle, scenes, sounds, fade, mix, crashed>>
      BY <2>2 DEF music, handles, matrix
    <3> QED
      BY <2>3, <3>1, <3>2 DEF TypeOK
  <2>5. Quiet
    BY <1>t, <2>2 DEF Quiet, music, handles, matrix, FadeOver
  <2> QED
    BY <2>1, <2>2, <2>3, <2>4, <2>5, QuietKeepsInv DEF CallHandle, Idle, SoundInCourse
<1>4. ASSUME NEW op \in Operations, OperationBegins(op) PROVE MusicInv'
  <2>1. calls + 1 \in 0 .. MaxCalls
    BY <1>4, MusicAssumption DEF OperationBegins, Begin, TypeOK
  <2>2. /\ call' = [op |-> op, at |-> "current", id |-> 0, ptr |-> NoHandle] /\ calls' = calls + 1
        /\ m_stopThread' \in BOOLEAN /\ m_volume' \in Nat
        /\ UNCHANGED <<m_id, m_soundTarget, m_transitioning, handles, matrix, fade, mix, crashed, silenced>>
    BY <1>4, MusicAssumption DEF OperationBegins, Begin, TypeOK
  <2>3. call'.op = op /\ call'.at = "current" /\ op # "none" /\ op # "changeScene"
    BY <1>o, <2>2
  <2>4. TypeOK'
    BY <2>1, <2>2, MusicAssumption DEF TypeOK, handles, matrix
  <2>5. Quiet
    BY <1>t, <2>2 DEF Quiet, handles, matrix, FadeOver
  <2> QED
    BY <2>1, <2>2, <2>3, <2>4, <2>5, QuietKeepsInv DEF CallHandle, Idle, SilentAfterStop, handles
<1>5. CASE ChangeJoins
  <2>1. call.op = "changeScene" /\ call.at = "join" /\ FadeOver /\ fade' = NoFade
        /\ call' = [call EXCEPT !.at = "change"]
        /\ UNCHANGED <<music, handles, matrix, mix, calls, crashed, silenced>>
    BY <1>5 DEF ChangeJoins
  <2>2. call'.op = "changeScene" /\ call'.at = "change" /\ ~Idle
    BY <2>1 DEF TypeOK, Idle
  <2>3. ~SoundInCourse /\ ~m_transitioning /\ ~silenced
    BY <2>1, <2>2 DEF OneAtATime, SilentAfterStop
  <2>4. TypeOK'
    BY <2>1 DEF TypeOK, music, handles, matrix, NoFade
  <2>5. Quiet
    BY <1>t, <2>1 DEF Quiet, music, handles, matrix, FadeOver, NoFade
  <2> QED
    BY <2>1, <2>2, <2>3, <2>4, <2>5, QuietKeepsInv DEF CallHandle, Idle, music, SoundInCourse
<1>6. CASE PointerRead
  <2>1. call.at = "current" /\ UNCHANGED <<music, handles, matrix, fade, mix, calls, crashed, silenced>>
    BY <1>6 DEF PointerRead
  <2>2. /\ call'.op = call.op
        /\ call'.at \in {"apply", "transition", "return"}
        /\ call'.at = "apply" => call'.ptr = m_currentHandle /\ m_currentHandle \in Handles
        /\ call'.at # "apply" => m_currentHandle = NoHandle
        /\ call'.at = "return" => call.op = "seek"
        /\ call' \in [op : {"none", "changeScene"} \cup Operations,
                      at : {"idle", "join", "change", "current", "apply", "transition", "return"},
                      id : 0 .. MaxScene, ptr : Handles \cup {NoHandle}]
    BY <1>6 DEF PointerRead, TypeOK
  <2>3. ~Idle /\ DeviceFree
    BY <1>6, <2>1 DEF Phases, PointerRead
  <2>4. TypeOK'
    BY <2>1, <2>2 DEF TypeOK, music, handles, matrix
  <2>5. Quiet
    BY <1>t, <2>1 DEF Quiet, music, handles, matrix, FadeOver
  <2>6. CallHandle'
    BY <2>1, <2>2, MusicAssumption DEF CallHandle, Dead, handles
  <2> QED
    BY <2>1, <2>2, <2>3, <2>4, <2>5, <2>6, QuietKeepsInv DEF Idle, OneAtATime, SilentAfterStop, music
<1>7. CASE CurrentDone
  <2>1. /\ call.at = "apply" /\ handle' = Applied(call.op, call.ptr)
        /\ UNCHANGED <<music, m_currentHandle, m_transitionHandle, matrix, fade, mix, calls, crashed, silenced>>
    BY <1>7 DEF CurrentDone
  <2>2. /\ call'.op = call.op
        /\ call'.at \in {"transition", "return"}
        /\ call'.at = "return" => call.op = "seek"
        /\ call' \in [op : {"none", "changeScene"} \cup Operations,
                      at : {"idle", "join", "change", "current", "apply", "transition", "return"},
                      id : 0 .. MaxScene, ptr : Handles \cup {NoHandle}]
    BY <1>7 DEF CurrentDone, TypeOK
  <2>3. ~Idle /\ DeviceFree /\ call.ptr = m_currentHandle /\ m_currentHandle \in Handles
    BY <2>1 DEF Phases, OneAtATime, CallHandle
  <2>4. Tames(handle') /\ (call.op = "stop" => handle'[m_currentHandle].status = "INVALID")
    BY <2>1, <2>3, AppliedTames
  <2>5. TypeOK'
    BY <2>1, <2>2, <2>4 DEF TypeOK, music, matrix, Tames, HandleType
  <2>6. Quiet
    BY <1>t, <2>1, <2>4 DEF Quiet, music, matrix, FadeOver
  <2>7. CallHandle'
    BY <2>1, <2>2, <2>4 DEF CallHandle, Dead, Valid
  <2> QED
    BY <2>1, <2>2, <2>3, <2>5, <2>6, <2>7, QuietKeepsInv DEF Idle, OneAtATime, SilentAfterStop, music
<1>8. CASE OtherDone
  <2> DEFINE h == m_transitionHandle
  <2>1. /\ call.at = "transition" /\ call' = [call EXCEPT !.at = "return"]
        /\ UNCHANGED <<music, m_currentHandle, m_transitionHandle, matrix, fade, mix, calls, crashed, silenced>>
    BY <1>8 DEF OtherDone
  <2>2. ~Idle /\ DeviceFree /\ call'.op = call.op /\ call'.at = "return"
    BY <1>8, <2>1 DEF Phases, OtherDone, TypeOK
  <2>3. /\ h = NoHandle => handle' = handle
        /\ h # NoHandle => \/ handle' \in {handle, Stopped(h), WithVolume({h}, 0), Applied(call.op, h)}
    BY <1>8 DEF OtherDone
  <2>4. call.op = "stop" /\ h # NoHandle => handle' = Applied("stop", h)
    BY <1>8 DEF OtherDone
  <2>5. h # NoHandle => h \in Handles
    BY DEF TypeOK
  <2>6. Tames(handle') /\ (call.op = "stop" => Dead(h)')
    BY <1>t, <2>1, <2>3, <2>4, <2>5, StoppedTames, WithVolumeTames, AppliedTames, MusicAssumption
       DEF Dead, Valid
  <2>7. TypeOK'
    BY <2>1, <2>6 DEF TypeOK, music, matrix, Tames, HandleType
  <2>8. Quiet
    BY <1>t, <2>1, <2>6 DEF Quiet, music, matrix, FadeOver
  <2>9. CallHandle'
    BY <2>1, <2>2, <2>6 DEF CallHandle, Dead, Valid, Tames
  <2> QED
    BY <2>1, <2>2, <2>7, <2>8, <2>9, QuietKeepsInv DEF Idle, OneAtATime, SilentAfterStop, music
<1>9. CASE Returns
  <2>1. /\ call.at = "return" /\ call' = NoCall
        /\ UNCHANGED <<music, handles, matrix, fade, mix, calls, crashed, silenced>>
    BY <1>9 DEF Returns
  <2>2. ~Idle /\ call'.op = "none" /\ call'.at = "idle"
    BY <2>1 DEF Phases, NoCall
  <2>3. TypeOK'
    BY <2>1, MusicAssumption DEF TypeOK, music, handles, matrix, NoCall
  <2>4. Quiet
    BY <1>t, <2>1 DEF Quiet, music, handles, matrix, FadeOver
  <2> QED
    BY <2>1, <2>2, <2>3, <2>4, QuietKeepsInv DEF CallHandle, Idle, handles
<1>10. CASE StopReturns
  <2>1. /\ call.at = "return" /\ call.op = "stop" /\ FadeOver
        /\ m_id' = 0 /\ fade' = NoFade /\ call' = NoCall /\ silenced' = TRUE
        /\ UNCHANGED <<m_soundTarget, m_transitioning, m_stopThread, m_volume, handles, matrix, mix,
                       calls, crashed>>
    BY <1>10 DEF StopReturns
  <2>2. call'.op = "none" /\ call'.at = "idle" /\ fade'.kind = "none" /\ fade'.at = "idle"
    BY <2>1 DEF NoCall, NoFade
  <2>3. mix' = mix /\ mix.sound = NoHandle /\ mix.at = "idle"
    BY <2>1 DEF OneAtATime, Phases, DeviceFree
  <2>4. \A h \in Handles : ~Valid(h)' /\ ~Scheduled(h)'
    <3>1. Dead(m_currentHandle) /\ Dead(m_transitionHandle)
      BY <2>1 DEF CallHandle
    <3> QED
      BY <2>1, <2>3, <3>1, MusicAssumption DEF NoOrphans, Dead, handles, Valid, Scheduled
  <2>5. TypeOK'
    BY <2>1, MusicAssumption DEF TypeOK, handles, matrix, NoCall, NoFade
  <2>6. FadeOver' /\ DeviceFree'
    BY <2>2, <2>3 DEF FadeOver, DeviceFree
  <2>7. HearInv'
    BY <1>t, <2>1, <2>2, <2>3, <2>4 DEF HearInv, NoOrphans, SoundsAreKnown, CurrentSound, CallbackHandle,
       TargetsAreKnown, SoundsAreFound, FadeOver
  <2>8. Phases' /\ OneAtATime'
    BY <2>2, <2>3, <2>6 DEF Phases, OneAtATime, Idle, FadeOver, DeviceFree
  <2>9. FadeHandles' /\ CallHandle' /\ SilentAfterStop'
    BY <2>1, <2>2, <2>4 DEF FadeHandles, CallHandle, SilentAfterStop, Dead, FadeOver, FadesIn, FadesOut
  <2> QED
    BY <2>5, <2>7, <2>8, <2>9 DEF HearInv
<1> QED
  BY <1>1, <1>2, <1>3, <1>4, <1>5, <1>6, <1>7, <1>8, <1>9, <1>10
------------------------------------------------------------------------------
(* Changes of the scene. *)

\* While nothing is in course every sound loops for ever and carries no stop callback.
LEMMA NothingEnds ==
    ASSUME TypeOK, HearInv, ~SoundInCourse
    PROVE  /\ mix.sound = NoHandle
           /\ \A h \in Handles : Valid(h) => handle[h].loops = -1 /\ handle[h].callback # "scene"
<1>1. mix.sound = NoHandle
  BY DEF SoundInCourse, DeviceFree
<1>2. ASSUME NEW h \in Handles, Valid(h) PROVE handle[h].loops # 0
  BY <1>1, <1>2, MusicAssumption DEF HearInv, SoundsAreKnown, SoundInCourse, Scheduled
<1>3. \A h \in Handles : handle[h].loops \in {-1, 0}
  BY DEF TypeOK
<1> QED
  BY <1>1, <1>2, <1>3 DEF HearInv, TargetsAreKnown

\* The current handle is dead or plays the sound of the scene.
LEMMA SceneSoundsOrDead ==
    ASSUME HearInv, ~m_transitioning, ~SceneSounds
    PROVE  Dead(m_currentHandle)
BY DEF HearInv, CurrentSound, SoundsAreKnown, SceneSounds, Dead

MixType ==
    [sound : Handles \cup {NoHandle}, at : {"idle", "none", "transition", "play", "scene", "publish"}]

CallType ==
    [op : {"none", "changeScene"} \cup Operations,
     at : {"idle", "join", "change", "current", "apply", "transition", "return"},
     id : 0 .. MaxScene, ptr : Handles \cup {NoHandle}]

\* The current handle has ended and the mixing thread is in its callback, or it is dead.
Replaceable(t) ==
    \/ Dead(m_currentHandle) /\ mix' = mix /\ ~SoundInCourse
    \/ mix.sound = m_currentHandle /\ t = m_soundTarget /\ mix'.at = "none" /\ mix.at = "play"

\* The transition replaces the handle that has ended, or one that is dead already.
LEMMA PlayTransitionKeepsMusic ==
    ASSUME MusicInv, NEW t \in 0 .. MaxScene, PlayTransition(t), <<m_id, t>> \in sounds,
           FadeOver, ~silenced, mix'.sound = mix.sound, Replaceable(t),
           call' \in CallType,
           (call'.op = "none" /\ call'.at = "idle") \/ (call' = call /\ ~DeviceFree),
           UNCHANGED <<matrix, calls, silenced>>, mix' \in MixType
    PROVE  MusicInv'
<1> USE DEF MusicInv
<1> DEFINE cb == IF <<t, t>> \in sounds THEN "scene" ELSE "none"
<1>1. /\ Room /\ m_soundTarget' = t /\ m_transitioning' = TRUE /\ m_currentHandle' = NewHandle
      /\ handle' = Played(<<m_id, t>>, 0, m_volume, cb)
      /\ UNCHANGED <<m_id, m_stopThread, m_volume, m_transitionHandle, fade, crashed, scenes, sounds,
                     calls, silenced>>
  BY DEF PlayTransition, matrix
<1>2. /\ <<m_id, t>> \in Pairs /\ m_volume \in Nat /\ cb \in {"none", "transition", "scene"}
      /\ cb # "transition" /\ (cb = "scene" => <<t, t>> \in sounds)
  BY DEF TypeOK
<1> HIDE DEF cb
<1>3. PICK n : m_currentHandle' = n /\ Plays(n, <<m_id, t>>, 0, cb)
  BY <1>1, <1>2, PlayedHandle
<1>4. \A h \in Handles \ {n} : Valid(h)' = Valid(h) /\ Scheduled(h)' = Scheduled(h) /\ handle'[h] = handle[h]
  BY <1>3 DEF Plays, Valid, Scheduled
<1>5. /\ handle'[n].callback = cb /\ handle'[n].loops = 0 /\ handle'[n].sound = <<m_id, t>>
      /\ ~Scheduled(n)' /\ n \in Handles /\ ~Valid(n) /\ Valid(n)'
      /\ n \notin {m_currentHandle, m_transitionHandle, mix.sound}
      /\ handle' \in [Handles -> HandleType]
  BY <1>2, <1>3 DEF Plays, Scheduled, Valid
<1>7. TypeOK'
  <2>1. /\ m_soundTarget' \in -1 .. MaxScene /\ m_transitioning' \in BOOLEAN
        /\ m_currentHandle' \in Handles \cup {NoHandle}
    BY <1>1, <1>3, <1>5
  <2> QED
    BY <1>1, <1>5, <2>1 DEF TypeOK, HandleType, MixType, CallType
<1>8. FadeOver' /\ mix'.sound = mix.sound /\ mix'.at \in {"idle", "none"} /\ (mix'.at = "idle" <=> mix.at = "idle")
  BY <1>1 DEF FadeOver, SoundInCourse, Phases, DeviceFree, Replaceable
<1>9. Phases' /\ OneAtATime' /\ CallHandle' /\ SilentAfterStop'
  <2>1. call'.op # "changeScene" /\ (Idle' <=> call'.at = "idle")
    BY DEF OneAtATime, SoundInCourse, Phases, Idle
  <2>2. /\ ~DeviceFree' => ~DeviceFree
        /\ ~DeviceFree => /\ call'.at # "apply"
                          /\ call'.op = "stop" => call'.at \notin {"transition", "return"}
    BY <1>8 DEF OneAtATime, DeviceFree
  <2>3. CallHandle'
    BY <2>2 DEF CallHandle
  <2> QED
    BY <1>1, <1>8, <2>1, <2>2, <2>3 DEF Phases, OneAtATime, SilentAfterStop, FadeOver, DeviceFree
<1>10. FadeHandles'
  BY <1>1, <1>3, <1>4, <1>5, <1>8 DEF FadeHandles, FadesIn, FadesOut, FadeOver, Dead
<1>11. NoOrphans'
  BY <1>1, <1>3, <1>4, <1>5, <1>8 DEF NoOrphans, Dead, Replaceable, SoundInCourse, DeviceFree
<1>12. SoundsAreKnown' /\ CurrentSound' /\ CallbackHandle'
  BY <1>1, <1>3, <1>4, <1>5, <1>8 DEF SoundsAreKnown, CurrentSound, CallbackHandle
<1>13. TargetsAreKnown'
  <2>1. m_id' # -1 /\ FadeOver'
    BY <1>1, <1>8 DEF TargetsAreKnown
  <2>2. ASSUME NEW h \in Handles, Scheduled(h)' PROVE <<m_id', m_soundTarget'>> \in sounds'
    BY <1>1
  <2>3. ASSUME NEW h \in Handles, Valid(h)', handle'[h].callback = "scene"
        PROVE  /\ handle'[h].loops = 0
               /\ h # mix'.sound \/ mix'.at # "none" => <<m_soundTarget', m_soundTarget'>> \in sounds'
    <3>1. CASE h = n
      BY <1>1, <1>2, <1>5, <2>3, <3>1
    <3>2. CASE h # n
      <4>1. Valid(h) /\ handle[h].callback = "scene"
        BY <1>4, <2>3, <3>2
      <4>2. SoundInCourse
        BY <4>1, NothingEnds DEF HearInv
      <4>3. t = m_soundTarget /\ mix.at = "play"
        BY <4>2 DEF Replaceable
      <4> QED
        BY <1>1, <1>4, <3>2, <4>1, <4>3 DEF TargetsAreKnown
    <3> QED
      BY <3>1, <3>2
  <2> QED
    BY <2>1, <2>2, <2>3 DEF TargetsAreKnown
<1>14. SoundsAreFound'
  BY <1>1 DEF SoundsAreFound
<1> QED
  BY <1>7, <1>9, <1>10, <1>11, <1>12, <1>13, <1>14

\* A fade starts with a pointer for every sound.
LEMMA FadeToKeepsMusic ==
    ASSUME MusicInv, NEW id \in 0 .. MaxScene, FadeTo(id), FadeOver, ~m_transitioning, ~SoundInCourse,
           ~silenced, <<m_id, m_id>> \in sounds => m_currentHandle # NoHandle,
           call' \in CallType, call'.op = "none", call'.at = "idle",
           UNCHANGED <<matrix, mix, calls, silenced>>
    PROVE  MusicInv'
<1> USE DEF MusicInv
<1> DEFINE next == <<id, id>> \in sounds
           kind == IF ~SceneSounds THEN "in" ELSE IF next THEN "cross" ELSE "out"
<1>1. /\ mix' = mix /\ mix.sound = NoHandle /\ mix.at = "idle"
      /\ \A h \in Handles : Valid(h) => handle[h].loops = -1 /\ handle[h].callback # "scene"
  BY NothingEnds DEF HearInv, Phases, DeviceFree
<1>2. /\ m_soundTarget' = id /\ m_stopThread' = FALSE
      /\ m_transitioning' \in BOOLEAN /\ (m_transitioning' <=> SceneSounds \/ next)
      /\ m_transitionHandle' = IF SceneSounds THEN m_currentHandle ELSE m_transitionHandle
      /\ fade' = IF SceneSounds \/ next THEN [NoFade EXCEPT !.at = "start", !.kind = kind] ELSE NoFade
      /\ UNCHANGED <<m_id, m_volume, crashed, scenes, sounds, mix, calls, silenced>>
  <2>1. m_transitioning' = (m_transitioning \/ SceneSounds \/ next)
    BY DEF FadeTo
  <2>2. m_transitioning' \in BOOLEAN
    BY <2>1, Zenon
  <2> QED
    BY <2>1, <2>2 DEF FadeTo, matrix
<1>3. /\ SceneSounds => m_currentHandle \in Handles
      /\ ~SceneSounds => Dead(m_currentHandle)
      /\ Dead(m_transitionHandle)
  <2>1. SceneSounds => m_currentHandle \in Handles
    BY DEF SceneSounds, TypeOK
  <2>2. ~SceneSounds => Dead(m_currentHandle)
    BY SceneSoundsOrDead DEF HearInv
  <2> QED
    BY <2>1, <2>2 DEF FadeHandles
<1>4. /\ fade' \in FadeType
      /\ SceneSounds \/ next => fade'.at = "start" /\ fade'.kind = kind
      /\ ~(SceneSounds \/ next) => fade'.at = "idle" /\ fade'.kind = "none"
  BY <1>2 DEF NoFade, FadeType
<1>5. /\ handle' \in [Handles -> HandleType] /\ m_currentHandle' \in Handles \cup {NoHandle}
      /\ next => m_currentHandle' \in Handles /\ handle'[m_currentHandle'].sound = <<id, id>>
      /\ ~next => m_currentHandle' = IF SceneSounds THEN NoHandle ELSE m_currentHandle
      /\ ~SceneSounds => Dead(m_transitionHandle)' /\ (~next => Dead(m_currentHandle)')
      /\ \A h \in Handles : Valid(h)' =>
             /\ handle'[h].loops = -1 /\ handle'[h].callback # "scene" /\ handle'[h].sound \in sounds
             /\ h = m_currentHandle' \/ (h = m_transitionHandle' /\ SceneSounds)
  <2>1. CASE next
    <3>1. Room /\ m_currentHandle' = NewHandle /\ handle' = Played(<<id, id>>, -1, 0, "none")
      BY <2>1 DEF FadeTo
    <3>2. <<id, id>> \in Pairs /\ -1 \in {-1, 0} /\ 0 \in Nat /\ "none" \in {"none", "transition", "scene"}
      BY DEF Pairs
    <3>3. PICK n : m_currentHandle' = n /\ Plays(n, <<id, id>>, -1, "none")
      BY <3>1, <3>2, PlayedHandle
    <3>4. /\ n \in Handles /\ n # m_currentHandle /\ n # m_transitionHandle
          /\ handle'[n].sound = <<id, id>> /\ handle'[n].loops = -1 /\ handle'[n].callback = "none"
          /\ handle' \in [Handles -> HandleType]
          /\ \A h \in Handles \ {n} : Valid(h)' = Valid(h) /\ handle'[h] = handle[h]
      BY <3>3 DEF Plays, Valid
    <3>5. ~SceneSounds => Dead(m_transitionHandle)'
      BY <1>2, <1>3, <3>4 DEF Dead
    <3>6. ASSUME NEW h \in Handles, Valid(h)'
          PROVE  /\ handle'[h].loops = -1 /\ handle'[h].callback # "scene" /\ handle'[h].sound \in sounds
                 /\ h = m_currentHandle' \/ (h = m_transitionHandle' /\ SceneSounds)
      <4>1. CASE h = n
        BY <2>1, <3>3, <3>4, <4>1
      <4>2. CASE h # n
        <5>1. Valid(h) /\ handle'[h] = handle[h]
          BY <3>4, <3>6, <4>2
        <5>2. h = m_currentHandle /\ SceneSounds
          BY <1>1, <1>3, <5>1, MusicAssumption DEF NoOrphans, Dead
        <5> QED
          BY <1>1, <1>2, <5>1, <5>2 DEF SoundsAreKnown
      <4> QED
        BY <4>1, <4>2
    <3> QED
      BY <2>1, <3>3, <3>4, <3>5, <3>6
  <2>2. CASE ~next
    <3>1. handle' = handle /\ m_currentHandle' = IF SceneSounds THEN NoHandle ELSE m_currentHandle
      BY <2>2 DEF FadeTo
    <3>2. ~SceneSounds => Dead(m_transitionHandle)' /\ Dead(m_currentHandle)'
      BY <1>2, <1>3, <3>1 DEF Dead, Valid
    <3>3. ASSUME NEW h \in Handles, Valid(h)'
          PROVE  /\ handle'[h].loops = -1 /\ handle'[h].callback # "scene" /\ handle'[h].sound \in sounds
                 /\ h = m_transitionHandle' /\ SceneSounds
      <4>1. Valid(h)
        BY <3>1, <3>3 DEF Valid
      <4>2. h = m_currentHandle /\ SceneSounds
        BY <1>1, <1>3, <4>1, MusicAssumption DEF NoOrphans, Dead
      <4> QED
        BY <1>1, <1>2, <3>1, <4>1, <4>2 DEF SoundsAreKnown
    <3> QED
      BY <2>2, <3>1, <3>2, <3>3, HandleTyped DEF TypeOK
  <2> QED
    BY <2>1, <2>2
<1> HIDE DEF next, kind
<1>k. /\ kind \in {"cross", "in", "out"} /\ (kind = "in" <=> ~SceneSounds) /\ (kind = "out" => ~next)
      /\ (kind = "cross" => next)
  BY DEF kind
<1>6. TypeOK'
  <2>1. /\ m_soundTarget' \in -1 .. MaxScene /\ m_transitioning' \in BOOLEAN /\ m_stopThread' \in BOOLEAN
        /\ m_transitionHandle' \in Handles \cup {NoHandle}
    <3>1. {m_currentHandle, m_transitionHandle} \subseteq Handles \cup {NoHandle} /\ MaxScene \in Nat
      BY MusicAssumption DEF TypeOK
    <3>2. m_transitionHandle' \in {m_currentHandle, m_transitionHandle}
      BY <1>2
    <3>3. m_soundTarget' = id /\ m_transitioning' \in BOOLEAN /\ m_stopThread' = FALSE
      BY <1>2
    <3>4. m_soundTarget' \in -1 .. MaxScene
      BY <3>1, <3>3
    <3>5. m_transitionHandle' \in Handles \cup {NoHandle}
      BY <3>1, <3>2
    <3> QED
      BY <3>3, <3>4, <3>5, Zenon
  <2>2. UNCHANGED <<m_id, m_volume, crashed, scenes, sounds, mix, calls, silenced>>
    BY <1>2
  <2>3. m_currentHandle' \in Handles \cup {NoHandle} /\ handle' \in [Handles -> HandleType]
    BY <1>5
  <2> QED
    BY <1>4, <2>1, <2>2, <2>3 DEF TypeOK, HandleType, FadeType, CallType
<1>7. FadeOver' <=> ~(SceneSounds \/ next)
  BY <1>4, <1>k DEF FadeOver
<1>8. \A h \in Handles : ~Scheduled(h)'
  BY <1>5 DEF Scheduled
<1>9. ~SoundInCourse'
  BY <1>1, <1>2, <1>7, <1>8 DEF SoundInCourse, DeviceFree
<1>10. Phases'
  BY <1>1, <1>4, <1>7 DEF Phases, Idle, DeviceFree
<1>11. OneAtATime' /\ SilentAfterStop' /\ CallHandle'
  <2>1. DeviceFree'
    BY <1>1 DEF DeviceFree
  <2> QED
    BY <1>2, <1>4, <1>7, <1>9, <2>1 DEF OneAtATime, SilentAfterStop, CallHandle
<1>12. FadeHandles'
  <2>1. CASE SceneSounds
    BY <1>2, <1>3, <1>4, <1>5, <1>7, <1>k, <2>1 DEF FadeHandles, FadesIn, FadesOut
  <2>2. CASE ~SceneSounds /\ next
    BY <1>4, <1>5, <1>k, <2>2 DEF FadeHandles, FadesIn, FadesOut
  <2>3. CASE ~SceneSounds /\ ~next
    BY <1>4, <1>5, <2>3 DEF FadeHandles, FadesIn, FadesOut
  <2> QED
    BY <2>1, <2>2, <2>3
<1>13. NoOrphans' /\ SoundsAreKnown' /\ CallbackHandle' /\ SoundsAreFound'
  BY <1>1, <1>2, <1>5 DEF NoOrphans, SoundsAreKnown, CallbackHandle, SoundsAreFound
<1>14. CurrentSound'
  <2>1. mix'.at = "idle" /\ m_soundTarget' = id
    BY <1>1, <1>2
  <2>2. CASE next
    BY <1>2, <1>5, <1>7, <2>1, <2>2 DEF CurrentSound
  <2>3. CASE ~next
    <3>1. ~SceneSounds => (m_currentHandle' \in Handles => ~Valid(m_currentHandle)')
      BY <1>5, <2>3 DEF Dead
    <3> QED
      BY <1>5, <2>3, <3>1, MusicAssumption DEF CurrentSound
  <2> QED
    BY <2>2, <2>3
<1>15. TargetsAreKnown'
  BY <1>2, <1>5, <1>8 DEF TargetsAreKnown
<1> QED
  BY <1>6, <1>10, <1>11, <1>12, <1>13, <1>14, <1>15

\* changeScene() stays in the scene, plays or schedules a transition, or fades.
LEMMA ChangeKeepsMusic ==
    ASSUME MusicInv, Change, call.id \in 0 .. MaxScene
    PROVE  MusicInv'
<1> USE DEF MusicInv
<1>1. /\ call.op = "changeScene" /\ call.at = "change" /\ call' = NoCall
      /\ UNCHANGED <<matrix, mix, calls, silenced>>
  BY DEF Change
<1>2. /\ call' \in CallType /\ call'.op = "none" /\ call'.at = "idle"
  BY <1>1, MusicAssumption DEF NoCall, CallType
<1>3. ~Idle /\ ~SoundInCourse /\ ~m_transitioning /\ FadeOver /\ ~silenced
  BY <1>1 DEF Idle, OneAtATime, SilentAfterStop
<1>4. ASSUME Quiet, UNCHANGED <<music, fade>>, TypeOK' PROVE MusicInv'
  BY <1>1, <1>2, <1>3, <1>4, QuietKeepsInv DEF CallHandle, Idle, SoundInCourse
<1>5. ASSUME Crash("handle") PROVE MusicInv'
  <2>1. /\ UNCHANGED <<m_id, m_soundTarget, m_transitioning, m_stopThread, m_volume, m_currentHandle,
                       m_transitionHandle, handle, fade, scenes, sounds, mix, calls, silenced>>
        /\ crashed' = "handle"
    BY <1>1, <1>5 DEF Crash, music, handles, matrix
  <2>2. TypeOK'
    BY <1>2, <2>1 DEF TypeOK, CallType
  <2>3. Quiet
    BY <2>1, HandleTyped DEF Quiet, FadeOver
  <2> QED
    BY <1>4, <2>1, <2>2, <2>3 DEF music
<1>6. CASE call.id = m_id /\ m_currentHandle # NoHandle
  <2> DEFINE h == m_currentHandle
  <2>1. /\ handle' = [handle EXCEPT ![h] = IF Valid(h) THEN [@ EXCEPT !.volume = m_volume, !.loops = -1] ELSE @]
        /\ UNCHANGED <<m_id, m_soundTarget, m_transitioning, m_stopThread, m_volume, m_currentHandle,
                       m_transitionHandle, fade, scenes, sounds, mix, calls, silenced, crashed>>
    BY <1>1, <1>6 DEF Change, KeepScene, music, matrix
  <2>2. /\ h \in Handles /\ m_volume \in Nat /\ handle \in [Handles -> HandleType]
        /\ Valid(h) => handle[h].loops = -1
    BY <1>3, <1>6, HandleTyped, NothingEnds DEF TypeOK, HearInv
  <2>3. \A r \in HandleType :
            /\ [r EXCEPT !.volume = m_volume, !.loops = -1] \in HandleType
            /\ [r EXCEPT !.volume = m_volume, !.loops = -1].loops = -1
            /\ [r EXCEPT !.volume = m_volume, !.loops = -1].sound = r.sound
            /\ [r EXCEPT !.volume = m_volume, !.loops = -1].status = r.status
            /\ [r EXCEPT !.volume = m_volume, !.loops = -1].callback = r.callback
    BY <2>2 DEF HandleType
  <2>4. PICK r \in HandleType : /\ handle' = [handle EXCEPT ![h] = r] /\ r.status = handle[h].status
                                /\ Valid(h) => /\ r.sound = handle[h].sound /\ r.loops = handle[h].loops
                                               /\ r.callback = handle[h].callback
    <3>1. handle[h] \in HandleType
      BY <2>2
    <3>2. CASE Valid(h)
      BY <2>1, <2>2, <2>3, <3>1, <3>2
    <3>3. CASE ~Valid(h)
      BY <2>1, <3>1, <3>3
    <3> QED
      BY <3>2, <3>3
  <2>5. Tames(handle')
    BY <2>2, <2>4 DEF Tames, Valid
  <2>6. TypeOK'
    BY <1>2, <2>1, <2>5 DEF TypeOK, CallType, Tames, HandleType
  <2>7. Quiet
    BY <2>1, <2>5 DEF Quiet, FadeOver, SoundsAreFound
  <2> QED
    BY <1>4, <2>1, <2>6, <2>7 DEF music
<1>7. CASE call.id # m_id /\ <<m_id, call.id>> \in sounds /\ SceneSounds /\ m_currentHandle # NoHandle
  <2> DEFINE h == m_currentHandle
             r == [handle[h] EXCEPT !.loops = 0, !.callback = "transition"]
  <2>1. /\ m_soundTarget' = call.id
        /\ handle' = [handle EXCEPT ![h].loops = 0, ![h].callback = "transition"]
        /\ UNCHANGED <<m_id, m_transitioning, m_stopThread, m_volume, m_currentHandle,
                       m_transitionHandle, fade, scenes, sounds, mix, calls, silenced, crashed>>
    BY <1>1, <1>7, <1>3 DEF Change, Schedule, TargetsAreKnown, matrix
  <2>2. h \in Handles /\ Valid(h) /\ handle \in [Handles -> HandleType]
    BY <1>7, HandleTyped DEF TypeOK, SceneSounds
  <2>3. /\ r \in HandleType /\ r.loops = 0 /\ r.callback = "transition"
        /\ r.sound = handle[h].sound /\ r.status = handle[h].status
    <3>1. handle[h] \in HandleType
      BY <2>2
    <3> QED
      BY <3>1 DEF HandleType
  <2>4. handle' = [handle EXCEPT ![h] = r]
    BY <2>1, <2>2
  <2> HIDE DEF r
  <2>5. /\ handle' \in [Handles -> HandleType]
        /\ handle'[h].loops = 0 /\ handle'[h].callback = "transition"
        /\ handle'[h].sound = handle[h].sound
        /\ \A g \in Handles \ {h} : handle'[g] = handle[g]
        /\ \A g \in Handles : Valid(g)' = Valid(g)
    BY <2>2, <2>3, <2>4 DEF Valid
  <2> HIDE DEF h
  <2>6. FadeOver' /\ mix'.sound = NoHandle /\ mix.sound = NoHandle /\ mix'.at = "idle"
    BY <1>3, <2>1 DEF FadeOver, SoundInCourse, DeviceFree, Phases
  <2>7. TypeOK'
    <3>1. m_soundTarget' \in -1 .. MaxScene
      BY <2>1, MusicAssumption
    <3> QED
      BY <1>2, <2>1, <2>5, <3>1 DEF TypeOK, HandleType, CallType
  <2>8. Phases' /\ OneAtATime' /\ CallHandle' /\ SilentAfterStop'
    BY <1>2, <1>3, <2>1, <2>6 DEF Phases, OneAtATime, CallHandle, SilentAfterStop, Idle, FadeOver, DeviceFree
  <2>9. FadeHandles'
    BY <1>3, <2>1, <2>5, <2>6 DEF FadeHandles, FadesIn, FadesOut, FadeOver, Dead
  <2>10. NoOrphans'
    BY <2>1, <2>5 DEF NoOrphans
  <2>11. SoundsAreKnown'
    BY <1>3, <2>1, <2>5, <2>6 DEF SoundsAreKnown
  <2>12. CurrentSound' /\ CallbackHandle' /\ SoundsAreFound'
    BY <1>3, <2>1, <2>5, <2>6 DEF CurrentSound, CallbackHandle, SoundsAreFound, h
  <2>13. TargetsAreKnown'
    <3>1. ASSUME NEW g \in Handles, Valid(g)' PROVE handle'[g].callback # "scene"
      BY <1>3, <2>5, <3>1, NothingEnds DEF HearInv
    <3> QED
      BY <1>7, <2>1, <2>6, <3>1 DEF TargetsAreKnown
  <2> QED
    BY <2>7, <2>8, <2>9, <2>10, <2>11, <2>12, <2>13
<1>8. CASE call.id # m_id /\ <<m_id, call.id>> \in sounds /\ ~SceneSounds
           /\ (<<m_id, m_id>> \in sounds => m_currentHandle # NoHandle)
  <2>1. PlayTransition(call.id)
    BY <1>8 DEF Change, Schedule, TargetsAreKnown
  <2>2. Replaceable(call.id)
    BY <1>1, <1>3, <1>8, SceneSoundsOrDead DEF Replaceable, HearInv
  <2>3. mix' \in MixType /\ mix'.sound = mix.sound
    BY <1>1 DEF TypeOK, MixType
  <2> QED
    BY <1>1, <1>2, <1>3, <1>8, <2>1, <2>2, <2>3, PlayTransitionKeepsMusic
<1>9. CASE call.id # m_id /\ <<m_id, call.id>> \notin sounds
           /\ (<<m_id, m_id>> \in sounds => m_currentHandle # NoHandle)
  <2>1. FadeTo(call.id)
    BY <1>9 DEF Change, TargetsAreKnown
  <2> QED
    BY <1>1, <1>2, <1>3, <1>9, <2>1, FadeToKeepsMusic
<1>10. CASE \/ call.id = m_id /\ m_currentHandle = NoHandle
            \/ call.id # m_id /\ <<m_id, m_id>> \in sounds /\ m_currentHandle = NoHandle
  BY <1>5, <1>10 DEF Change, KeepScene, TargetsAreKnown
<1>11. SceneSounds => <<m_id, m_id>> \in sounds
  BY DEF SceneSounds
<1> QED
  BY <1>6, <1>7, <1>8, <1>9, <1>10, <1>11
------------------------------------------------------------------------------
(* The mixing thread. *)

\* A sound ends only if it is current and a transition with a sound of its own is in course.
LEMMA SoundEndsKeepsMusic ==
    ASSUME MusicInv, ~Handover, NEW h \in Handles, SoundEnds(h)
    PROVE  MusicInv'
<1> USE DEF MusicInv
<1>1. /\ Valid(h) /\ handle[h].loops = 0 /\ mix.sound = NoHandle
      /\ mix' = [sound |-> h, at |-> handle[h].callback]
      /\ UNCHANGED <<m_id, m_soundTarget, m_transitioning, m_stopThread, m_volume, m_currentHandle,
                     m_transitionHandle, handle, scenes, sounds, fade, call, calls, crashed, silenced>>
  BY DEF SoundEnds, DeviceFree, Valid, music, handles, matrix
<1>2. handle[h].callback \in {"none", "transition", "scene"} /\ \A g \in Handles : g # NoHandle
  BY MusicAssumption DEF TypeOK
<1>3. mix'.sound = h /\ mix'.at = handle[h].callback
  BY <1>1
<1>4. SoundInCourse
  BY <1>1, <1>2, NothingEnds DEF HearInv
<1>5. FadeOver /\ call.op # "changeScene" /\ h = m_currentHandle
  BY <1>1, <1>2, <1>4 DEF OneAtATime, FadeHandles, NoOrphans, Dead
\* stop() has not been at the sound, nor is it about to stop it.
<1>a. ~silenced /\ call.at # "apply" /\ (call.op = "stop" => call.at \notin {"transition", "return"})
  <2>1. ~silenced
    BY <1>1 DEF SilentAfterStop
  <2>2. call.at # "apply"
    BY DEF SoundEnds
  <2>3. call.op = "stop" => call.at \notin {"transition", "return"}
    BY <1>1, <1>5 DEF CallHandle, Dead
  <2> QED
    BY <2>1, <2>2, <2>3
<1>6. \A g \in Handles : Valid(g)' = Valid(g) /\ Scheduled(g)' = Scheduled(g)
  BY <1>1 DEF Valid, Scheduled
<1>7. TypeOK'
  <2>1. mix' \in MixType
    BY <1>1, <1>2 DEF MixType
  <2> QED
    BY <1>1, <2>1 DEF TypeOK, MixType
<1>8. Phases' /\ OneAtATime' /\ CallHandle' /\ SilentAfterStop'
  BY <1>1, <1>2, <1>3, <1>5, <1>6, <1>a
     DEF Phases, OneAtATime, CallHandle, SilentAfterStop, Idle, FadeOver, DeviceFree, Dead
<1>9. FadeHandles'
  BY <1>1, <1>6 DEF FadeHandles, FadesIn, FadesOut, FadeOver, Dead
<1>10. NoOrphans' /\ SoundsAreKnown' /\ SoundsAreFound'
  BY <1>1, <1>2, <1>6 DEF NoOrphans, SoundsAreKnown, SoundsAreFound, FadeOver
<1>13. CallbackHandle'
  <2>1. handle[h].callback = "transition" => Scheduled(h)
    BY <1>1 DEF Scheduled
  <2>2. handle[h].callback = "scene" => m_transitioning
    BY <1>1, <1>2 DEF SoundsAreKnown
  <2> QED
    BY <1>1, <1>2, <1>3, <1>5, <1>6, <2>1, <2>2 DEF CallbackHandle
<1>11. CurrentSound'
  BY <1>1, <1>2, <1>3, <1>6 DEF CurrentSound, FadeOver
<1>12. TargetsAreKnown'
  BY <1>1, <1>2, <1>6 DEF TargetsAreKnown, FadeOver
<1> QED
  BY <1>7, <1>8, <1>9, <1>10, <1>11, <1>12, <1>13

\* A callback finds what it needs and leaves one sound behind, that of the new scene.
LEMMA CallbackKeepsMusic ==
    ASSUME MusicInv, Callbacks
    PROVE  MusicInv'
<1> USE DEF MusicInv
<1> DEFINE h == mix.sound
<1>1. /\ mix.at # "idle" /\ h \in Handles /\ h # NoHandle /\ SoundInCourse /\ FadeOver /\ ~silenced
      /\ call.op # "changeScene" /\ call.at # "apply" /\ (call.op = "stop" => call.at \notin {"transition", "return"})
      /\ Dead(m_transitionHandle)
  <2>1. mix.at # "idle"
    BY DEF Callbacks, TransitionBegins, TransitionGoesOn, ScenePlays, ScenePublished, SoundRemoved
  <2>2. h # NoHandle /\ h \in Handles
    BY <2>1 DEF Phases, DeviceFree, TypeOK
  <2>3. SoundInCourse
    BY <2>2 DEF SoundInCourse, DeviceFree
  <2> QED
    BY <2>1, <2>2, <2>3 DEF OneAtATime, FadeHandles, DeviceFree
<1>2. ASSUME mix'.sound = h, UNCHANGED <<call, fade, silenced>>, mix'.at # "idle"
      PROVE  Phases' /\ OneAtATime' /\ SilentAfterStop' /\ FadeOver'
  BY <1>1, <1>2 DEF Phases, OneAtATime, SilentAfterStop, Idle, FadeOver, DeviceFree
<1>3. CASE TransitionBegins
  <2>1. /\ mix.at = "transition" /\ m_transitioning' = TRUE /\ mix' = [mix EXCEPT !.at = "play"]
        /\ UNCHANGED <<m_id, m_soundTarget, m_stopThread, m_volume, m_currentHandle, m_transitionHandle,
                       handle, scenes, sounds, fade, call, calls, crashed, silenced>>
    BY <1>3 DEF TransitionBegins, handles, matrix
  <2>2. mix'.sound = h /\ mix'.at = "play" /\ mix' \in MixType
    BY <2>1 DEF TypeOK, MixType
  <2>3. \A g \in Handles : Valid(g)' = Valid(g) /\ Scheduled(g)' = Scheduled(g)
    BY <2>1 DEF Valid, Scheduled
  <2>4. TypeOK'
    BY <2>1, <2>2 DEF TypeOK, MixType
  <2>5. Phases' /\ OneAtATime' /\ SilentAfterStop' /\ FadeOver'
    BY <1>2, <2>1, <2>2
  <2>6. FadeHandles' /\ CallHandle' /\ NoOrphans'
    BY <1>1, <2>1, <2>2, <2>3 DEF FadeHandles, FadesIn, FadesOut, FadeOver, Dead, CallHandle, NoOrphans
  <2>7. SoundsAreKnown' /\ CallbackHandle' /\ SoundsAreFound'
    BY <1>1, <2>1, <2>2, <2>3, <2>5 DEF SoundsAreKnown, CallbackHandle, SoundsAreFound
  <2>8. CurrentSound' /\ TargetsAreKnown'
    BY <1>1, <2>1, <2>2, <2>3, <2>5 DEF CurrentSound, TargetsAreKnown, FadeOver
  <2> QED
    BY <2>4, <2>5, <2>6, <2>7, <2>8
<1>4. CASE TransitionGoesOn
  <2>1. /\ mix.at = "play" /\ mix' = [mix EXCEPT !.at = "none"] /\ PlayTransition(m_soundTarget)
        /\ UNCHANGED <<matrix, call, calls, silenced>>
    BY <1>4 DEF TransitionGoesOn
  <2>2. mix'.sound = h /\ mix'.at = "none" /\ mix' \in MixType
    BY <2>1 DEF TypeOK, MixType
  <2>3. h = m_currentHandle /\ <<m_id, m_soundTarget>> \in sounds
    BY <1>1, <2>1 DEF CallbackHandle, TargetsAreKnown
  <2>4. m_soundTarget \in 0 .. MaxScene
    BY <2>3 DEF TypeOK, Pairs
  <2>5. Replaceable(m_soundTarget)
    BY <2>1, <2>2, <2>3 DEF Replaceable
  <2>6. call' \in CallType /\ call' = call /\ ~DeviceFree
    BY <1>1, <2>1 DEF DeviceFree, TypeOK, CallType
  <2> QED
    BY <1>1, <2>1, <2>2, <2>3, <2>4, <2>5, <2>6, PlayTransitionKeepsMusic
<1>5. CASE ScenePlays
  <2> DEFINE t == m_soundTarget
  <2>1. mix.at = "scene" /\ h = m_currentHandle /\ <<t, t>> \in sounds
    BY <1>1, <1>5 DEF ScenePlays, CallbackHandle, TargetsAreKnown
  <2>2. /\ Room /\ m_currentHandle' = NewHandle /\ handle' = Played(<<t, t>>, -1, m_volume, "none")
        /\ mix' = [mix EXCEPT !.at = "publish"]
        /\ UNCHANGED <<m_id, m_soundTarget, m_transitioning, m_stopThread, m_volume, m_transitionHandle,
                       scenes, sounds, fade, call, calls, crashed, silenced>>
    BY <1>5, <2>1 DEF ScenePlays, music, matrix
  <2>3. <<t, t>> \in Pairs /\ -1 \in {-1, 0} /\ m_volume \in Nat /\ "none" \in {"none", "transition", "scene"}
    BY <2>1 DEF TypeOK
  <2>4. PICK n : m_currentHandle' = n /\ Plays(n, <<t, t>>, -1, "none")
    BY <2>2, <2>3, PlayedHandle
  <2>5. /\ n \in Handles /\ n # m_currentHandle /\ n # m_transitionHandle /\ n # h
        /\ handle'[n].sound = <<t, t>> /\ handle'[n].loops = -1 /\ handle'[n].callback = "none"
        /\ ~Scheduled(n)' /\ handle' \in [Handles -> HandleType]
        /\ \A g \in Handles \ {n} : Valid(g)' = Valid(g) /\ handle'[g] = handle[g] /\ Scheduled(g)' = Scheduled(g)
    BY <2>4 DEF Plays, Valid, Scheduled
  <2>6. mix'.sound = h /\ mix'.at = "publish" /\ mix' \in MixType
    BY <2>2 DEF TypeOK, MixType
  <2>7. TypeOK'
    <3>1. /\ {m_currentHandle', m_transitionHandle'} \subseteq Handles \cup {NoHandle}
          /\ handle' \in [Handles -> HandleType] /\ mix' \in MixType
      BY <2>2, <2>4, <2>5, <2>6 DEF TypeOK
    <3>2. UNCHANGED <<m_id, m_soundTarget, m_transitioning, m_stopThread, m_volume, scenes, sounds, fade,
                      call, calls, crashed, silenced>>
      BY <2>2
    <3> HIDE DEF t, h
    <3> QED
      BY <3>1, <3>2 DEF TypeOK, MixType, HandleType
  <2>8. Phases' /\ OneAtATime' /\ SilentAfterStop' /\ FadeOver'
    BY <1>2, <2>2, <2>6
  <2>9. FadeHandles' /\ CallHandle'
    BY <1>1, <2>2, <2>5, <2>8 DEF FadeHandles, FadesIn, FadesOut, FadeOver, Dead, CallHandle, Phases, Idle
  <2>10. NoOrphans'
    BY <2>1, <2>2, <2>4, <2>5, <2>6 DEF NoOrphans
  <2>11. SoundsAreKnown'
    BY <1>1, <2>1, <2>2, <2>5, <2>6, <2>8 DEF SoundsAreKnown
  <2>12. CallbackHandle' /\ SoundsAreFound'
    BY <1>1, <2>1, <2>2, <2>5, <2>6 DEF CallbackHandle, SoundsAreFound
  <2>13. CurrentSound'
    <3>1. m_transitioning'
      BY <2>1, <2>2 DEF CallbackHandle
    <3> QED
      BY <2>2, <2>4, <2>5, <2>6, <2>8, <3>1 DEF CurrentSound
  <2>14. TargetsAreKnown'
    BY <2>1, <2>2, <2>5, <2>6, <2>8 DEF TargetsAreKnown
  <2> QED
    BY <2>7, <2>8, <2>9, <2>10, <2>11, <2>12, <2>13, <2>14
<1>6. CASE ScenePublished
  <2> DEFINE t == m_soundTarget
  <2>1. /\ mix.at = "publish" /\ m_id' = t /\ m_soundTarget' = -1 /\ m_transitioning' = FALSE
        /\ mix' = [mix EXCEPT !.at = "none"]
        /\ UNCHANGED <<m_stopThread, m_volume, m_currentHandle, m_transitionHandle, handle, scenes, sounds,
                       fade, call, calls, crashed, silenced>>
    BY <1>6 DEF ScenePublished, handles, matrix
  <2>2. Valid(h) /\ handle[h].callback = "scene" /\ <<t, t>> \in sounds
    BY <1>1, <2>1 DEF CallbackHandle, TargetsAreKnown
  <2>3. t \in 0 .. MaxScene
    BY <2>2 DEF TypeOK, Pairs
  <2>4. mix'.sound = h /\ mix'.at = "none" /\ mix' \in MixType
    BY <2>1 DEF TypeOK, MixType
  <2>5. \A g \in Handles : Valid(g)' = Valid(g) /\ Scheduled(g)' = Scheduled(g)
    BY <2>1 DEF Valid, Scheduled
  <2>6. TypeOK'
    <3>1. m_id' \in -1 .. MaxScene /\ m_soundTarget' \in -1 .. MaxScene /\ m_transitioning' \in BOOLEAN
      <4>1. MaxScene \in Nat /\ 0 .. MaxScene \subseteq -1 .. MaxScene /\ -1 \in -1 .. MaxScene
        BY MusicAssumption
      <4>2. m_id' \in 0 .. MaxScene /\ m_soundTarget' = -1
        BY <2>1, <2>3
      <4>3. m_transitioning' \in BOOLEAN
        BY <2>1
      <4> QED
        BY <4>1, <4>2, <4>3, Zenon
    <3>2. UNCHANGED <<m_stopThread, m_volume, m_currentHandle, m_transitionHandle, handle, scenes, sounds,
                      fade, call, calls, crashed, silenced>>
      BY <2>1
    <3> HIDE DEF t, h
    <3> QED
      BY <2>4, <3>1, <3>2 DEF TypeOK, MixType
  <2>7. Phases' /\ OneAtATime' /\ SilentAfterStop' /\ FadeOver'
    BY <1>2, <2>1, <2>4
  <2>8. FadeHandles' /\ CallHandle' /\ NoOrphans'
    BY <1>1, <2>1, <2>4, <2>5 DEF FadeHandles, FadesIn, FadesOut, FadeOver, Dead, CallHandle, NoOrphans
  <2>9. \A g \in Handles : Valid(g) => g = h \/ (g = m_currentHandle /\ handle[g].loops = -1)
    BY <1>1, <2>1 DEF NoOrphans, Dead, CurrentSound
  <2>10. SoundsAreKnown' /\ CallbackHandle' /\ SoundsAreFound'
    BY <1>1, <2>1, <2>4, <2>5, <2>9 DEF SoundsAreKnown, CallbackHandle, SoundsAreFound
  <2>11. CurrentSound'
    BY <2>1, <2>4, <2>5, <2>7 DEF CurrentSound
  <2>12. TargetsAreKnown'
    <3>1. ASSUME NEW g \in Handles PROVE ~Scheduled(g)
      BY <2>2, <2>9 DEF Scheduled
    <3>2. ASSUME NEW g \in Handles, Valid(g), handle[g].callback = "scene"
          PROVE  g = h /\ handle[g].loops = 0
      BY <2>9, <3>2 DEF TargetsAreKnown
    <3> QED
      BY <2>1, <2>3, <2>4, <2>5, <2>7, <3>1, <3>2 DEF TargetsAreKnown
  <2> QED
    BY <2>6, <2>7, <2>8, <2>10, <2>11, <2>12
<1>7. CASE SoundRemoved
  <2>1. /\ mix.at = "none" /\ handle' = Stopped(h) /\ mix' = NoMix
        /\ UNCHANGED <<m_id, m_soundTarget, m_transitioning, m_stopThread, m_volume, m_currentHandle,
                       m_transitionHandle, scenes, sounds, fade, call, calls, crashed, silenced>>
    BY <1>7 DEF SoundRemoved, music, matrix
  <2>2. mix'.sound = NoHandle /\ mix'.at = "idle" /\ mix' \in MixType
    BY <2>1 DEF NoMix, MixType
  <2>3. Tames(handle') /\ handle'[h].status = "INVALID"
    BY <1>1, <2>1, StoppedTames
  <2>4. \A g \in Handles : Valid(g)' =>
            /\ Valid(g) /\ g # h /\ handle'[g].sound = handle[g].sound
            /\ handle'[g].loops = handle[g].loops /\ handle'[g].callback = handle[g].callback
    BY <2>3 DEF Tames, Valid
  <2>5. \A g \in Handles : Scheduled(g)' => Scheduled(g)
    BY <2>4 DEF Scheduled
  <2>6. TypeOK'
    BY <2>1, <2>2, <2>3 DEF TypeOK, MixType, Tames, HandleType
  <2>7. Phases' /\ OneAtATime' /\ SilentAfterStop' /\ FadeOver'
    BY <1>1, <2>1, <2>2 DEF Phases, OneAtATime, SilentAfterStop, Idle, FadeOver, DeviceFree
  <2>8. FadeHandles' /\ CallHandle' /\ NoOrphans'
    BY <1>1, <2>1, <2>2, <2>4, <2>7
       DEF FadeHandles, FadesIn, FadesOut, FadeOver, Dead, CallHandle, NoOrphans, Phases, Idle
  <2>9. SoundsAreKnown' /\ CallbackHandle' /\ SoundsAreFound'
    BY <1>1, <2>1, <2>2, <2>4, <2>7 DEF SoundsAreKnown, CallbackHandle, SoundsAreFound
  <2>10. CurrentSound' /\ TargetsAreKnown'
    BY <1>1, <2>1, <2>2, <2>4, <2>5, <2>7 DEF CurrentSound, TargetsAreKnown
  <2> QED
    BY <2>6, <2>7, <2>8, <2>9, <2>10
<1> QED
  BY <1>3, <1>4, <1>5, <1>6, <1>7 DEF Callbacks
------------------------------------------------------------------------------
(* The invariant holds of every behaviour, and the properties follow from it. *)

LEMMA InitMusicInv ==
    ASSUME Init
    PROVE  MusicInv
<1> USE DEF Init
<1>1. /\ fade.kind = "none" /\ fade.at = "idle" /\ mix.sound = NoHandle /\ mix.at = "idle"
      /\ call.op = "none" /\ call.at = "idle" /\ call.ptr = NoHandle
  BY DEF NoFade, NoMix, NoCall
<1>2. \A h \in Handles : ~Valid(h) /\ ~Scheduled(h)
  BY DEF Valid, Scheduled
<1>3. TypeOK
  <2>1. /\ 0 \in 0 .. MaxScene /\ 0 \in -1 .. MaxScene /\ 1 \in 1 .. MaxScene + 1 /\ 0 \in 0 .. MaxCalls
        /\ FullVolume \in Nat
    BY MusicAssumption DEF FullVolume
  <2>2. fade \in FadeType /\ mix \in MixType /\ call \in CallType
    BY <2>1 DEF NoFade, NoMix, NoCall, FadeType, MixType, CallType
  <2>3. <<0, 0>> \in Pairs
    BY <2>1 DEF Pairs
  <2>4. handle \in [Handles -> HandleType]
    BY <2>3 DEF HandleType
  <2> QED
    BY <2>1, <2>2, <2>4 DEF TypeOK, FadeType, MixType, CallType, HandleType
<1>4. Phases /\ OneAtATime
  BY <1>1, <1>2 DEF Phases, OneAtATime, Idle, FadeOver, DeviceFree, SoundInCourse
<1>5. FadeHandles /\ NoOrphans /\ SoundsAreKnown /\ CurrentSound
  BY <1>1, <1>2
     DEF FadeHandles, FadesIn, FadesOut, FadeOver, NoOrphans, SoundsAreKnown, CurrentSound, Dead
<1>6. CallbackHandle /\ TargetsAreKnown /\ SoundsAreFound
  BY <1>1, <1>2 DEF CallbackHandle, TargetsAreKnown, SoundsAreFound, FadeOver
<1>7. CallHandle /\ SilentAfterStop
  BY <1>1, <1>2 DEF CallHandle, SilentAfterStop, FadeOver
<1> QED
  BY <1>3, <1>4, <1>5, <1>6, <1>7 DEF MusicInv

LEMMA RestKeepsMusic ==
    ASSUME MusicInv, UNCHANGED vars
    PROVE  MusicInv'
<1>1. UNCHANGED <<m_id, m_soundTarget, m_transitioning, m_stopThread, m_volume, m_currentHandle,
                  m_transitionHandle, handle, scenes, sounds, fade, mix, call, calls, crashed, silenced>>
  BY DEF vars, music, handles, matrix
<1>2. \A h \in Handles : Valid(h)' = Valid(h) /\ Scheduled(h)' = Scheduled(h)
  BY <1>1 DEF Valid, Scheduled
<1>3. \A h : Dead(h)' = Dead(h)
  BY <1>2 DEF Dead
<1>4. SoundInCourse' = SoundInCourse /\ FadeOver' = FadeOver /\ Idle' = Idle /\ DeviceFree' = DeviceFree
  BY <1>1, <1>2 DEF SoundInCourse, FadeOver, Idle, DeviceFree
<1>5. TypeOK' /\ Phases' /\ OneAtATime' /\ FadeHandles'
  BY <1>1, <1>3, <1>4 DEF MusicInv, TypeOK, Phases, OneAtATime, FadeHandles, FadesIn, FadesOut, Dead
<1>6. NoOrphans' /\ SoundsAreKnown' /\ CurrentSound'
  BY <1>1, <1>2, <1>4 DEF MusicInv, NoOrphans, SoundsAreKnown, CurrentSound
<1>8. CallbackHandle'
  BY <1>1 DEF MusicInv, CallbackHandle, Scheduled, Valid
<1>7. TargetsAreKnown' /\ SoundsAreFound' /\ CallHandle' /\ SilentAfterStop'
  BY <1>1, <1>2, <1>3, <1>4 DEF MusicInv, TargetsAreKnown, SoundsAreFound, CallHandle, SilentAfterStop
<1> QED
  BY <1>5, <1>6, <1>7, <1>8 DEF MusicInv

LEMMA NextKeepsMusicInv ==
    ASSUME MusicInv, Conforming, [Next]_vars
    PROVE  MusicInv'
<1>1. CASE \/ AddScene
           \/ \E st \in Custom : AddTransition(st[1], st[2])
           \/ \E id \in 0 .. MaxScene : ChangeBegins(id)
           \/ \E op \in Operations : OperationBegins(op)
           \/ ChangeJoins \/ PointerRead \/ CurrentDone \/ OtherDone \/ Returns \/ StopReturns
  BY <1>1, CallKeepsMusic
<1>2. CASE Change
  <2>1. call.id \in 0 .. MaxScene
    BY DEF MusicInv, TypeOK
  <2> QED
    BY <1>2, <2>1, ChangeKeepsMusic
<1>3. CASE \E h \in Handles : SoundEnds(h)
  BY <1>3, SoundEndsKeepsMusic DEF Conforming
<1>4. CASE Callbacks
  BY <1>4, CallbackKeepsMusic
<1>5. CASE FadeThread
  BY <1>5, FadeKeepsMusic
<1>6. CASE UNCHANGED vars
  BY <1>6, RestKeepsMusic
<1> QED
  <2>1. Next \/ UNCHANGED vars
    OBVIOUS
  <2>2. CASE Next
    BY <1>1, <1>2, <1>3, <1>4, <1>5, <1>6, <2>2, Zenon DEF Next, Client, Rest
  <2> QED
    BY <1>6, <2>1, <2>2

\* Under the two conditions the music, the three threads and the handles agree as MusicInv
\* says, in every state.
THEOREM MusicInvariance == Conforming => (Spec => []MusicInv)
<1> SUFFICES ASSUME Conforming PROVE Spec => []MusicInv
  OBVIOUS
<1>1. Init => MusicInv
  BY InitMusicInv
<1>2. MusicInv /\ [Next]_vars => MusicInv'
  BY NextKeepsMusicInv
<1> QED
  BY <1>1, <1>2, PTL DEF Spec

\* Every variable keeps its type.
THEOREM MusicTypeCorrect == Conforming => (Spec => []TypeOK)
<1>1. MusicInv => TypeOK
  BY DEF MusicInv
<1> QED
  BY <1>1, MusicInvariance, PTL

\* No exchange of the two pointers, by the client, a callback or a fading thread, loses the
\* handle of a sound that still plays.
THEOREM NobodyIsOrphaned == Conforming => (Spec => []NoOrphans)
<1>1. MusicInv => NoOrphans
  BY DEF MusicInv
<1> QED
  BY <1>1, MusicInvariance, PTL

\* Between two changes at most one sound plays, and it is that of the current scene.
THEOREM CurrentSceneIsHeard == Conforming => (Spec => []SceneIsHeard)
<1>1. MusicInv => SceneIsHeard
  <2> SUFFICES ASSUME MusicInv, Settled PROVE
        /\ m_currentHandle # NoHandle /\ Valid(m_currentHandle)
               => handle[m_currentHandle].sound = <<m_id, m_id>>
        /\ Cardinality({h \in Handles : Valid(h)}) <= 1
    BY DEF SceneIsHeard
  <2> USE DEF MusicInv
  <2>1. m_currentHandle # NoHandle => m_currentHandle \in Handles
    BY DEF TypeOK
  <2>2. m_currentHandle # NoHandle /\ Valid(m_currentHandle)
            => handle[m_currentHandle].sound = <<m_id, m_id>>
    BY <2>1 DEF Settled, CurrentSound
  <2>3. {h \in Handles : Valid(h)} \subseteq {m_currentHandle}
    BY MusicAssumption DEF Settled, NoOrphans, DeviceFree, FadeHandles, Dead
  <2>4. IsFiniteSet({m_currentHandle}) /\ Cardinality({m_currentHandle}) = 1
    BY FS_Singleton
  <2>5. Cardinality({h \in Handles : Valid(h)}) <= 1
    BY <2>3, <2>4, FS_Subset
  <2> QED
    BY <2>2, <2>5
<1> QED
  BY <1>1, MusicInvariance, PTL

\* Once stop() has returned nothing sounds and scene 0 is current, until a change begins.
\* stop() may come at any step of a fade, whose thread goes on until it is joined, while a
\* transition is scheduled, and while its sound plays, whose callback then never runs.  Left
\* out (Handover) is a callback between stop()'s copy of the pointer and the use of it.
THEOREM StopSilences == Conforming => (Spec => []StopIsFinal)
<1>1. MusicInv => StopIsFinal
  BY DEF MusicInv, SilentAfterStop, StopIsFinal
<1> QED
  BY <1>1, MusicInvariance, PTL
=============================================================================
