----------------------------- MODULE DynamicMusic -----------------------------
(***************************************************************************)
(* Music that changes with the scene of a game (src/fx/DynamicMusic.cpp):  *)
(* one client that changes scenes, the mixing thread that runs the stop    *)
(* callbacks of sounds that ended, and the thread that fades.              *)
(*                                                                         *)
(* None of the members is protected by a lock of its own.  The client and  *)
(* the callbacks hold the device mutex while they exchange handles; the    *)
(* flags and ids are atomic and read and written without it.  An           *)
(* operation on a handle that needs the device mutex waits while the       *)
(* mixing thread is inside a callback; setVolume() and setLoopCount() of a *)
(* handle need no lock (SoftwareDevice).                                   *)
(*                                                                         *)
(* A scene is its number, a sound the place it has in m_scenes: <<s, s>>   *)
(* is the sound of scene s, <<s, t>> the transition from s to t.  A null   *)
(* pointer that is dereferenced ends the program.                          *)
(***************************************************************************)
EXTENDS Integers, FiniteSets

CONSTANTS
    Handles,        \* bound: the playback handles that exist at a time
    NoHandle,       \* a null pointer
    MaxScene,       \* bound: the scenes that addScene() may add are 1 .. MaxScene
    Custom,         \* the pairs of scenes the client gives a transition
    Volumes,        \* the volumes the client sets
    Operations,     \* the operations the client uses besides changeScene()
    Patient,        \* whether the client changes nothing until a change it has scheduled is over
    Handover,       \* whether a callback may come while an operation has a copy of the pointer
    MaxCalls        \* bound on the client's calls

ASSUME MusicAssumption ==
    /\ NoHandle \notin Handles
    /\ MaxScene \in Nat \ {0} /\ MaxCalls \in Nat
    /\ Custom \subseteq (0 .. MaxScene) \X (0 .. MaxScene)
    /\ Volumes \subseteq Nat /\ Patient \in BOOLEAN /\ Handover \in BOOLEAN
    /\ Operations \subseteq {"stop", "pause", "resume", "seek", "setVolume"}

VARIABLES
    m_id, m_soundTarget, m_transitioning, m_stopThread, m_volume,
    m_currentHandle, m_transitionHandle,
    scenes,         \* m_scenes.size()
    sounds,         \* the places of m_scenes that hold a sound
    handle,         \* the state of each playback handle
    fade,           \* the fading thread
    mix,            \* the callback the mixing thread is in
    call, calls,    \* the call the client is in, and how many it has made
    crashed,        \* what was dereferenced, if the program ended that way
    silenced        \* history: stop() has returned and no change of scene has begun

music == <<m_id, m_soundTarget, m_transitioning, m_stopThread, m_volume>>
handles == <<m_currentHandle, m_transitionHandle, handle>>
matrix == <<scenes, sounds>>
vars == <<music, handles, matrix, fade, mix, call, calls, crashed, silenced>>

FullVolume == 2

NoFade == [kind |-> "none", at |-> "idle", low |-> 0, high |-> 0]
NoMix == [sound |-> NoHandle, at |-> "idle"]
NoCall == [op |-> "none", at |-> "idle", id |-> 0, ptr |-> NoHandle]

Init ==
    /\ m_id = 0
    /\ m_soundTarget = 0
    /\ m_transitioning = FALSE
    /\ m_stopThread = FALSE
    /\ m_volume = FullVolume
    /\ m_currentHandle = NoHandle
    /\ m_transitionHandle = NoHandle
    /\ scenes = 1
    /\ sounds = {}
    /\ handle = [h \in Handles |-> [status |-> "INVALID", sound |-> <<0, 0>>, loops |-> 0,
                                    callback |-> "none", volume |-> 0]]
    /\ fade = NoFade
    /\ mix = NoMix
    /\ call = NoCall
    /\ calls = 0
    /\ crashed = "no"
    /\ silenced = FALSE
------------------------------------------------------------------------------
(* Handles. *)

DeviceFree == mix.sound = NoHandle

Valid(h) == handle[h].status # "INVALID"

\* An invalid handle that nobody refers to is gone, and a new one may take its place.
Unused(h) ==
    /\ ~Valid(h)
    /\ h \notin {m_currentHandle, m_transitionHandle, mix.sound, call.ptr}

Room == \E h \in Handles : Unused(h)

NewHandle == CHOOSE h \in Handles : Unused(h)

\* m_device->play() and what is set before anybody hears the sound.
Played(pair, loops, volume, callback) ==
    [handle EXCEPT ![NewHandle] = [status |-> "PLAYING", sound |-> pair, loops |-> loops,
                                   callback |-> callback, volume |-> volume]]

\* setVolume() of a set of handles.
WithVolume(hs, v) ==
    [h \in Handles |-> IF h \in hs /\ Valid(h) THEN [handle[h] EXCEPT !.volume = v] ELSE handle[h]]

Stopped(h) == [handle EXCEPT ![h].status = "INVALID"]

\* The program ends: nothing it would have done matters any more.
Crash(what) == crashed' = what /\ UNCHANGED <<music, handles, fade>>
------------------------------------------------------------------------------
(* The stop callbacks. *)

\* transitionCallback(), from play() on: the transition to scene t is the current sound.
PlayTransition(t) ==
    IF <<m_id, t>> \notin sounds
    THEN Crash("sound")
    ELSE /\ Room
         /\ m_soundTarget' = t
         /\ m_transitioning' = TRUE
         /\ m_currentHandle' = NewHandle
         /\ handle' = Played(<<m_id, t>>, 0, m_volume,
                             IF <<t, t>> \in sounds THEN "scene" ELSE "none")
         /\ UNCHANGED <<m_id, m_stopThread, m_volume, m_transitionHandle, fade, crashed>>

\* A sound without loops left reaches its end and the mixing thread holds the device.
SoundEnds(h) ==
    /\ DeviceFree /\ (Handover \/ call.at # "apply")
    /\ handle[h].status = "PLAYING" /\ handle[h].loops = 0
    /\ mix' = [sound |-> h, at |-> handle[h].callback]
    /\ UNCHANGED <<music, handles, matrix, fade, call, calls, crashed, silenced>>

\* transitionCallback() first refuses further changes, then plays the transition.
TransitionBegins ==
    /\ mix.at = "transition"
    /\ m_transitioning' = TRUE
    /\ mix' = [mix EXCEPT !.at = "play"]
    /\ UNCHANGED <<m_id, m_soundTarget, m_stopThread, m_volume, handles, matrix, fade, call, calls,
                   crashed, silenced>>

TransitionGoesOn ==
    /\ mix.at = "play"
    /\ PlayTransition(m_soundTarget)
    /\ mix' = [mix EXCEPT !.at = "none"]
    /\ UNCHANGED <<matrix, call, calls, silenced>>

\* sceneCallback(): the transition has ended and the scene begins ...
ScenePlays ==
    /\ mix.at = "scene"
    /\ LET pair == <<m_soundTarget, m_soundTarget>> IN
       IF pair \notin sounds
       THEN Crash("sound")
       ELSE /\ Room
            /\ m_currentHandle' = NewHandle
            /\ handle' = Played(pair, -1, m_volume, "none")
            /\ UNCHANGED <<music, m_transitionHandle, fade, crashed>>
    /\ mix' = [mix EXCEPT !.at = "publish"]
    /\ UNCHANGED <<matrix, call, calls, silenced>>

\* Slip: the change of scene is announced without its number.
ScenePublished_NoId ==
    /\ mix.at = "publish"
    /\ m_soundTarget' = -1
    /\ m_transitioning' = FALSE
    /\ mix' = [mix EXCEPT !.at = "none"]
    /\ UNCHANGED <<m_id, m_stopThread, m_volume, handles, matrix, fade, call, calls, crashed, silenced>>

\* ... and is announced; m_transitioning, which the client waits for, is written last.
ScenePublished ==
    /\ mix.at = "publish"
    /\ m_id' = m_soundTarget
    /\ m_soundTarget' = -1
    /\ m_transitioning' = FALSE
    /\ mix' = [mix EXCEPT !.at = "none"]
    /\ UNCHANGED <<m_stopThread, m_volume, handles, matrix, fade, call, calls, crashed, silenced>>

\* mix() stops the sound that ended and releases the device.
SoundRemoved ==
    /\ mix.at = "none"
    /\ handle' = Stopped(mix.sound)
    /\ mix' = NoMix
    /\ UNCHANGED <<music, m_currentHandle, m_transitionHandle, matrix, fade, call, calls, crashed,
                   silenced>>

Callbacks == TransitionBegins \/ TransitionGoesOn \/ ScenePlays \/ ScenePublished \/ SoundRemoved
------------------------------------------------------------------------------
(* The fading thread. *)

FadesOut == fade.kind \in {"cross", "out"}
FadesIn == fade.kind \in {"cross", "in"}

FadeBegins ==
    /\ fade.at = "start"
    /\ fade' = [fade EXCEPT !.at = "test",
                            !.low = IF FadesOut THEN handle[m_transitionHandle].volume ELSE 0,
                            !.high = IF FadesIn THEN handle[m_currentHandle].volume ELSE 0]
    /\ UNCHANGED <<music, handles, matrix, mix, call, calls, crashed, silenced>>

\* The increment: any share of m_volume, by the fade time; nothing when it is 0.
Increments == IF m_volume = 0 THEN {0} ELSE 1 .. m_volume

Louder(v) == IF v > m_volume THEN m_volume ELSE v

Quieter(v) == IF v < 0 THEN 0 ELSE v

\* Slip: the loop goes on at full volume.
FadeGoesOn_Inclusive ==
    /\ ~m_stopThread
    /\ IF FadesIn THEN fade.high <= m_volume ELSE fade.low >= 0

\* The loop's condition.
FadeGoesOn ==
    /\ ~m_stopThread
    /\ IF FadesIn THEN fade.high < m_volume ELSE fade.low > 0

FadeTest ==
    /\ fade.at = "test"
    /\ IF FadeGoesOn
       THEN \E d \in Increments :
                fade' = [fade EXCEPT !.at = "apply", !.low = Quieter(@ - d), !.high = Louder(@ + d)]
       ELSE fade' = [fade EXCEPT !.at = "end"]
    /\ UNCHANGED <<music, handles, matrix, mix, call, calls, crashed, silenced>>

FadeApply ==
    /\ fade.at = "apply"
    /\ handle' = [h \in Handles |->
           IF ~Valid(h) THEN handle[h]
           ELSE IF FadesIn /\ h = m_currentHandle THEN [handle[h] EXCEPT !.volume = fade.high]
           ELSE IF FadesOut /\ h = m_transitionHandle THEN [handle[h] EXCEPT !.volume = fade.low]
           ELSE handle[h]]
    /\ fade' = [fade EXCEPT !.at = "test"]
    /\ UNCHANGED <<music, m_currentHandle, m_transitionHandle, matrix, mix, call, calls, crashed,
                   silenced>>

\* Slip: the sound that was faded out plays on, silently.
FadeEnds_LeftPlaying ==
    /\ fade.at = "end" /\ DeviceFree
    /\ fade' = [fade EXCEPT !.at = "publish"]
    /\ UNCHANGED <<music, handles, matrix, mix, call, calls, crashed, silenced>>

\* The old sound is stopped; a fade-in that was cut short gets its volume.
FadeEnds ==
    /\ fade.at = "end" /\ DeviceFree
    /\ handle' = IF FadesOut THEN Stopped(m_transitionHandle)
                 ELSE IF m_stopThread THEN WithVolume({m_currentHandle}, m_volume)
                 ELSE handle
    /\ fade' = [fade EXCEPT !.at = "publish"]
    /\ UNCHANGED <<music, m_currentHandle, m_transitionHandle, matrix, mix, call, calls, crashed,
                   silenced>>

\* Slip: the thread forgets which scene it has faded to.
FadePublished_NoId ==
    /\ fade.at = "publish"
    /\ m_transitioning' = FALSE
    /\ fade' = [NoFade EXCEPT !.kind = "done"]
    /\ UNCHANGED <<m_id, m_soundTarget, m_stopThread, m_volume, handles, matrix, mix, call, calls,
                   crashed, silenced>>

\* The target is the current scene, and the client may change again.
FadePublished ==
    /\ fade.at = "publish"
    /\ m_id' = m_soundTarget
    /\ m_transitioning' = FALSE
    /\ fade' = [NoFade EXCEPT !.kind = "done"]
    /\ UNCHANGED <<m_soundTarget, m_stopThread, m_volume, handles, matrix, mix, call, calls, crashed,
                   silenced>>

FadeThread == FadeBegins \/ FadeTest \/ FadeApply \/ FadeEnds \/ FadePublished
------------------------------------------------------------------------------
(* The client. *)

Idle == call.op = "none"

\* There is no fading thread, or it has ended and can be joined.
FadeOver == fade.kind \in {"none", "done"}

\* The sound will be followed by a transition.
Scheduled(h) == Valid(h) /\ handle[h].callback = "transition" /\ handle[h].loops = 0

\* A transition with a sound of its own is scheduled or in course.
SoundInCourse ==
    (m_transitioning /\ FadeOver) \/ ~DeviceFree \/ \E h \in Handles : Scheduled(h)

Begin == Idle /\ calls < MaxCalls /\ calls' = calls + 1

MayChange == Patient => ~SoundInCourse

AddScene ==
    /\ Begin /\ MayChange /\ scenes <= MaxScene
    /\ scenes' = scenes + 1
    /\ sounds' = sounds \cup {<<scenes, scenes>>}
    /\ UNCHANGED <<music, handles, fade, mix, call, crashed, silenced>>

AddTransition(s, t) ==
    /\ Begin /\ MayChange /\ s # t /\ s < scenes /\ t < scenes
    /\ sounds' = sounds \cup {<<s, t>>}
    /\ UNCHANGED <<music, handles, scenes, fade, mix, call, crashed, silenced>>

\* changeScene() refuses while a transition is in course, ...
ChangeBegins(id) ==
    /\ Begin /\ MayChange /\ id < scenes /\ ~m_transitioning
    /\ call' = [op |-> "changeScene", at |-> "join", id |-> id, ptr |-> NoHandle]
    /\ silenced' = FALSE
    /\ UNCHANGED <<music, handles, matrix, fade, mix, crashed>>

\* ... waits for the last fading thread, ...
ChangeJoins ==
    /\ call.op = "changeScene" /\ call.at = "join" /\ FadeOver
    /\ fade' = NoFade
    /\ call' = [call EXCEPT !.at = "change"]
    /\ UNCHANGED <<music, handles, matrix, mix, calls, crashed, silenced>>

\* ... and holds the device while it stays in the scene, ...
KeepScene ==
    IF m_currentHandle = NoHandle
    THEN Crash("handle")
    ELSE /\ handle' = [handle EXCEPT ![m_currentHandle] =
                          IF Valid(m_currentHandle)
                          THEN [@ EXCEPT !.volume = m_volume, !.loops = -1] ELSE @]
         /\ UNCHANGED <<music, m_currentHandle, m_transitionHandle, fade, crashed>>

\* The scene has a sound and it is still playing.
SceneSounds == <<m_id, m_id>> \in sounds /\ Valid(m_currentHandle)

\* ... fades to a scene there is no transition to, ...
FadeTo(id) ==
    LET next == <<id, id>> \in sounds IN
    /\ m_soundTarget' = id
    /\ m_stopThread' = FALSE
    /\ m_transitioning' = (m_transitioning \/ SceneSounds \/ next)
    /\ m_transitionHandle' = IF SceneSounds THEN m_currentHandle ELSE m_transitionHandle
    /\ IF next
       THEN /\ Room
            /\ m_currentHandle' = NewHandle
            /\ handle' = Played(<<id, id>>, -1, 0, "none")
       ELSE /\ m_currentHandle' = IF SceneSounds THEN NoHandle ELSE m_currentHandle
            /\ UNCHANGED handle
    /\ fade' = IF SceneSounds \/ next
               THEN [NoFade EXCEPT !.at = "start",
                        !.kind = IF ~SceneSounds THEN "in" ELSE IF next THEN "cross" ELSE "out"]
               ELSE NoFade
    /\ UNCHANGED <<m_id, m_volume, crashed>>

\* ... or has the transition play when the sound of the scene ends, or at once.
Schedule(id) ==
    IF SceneSounds
    THEN /\ m_soundTarget' = id
         /\ handle' = [handle EXCEPT ![m_currentHandle].loops = 0,
                                     ![m_currentHandle].callback = "transition"]
         /\ UNCHANGED <<m_id, m_transitioning, m_stopThread, m_volume, m_currentHandle,
                        m_transitionHandle, fade, crashed>>
    ELSE PlayTransition(id)

Change ==
    /\ call.op = "changeScene" /\ call.at = "change" /\ DeviceFree
    /\ IF call.id = m_id THEN KeepScene
       ELSE IF m_id = -1 THEN Crash("scene")
       ELSE IF <<m_id, m_id>> \in sounds /\ m_currentHandle = NoHandle THEN Crash("handle")
       ELSE IF <<m_id, call.id>> \in sounds THEN Schedule(call.id)
       ELSE FadeTo(call.id)
    /\ call' = NoCall
    /\ UNCHANGED <<matrix, mix, calls, silenced>>

\* The other operations go to the current handle, then to the other one.
OperationBegins(op) ==
    /\ Begin
    /\ call' = [op |-> op, at |-> "current", id |-> 0, ptr |-> NoHandle]
    /\ m_stopThread' = (m_stopThread \/ op = "stop")
    /\ IF op = "setVolume" THEN m_volume' \in Volumes ELSE UNCHANGED m_volume
    /\ UNCHANGED <<m_id, m_soundTarget, m_transitioning, handles, matrix, fade, mix, crashed, silenced>>

\* The pointer is read before the device is locked: a callback may replace it.
PointerRead ==
    /\ call.at = "current" /\ (Handover \/ DeviceFree)
    /\ call' = [call EXCEPT !.ptr = m_currentHandle,
                   !.at = IF m_currentHandle # NoHandle THEN "apply"
                          ELSE IF call.op = "seek" THEN "return" ELSE "transition"]
    /\ UNCHANGED <<music, handles, matrix, fade, mix, calls, crashed, silenced>>

Applied(op, h) ==
    CASE op = "stop" -> Stopped(h)
      [] op = "pause" /\ handle[h].status = "PLAYING" -> [handle EXCEPT ![h].status = "PAUSED"]
      [] op = "resume" /\ handle[h].status = "PAUSED" -> [handle EXCEPT ![h].status = "PLAYING"]
      [] op = "setVolume" -> WithVolume({h}, m_volume)
      [] OTHER -> handle

\* A seek() that worked stops the other sound; one that did not ends the call.
CurrentDone ==
    /\ call.at = "apply" /\ (DeviceFree \/ call.op = "setVolume")
    /\ handle' = Applied(call.op, call.ptr)
    /\ call' = [call EXCEPT !.ptr = NoHandle,
                   !.at = IF call.op = "seek" /\ ~Valid(call.ptr) THEN "return" ELSE "transition"]
    /\ UNCHANGED <<music, m_currentHandle, m_transitionHandle, matrix, fade, mix, calls, crashed,
                   silenced>>

\* setVolume() silences the other sound if it is louder than that.
OtherDone ==
    /\ call.at = "transition" /\ DeviceFree
    /\ handle' = IF m_transitionHandle = NoHandle THEN handle
                 ELSE IF call.op = "seek" THEN Stopped(m_transitionHandle)
                 ELSE IF call.op # "setVolume" THEN Applied(call.op, m_transitionHandle)
                 ELSE IF m_volume < handle[m_transitionHandle].volume
                 THEN WithVolume({m_transitionHandle}, 0)
                 ELSE handle
    /\ call' = [call EXCEPT !.at = "return"]
    /\ UNCHANGED <<music, m_currentHandle, m_transitionHandle, matrix, fade, mix, calls, crashed,
                   silenced>>

Returns ==
    /\ call.at = "return" /\ call.op # "stop"
    /\ call' = NoCall
    /\ UNCHANGED <<music, handles, matrix, fade, mix, calls, crashed, silenced>>

\* Slip: stop() does not wait for the fading thread.
StopReturns_NoJoin ==
    /\ call.at = "return" /\ call.op = "stop"
    /\ m_id' = 0
    /\ call' = NoCall
    /\ silenced' = TRUE
    /\ UNCHANGED <<m_soundTarget, m_transitioning, m_stopThread, m_volume, handles, matrix, fade,
                   mix, calls, crashed>>

\* stop() joins the fading thread and is back in the silent scene.
StopReturns ==
    /\ call.at = "return" /\ call.op = "stop" /\ FadeOver
    /\ m_id' = 0
    /\ fade' = NoFade
    /\ call' = NoCall
    /\ silenced' = TRUE
    /\ UNCHANGED <<m_soundTarget, m_transitioning, m_stopThread, m_volume, handles, matrix, mix,
                   calls, crashed>>

Client ==
    ChangeJoins \/ Change \/ PointerRead \/ CurrentDone \/ OtherDone \/ Returns \/ StopReturns

\* Nobody has anything to do but to listen, or the program has ended.
Rest == (Idle \/ crashed # "no") /\ UNCHANGED vars

Next ==
    \/ /\ crashed = "no"
       /\ \/ AddScene
          \/ \E st \in Custom : AddTransition(st[1], st[2])
          \/ \E id \in 0 .. MaxScene : ChangeBegins(id)
          \/ \E op \in Operations : OperationBegins(op)
          \/ Client
          \/ \E h \in Handles : SoundEnds(h)
          \/ Callbacks
          \/ FadeThread
    \/ Rest

\* A call that was begun goes on, threads run, and a finite sound that plays ends.
Fairness ==
    /\ WF_vars(crashed = "no" /\ Client)
    /\ WF_vars(crashed = "no" /\ Callbacks)
    /\ WF_vars(crashed = "no" /\ FadeThread)
    /\ \A h \in Handles : WF_vars(crashed = "no" /\ SoundEnds(h))

Spec == Init /\ [][Next]_vars /\ Fairness
------------------------------------------------------------------------------
(* Properties. *)

Pairs == (0 .. MaxScene) \X (0 .. MaxScene)

\* Every variable keeps its type.
TypeOK ==
    /\ m_id \in -1 .. MaxScene
    /\ m_soundTarget \in -1 .. MaxScene
    /\ m_transitioning \in BOOLEAN /\ m_stopThread \in BOOLEAN
    /\ m_volume \in Nat
    /\ {m_currentHandle, m_transitionHandle} \subseteq Handles \cup {NoHandle}
    /\ scenes \in 1 .. MaxScene + 1
    /\ sounds \in SUBSET Pairs
    /\ handle \in [Handles -> [status : {"PLAYING", "PAUSED", "INVALID"}, sound : Pairs,
                               loops : {-1, 0}, callback : {"none", "transition", "scene"},
                               volume : Nat]]
    /\ fade \in [kind : {"none", "cross", "in", "out", "done"},
                 at : {"idle", "start", "test", "apply", "end", "publish"}, low : Nat, high : Nat]
    /\ mix \in [sound : Handles \cup {NoHandle},
                at : {"idle", "none", "transition", "play", "scene", "publish"}]
    /\ call \in [op : {"none", "changeScene"} \cup Operations,
                 at : {"idle", "join", "change", "current", "apply", "transition", "return"},
                 id : 0 .. MaxScene, ptr : Handles \cup {NoHandle}]
    /\ calls \in 0 .. MaxCalls
    /\ crashed \in {"no", "handle", "sound", "scene"}
    /\ silenced \in BOOLEAN

\* Whatever sounds can be stopped: it is the current sound, the one that is faded out,
\* or the one whose end the mixing thread is reporting.  (A sound that loops for ever
\* and that no pointer refers to could never be silenced again.)
NoOrphans ==
    \A h \in Handles : Valid(h) => h \in {m_currentHandle, m_transitionHandle, mix.sound}

\* Between two changes one sound plays at most, the one of the current scene: a change
\* of scene takes effect completely or not at all, and what was faded out is stopped.
Settled == Idle /\ ~m_transitioning /\ FadeOver /\ DeviceFree
SceneIsHeard ==
    Settled => /\ m_currentHandle # NoHandle /\ Valid(m_currentHandle)
                      => handle[m_currentHandle].sound = <<m_id, m_id>>
               /\ Cardinality({h \in Handles : Valid(h)}) <= 1

\* After stop() everything is silent until a scene is chosen, wherever it came: in a fade,
\* while a transition was scheduled, or while the sound of a transition was playing.
StopIsFinal == silenced => m_id = 0 /\ \A h \in Handles : ~Valid(h)

\* The client has paused or stopped the current sound, and no thread fades.
Interrupted == FadeOver /\ DeviceFree /\ m_currentHandle # NoHandle /\ handle[m_currentHandle].status # "PLAYING"

\* A transition ends: the fading loop terminates, or the sound of the transition ends unless
\* the client paused or stopped it, and afterwards scenes can change again.  stop(), which
\* joins the fading thread, returns: the thread sees the flag wherever it is.
TransitionsEnd ==
    /\ m_transitioning ~> (~m_transitioning \/ Interrupted \/ crashed # "no")
    /\ call.op = "stop" ~> (call.op # "stop" \/ crashed # "no")

\* A change that was scheduled takes place unless the client pauses or stops what plays,
\* whatever else it calls meanwhile: the sound of the scene ends its last loop, the
\* transition plays and the target is reached.
ScheduledIsReached ==
    \A h \in Handles, t \in 0 .. MaxScene :
        Scheduled(h) /\ handle[h].status = "PLAYING" /\ m_soundTarget = t
            ~> (m_id = t \/ Interrupted \/ crashed # "no")

=============================================================================
