---------------------------- MODULE SoftwareDevice ----------------------------
(***************************************************************************)
(* The software mixing device (src/devices/SoftwareDevice.cpp): playback   *)
(* handles, the two sound lists, the recursive device mutex, and the mix() *)
(* pass a backend thread runs while user threads call the handles.         *)
(*                                                                         *)
(* Grain of atomicity.  What the code does while it holds the device mutex *)
(* is one step when it is a handle operation, and one step per sound and   *)
(* phase when it is mix(), because a few operations do not take the mutex: *)
(* every handle operation reads m_status before it locks, and              *)
(* setLoopCount() reads and writes m_status and m_loopcount without ever   *)
(* locking.  Those unlocked reads and writes are steps of their own.       *)
(***************************************************************************)
EXTENDS Integers, Sequences, Functions

CONSTANTS
    Handles,        \* the handles play() can create, each with its sound
    Clients,        \* user threads
    Mixer,          \* the thread of the backend that calls mix()
    NoThread,       \* the owner of a free device mutex
    NoHandle,       \* the end() iterator of the playing list
    SoundLength,    \* frames of the sound of each handle
    BufferLength,   \* frames that one mix() has to deliver
    LoopCounts,     \* arguments of setLoopCount(); negative: loop for ever
    Faulty,         \* handles whose reader may throw
    UnlockedLoopers,\* clients that call setLoopCount() without lock()ing the device
    MaxOps          \* bound on the calls of clients and stop callbacks

ASSUME ThreadsAssumption ==
    /\ Mixer \notin Clients
    /\ NoThread \notin Clients \cup {Mixer}
    /\ UnlockedLoopers \subseteq Clients

ASSUME SoundsAssumption ==
    /\ NoHandle \notin Handles
    /\ SoundLength \in [Handles -> Nat]
    /\ BufferLength \in Nat \ {0}
    /\ LoopCounts \subseteq Int
    /\ MaxOps \in Nat

VARIABLES
    status,         \* m_status of each handle, "UNBORN" before play()
    position,       \* m_position of the handle's reader
    loopcount,      \* m_loopcount
    keep,           \* m_keep
    callback,       \* whether m_stop is set
    playing,        \* m_playingSounds
    paused,         \* m_pausedSounds
    playback,       \* m_playback, the value last passed to playing()
    alive,          \* FALSE once destroy() has run
    lock,           \* owner of m_mutex
    call,           \* the call each client is in
    mpc,            \* where mix() is
    cur,            \* iterator of mix() over m_playingSounds
    mixed,          \* pos + len of mix(): frames delivered for the current sound
    eos,            \* eos of mix()
    pauseSounds,    \* pauseSounds of mix()
    stopSounds,     \* stopSounds of mix()
    ended,          \* history: handles that mix() took to their end and nobody resumed
    ops             \* calls so far

listVars == <<status, playing, paused, playback>>
soundVars == <<position, loopcount, keep, callback>>
mixVars == <<mpc, cur, mixed, eos, pauseSounds, stopSounds>>
vars == <<listVars, soundVars, alive, lock, call, mixVars, ended, ops>>

Live == {"PLAYING", "PAUSED", "STOPPED"}
Idle == [op |-> "none"]

\* The call record of a client: what it does to which handle, with which argument.
Calls ==
    [op : {"pause", "resume", "stop"}, h : Handles]
    \cup [op : {"seek"}, h : Handles, arg : Nat]
    \cup [op : {"keep", "callback"}, h : Handles, arg : BOOLEAN]
    \cup [op : {"loop", "rearm", "setloop"}, h : Handles, arg : LoopCounts]

Init ==
    /\ status = [h \in Handles |-> "UNBORN"]
    /\ position = [h \in Handles |-> 0]
    /\ loopcount = [h \in Handles |-> 0]
    /\ keep = [h \in Handles |-> FALSE]
    /\ callback = [h \in Handles |-> FALSE]
    /\ playing = <<>>
    /\ paused = <<>>
    /\ playback = FALSE
    /\ alive = TRUE
    /\ lock = NoThread
    /\ call = [c \in Clients |-> Idle]
    /\ mpc = "idle"
    /\ cur = NoHandle
    /\ mixed = 0
    /\ eos = FALSE
    /\ pauseSounds = <<>>
    /\ stopSounds = <<>>
    /\ ended = {}
    /\ ops = 0
------------------------------------------------------------------------------
(* The lists.  A list operation holds the mutex, so it is one step.  The    *)
(* virtual call playing(m_playback = b) is the change of playback.          *)

IndexOf(s, h) == CHOOSE i \in DOMAIN s : s[i] = h

\* std::list::erase of the node that holds h; a list without h is left alone.
Erase(s, h) ==
    IF h \notin Range(s) THEN s
    ELSE [i \in 1 .. Len(s) - 1 |-> IF i < IndexOf(s, h) THEN s[i] ELSE s[i + 1]]

\* The list iterator after h, or end().
After(s, h) ==
    IF h \in Range(s) /\ IndexOf(s, h) < Len(s) THEN s[IndexOf(s, h) + 1] ELSE NoHandle

\* The body of pause(keep).
DoPause(h, s) ==
    IF status[h] = "PLAYING" /\ h \in Range(playing)
    THEN /\ playing' = Erase(playing, h)
         /\ paused' = Append(paused, h)
         /\ playback' = (playback /\ playing' # <<>>)
         /\ status' = [status EXCEPT ![h] = s]
    ELSE UNCHANGED listVars

\* Slip: resume() also takes a sound that stopped at its end.
DoResume_Stopped(h) ==
    IF status[h] \in {"PAUSED", "STOPPED"} /\ h \in Range(paused)
    THEN /\ paused' = Erase(paused, h)
         /\ playing' = Append(playing, h)
         /\ playback' = TRUE
         /\ status' = [status EXCEPT ![h] = "PLAYING"]
         /\ ended' = ended \ {h}
    ELSE UNCHANGED <<listVars, ended>>

\* Slip: resume() does not restart a backend that went to sleep.
DoResume_Asleep(h) ==
    IF status[h] = "PAUSED" /\ h \in Range(paused)
    THEN /\ paused' = Erase(paused, h)
         /\ playing' = Append(playing, h)
         /\ status' = [status EXCEPT ![h] = "PLAYING"]
         /\ ended' = ended \ {h}
         /\ UNCHANGED playback
    ELSE UNCHANGED <<listVars, ended>>

\* The body of resume().
DoResume(h) ==
    IF status[h] = "PAUSED" /\ h \in Range(paused)
    THEN /\ paused' = Erase(paused, h)
         /\ playing' = Append(playing, h)
         /\ playback' = TRUE
         /\ status' = [status EXCEPT ![h] = "PLAYING"]
         /\ ended' = ended \ {h}
    ELSE UNCHANGED <<listVars, ended>>

\* Slip: stop() only looks on the playing list.
DoStop_PlayingOnly(h) ==
    IF status[h] \in Live
    THEN /\ status' = [status EXCEPT ![h] = "INVALID"]
         /\ playing' = Erase(playing, h)
         /\ playback' = (playback /\ playing' # <<>>)
         /\ UNCHANGED paused
    ELSE UNCHANGED listVars

\* The body of stop().
DoStop(h) ==
    IF status[h] \in Live
    THEN /\ status' = [status EXCEPT ![h] = "INVALID"]
         /\ playing' = Erase(playing, h)
         /\ paused' = IF h \in Range(playing) THEN paused ELSE Erase(paused, h)
         /\ playback' = (playback /\ (h \in Range(playing) => playing' # <<>>))
    ELSE UNCHANGED listVars

\* Every handle found on a list is stopped, front to back.
DoStopAll ==
    /\ status' = [h \in Handles |->
                     IF h \in Range(playing) \cup Range(paused) THEN "INVALID" ELSE status[h]]
    /\ playing' = <<>>
    /\ paused' = <<>>
    /\ playback' = (playback /\ playing = <<>>)

\* play() after it built the reader chain.
DoPlay(h, k) ==
    /\ status[h] = "UNBORN"
    /\ status' = [status EXCEPT ![h] = "PLAYING"]
    /\ keep' = [keep EXCEPT ![h] = k]
    /\ playing' = Append(playing, h)
    /\ playback' = TRUE
    /\ UNCHANGED <<paused, position, loopcount, callback>>
------------------------------------------------------------------------------
(* Clients. *)

CanLock(c) == lock \in {NoThread, c}

Budget == alive /\ ops < MaxOps /\ ops' = ops + 1

\* A handle operation starts with a read of m_status outside the mutex and
\* returns false when the handle is invalid.
Call(c, r) ==
    /\ call[c] = Idle /\ Budget
    /\ status[r.h] \in Live
    /\ r.op = "loop" /\ c \notin UnlockedLoopers => lock = c
    /\ call' = [call EXCEPT ![c] = r]
    /\ UNCHANGED <<listVars, soundVars, alive, lock, mixVars, ended>>

\* Slip: the operation forgets to take the mutex.
Locked_NoMutex(c, op) ==
    /\ call[c].op = op
    /\ call' = [call EXCEPT ![c] = Idle]
    /\ UNCHANGED <<alive, lock, mixVars, ops>>

\* The call of c enters its locked part.
Locked(c, op) ==
    /\ call[c].op = op
    /\ CanLock(c)
    /\ call' = [call EXCEPT ![c] = Idle]
    /\ UNCHANGED <<alive, lock, mixVars, ops>>

PauseBody(c) ==
    /\ Locked(c, "pause")
    /\ DoPause(call[c].h, "PAUSED")
    /\ UNCHANGED <<soundVars, ended>>

ResumeBody(c) ==
    /\ Locked(c, "resume")
    /\ DoResume(call[c].h)
    /\ UNCHANGED soundVars

StopBody(c) ==
    /\ Locked(c, "stop")
    /\ DoStop(call[c].h)
    /\ UNCHANGED <<soundVars, ended>>

SeekBody(c) ==
    /\ Locked(c, "seek")
    /\ LET h == call[c].h IN
         IF status[h] \in Live
         THEN /\ position' = [position EXCEPT ![h] = call[c].arg]
              /\ status' = IF status[h] = "STOPPED" THEN [status EXCEPT ![h] = "PAUSED"]
                                                    ELSE status
         ELSE UNCHANGED <<position, status>>
    /\ UNCHANGED <<playing, paused, playback, loopcount, keep, callback, ended>>

KeepBody(c) ==
    /\ Locked(c, "keep")
    /\ keep' = IF status[call[c].h] \in Live
               THEN [keep EXCEPT ![call[c].h] = call[c].arg] ELSE keep
    /\ UNCHANGED <<listVars, position, loopcount, callback, ended>>

CallbackBody(c) ==
    /\ Locked(c, "callback")
    /\ callback' = IF status[call[c].h] \in Live
                   THEN [callback EXCEPT ![call[c].h] = call[c].arg] ELSE callback
    /\ UNCHANGED <<listVars, position, loopcount, keep, ended>>

\* setLoopCount() never locks: it reads m_status and m_loopcount, ...
LoopTest(c) ==
    /\ call[c].op = "loop"
    /\ LET h == call[c].h
           n == call[c].arg
           rearm == status[h] = "STOPPED" /\ (n > loopcount[h] \/ n < 0)
       IN call' = [call EXCEPT ![c] =
                      [op |-> IF rearm THEN "rearm" ELSE "setloop", h |-> h, arg |-> n]]
    /\ UNCHANGED <<listVars, soundVars, alive, lock, mixVars, ended, ops>>

\* ... then makes a stopped handle resumable, ...
LoopRearm(c) ==
    /\ call[c].op = "rearm"
    /\ status' = [status EXCEPT ![call[c].h] = "PAUSED"]
    /\ call' = [call EXCEPT ![c] = [op |-> "setloop", h |-> call[c].h, arg |-> call[c].arg]]
    /\ UNCHANGED <<playing, paused, playback, soundVars, alive, lock, mixVars, ended, ops>>

\* ... and stores the count.
LoopStore(c) ==
    /\ call[c].op = "setloop"
    /\ loopcount' = [loopcount EXCEPT ![call[c].h] = call[c].arg]
    /\ call' = [call EXCEPT ![c] = Idle]
    /\ UNCHANGED <<listVars, position, keep, callback, alive, lock, mixVars, ended, ops>>

Play(c, h, k) ==
    /\ call[c] = Idle /\ Budget /\ CanLock(c)
    /\ DoPlay(h, k)
    /\ UNCHANGED <<alive, lock, call, mixVars, ended>>

StopAll(c) ==
    /\ call[c] = Idle /\ Budget /\ CanLock(c)
    /\ DoStopAll
    /\ UNCHANGED <<soundVars, alive, lock, call, mixVars, ended>>

\* IDevice::lock() and unlock(), which let a client do several operations at once.
LockDevice(c) ==
    /\ call[c] = Idle /\ Budget
    /\ lock = NoThread
    /\ lock' = c
    /\ UNCHANGED <<listVars, soundVars, alive, call, mixVars, ended>>

UnlockDevice(c) ==
    /\ call[c] = Idle
    /\ lock = c
    /\ lock' = NoThread
    /\ UNCHANGED <<listVars, soundVars, alive, call, mixVars, ended, ops>>

\* destroy() is called by the destructor of the concrete device, whose thread
\* has stopped and whose handles nobody uses any more.
Destroy ==
    /\ alive /\ lock = NoThread /\ mpc = "idle"
    /\ \A c \in Clients : call[c] = Idle
    /\ DoStopAll
    /\ alive' = FALSE
    /\ UNCHANGED <<soundVars, lock, call, mixVars, ended, ops>>

HandleStep(c) ==
    \/ PauseBody(c) \/ ResumeBody(c) \/ StopBody(c) \/ SeekBody(c)
    \/ KeepBody(c) \/ CallbackBody(c)
    \/ LoopTest(c) \/ LoopRearm(c) \/ LoopStore(c)
    \/ UnlockDevice(c)

Client(c) ==
    \/ HandleStep(c)
    \/ \E h \in Handles :
          \/ \E op \in {"pause", "resume", "stop"} : Call(c, [op |-> op, h |-> h])
          \/ \E p \in 0 .. SoundLength[h] : Call(c, [op |-> "seek", h |-> h, arg |-> p])
          \/ \E op \in {"keep", "callback"}, b \in BOOLEAN :
                Call(c, [op |-> op, h |-> h, arg |-> b])
          \/ \E n \in LoopCounts : Call(c, [op |-> "loop", h |-> h, arg |-> n])
          \/ \E k \in BOOLEAN : Play(c, h, k)
    \/ StopAll(c)
    \/ LockDevice(c)
------------------------------------------------------------------------------
(* mix(), run by the backend's thread with the mutex held throughout. *)

MixBegin ==
    /\ mpc = "idle" /\ alive
    /\ lock = NoThread
    /\ lock' = Mixer
    /\ cur' = IF playing = <<>> THEN NoHandle ELSE playing[1]
    /\ mpc' = IF playing = <<>> THEN "cleanup" ELSE "read"
    /\ UNCHANGED <<listVars, soundVars, alive, call, mixed, eos, pauseSounds, stopSounds, ended, ops>>

\* BufferReader::read(): the frames left, none from beyond the end; a short read
\* is the end of the sound.
ReadLen(h, from, n) ==
    IF from + n <= SoundLength[h] THEN n
    ELSE IF from <= SoundLength[h] THEN SoundLength[h] - from ELSE 0

\* The first read of the current sound.
MixRead ==
    /\ mpc = "read"
    /\ LET n == ReadLen(cur, position[cur], BufferLength) IN
         /\ position' = [position EXCEPT ![cur] = @ + n]
         /\ mixed' = n
         /\ eos' = (n < BufferLength)
    /\ mpc' = "loop"
    /\ UNCHANGED <<listVars, loopcount, keep, callback, alive, lock, call, cur,
                   pauseSounds, stopSounds, ended, ops>>

LoopAgain == mixed < BufferLength /\ loopcount[cur] # 0 /\ eos

\* Slip: a pass of a looping sound is not counted.
MixLoop_Uncounted ==
    /\ mpc = "loop" /\ LoopAgain
    /\ LET n == ReadLen(cur, 0, BufferLength - mixed) IN
         /\ position' = [position EXCEPT ![cur] = n]
         /\ mixed' = mixed + n
         /\ eos' = (n < BufferLength - mixed)
         /\ mpc' = IF n = 0 THEN "end" ELSE "loop"
    /\ UNCHANGED <<listVars, loopcount, keep, callback, alive, lock, call, cur,
                   pauseSounds, stopSounds, ended, ops>>

\* One turn of the loop that starts a looping sound again; a turn that reads
\* nothing ends it.
MixLoop ==
    /\ mpc = "loop" /\ LoopAgain
    /\ loopcount' = [loopcount EXCEPT ![cur] = IF @ > 0 THEN @ - 1 ELSE @]
    /\ LET n == ReadLen(cur, 0, BufferLength - mixed) IN
         /\ position' = [position EXCEPT ![cur] = n]
         /\ mixed' = mixed + n
         /\ eos' = (n < BufferLength - mixed)
         /\ mpc' = IF n = 0 THEN "end" ELSE "loop"
    /\ UNCHANGED <<listVars, keep, callback, alive, lock, call, cur,
                   pauseSounds, stopSounds, ended, ops>>

\* The reader throws, in the first read or in the loop: the exception is caught
\* and the sound counts as mixed with whatever eos was before.
MixThrow ==
    /\ cur \in Faulty
    /\ \/ mpc = "read" /\ eos' = FALSE /\ UNCHANGED <<position, loopcount>>
       \/ /\ mpc = "loop" /\ LoopAgain
          /\ loopcount' = [loopcount EXCEPT ![cur] = IF @ > 0 THEN @ - 1 ELSE @]
          /\ position' = [position EXCEPT ![cur] = 0]
          /\ UNCHANGED eos
    /\ mpc' = "end"
    /\ UNCHANGED <<listVars, keep, callback, alive, lock, call, cur, mixed,
                   pauseSounds, stopSounds, ended, ops>>

SoundMixed == mpc = "end" \/ (mpc = "loop" /\ ~LoopAgain)

Advance ==
    /\ cur' = After(playing, cur)
    /\ mpc' = IF cur' = NoHandle THEN "cleanup" ELSE "read"

\* The sound goes on: next sound.
MixNext ==
    /\ SoundMixed
    /\ ~ (eos /\ loopcount[cur] = 0)
    /\ Advance
    /\ UNCHANGED <<listVars, soundVars, alive, lock, call, mixed, eos,
                   pauseSounds, stopSounds, ended, ops>>

\* The end of the sound is reached.
MixEnd ==
    /\ SoundMixed
    /\ eos /\ loopcount[cur] = 0
    /\ mpc' = IF callback[cur] THEN "callback" ELSE "collect"
    /\ UNCHANGED <<listVars, soundVars, alive, lock, call, cur, mixed, eos,
                   pauseSounds, stopSounds, ended, ops>>

\* The stop callback runs in mix() with the device locked.  It is user code: it
\* does nothing, plays another sound, or pauses, resumes or stops another handle.
MixCallback ==
    /\ mpc = "callback"
    /\ mpc' = "collect"
    /\ \/ UNCHANGED <<listVars, soundVars, ended, ops>>
       \/ Budget /\ \E h \in Handles \ {cur} :
             \/ \E k \in BOOLEAN : DoPlay(h, k) /\ UNCHANGED ended
             \/ DoPause(h, "PAUSED") /\ UNCHANGED <<soundVars, ended>>
             \/ DoResume(h) /\ UNCHANGED soundVars
             \/ DoStop(h) /\ UNCHANGED <<soundVars, ended>>
    /\ UNCHANGED <<alive, lock, call, cur, mixed, eos, pauseSounds, stopSounds>>

\* The handle is put aside for the cleanup.
MixCollect ==
    /\ mpc = "collect"
    /\ IF keep[cur]
       THEN pauseSounds' = Append(pauseSounds, cur) /\ UNCHANGED stopSounds
       ELSE stopSounds' = Append(stopSounds, cur) /\ UNCHANGED pauseSounds
    /\ ended' = ended \cup {cur}
    /\ Advance
    /\ UNCHANGED <<listVars, soundVars, alive, lock, call, mixed, eos, ops>>

\* Slip: the sounds to pause are cleared before the cleanup saw them.
CleanupPause_Dropped ==
    /\ mpc = "cleanup" /\ pauseSounds # <<>>
    /\ pauseSounds' = Tail(pauseSounds)
    /\ UNCHANGED <<listVars, soundVars, alive, lock, call, mpc, cur, mixed, eos, stopSounds, ended, ops>>

\* The cleanup pauses the ended sounds that are kept, then stops the others.
CleanupPause ==
    /\ mpc = "cleanup" /\ pauseSounds # <<>>
    /\ DoPause(Head(pauseSounds), "STOPPED")
    /\ pauseSounds' = Tail(pauseSounds)
    /\ UNCHANGED <<soundVars, alive, lock, call, mpc, cur, mixed, eos, stopSounds, ended, ops>>

CleanupStop ==
    /\ mpc = "cleanup" /\ pauseSounds = <<>> /\ stopSounds # <<>>
    /\ DoStop(Head(stopSounds))
    /\ stopSounds' = Tail(stopSounds)
    /\ UNCHANGED <<soundVars, alive, lock, call, mpc, cur, mixed, eos, pauseSounds, ended, ops>>

MixDone ==
    /\ mpc = "cleanup" /\ pauseSounds = <<>> /\ stopSounds = <<>>
    /\ mpc' = "idle"
    /\ lock' = NoThread
    /\ UNCHANGED <<listVars, soundVars, alive, call, cur, mixed, eos,
                   pauseSounds, stopSounds, ended, ops>>

Mix ==
    \/ MixBegin \/ MixRead \/ MixLoop \/ MixThrow \/ MixNext \/ MixEnd
    \/ MixCallback \/ MixCollect \/ CleanupPause \/ CleanupStop \/ MixDone

Next == Mix \/ (\E c \in Clients : Client(c)) \/ Destroy

\* The backend keeps asking for audio, and a call that has begun goes on.
Fairness == WF_vars(Mix) /\ \A c \in Clients : WF_vars(HandleStep(c))

Spec == Init /\ [][Next]_vars /\ Fairness
------------------------------------------------------------------------------
(* Properties. *)

\* Every variable keeps its type.
TypeOK ==
    /\ status \in [Handles -> {"UNBORN", "INVALID"} \cup Live]
    /\ position \in [Handles -> Nat]
    /\ loopcount \in [Handles -> Int]
    /\ keep \in [Handles -> BOOLEAN]
    /\ callback \in [Handles -> BOOLEAN]
    /\ playing \in Seq(Handles)
    /\ paused \in Seq(Handles)
    /\ playback \in BOOLEAN
    /\ alive \in BOOLEAN
    /\ lock \in Clients \cup {Mixer, NoThread}
    /\ call \in [Clients -> Calls \cup {Idle}]
    /\ mpc \in {"idle", "read", "loop", "end", "callback", "collect", "cleanup"}
    /\ cur \in Handles \cup {NoHandle}
    /\ mixed \in 0 .. BufferLength
    /\ eos \in BOOLEAN
    /\ pauseSounds \in Seq(Handles)
    /\ stopSounds \in Seq(Handles)
    /\ ended \in SUBSET Handles
    /\ ops \in 0 .. MaxOps

Distinct(s) == \A i, j \in DOMAIN s : s[i] = s[j] => i = j

\* A handle is on at most one of the two lists, and there once: erase() in
\* pause(), resume() and stop() removes the only node, and no sound is mixed twice.
OnOneList ==
    /\ Distinct(playing) /\ Distinct(paused)
    /\ Range(playing) \cap Range(paused) = {}

\* A listed handle is valid.  stopAll() repeats front()->stop() until the lists
\* are empty and stop() of an invalid handle returns without erasing it: an
\* invalid handle on a list would make stopAll() and destroy() spin for ever
\* with the device locked.
ListedIsValid == \A h \in Range(playing) \cup Range(paused) : status[h] \in Live

\* The status that tells a user the sound plays, or has stopped but is kept, is
\* backed by the list that mix(), or resume(), will look in.
PlayingIsListed ==
    \A h \in Handles : /\ status[h] = "PLAYING" => h \in Range(playing)
                       /\ status[h] = "STOPPED" => h \in Range(paused)

\* All three, which no race of the code breaks: what is listed and what a status says
\* agree far enough for every operation to find its handle and for every loop to end.
ListsAreSound == OnOneList /\ ListedIsValid /\ PlayingIsListed

\* The backend runs exactly while there is something to mix: a missed
\* playing(true) is silence, a missed playing(false) a backend that never stops.
BackendRunsForSounds == playback <=> playing # <<>>

\* The iterator mix() holds over m_playingSounds is never invalidated by the
\* handle operations of other threads.
IteratorValid ==
    mpc \in {"read", "loop", "end", "callback", "collect"} => cur \in Range(playing)

\* mix() does not report the end of a sound again (stop callback, cleanup) before
\* somebody resumed it: the cleanup has really taken it off the playing list.
EndReportedOnce == mpc \in {"callback", "collect"} => cur \notin ended

\* stop() is final (IHandle.h: "The handle is definitely invalid afterwards").
InvalidIsFinal ==
    [][\A h \in Handles : status[h] = "INVALID" => status'[h] = "INVALID"]_vars

\* The device implements the promise of IHandle.h: handles move only along its
\* transitions and the backend is active exactly when a handle plays.
Promise == INSTANCE PlaybackHandles WITH state <- status, active <- playback
ImplementsPromise == Promise!ASpec

\* A sound that does not loop for ever stops playing by itself when the backend
\* keeps mixing, whatever its loop count and the length of its last pass.
FiniteSoundEnds ==
    \A h \in Handles \ Faulty :
        status[h] = "PLAYING" ~> (status[h] # "PLAYING" \/ loopcount[h] < 0)
=============================================================================
