-------------------------- MODULE MixingThreadDevice --------------------------
(***************************************************************************)
(* Devices that mix ahead into a ring buffer (src/devices/                 *)
(* MixingThreadDevice.cpp) with the PulseAudio or PipeWire backend behind  *)
(* it: the mixing thread and its condition variable, the device mutex, the *)
(* backend's main loop with its own lock, the stream that is put to sleep  *)
(* (corked) and flushed when nothing plays, and the destructor.            *)
(*                                                                         *)
(* The handles and mix() are those of MixPass; active is both              *)
(* SoftwareDevice::m_playback and the copy playing() makes of it in the    *)
(* same critical section.  The ring buffer is the queue that RingBuffer    *)
(* implements; a frame is the set of the sounds mixed into it.  The sound  *)
(* server takes frames in advance: what it was given waits in its stream.  *)
(*                                                                         *)
(* Three locks: the device mutex, m_mixingLock, which the mixing thread    *)
(* holds unless it waits, and the main loop lock, which the backend holds  *)
(* while it runs the request callback.                                     *)
(***************************************************************************)
EXTENDS MixPass, Sequences

CONSTANTS
    Clients,        \* user threads
    Mixer,          \* the mixing thread
    Backend,        \* the backend's main loop
    NoThread,       \* the owner of a free lock
    Capacity,       \* frames the ring buffer can hold
    Request,        \* frames of one request of the backend
    StreamSize,     \* frames the server takes in advance
    MaxRequests     \* requests that may arrive while the mixing thread fills the buffer

ASSUME MixingThreadsAssumption ==
    /\ NoThread \notin Clients \cup {Mixer, Backend}
    /\ {Mixer, Backend} \cap Clients = {}
    /\ Mixer # Backend

ASSUME StreamAssumption ==
    /\ Capacity \in Nat \ {0} /\ Request \in Nat \ {0}
    /\ StreamSize \in Nat /\ StreamSize >= Request
    /\ MaxRequests \in Nat

VARIABLES
    lock,           \* owner of the device mutex
    mainloop,       \* owner of the main loop lock
    mt,             \* where the mixing thread is in updateRingBuffer()
    valid,          \* m_valid
    ring,           \* the frames in m_ringBuffer
    chunk,          \* the frames mix() is producing: how many, of which sounds
    corked,         \* m_corked of PulseAudio, ~m_active of PipeWire
    waking,         \* the progress of playing(true): "no", "begun" or "locked"
    stream,         \* the frames the server was given, from the one it plays
    requests,       \* requests since the mixing thread took the device
    closing         \* the progress of the destructor

threadVars == <<lock, mainloop, mt, waking, closing, valid>>
mixingVars == <<ring, chunk, corked, stream, requests>>
vars == <<handleVars, threadVars, mixingVars>>

\* The sounds in the frame that is being played.
output == IF corked \/ stream = <<>> THEN {} ELSE Head(stream)

NoChunk == [size |-> 0, sounds |-> {}]

Init ==
    /\ AInit /\ PassInit
    /\ lock = NoThread
    /\ mainloop = NoThread
    /\ mt = "ready"
    /\ valid = TRUE
    /\ ring = <<>>
    /\ chunk = NoChunk
    /\ corked = TRUE
    /\ waking = "no"
    /\ stream = <<>>
    /\ requests = 0
    /\ closing = "no"

\* m_mixingLock is free while the mixing thread waits for it or on the condition.
MixingLockFree == mt \in {"ready", "waiting", "done"}

\* notify_all(): the thread competes for the mixing lock again, if it waits.
Notify == mt' = IF mt = "waiting" THEN "ready" ELSE mt
------------------------------------------------------------------------------
(* Clients.  An operation runs under the device mutex.  One that makes the  *)
(* device active calls playing(true), which notifies the mixing thread and  *)
(* then takes the main loop lock to wake the stream.                        *)

ClientCall(c) ==
    /\ closing = "no" /\ lock = NoThread /\ Budget
    /\ (\E h \in Handles : Operation(h)) \/ StopAllHandles
    /\ IF ~active /\ active'
       THEN lock' = c /\ waking' = "begun" /\ Notify
       ELSE UNCHANGED <<lock, waking, mt>>
    /\ UNCHANGED <<mainloop, valid, closing, mixingVars, passVars>>

WakeLock ==
    /\ waking = "begun" /\ mainloop = NoThread
    /\ mainloop' = lock
    /\ waking' = "locked"
    /\ UNCHANGED <<handleVars, lock, mt, valid, closing, mixingVars>>

\* playing(true) starts the stream; a client's call ends with it.
Wake ==
    /\ waking = "locked"
    /\ corked' = FALSE
    /\ mainloop' = NoThread
    /\ waking' = "no"
    /\ lock' = IF lock = Mixer THEN Mixer ELSE NoThread
    /\ UNCHANGED <<handleVars, mt, valid, closing, ring, chunk, stream, requests>>
------------------------------------------------------------------------------
(* The mixing thread: updateRingBuffer(). *)

Relock ==
    /\ mt = "ready"
    /\ mt' = "test"
    /\ UNCHANGED <<handleVars, lock, mainloop, waking, closing, valid, mixingVars>>

Leave ==
    /\ mt = "test" /\ ~valid
    /\ mt' = "done"
    /\ UNCHANGED <<handleVars, lock, mainloop, waking, closing, valid, mixingVars>>

\* Slip: the pass begins without the device mutex.
TakeDevice_NoMutex ==
    /\ mt = "test" /\ valid
    /\ mt' = "pre"
    /\ requests' = 0
    /\ UNCHANGED <<handleVars, lock, mainloop, waking, closing, valid, ring, chunk, corked, stream>>

TakeDevice ==
    /\ mt = "test" /\ valid /\ lock = NoThread
    /\ lock' = Mixer
    /\ mt' = "pre"
    /\ requests' = 0
    /\ UNCHANGED <<handleVars, mainloop, waking, closing, valid, ring, chunk, corked, stream>>

\* Slip: the stream is corked while there are frames left to play.
Drained_Ignored == ~active /\ ~corked

\* preMixingWork() puts the stream to sleep when nothing plays and all is played.
Drained == ~active /\ ring = <<>> /\ ~corked

CorkTest ==
    /\ mt = "pre" /\ Drained
    /\ mt' = "drained"
    /\ UNCHANGED <<handleVars, lock, mainloop, waking, closing, valid, mixingVars>>

CorkLock ==
    /\ mt = "drained" /\ mainloop = NoThread
    /\ mainloop' = Mixer
    /\ mt' = "corking"
    /\ UNCHANGED <<handleVars, lock, waking, closing, valid, mixingVars>>

\* Slip: the stream is put to sleep with what it holds.
Cork_NoFlush ==
    /\ mt = "corking"
    /\ corked' = TRUE
    /\ mainloop' = NoThread
    /\ lock' = NoThread
    /\ mt' = "unlocked"
    /\ UNCHANGED <<handleVars, waking, closing, valid, ring, chunk, stream, requests>>

\* The flush drops what the server was given and has not played.
Cork ==
    /\ mt = "corking"
    /\ corked' = TRUE
    /\ stream' = <<>>
    /\ mainloop' = NoThread
    /\ lock' = NoThread
    /\ mt' = "unlocked"
    /\ UNCHANGED <<handleVars, waking, closing, valid, ring, chunk, requests>>

\* There is nothing to cork: fill the buffer, or go to sleep at once.
Awake ==
    /\ mt = "pre" /\ ~Drained
    /\ IF active
       THEN mt' = "fill" /\ UNCHANGED lock
       ELSE mt' = "unlocked" /\ lock' = NoThread
    /\ UNCHANGED <<handleVars, mainloop, waking, closing, valid, mixingVars>>

\* mix() for all the space the buffer has.
Mix ==
    /\ mt = "fill" /\ Len(ring) < Capacity
    /\ chunk' = [size |-> Capacity - Len(ring), sounds |-> Sounding]
    /\ mt' = "mixing"
    /\ MixSounds
    /\ UNCHANGED <<lock, mainloop, waking, closing, valid, ring, corked, stream, requests>>

\* A stop callback may make the device active again: playing(true) on this thread.
MixCallback(h) ==
    /\ waking = "no"
    /\ Callback(h)
    /\ waking' = IF ~active /\ active' THEN "begun" ELSE "no"
    /\ UNCHANGED <<lock, mainloop, mt, closing, valid, mixingVars>>

MixEnds ==
    /\ waking = "no"
    /\ CallbacksDone \/ \E h \in Handles : Cleanup(h)
    /\ UNCHANGED <<threadVars, mixingVars>>

Write ==
    /\ mt = "mixing" /\ PassDone
    /\ ring' = ring \o [i \in 1 .. chunk.size |-> chunk.sounds]
    /\ chunk' = NoChunk
    /\ mt' = "fill"
    /\ UNCHANGED <<lock, mainloop, waking, closing, valid, corked, stream, requests>>

Full ==
    /\ mt = "fill" /\ Len(ring) = Capacity
    /\ lock' = NoThread
    /\ mt' = "unlocked"
    /\ UNCHANGED <<handleVars, mainloop, waking, closing, valid, mixingVars>>

\* wait(lock): no condition is tested, so a notification that came since the
\* device was unlocked is lost.
Wait ==
    /\ mt = "unlocked"
    /\ mt' = "waiting"
    /\ UNCHANGED <<handleVars, lock, mainloop, waking, closing, valid, mixingVars>>

MixingThread ==
    \/ Relock \/ Leave \/ TakeDevice \/ CorkTest \/ CorkLock \/ Cork \/ Awake
    \/ Mix \/ MixEnds \/ Write \/ Full \/ Wait
------------------------------------------------------------------------------
(* The backend's main loop and the server, which only run a stream that is not corked. *)

\* The server has room for a request.  (The silence that fills up a short one is left out.)
BackendRead ==
    /\ ~corked /\ mainloop = NoThread /\ closing # "destroyed"
    /\ Len(stream) + Request <= StreamSize
    /\ lock = Mixer => requests < MaxRequests
    /\ mainloop' = Backend
    /\ requests' = IF lock = Mixer THEN requests + 1 ELSE requests
    /\ LET n == IF Len(ring) < Request THEN Len(ring) ELSE Request IN
         /\ stream' = stream \o SubSeq(ring, 1, n)
         /\ ring' = SubSeq(ring, n + 1, Len(ring))
    /\ UNCHANGED <<handleVars, lock, mt, valid, waking, closing, chunk, corked>>

\* Slip: the notification is sent with the device locked.
BackendNotify_Locked ==
    /\ mainloop = Backend /\ lock = NoThread
    /\ mainloop' = NoThread
    /\ Notify
    /\ UNCHANGED <<handleVars, lock, waking, closing, valid, mixingVars>>

BackendNotify ==
    /\ mainloop = Backend
    /\ mainloop' = NoThread
    /\ Notify
    /\ UNCHANGED <<handleVars, lock, waking, closing, valid, mixingVars>>

\* The server has played a frame.
ServerPlays ==
    /\ ~corked /\ stream # <<>>
    /\ stream' = Tail(stream)
    /\ UNCHANGED <<handleVars, threadVars, ring, chunk, corked, requests>>

BackendLoop == BackendRead \/ BackendNotify
------------------------------------------------------------------------------
(* The destructor: stopMixingThread(), then destroy() and the end of the    *)
(* main loop.  No client is inside a call and none begins one.              *)

Close ==
    /\ closing = "no" /\ lock \in {NoThread, Mixer}
    /\ closing' = "begun"
    /\ UNCHANGED <<handleVars, lock, mainloop, mt, waking, valid, mixingVars>>

\* Slip: m_valid is cleared without m_mixingLock.
Invalidate_Unlocked ==
    /\ closing = "begun"
    /\ valid' = FALSE
    /\ closing' = "invalid"
    /\ UNCHANGED <<handleVars, lock, mainloop, mt, waking, mixingVars>>

Invalidate ==
    /\ closing = "begun" /\ MixingLockFree
    /\ valid' = FALSE
    /\ closing' = "invalid"
    /\ UNCHANGED <<handleVars, lock, mainloop, mt, waking, mixingVars>>

NotifyStop ==
    /\ closing = "invalid"
    /\ Notify
    /\ closing' = "joining"
    /\ UNCHANGED <<handleVars, lock, mainloop, valid, waking, mixingVars>>

Destroy ==
    /\ closing = "joining" /\ mt = "done" /\ mainloop = NoThread
    /\ StopAllHandles
    /\ closing' = "destroyed"
    /\ UNCHANGED <<passVars, lock, mainloop, mt, valid, waking, mixingVars, ops>>

Closing == Invalidate \/ NotifyStop \/ Destroy

\* Nothing is left to do once the device is gone.
Gone == closing = "destroyed" /\ UNCHANGED vars

Next ==
    \/ \E c \in Clients : ClientCall(c)
    \/ WakeLock \/ Wake
    \/ MixingThread \/ (\E h \in Handles : MixCallback(h))
    \/ BackendLoop \/ ServerPlays
    \/ Close \/ Closing \/ Gone

\* Every thread that can run does.  The main loop and the mixing thread sleep for
\* about a period between two rounds, so whoever waits for a lock they take again
\* and again gets it in the end: strong fairness.
Fairness ==
    /\ WF_vars(MixingThread) /\ SF_vars(CorkLock)
    /\ WF_vars(BackendLoop) /\ WF_vars(ServerPlays)
    /\ SF_vars(WakeLock) /\ WF_vars(Wake)
    /\ SF_vars(Invalidate) /\ WF_vars(NotifyStop) /\ SF_vars(Destroy)

Spec == Init /\ [][Next]_vars /\ Fairness
------------------------------------------------------------------------------
(* Properties. *)

\* Every variable keeps its type; the ring buffer is never overfilled, although the
\* backend reads between the moment mix() is told a length and the write.
TypeOK ==
    /\ PassTypeOK
    /\ lock \in Clients \cup {Mixer, NoThread}
    /\ mainloop \in Clients \cup {Mixer, Backend, NoThread}
    /\ mt \in {"ready", "test", "pre", "drained", "corking", "fill", "mixing",
               "unlocked", "waiting", "done"}
    /\ valid \in BOOLEAN
    /\ ring \in Seq(SUBSET Handles) /\ Len(ring) <= Capacity
    /\ chunk \in [size : 0 .. Capacity, sounds : SUBSET Handles]
    /\ corked \in BOOLEAN
    /\ waking \in {"no", "begun", "locked"}
    /\ stream \in Seq(SUBSET Handles) /\ Len(stream) <= StreamSize
    /\ requests \in 0 .. MaxRequests
    /\ closing \in {"no", "begun", "invalid", "joining", "destroyed"}

\* The stream never sleeps while a sound plays, except inside the call that is about
\* to wake it: preMixingWork() of the mixing thread cannot cork a stream that a
\* client has just woken.
AwakeWhilePlaying == active => ~corked \/ waking # "no"

\* A stream that sleeps holds nothing, here or at the server, that would be heard in front of
\* the next sound; and the flush that empties it drops frames, but only of sounds that do not
\* play: no client has started or resumed one of them since the mixing thread looked.  (What
\* the server has of a sound that has ended is dropped, unheard.)  What mix() was asked
\* for fits when it is written, although the backend reads meanwhile.
NothingLeftBehind ==
    /\ corked => ring = <<>> /\ stream = <<>>
    /\ mt = "corking" => ring = <<>> /\ \A i \in DOMAIN stream : stream[i] \cap Sounding = {}
    /\ Len(ring) + chunk.size <= Capacity

\* A sound that stays playing is heard from the server, and a stream for which nothing
\* plays is stopped once the ring buffer is empty: however the notifications of playing() and of the backend
\* fall between the test and the wait of the mixing thread.
PlayingIsHeard ==
    /\ \A h \in Handles : state[h] = "PLAYING" ~> (state[h] # "PLAYING" \/ h \in output)
    /\ ~active ~> (active \/ corked \/ closing # "no")

\* Nobody keeps the device mutex for ever: neither the loop that fills the buffer
\* while the backend empties it, nor a call that wants the main loop lock too.
DeviceIsReleased == lock # NoThread ~> lock = NoThread

\* The destructor comes to an end: the mixing thread cannot miss that m_valid
\* changed, although the condition variable is waited on unconditionally.
ShutdownEnds == closing # "no" ~> closing = "destroyed"
=============================================================================
