---------------------------- MODULE ThreadedDevice ----------------------------
(***************************************************************************)
(* Devices that run a mixing thread only while something plays (src/       *)
(* devices/ThreadedDevice.cpp), with the loop of the WASAPI backend as     *)
(* runMixingThread().                                                      *)
(*                                                                         *)
(* Whether a thread runs is kept in two flags: m_playing, that there is    *)
(* one, and m_stop, that it should end.  playing(), which SoftwareDevice   *)
(* calls when active changes, and the thread, which looks at m_stop once a *)
(* round, only touch them under the device mutex.  The thread also ends by *)
(* itself when the audio hardware fails.                                   *)
(***************************************************************************)
EXTENDS MixPass

CONSTANTS
    Clients,        \* user threads
    Mixer,          \* the mixing thread
    NoThread,       \* the owner of a free device mutex
    MaxFaults       \* bound on hardware faults and changes of the default device

ASSUME ThreadedAssumption ==
    /\ NoThread \notin Clients \cup {Mixer} /\ Mixer \notin Clients
    /\ MaxFaults \in Nat

VARIABLES
    m_playing, m_stop,
    thread,         \* "none", the round's progress while it runs, or "ended" until joined
    lock,           \* owner of the device mutex
    changed,        \* m_default_device_changed
    faults,         \* faults so far
    closing         \* the progress of the destructor

flags == <<m_playing, m_stop>>
vars == <<handleVars, flags, thread, lock, changed, faults, closing>>

Init ==
    /\ AInit /\ PassInit
    /\ m_playing = FALSE
    /\ m_stop = FALSE
    /\ thread = "none"
    /\ lock = NoThread
    /\ changed = FALSE
    /\ faults = 0
    /\ closing = "no"

\* start(), under the device mutex.  A new thread replaces one that has ended.
StartThread ==
    IF m_stop
    THEN m_stop' = FALSE /\ UNCHANGED <<m_playing, thread>>
    ELSE /\ UNCHANGED m_stop
         /\ IF m_playing
            THEN UNCHANGED <<m_playing, thread>>
            ELSE /\ thread \in {"none", "ended"}
                 /\ m_playing' = TRUE
                 /\ thread' = "asleep"

\* Slip: a thread that was told to stop is not called back.
Playing_NotAborted(b) ==
    IF b /\ ~m_playing
    THEN StartThread
    ELSE m_stop' = TRUE /\ UNCHANGED <<m_playing, thread>>

\* playing(b)
Playing(b) ==
    IF b /\ (~m_playing \/ m_stop)
    THEN StartThread
    ELSE m_stop' = TRUE /\ UNCHANGED <<m_playing, thread>>

\* SoftwareDevice calls playing() when active has changed.
TellBackend == IF active' # active THEN Playing(active') ELSE UNCHANGED <<flags, thread>>
------------------------------------------------------------------------------
ClientCall(c) ==
    /\ closing = "no" /\ lock = NoThread /\ Budget
    /\ (\E h \in Handles : Operation(h)) \/ StopAllHandles
    /\ TellBackend
    /\ UNCHANGED <<passVars, lock, changed, faults, closing>>

\* A round of the thread: it locks the device, ...
Round ==
    /\ thread = "asleep" /\ lock = NoThread
    /\ lock' = Mixer
    /\ thread' = "locked"
    /\ UNCHANGED <<handleVars, flags, changed, faults, closing>>

\* ... sets up the render client, which mixes once, ...
FirstMix ==
    /\ thread = "locked"
    /\ thread' = "setup"
    /\ MixSounds
    /\ UNCHANGED <<flags, lock, changed, faults, closing>>

FirstMixDone ==
    /\ thread = "setup"
    /\ thread' = "between"
    /\ PassDone
    /\ UNCHANGED <<flags, lock, changed, faults, closing>>

\* ... and mixes what is left of the buffer, if the default device is still the same.
SecondMix ==
    /\ thread = "between" /\ ~changed
    /\ thread' = "mixing"
    /\ MixSounds
    /\ UNCHANGED <<flags, lock, changed, faults, closing>>

MixCallback(h) ==
    /\ Callback(h)
    /\ TellBackend
    /\ UNCHANGED <<lock, changed, faults, closing>>

MixEnds ==
    /\ CallbacksDone \/ \E h \in Handles : Cleanup(h)
    /\ TellBackend
    /\ UNCHANGED <<lock, changed, faults, closing>>

\* doStop() and return.
DoStop ==
    /\ m_playing' = FALSE
    /\ m_stop' = FALSE
    /\ thread' = "ended"

\* Slip: the thread returns without doStop().
RoundDone_Silent ==
    /\ thread = "mixing"
    /\ PassDone
    /\ lock' = NoThread
    /\ thread' = IF m_stop THEN "ended" ELSE "asleep"
    /\ UNCHANGED <<flags, changed, faults, closing>>

\* At the end of a round the thread stops if it was told to.
RoundDone ==
    /\ thread = "mixing"
    /\ PassDone
    /\ lock' = NoThread
    /\ IF m_stop THEN DoStop ELSE thread' = "asleep" /\ UNCHANGED flags
    /\ UNCHANGED <<changed, faults, closing>>

\* The device is opened again after it was lost: the thread goes on or ends.
Reopen ==
    \/ thread' = "asleep" /\ UNCHANGED flags
    \/ DoStop

\* A call of the audio client fails before or after a mix(): the hardware is gone,
\* or anything else, which ends the thread.
Fault ==
    /\ faults < MaxFaults
    /\ \/ thread \in {"locked", "between"} /\ UNCHANGED handleVars
       \/ thread \in {"setup", "mixing"} /\ PassDone
    /\ faults' = faults + 1
    /\ Reopen
    /\ lock' = NoThread
    /\ UNCHANGED <<changed, closing>>

\* The default device is another one by now.
Switch ==
    /\ thread = "between" /\ changed
    /\ changed' = FALSE
    /\ Reopen
    /\ lock' = NoThread
    /\ UNCHANGED <<handleVars, faults, closing>>

\* OnDefaultDeviceChanged(), from a thread of the system and without a lock.
DeviceChanged ==
    /\ faults < MaxFaults /\ closing # "destroyed"
    /\ faults' = faults + 1
    /\ changed' = TRUE
    /\ UNCHANGED <<handleVars, flags, thread, lock, closing>>

MixingThread ==
    \/ Round \/ FirstMix \/ FirstMixDone \/ SecondMix \/ MixEnds \/ RoundDone \/ Switch
------------------------------------------------------------------------------
(* The destructor: stopMixingThread() stops all sounds and joins the        *)
(* thread.  No client is inside a call and none begins one.                 *)

\* Slip: the sounds go on playing while the thread is joined.
CloseStop_Playing ==
    /\ closing = "no" /\ lock = NoThread
    /\ closing' = "joining"
    /\ UNCHANGED <<handleVars, flags, thread, lock, changed, faults>>

CloseStop ==
    /\ closing = "no" /\ lock = NoThread
    /\ StopAllHandles
    /\ TellBackend
    /\ closing' = "joining"
    /\ UNCHANGED <<passVars, ops, lock, changed, faults>>

Join ==
    /\ closing = "joining" /\ thread \in {"none", "ended"}
    /\ closing' = "destroyed"
    /\ thread' = "none"
    /\ UNCHANGED <<handleVars, flags, lock, changed, faults>>

\* Nothing is left to do once the device is gone.
Gone == closing = "destroyed" /\ UNCHANGED vars

Next ==
    \/ \E c \in Clients : ClientCall(c)
    \/ MixingThread \/ Fault \/ (\E h \in Handles : MixCallback(h))
    \/ DeviceChanged
    \/ CloseStop \/ Join \/ Gone

\* The thread keeps running its rounds, and join() returns when it can.
Fairness == WF_vars(MixingThread) /\ WF_vars(Join)

Spec == Init /\ [][Next]_vars /\ Fairness
------------------------------------------------------------------------------
(* Properties. *)

InRound == thread \in {"locked", "setup", "between", "mixing"}
Running == thread = "asleep" \/ InRound

\* Every variable keeps its type, and the mixing thread holds the device mutex
\* exactly during a round.
TypeOK ==
    /\ PassTypeOK
    /\ m_playing \in BOOLEAN
    /\ m_stop \in BOOLEAN
    /\ thread \in {"none", "asleep", "locked", "setup", "between", "mixing", "ended"}
    /\ lock = IF InRound THEN Mixer ELSE NoThread
    /\ pass # "none" <=> thread \in {"setup", "mixing"}
    /\ changed \in BOOLEAN
    /\ faults \in 0 .. MaxFaults
    /\ closing \in {"no", "joining", "destroyed"}

\* m_playing tells whether there is a thread to mix: start() never joins a thread
\* that runs (it would wait for ever with the device locked), nor believes in one
\* that has ended.  This holds whatever fails.
PlayingIsRunning == m_playing <=> Running

HardwareWorks == faults = 0

\* As long as the hardware has worked a sound that plays has a thread that is not
\* about to end, a thread for which nothing plays is, and a request to stop has a
\* thread to obey it: a sound that starts between the end of the last one and the end
\* of the thread calls the thread back.
SoundsHaveThread ==
    HardwareWorks => /\ active <=> m_playing /\ ~m_stop
                     /\ m_stop => m_playing

\* A sound that keeps playing goes on being mixed, and when nothing plays any more the
\* thread goes away, as long as the hardware works.
SoundsAreMixed ==
    /\ active ~> (~active \/ thread = "mixing" \/ ~HardwareWorks)
    /\ ~active ~> (active \/ ~Running \/ ~HardwareWorks)

\* The destructor's join() returns, whatever fails.
ShutdownEnds == closing = "joining" ~> closing = "destroyed"
=============================================================================
