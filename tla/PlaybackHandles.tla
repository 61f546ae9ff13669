--------------------------- MODULE PlaybackHandles ---------------------------
(***************************************************************************)
(* What an audaspace device promises about its playback handles, as        *)
(* IHandle.h declares it and with no list, lock or thread in sight.        *)
(*                                                                         *)
(* A handle is created PLAYING.  It moves between PLAYING and PAUSED; a    *)
(* kept sound that reaches its end becomes STOPPED and has to be rearmed   *)
(* (a seek, or a larger loop count) before it can be resumed; stop() makes *)
(* it INVALID for good.  The device is active (the audio backend runs)     *)
(* exactly when some handle is PLAYING.                                    *)
(***************************************************************************)

CONSTANT Handles

VARIABLES state, active

avars == <<state, active>>

\* A handle that play() has returned and that was not stopped.
Valid(h) == state[h] \in {"PLAYING", "PAUSED", "STOPPED"}

AInit ==
    /\ state = [h \in Handles |-> "UNBORN"]
    /\ active = FALSE

Becomes(h, s) ==
    /\ state' = [state EXCEPT ![h] = s]
    /\ active' = (\E g \in Handles : state'[g] = "PLAYING")

Start(h) == state[h] = "UNBORN" /\ Becomes(h, "PLAYING")

Pause(h) == state[h] = "PLAYING" /\ Becomes(h, "PAUSED")

Resume(h) == state[h] = "PAUSED" /\ Becomes(h, "PLAYING")

\* The end of a sound that is kept in the device.
Finish(h) == state[h] = "PLAYING" /\ Becomes(h, "STOPPED")

Rearm(h) == state[h] = "STOPPED" /\ Becomes(h, "PAUSED")

Stop(h) == Valid(h) /\ Becomes(h, "INVALID")

StopAllHandles ==
    /\ state' = [h \in Handles |-> IF Valid(h) THEN "INVALID" ELSE state[h]]
    /\ active' = FALSE

ANext ==
    \/ \E h \in Handles :
           Start(h) \/ Pause(h) \/ Resume(h) \/ Finish(h) \/ Rearm(h) \/ Stop(h)
    \/ StopAllHandles

ASpec == AInit /\ [][ANext]_avars
=============================================================================
