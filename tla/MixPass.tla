------------------------------- MODULE MixPass -------------------------------
(***************************************************************************)
(* One pass of SoftwareDevice::mix() as the devices built on it see it:    *)
(* which sounds reach their end, what the stop callbacks of those sounds   *)
(* do to other handles, and the cleanup.  SoftwareDevice has the detail.   *)
(*                                                                         *)
(* The composing module holds the device mutex for the whole pass and adds *)
(* what its playing() does when active changes.                            *)
(***************************************************************************)
EXTENDS PlaybackHandles, Integers

CONSTANT MaxOps     \* bound on the calls of clients and stop callbacks

ASSUME MaxOpsAssumption == MaxOps \in Nat

VARIABLES
    pass,           \* "none", "callbacks" or "cleanup"
    ending,         \* the sounds that reached their end and wait for the cleanup
    ops             \* calls so far

passVars == <<pass, ending>>
handleVars == <<avars, passVars, ops>>

PassInit == pass = "none" /\ ending = {} /\ ops = 0

Sounding == {h \in Handles : state[h] = "PLAYING"}

\* What a user can do to a handle; Rearm is a seek() of a stopped sound.
Operation(h) == Start(h) \/ Pause(h) \/ Resume(h) \/ Rearm(h) \/ Stop(h)

Budget == ops < MaxOps /\ ops' = ops + 1

\* Any playing sound may reach its end.
MixSounds ==
    /\ pass = "none"
    /\ ending' \in SUBSET Sounding
    /\ pass' = "callbacks"
    /\ UNCHANGED <<avars, ops>>

\* The stop callback of one of them does something to another handle.
Callback(h) ==
    /\ pass = "callbacks" /\ ending \ {h} # {} /\ Budget
    /\ Operation(h)
    /\ UNCHANGED passVars

CallbacksDone ==
    /\ pass = "callbacks"
    /\ pass' = "cleanup"
    /\ UNCHANGED <<avars, ending, ops>>

\* A kept sound is paused if it still plays, any other is stopped.
Cleanup(h) ==
    /\ pass = "cleanup" /\ h \in ending
    /\ ending' = ending \ {h}
    /\ \/ IF state[h] = "PLAYING" THEN Finish(h) ELSE UNCHANGED avars
       \/ IF Valid(h) THEN Stop(h) ELSE UNCHANGED avars
    /\ UNCHANGED <<pass, ops>>

PassDone ==
    /\ pass = "cleanup" /\ ending = {}
    /\ pass' = "none"
    /\ UNCHANGED <<avars, ending, ops>>

PassTypeOK ==
    /\ state \in [Handles -> {"UNBORN", "PLAYING", "PAUSED", "STOPPED", "INVALID"}]
    /\ active \in BOOLEAN
    /\ pass \in {"none", "callbacks", "cleanup"}
    /\ ending \in SUBSET Handles
    /\ ops \in 0 .. MaxOps
=============================================================================
