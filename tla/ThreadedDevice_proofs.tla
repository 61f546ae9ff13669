------------------------- MODULE ThreadedDevice_proofs -------------------------
(***************************************************************************)
(* Theorems about ThreadedDevice, for any handles and clients.  That       *)
(* m_playing tells the truth is proved with any number of faults, that     *)
(* playing sounds have a thread for hardware that does not fail.           *)
(***************************************************************************)
EXTENDS ThreadedDevice, TLAPS

(* What a pass of mix() and the calls of users preserve of the handles.     *)

\* The two variables of the handles.
HandlesTypeOK ==
    /\ state \in [Handles -> {"UNBORN", "PLAYING", "PAUSED", "STOPPED", "INVALID"}]
    /\ active \in BOOLEAN

\* What a user does to a handle keeps the types.
LEMMA OperationType ==
    ASSUME HandlesTypeOK, NEW h \in Handles, Operation(h) \/ Finish(h)
    PROVE  HandlesTypeOK'
<1>1. PICK s \in {"PLAYING", "PAUSED", "STOPPED", "INVALID"} : Becomes(h, s)
  BY DEF Operation, Start, Pause, Resume, Rearm, Stop, Finish
<1> QED
  BY <1>1 DEF HandlesTypeOK, Becomes

\* So does stopAll().
LEMMA StopAllType ==
    ASSUME HandlesTypeOK, StopAllHandles
    PROVE  HandlesTypeOK' /\ active' = FALSE
BY DEF HandlesTypeOK, StopAllHandles, Valid

\* And the counter of the calls stays within its bound.
LEMMA BudgetType ==
    ASSUME ops \in 0 .. MaxOps, Budget
    PROVE  ops' \in 0 .. MaxOps
BY MaxOpsAssumption DEF Budget

\* The first step of a pass picks the sounds that end.
LEMMA MixSoundsType ==
    ASSUME PassTypeOK, MixSounds
    PROVE  PassTypeOK' /\ pass = "none" /\ pass' = "callbacks" /\ active' = active
BY DEF PassTypeOK, MixSounds, Sounding, avars

\* A stop callback.
LEMMA CallbackType ==
    ASSUME PassTypeOK, NEW h \in Handles, Callback(h)
    PROVE  PassTypeOK' /\ pass = "callbacks" /\ pass' = "callbacks"
<1>1. HandlesTypeOK' /\ ops' \in 0 .. MaxOps
  BY OperationType, BudgetType DEF Callback, PassTypeOK, HandlesTypeOK
<1> QED
  BY <1>1 DEF Callback, PassTypeOK, HandlesTypeOK, passVars

\* The end of the callbacks and each step of the cleanup.
LEMMA PassEndsType ==
    ASSUME PassTypeOK, CallbacksDone \/ \E h \in Handles : Cleanup(h)
    PROVE  PassTypeOK' /\ pass # "none" /\ pass' = "cleanup"
<1>1. CASE CallbacksDone
  BY <1>1 DEF CallbacksDone, PassTypeOK, avars
<1>2. ASSUME NEW h \in Handles, Cleanup(h)
      PROVE  PassTypeOK' /\ pass # "none" /\ pass' = "cleanup"
  <2>1. HandlesTypeOK'
    <3>1. CASE UNCHANGED avars
      BY <3>1 DEF PassTypeOK, HandlesTypeOK, avars
    <3>2. CASE Finish(h) \/ Stop(h)
      BY <3>2, OperationType DEF PassTypeOK, HandlesTypeOK, Operation
    <3> QED
      BY <1>2, <3>1, <3>2 DEF Cleanup
  <2> QED
    BY <1>2, <2>1 DEF Cleanup, PassTypeOK, HandlesTypeOK
<1> QED
  BY <1>1, <1>2

\* The end of a pass changes no handle.
LEMMA PassDoneType ==
    ASSUME PassTypeOK, PassDone
    PROVE  PassTypeOK' /\ pass = "cleanup" /\ pass' = "none" /\ active' = active
BY DEF PassTypeOK, PassDone, avars
------------------------------------------------------------------------------

\* What needs hardware that works, and that the default device was not changed.
NoFaultInv == (HardwareWorks => ~changed) /\ SoundsHaveThread

IInv == TypeOK /\ PlayingIsRunning /\ NoFaultInv

ThreadStates == {"none", "asleep", "locked", "setup", "between", "mixing", "ended"}

\* What playing() does to the flags and the thread, for a change of active that it
\* is told: the part of the invariant it is responsible for.
FlagsOK ==
    /\ m_playing \in BOOLEAN
    /\ m_stop \in BOOLEAN
    /\ thread \in ThreadStates
    /\ PlayingIsRunning

\* playing() starts a thread only if none runs, and wakes none that is in a round.
LEMMA TellBackendKeepsFlags ==
    ASSUME FlagsOK, active \in BOOLEAN, active' \in BOOLEAN, TellBackend
    PROVE  /\ FlagsOK'
           /\ SoundsHaveThread /\ faults' = faults => SoundsHaveThread'
           /\ thread' = thread \/ (thread \in {"none", "ended"} /\ thread' = "asleep")
<1>1. CASE active' = active
  BY <1>1 DEF TellBackend, FlagsOK, flags, PlayingIsRunning, Running, InRound,
     SoundsHaveThread, HardwareWorks
<1>2. CASE active' # active
  <2>1. CASE active' /\ (~m_playing \/ m_stop)
    <3>1. StartThread
      BY <1>2, <2>1 DEF TellBackend, Playing
    <3>2. CASE m_stop
      BY <2>1, <3>1, <3>2 DEF StartThread, FlagsOK, PlayingIsRunning, Running, InRound,
         SoundsHaveThread, HardwareWorks
    <3>3. CASE ~m_stop
      BY <2>1, <3>1, <3>3 DEF StartThread, FlagsOK, ThreadStates, PlayingIsRunning, Running,
         InRound, SoundsHaveThread, HardwareWorks
    <3> QED
      BY <3>2, <3>3
  <2>2. CASE ~(active' /\ (~m_playing \/ m_stop))
    <3>1. m_stop' = TRUE /\ m_playing' = m_playing /\ thread' = thread
      BY <1>2, <2>2 DEF TellBackend, Playing
    <3>2. FlagsOK'
      BY <3>1 DEF FlagsOK, PlayingIsRunning, Running, InRound
    <3>3. ASSUME SoundsHaveThread, faults' = faults PROVE SoundsHaveThread'
      BY <1>2, <2>2, <3>1, <3>3 DEF SoundsHaveThread, HardwareWorks, FlagsOK
    <3> QED
      BY <3>1, <3>2, <3>3
  <2> QED
    BY <2>1, <2>2
<1> QED
  BY <1>1, <1>2

\* A step under the device mutex that changes the handles and tells the backend.
LEMMA TellBackendKeepsIInv ==
    ASSUME IInv, TellBackend, PassTypeOK',
           pass' # "none" <=> thread \in {"setup", "mixing"},
           lock' = lock, changed' = changed, faults' = faults,
           closing' \in {"no", "joining", "destroyed"}
    PROVE  IInv'
<1>1. FlagsOK /\ active \in BOOLEAN /\ active' \in BOOLEAN
  BY DEF IInv, TypeOK, PassTypeOK, FlagsOK, ThreadStates
<1>2. FlagsOK' /\ (thread' = thread \/ (thread \in {"none", "ended"} /\ thread' = "asleep"))
  BY <1>1, TellBackendKeepsFlags
<1>3. TypeOK'
  BY <1>2 DEF IInv, TypeOK, FlagsOK, ThreadStates, InRound
<1>4. NoFaultInv'
  <2>1. SoundsHaveThread'
    BY <1>1, TellBackendKeepsFlags DEF IInv, NoFaultInv
  <2> QED
    BY <2>1 DEF IInv, NoFaultInv, HardwareWorks
<1> QED
  BY <1>2, <1>3, <1>4 DEF IInv, FlagsOK

\* The initial state satisfies the invariant.
LEMMA InitIInv == Init => IInv
<1> SUFFICES ASSUME Init PROVE IInv
  OBVIOUS
<1>1. PassTypeOK
  <2>1. ops \in 0 .. MaxOps
    BY MaxOpsAssumption DEF Init, PassInit
  <2> QED
    BY <2>1 DEF Init, AInit, PassInit, PassTypeOK
<1>2. faults \in 0 .. MaxFaults
  BY ThreadedAssumption DEF Init
<1>3. TypeOK
  BY <1>1, <1>2 DEF Init, PassInit, TypeOK, InRound
<1> QED
  BY <1>3 DEF Init, AInit, IInv, InRound, PlayingIsRunning, Running, NoFaultInv,
     SoundsHaveThread, HardwareWorks

\* A client's call keeps it.
LEMMA ClientKeepsIInv ==
    ASSUME IInv, NEW c \in Clients, ClientCall(c)
    PROVE  IInv'
<1>1. HandlesTypeOK /\ ops \in 0 .. MaxOps /\ ThreadedAssumption
  BY ThreadedAssumption DEF IInv, TypeOK, PassTypeOK, HandlesTypeOK
<1>2. HandlesTypeOK' /\ ops' \in 0 .. MaxOps
  BY <1>1, OperationType, StopAllType, BudgetType DEF ClientCall
<1>3. PassTypeOK'
  BY <1>2 DEF ClientCall, IInv, TypeOK, PassTypeOK, HandlesTypeOK, passVars
<1> QED
  BY <1>3, TellBackendKeepsIInv DEF ClientCall, passVars, IInv, TypeOK

\* The steps of the mixing thread keep it.
LEMMA ThreadKeepsIInv ==
    ASSUME IInv, MixingThread
    PROVE  IInv'
<1> USE DEF IInv, TypeOK, InRound, PlayingIsRunning, Running, NoFaultInv, SoundsHaveThread,
            HardwareWorks
<1>1. CASE Round
  BY <1>1 DEF Round, handleVars, passVars, avars, flags, PassTypeOK
<1>2. CASE FirstMix
  <2>1. PassTypeOK' /\ pass' = "callbacks" /\ active' = active
    BY <1>2, MixSoundsType DEF FirstMix
  <2> QED
    BY <1>2, <2>1 DEF FirstMix, flags
<1>3. CASE FirstMixDone
  <2>1. PassTypeOK' /\ pass' = "none" /\ active' = active
    BY <1>3, PassDoneType DEF FirstMixDone
  <2> QED
    BY <1>3, <2>1 DEF FirstMixDone, flags
<1>4. CASE SecondMix
  <2>1. PassTypeOK' /\ pass' = "callbacks" /\ active' = active
    BY <1>4, MixSoundsType DEF SecondMix
  <2> QED
    BY <1>4, <2>1 DEF SecondMix, flags
<1>5. CASE MixEnds
  <2>1. PassTypeOK' /\ pass # "none" /\ pass' = "cleanup"
    BY <1>5, PassEndsType DEF MixEnds
  <2> QED
    BY <1>5, <2>1, TellBackendKeepsIInv DEF MixEnds
<1>6. CASE RoundDone
  <2>1. PassTypeOK' /\ pass' = "none" /\ active' = active
    BY <1>6, PassDoneType DEF RoundDone
  <2>2. CASE m_stop
    BY <1>6, <2>1, <2>2 DEF RoundDone, DoStop
  <2>3. CASE ~m_stop
    BY <1>6, <2>1, <2>3 DEF RoundDone, flags
  <2> QED
    BY <2>2, <2>3
<1>7. CASE Switch
  <2>1. PassTypeOK' /\ active' = active /\ pass' = pass
    BY <1>7 DEF Switch, handleVars, passVars, avars, PassTypeOK
  <2>2. faults' # 0
    BY <1>7 DEF Switch
  <2>3. CASE DoStop
    BY <1>7, <2>1, <2>2, <2>3 DEF Switch, DoStop
  <2>4. CASE thread' = "asleep" /\ UNCHANGED flags
    BY <1>7, <2>1, <2>2, <2>4 DEF Switch, flags
  <2> QED
    BY <1>7, <2>3, <2>4 DEF Switch, Reopen
<1> QED
  BY <1>1, <1>2, <1>3, <1>4, <1>5, <1>6, <1>7 DEF MixingThread

\* A fault keeps it: the thread goes on or ends with its flags reset.
LEMMA FaultKeepsIInv ==
    ASSUME IInv, Fault
    PROVE  IInv'
<1>1. PassTypeOK' /\ pass' = "none"
  <2>1. CASE UNCHANGED handleVars /\ thread \in {"locked", "between"}
    BY <2>1 DEF handleVars, passVars, avars, PassTypeOK, IInv, TypeOK
  <2>2. CASE PassDone
    BY <2>2, PassDoneType DEF IInv, TypeOK
  <2> QED
    BY <2>1, <2>2 DEF Fault
<1>2. faults' \in 0 .. MaxFaults /\ faults' # 0
  BY ThreadedAssumption DEF Fault, IInv, TypeOK
<1>3. Running
  BY DEF Fault, Running, InRound
<1> USE DEF IInv, TypeOK, InRound, PlayingIsRunning, Running, NoFaultInv, SoundsHaveThread, HardwareWorks
<1>4. CASE DoStop
  BY <1>1, <1>2, <1>3, <1>4 DEF Fault, DoStop
<1>5. CASE thread' = "asleep" /\ UNCHANGED flags
  BY <1>1, <1>2, <1>3, <1>5 DEF Fault, flags
<1> QED
  BY <1>4, <1>5 DEF Fault, Reopen

\* The destructor keeps it.
LEMMA CloseKeepsIInv ==
    ASSUME IInv, CloseStop \/ Join
    PROVE  IInv'
<1>1. CASE CloseStop
  <2>1. HandlesTypeOK'
    BY <1>1, StopAllType DEF CloseStop, IInv, TypeOK, PassTypeOK, HandlesTypeOK
  <2>2. PassTypeOK'
    BY <1>1, <2>1 DEF CloseStop, IInv, TypeOK, PassTypeOK, HandlesTypeOK, passVars
  <2> QED
    BY <1>1, <2>2, TellBackendKeepsIInv DEF CloseStop, passVars, IInv, TypeOK
<1>2. CASE Join
  BY <1>2 DEF Join, handleVars, passVars, avars, flags, IInv, TypeOK, PassTypeOK, InRound,
     PlayingIsRunning, Running, NoFaultInv, SoundsHaveThread, HardwareWorks
<1> QED
  BY <1>1, <1>2
------------------------------------------------------------------------------
(* Theorems. *)

\* Every reachable state satisfies the inductive invariant.
THEOREM Invariance == Spec => []IInv
<1>1. Init => IInv
  BY InitIInv
<1>2. IInv /\ [Next]_vars => IInv'
  <2> SUFFICES ASSUME IInv, [Next]_vars PROVE IInv'
    OBVIOUS
  <2>1. CASE UNCHANGED vars
    BY <2>1 DEF vars, handleVars, passVars, avars, flags, IInv, TypeOK, PassTypeOK, InRound,
       PlayingIsRunning, Running, NoFaultInv, SoundsHaveThread, HardwareWorks
  <2>2. ASSUME NEW h \in Handles, MixCallback(h) PROVE IInv'
    <3>1. PassTypeOK' /\ pass = "callbacks" /\ pass' = "callbacks"
      BY <2>2, CallbackType DEF MixCallback, IInv, TypeOK
    <3> QED
      BY <2>2, <3>1, TellBackendKeepsIInv DEF MixCallback, IInv, TypeOK
  <2>3. CASE DeviceChanged
    <3>1. faults' \in 0 .. MaxFaults /\ faults' # 0
      BY <2>3, ThreadedAssumption DEF DeviceChanged, IInv, TypeOK
    <3> QED
      BY <2>3, <3>1 DEF DeviceChanged, handleVars, passVars, avars, flags, IInv, TypeOK, PassTypeOK,
         InRound, PlayingIsRunning, Running, NoFaultInv, SoundsHaveThread, HardwareWorks
  <2> QED
    BY <2>1, <2>2, <2>3, ClientKeepsIInv, ThreadKeepsIInv, FaultKeepsIInv, CloseKeepsIInv
       DEF Next, Gone
<1> QED
  BY <1>1, <1>2, PTL DEF Spec

\* Every variable keeps its type and the mutex is held exactly during a round.
THEOREM TypeCorrect == Spec => []TypeOK
BY Invariance, PTL DEF IInv

\* m_playing tells whether a thread runs, however often the hardware fails.
THEOREM FlagTellsTheTruth == Spec => []PlayingIsRunning
BY Invariance, PTL DEF IInv

\* Until the hardware fails, a sound that plays has a thread that will not stop, a thread
\* without sounds was told to, and a request to stop has a thread to obey it.
THEOREM PlayingSoundsHaveThread == Spec => []SoundsHaveThread
BY Invariance, PTL DEF IInv, NoFaultInv
=============================================================================
