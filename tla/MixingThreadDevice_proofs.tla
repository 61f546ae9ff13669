----------------------- MODULE MixingThreadDevice_proofs -----------------------
(***************************************************************************)
(* Theorems about MixingThreadDevice, for any handles, clients, sizes of   *)
(* the ring buffer and of the backend's requests: the types, and the two   *)
(* promises between the mixing thread and the stream that it corks; and    *)
(* about RingBuffer, step by step, for the memory between these two.       *)
(***************************************************************************)
EXTENDS MixingThreadDevice, RingBuffer, SequenceTheorems, TLAPS

(* What a pass of mix() and the calls of users preserve of the handles.     *)

\* The two variables of the handles.
HandlesTypeOK ==
    /\ state \in [Handles -> {"UNBORN", "PLAYING", "PAUSED", "STOPPED", "INVALID"}]
    /\ active \in BOOLEAN

\* What a user does to a handle keeps the types.
LEMMA OperationType ==
    ASSUME HandlesTypeOK, NEW h \in Handles, Operation(h) \/ Finish(h)
    PROVE  HandlesTypeOK'
<1>1. PICK s \in {"PLAYING", "PAUSED", "STOPPED", "INVALID"} : Becomes(h, s)
  BY DEF Operation, Start, Pause, Resume, Rearm, Stop, Finish
<1> QED
  BY <1>1 DEF HandlesTypeOK, Becomes

\* So does stopAll().
LEMMA StopAllType ==
    ASSUME HandlesTypeOK, StopAllHandles
    PROVE  HandlesTypeOK' /\ active' = FALSE
BY DEF HandlesTypeOK, StopAllHandles, Valid

\* And the counter of the calls stays within its bound.
LEMMA BudgetType ==
    ASSUME ops \in 0 .. MaxOps, Budget
    PROVE  ops' \in 0 .. MaxOps
BY MaxOpsAssumption DEF Budget

\* The first step of a pass picks the sounds that end.
LEMMA MixSoundsType ==
    ASSUME PassTypeOK, MixSounds
    PROVE  PassTypeOK' /\ pass = "none" /\ pass' = "callbacks" /\ active' = active
BY DEF PassTypeOK, MixSounds, Sounding, avars

\* A stop callback.
LEMMA CallbackType ==
    ASSUME PassTypeOK, NEW h \in Handles, Callback(h)
    PROVE  PassTypeOK' /\ pass = "callbacks" /\ pass' = "callbacks"
<1>1. HandlesTypeOK' /\ ops' \in 0 .. MaxOps
  BY OperationType, BudgetType DEF Callback, PassTypeOK, HandlesTypeOK
<1> QED
  BY <1>1 DEF Callback, PassTypeOK, HandlesTypeOK, passVars

\* The end of the callbacks and each step of the cleanup.
LEMMA PassEndsType ==
    ASSUME PassTypeOK, CallbacksDone \/ \E h \in Handles : Cleanup(h)
    PROVE  PassTypeOK' /\ pass # "none" /\ pass' = "cleanup"
<1>1. CASE CallbacksDone
  BY <1>1 DEF CallbacksDone, PassTypeOK, avars
<1>2. ASSUME NEW h \in Handles, Cleanup(h)
      PROVE  PassTypeOK' /\ pass # "none" /\ pass' = "cleanup"
  <2>1. HandlesTypeOK'
    <3>1. CASE UNCHANGED avars
      BY <3>1 DEF PassTypeOK, HandlesTypeOK, avars
    <3>2. CASE Finish(h) \/ Stop(h)
      BY <3>2, OperationType DEF PassTypeOK, HandlesTypeOK, Operation
    <3> QED
      BY <1>2, <3>1, <3>2 DEF Cleanup
  <2> QED
    BY <1>2, <2>1 DEF Cleanup, PassTypeOK, HandlesTypeOK
<1> QED
  BY <1>1, <1>2

\* The end of a pass changes no handle.
LEMMA PassDoneType ==
    ASSUME PassTypeOK, PassDone
    PROVE  PassTypeOK' /\ pass = "cleanup" /\ pass' = "none" /\ active' = active
BY DEF PassTypeOK, PassDone, avars
------------------------------------------------------------------------------

\* Who holds the device mutex: the mixing thread during a round, a client only while
\* it is waking the stream.
DeviceOK ==
    /\ lock = Mixer <=> mt \in {"pre", "drained", "corking", "fill", "mixing"}
    /\ lock \in Clients => waking # "no"
    /\ pass # "none" <=> mt = "mixing"

\* Who wakes the stream, and who holds the main loop lock.
WakingOK ==
    /\ waking # "no" => active /\ (lock \in Clients \/ mt = "mixing")
    /\ waking = "locked" => mainloop = lock
    /\ mt = "corking" => mainloop = Mixer
    /\ mainloop \in Clients => waking = "locked"
    /\ mainloop = Mixer => mt = "corking" \/ waking = "locked"
    /\ mt = "mixing" /\ waking # "no" => pass = "callbacks"

\* What the mixing thread found out is still true when it acts on it.
RoundOK ==
    /\ mt \in {"drained", "corking"} => ~active /\ ring = <<>>
    /\ mt \in {"fill", "mixing"} => ~corked
    /\ mt = "mixing" => Len(ring) + chunk.size <= Capacity
    /\ mt # "mixing" => chunk = NoChunk

\* A stream that sleeps has nothing left to play.
SleepsEmpty == corked => ring = <<>> /\ stream = <<>>

\* The device is active when, and only when, a sound plays.
ActiveOK == active <=> Sounding # {}

\* No client is in a call once the destructor runs.
ClosingOK == closing # "no" => lock \notin Clients

IInv ==
    /\ TypeOK
    /\ DeviceOK /\ WakingOK /\ RoundOK /\ ClosingOK
    /\ AwakeWhilePlaying /\ SleepsEmpty

LEMMA InitIInv == Init => IInv
<1> SUFFICES ASSUME Init PROVE IInv
  OBVIOUS
<1>1. PassTypeOK
  <2>1. ops \in 0 .. MaxOps
    BY MaxOpsAssumption DEF Init, PassInit
  <2> QED
    BY <2>1 DEF Init, AInit, PassInit, PassTypeOK
<1>2. /\ ring \in Seq(SUBSET Handles) /\ Len(ring) <= Capacity
      /\ stream \in Seq(SUBSET Handles) /\ Len(stream) <= StreamSize
      /\ chunk \in [size : 0 .. Capacity, sounds : SUBSET Handles]
      /\ requests \in 0 .. MaxRequests
  BY StreamAssumption DEF Init, NoChunk
<1> QED
  BY <1>1, <1>2, MixingThreadsAssumption DEF Init, AInit, PassInit, IInv, TypeOK, DeviceOK, WakingOK,
     RoundOK, ClosingOK, AwakeWhilePlaying, SleepsEmpty

\* A client's call: it keeps the device only if it has to wake the stream.
LEMMA ClientKeepsIInv ==
    ASSUME IInv, NEW c \in Clients, ClientCall(c)
    PROVE  IInv'
<1>1. HandlesTypeOK' /\ ops' \in 0 .. MaxOps
  BY OperationType, StopAllType, BudgetType DEF ClientCall, IInv, TypeOK, PassTypeOK, HandlesTypeOK
<1>2. PassTypeOK' /\ pass' = pass
  BY <1>1 DEF ClientCall, IInv, TypeOK, PassTypeOK, HandlesTypeOK, passVars
<1>3. waking = "no"
  BY MixingThreadsAssumption DEF ClientCall, IInv, DeviceOK, WakingOK
<1>4. mt \notin {"pre", "drained", "corking", "fill", "mixing"} /\ mt' \in {mt, "ready"}
  BY MixingThreadsAssumption DEF ClientCall, IInv, DeviceOK, Notify
<1>5. /\ \/ ~active /\ active' /\ lock' = c /\ waking' = "begun"
         \/ ~(~active /\ active') /\ lock' = lock /\ waking' = waking /\ mt' = mt
      /\ mt' \notin {"pre", "drained", "corking", "fill", "mixing"}
  BY <1>4 DEF ClientCall
<1>6. /\ UNCHANGED <<mainloop, valid, closing, ring, chunk, corked, stream, requests>>
      /\ lock = NoThread /\ closing = "no"
  BY DEF ClientCall, mixingVars
<1>7. TypeOK'
  BY <1>2, <1>4, <1>5, <1>6 DEF IInv, TypeOK
<1> QED
  BY <1>2, <1>3, <1>4, <1>5, <1>6, <1>7, MixingThreadsAssumption DEF IInv, TypeOK, DeviceOK,
     WakingOK, RoundOK, ClosingOK, AwakeWhilePlaying, SleepsEmpty

\* The two steps that wake the stream.
LEMMA WakeKeepsIInv ==
    ASSUME IInv, WakeLock \/ Wake
    PROVE  IInv'
<1>1. PassTypeOK' /\ active' = active /\ pass' = pass
  BY DEF WakeLock, Wake, handleVars, passVars, avars, IInv, TypeOK, PassTypeOK
<1>2. CASE WakeLock
  <2>1. lock \in Clients \/ lock = Mixer
    BY <1>2 DEF WakeLock, IInv, WakingOK, DeviceOK
  <2> QED
    BY <1>1, <1>2, <2>1, MixingThreadsAssumption DEF WakeLock, mixingVars, IInv, TypeOK, DeviceOK,
       WakingOK, RoundOK, ClosingOK, AwakeWhilePlaying, SleepsEmpty
<1>3. CASE Wake
  <2>1. lock \in Clients \/ lock = Mixer
    BY <1>3 DEF Wake, IInv, WakingOK, DeviceOK
  <2>2. lock' = Mixer <=> lock = Mixer
    BY <1>3, MixingThreadsAssumption DEF Wake
  <2>3. mt # "corking" /\ ring' = ring /\ chunk' = chunk /\ mt' = mt
    BY <1>3, <2>1, MixingThreadsAssumption DEF Wake, IInv, WakingOK, DeviceOK, RoundOK
  <2>4. TypeOK'
    BY <1>1, <1>3 DEF Wake, IInv, TypeOK
  <2> QED
    BY <1>1, <1>3, <2>1, <2>2, <2>3, <2>4, MixingThreadsAssumption DEF Wake, IInv, TypeOK, DeviceOK,
       WakingOK, RoundOK, ClosingOK, AwakeWhilePlaying, SleepsEmpty
<1> QED
  BY <1>2, <1>3

\* The steps of the mixing thread outside mix().
LEMMA ThreadKeepsIInv ==
    ASSUME IInv, Relock \/ Leave \/ TakeDevice \/ CorkTest \/ CorkLock \/ Cork \/ Awake \/ Full \/ Wait
    PROVE  IInv'
<1>1. PassTypeOK' /\ active' = active /\ pass' = pass
  BY DEF Relock, Leave, TakeDevice, CorkTest, CorkLock, Cork, Awake, Full, Wait, handleVars, passVars,
     avars, IInv, TypeOK, PassTypeOK
<1>2. 0 \in 0 .. MaxRequests
  BY StreamAssumption
<1> USE DEF IInv, TypeOK, DeviceOK, WakingOK, RoundOK, ClosingOK, AwakeWhilePlaying,
            SleepsEmpty, mixingVars
<1>3. CASE Relock \/ Leave \/ Wait
  BY <1>1, <1>3, MixingThreadsAssumption DEF Relock, Leave, Wait
<1>4. CASE TakeDevice
  BY <1>1, <1>2, <1>4, MixingThreadsAssumption DEF TakeDevice
<1>5. CASE CorkTest
  BY <1>1, <1>5, MixingThreadsAssumption DEF CorkTest, Drained
<1>6. CASE CorkLock
  BY <1>1, <1>6, MixingThreadsAssumption DEF CorkLock
<1>8. CASE Cork
  <2>1. stream' \in Seq(SUBSET Handles) /\ Len(stream') <= StreamSize
    BY <1>8, StreamAssumption DEF Cork
  <2> QED
    BY <1>1, <1>8, <2>1, MixingThreadsAssumption DEF Cork
<1>7. CASE Awake \/ Full
  BY <1>1, <1>7, MixingThreadsAssumption DEF Awake, Full
<1> QED
  BY <1>3, <1>4, <1>5, <1>6, <1>7, <1>8

\* mix() begins: it is told how much space there is.
LEMMA MixKeepsIInv ==
    ASSUME IInv, Mix
    PROVE  IInv'
<1>1. PassTypeOK' /\ pass' = "callbacks" /\ active' = active
  BY MixSoundsType DEF Mix, IInv, TypeOK
<1>2. Len(ring) \in Nat
  BY LenProperties DEF IInv, TypeOK
<1>3. /\ chunk' \in [size : 0 .. Capacity, sounds : SUBSET Handles]
      /\ Len(ring) + chunk'.size <= Capacity
  BY <1>2, StreamAssumption DEF Mix, Sounding
<1> QED
  BY <1>1, <1>3, MixingThreadsAssumption DEF Mix, IInv, TypeOK, DeviceOK, WakingOK, RoundOK, ClosingOK,
     AwakeWhilePlaying, SleepsEmpty

\* mix() calls back and cleans up.
LEMMA MixingKeepsIInv ==
    ASSUME IInv, (\E h \in Handles : MixCallback(h)) \/ MixEnds
    PROVE  IInv'
<1>1. /\ PassTypeOK' /\ pass # "none" /\ pass' # "none"
      /\ pass' = "callbacks" \/ waking' = "no"
  BY CallbackType, PassEndsType DEF MixCallback, MixEnds, threadVars, IInv, TypeOK
<1>2. /\ waking = "no"
      /\ \/ ~active /\ active' /\ waking' = "begun"
         \/ waking' = "no"
      /\ UNCHANGED <<lock, mainloop, mt, closing, valid, ring, chunk, corked, stream, requests>>
  BY DEF MixCallback, MixEnds, threadVars, mixingVars
<1>3. mt = "mixing"
  BY <1>1 DEF IInv, DeviceOK
<1> QED
  BY <1>1, <1>2, <1>3, MixingThreadsAssumption DEF IInv, TypeOK, DeviceOK, WakingOK, RoundOK, ClosingOK,
     AwakeWhilePlaying, SleepsEmpty

\* What was mixed still fits: the backend has only made more space.
LEMMA WriteKeepsIInv ==
    ASSUME IInv, Write
    PROVE  IInv'
<1>1. PassTypeOK' /\ pass' = "none" /\ active' = active
  BY PassDoneType DEF Write, IInv, TypeOK
<1> DEFINE frames == [i \in 1 .. chunk.size |-> chunk.sounds]
<1>2. frames \in Seq(SUBSET Handles) /\ Len(frames) = chunk.size
  BY StreamAssumption DEF IInv, TypeOK
<1>3. ring' = ring \o frames
  BY DEF Write
<1> HIDE DEF frames
<1>4. ring' \in Seq(SUBSET Handles) /\ Len(ring') = Len(ring) + chunk.size
  <2>1. ring \in Seq(SUBSET Handles)
    BY DEF IInv, TypeOK
  <2> QED
    BY <1>2, <1>3, <2>1, ConcatProperties
<1>5. Len(ring') <= Capacity
  BY <1>4 DEF Write, IInv, RoundOK, ClosingOK
<1>6. chunk' \in [size : 0 .. Capacity, sounds : SUBSET Handles]
  BY StreamAssumption DEF Write, NoChunk
<1>7. waking = "no"
  BY PassDoneType DEF Write, IInv, TypeOK, WakingOK
<1> QED
  BY <1>1, <1>4, <1>5, <1>6, <1>7, MixingThreadsAssumption DEF Write, IInv, TypeOK, DeviceOK, WakingOK,
     RoundOK, ClosingOK, AwakeWhilePlaying, SleepsEmpty

\* The backend takes frames out of the ring buffer and notifies.
LEMMA BackendKeepsIInv ==
    ASSUME IInv, BackendLoop
    PROVE  IInv'
<1>1. PassTypeOK' /\ active' = active /\ pass' = pass
  BY DEF BackendLoop, BackendRead, BackendNotify, handleVars, passVars, avars, IInv, TypeOK, PassTypeOK
<1>2. CASE BackendRead
  <2> DEFINE n == IF Len(ring) < Request THEN Len(ring) ELSE Request
  <2>1. ring \in Seq(SUBSET Handles) /\ Len(ring) \in Nat /\ n \in 0 .. Len(ring)
    BY StreamAssumption, LenProperties DEF IInv, TypeOK
  <2>2. ring' = SubSeq(ring, n + 1, Len(ring)) /\ stream' = stream \o SubSeq(ring, 1, n)
    BY <1>2 DEF BackendRead
  <2> HIDE DEF n
  <2>3. ring' \in Seq(SUBSET Handles) /\ Len(ring') = Len(ring) - n
    BY <2>1, <2>2
  <2>4. stream' \in Seq(SUBSET Handles) /\ Len(stream') <= StreamSize
    <3>1. SubSeq(ring, 1, n) \in Seq(SUBSET Handles) /\ Len(SubSeq(ring, 1, n)) = n
      BY <2>1
    <3>2. stream \in Seq(SUBSET Handles) /\ Len(stream) + Request <= StreamSize
      BY <1>2 DEF BackendRead, IInv, TypeOK
    <3>3. n <= Request /\ n \in Nat
      BY <2>1, StreamAssumption DEF n
    <3>4. stream' \in Seq(SUBSET Handles) /\ Len(stream') = Len(stream) + n
      BY <2>2, <3>1, <3>2, ConcatProperties
    <3> QED
      BY <3>2, <3>3, <3>4, StreamAssumption, LenProperties
  <2>5. ring = <<>> => ring' = <<>>
    BY <2>1, <2>3
  <2>6. requests' \in 0 .. MaxRequests
    BY <1>2, StreamAssumption DEF BackendRead, IInv, TypeOK
  <2>7. Len(ring') <= Len(ring)
    BY <2>1, <2>3
  <2>8. /\ UNCHANGED <<lock, mt, valid, waking, closing, chunk, corked>>
        /\ ~corked /\ mainloop = NoThread /\ mainloop' = Backend
    BY <1>2 DEF BackendRead
  <2>9. Len(ring') <= Capacity
    BY <2>1, <2>3, <2>7, StreamAssumption DEF IInv, TypeOK
  <2>10. TypeOK'
    BY <1>1, <2>3, <2>4, <2>6, <2>8, <2>9 DEF IInv, TypeOK
  <2>11. RoundOK'
    <3>1. chunk.size \in Nat
      BY StreamAssumption DEF IInv, TypeOK
    <3>2. mt = "mixing" => Len(ring') + chunk.size <= Capacity
      BY <2>1, <2>3, <2>7, <3>1, StreamAssumption DEF IInv, RoundOK
    <3> QED
      BY <1>1, <2>5, <2>8, <3>2 DEF IInv, RoundOK
  <2> QED
    BY <1>1, <2>5, <2>8, <2>10, <2>11, MixingThreadsAssumption DEF IInv, DeviceOK, WakingOK, ClosingOK,
       AwakeWhilePlaying, SleepsEmpty
<1>3. CASE BackendNotify
  BY <1>1, <1>3, MixingThreadsAssumption DEF BackendNotify, Notify, mixingVars, IInv, TypeOK, DeviceOK, WakingOK,
     RoundOK, ClosingOK, AwakeWhilePlaying, SleepsEmpty
<1> QED
  BY <1>2, <1>3 DEF BackendLoop

\* The server plays a frame.
LEMMA ServerKeepsIInv ==
    ASSUME IInv, ServerPlays
    PROVE  IInv'
<1>1. PassTypeOK' /\ active' = active /\ pass' = pass
  BY DEF ServerPlays, handleVars, passVars, avars, IInv, TypeOK, PassTypeOK
<1>2. stream' \in Seq(SUBSET Handles) /\ Len(stream') <= StreamSize
  BY StreamAssumption, HeadTailProperties DEF ServerPlays, IInv, TypeOK
<1> QED
  BY <1>1, <1>2 DEF ServerPlays, threadVars, IInv, TypeOK, DeviceOK, WakingOK, RoundOK, ClosingOK,
     AwakeWhilePlaying, SleepsEmpty

\* The destructor.
LEMMA CloseKeepsIInv ==
    ASSUME IInv, Close \/ Closing
    PROVE  IInv'
<1>1. CASE Close \/ Invalidate \/ NotifyStop
  <2>1. PassTypeOK' /\ active' = active /\ pass' = pass
    BY <1>1 DEF Close, Invalidate, NotifyStop, handleVars, passVars, avars, IInv, TypeOK, PassTypeOK
  <2>2. /\ mt' = mt \/ (mt = "waiting" /\ mt' = "ready")
        /\ UNCHANGED <<lock, mainloop, waking, mixingVars>>
    BY <1>1 DEF Close, Invalidate, NotifyStop, Notify
  <2>3. closing' # "no" => lock \notin Clients
    BY <1>1, MixingThreadsAssumption DEF Close, Invalidate, NotifyStop, IInv, ClosingOK
  <2>4. /\ closing' \in {"begun", "invalid", "joining"}
        /\ valid' = valid \/ valid' = FALSE
    BY <1>1 DEF Close, Invalidate, NotifyStop
  <2>5. TypeOK'
    <3>1. UNCHANGED <<ring, chunk, corked, stream, requests>>
      BY <2>2 DEF mixingVars
    <3>2. /\ mt' \in {"ready", "test", "pre", "drained", "corking", "fill", "mixing",
                      "unlocked", "waiting", "done"}
          /\ closing' \in {"no", "begun", "invalid", "joining", "destroyed"}
          /\ valid' \in BOOLEAN
      BY <2>2, <2>4 DEF IInv, TypeOK
    <3> QED
      BY <2>1, <2>2, <3>1, <3>2 DEF IInv, TypeOK
  <2> QED
    BY <2>1, <2>2, <2>3, <2>5 DEF mixingVars, IInv, DeviceOK, WakingOK, RoundOK, ClosingOK,
       AwakeWhilePlaying, SleepsEmpty
<1>2. CASE Destroy
  <2>1. HandlesTypeOK' /\ active' = FALSE
    BY <1>2, StopAllType DEF Destroy, IInv, TypeOK, PassTypeOK, HandlesTypeOK
  <2>2. PassTypeOK' /\ pass' = pass
    BY <1>2, <2>1 DEF Destroy, passVars, IInv, TypeOK, PassTypeOK, HandlesTypeOK
  <2>3. waking = "no"
    BY <1>2, MixingThreadsAssumption DEF Destroy, IInv, DeviceOK, WakingOK, ClosingOK
  <2> QED
    BY <1>2, <2>1, <2>2, <2>3, MixingThreadsAssumption DEF Destroy, mixingVars, IInv, TypeOK, DeviceOK,
       WakingOK, RoundOK, ClosingOK, AwakeWhilePlaying, SleepsEmpty
<1> QED
  BY <1>1, <1>2 DEF Closing
------------------------------------------------------------------------------
(* Theorems. *)

\* Every reachable state satisfies the inductive invariant.
THEOREM Invariance == Spec => []IInv
<1>1. Init => IInv
  BY InitIInv
<1>2. IInv /\ [Next]_vars => IInv'
  <2> SUFFICES ASSUME IInv, [Next]_vars PROVE IInv'
    OBVIOUS
  <2>1. CASE UNCHANGED vars
    BY <2>1 DEF vars, handleVars, passVars, avars, threadVars, mixingVars, IInv, TypeOK, PassTypeOK,
       DeviceOK, WakingOK, RoundOK, ClosingOK, AwakeWhilePlaying, SleepsEmpty
  <2> QED
    BY <2>1, ClientKeepsIInv, WakeKeepsIInv, ThreadKeepsIInv, MixKeepsIInv, MixingKeepsIInv,
       WriteKeepsIInv, BackendKeepsIInv, ServerKeepsIInv, CloseKeepsIInv DEF Next, MixingThread, Gone
<1> QED
  BY <1>1, <1>2, PTL DEF Spec

\* Every variable keeps its type: the ring buffer of any size is never overfilled by a
\* mix() that was told its space before the backend read.
THEOREM TypeCorrect == Spec => []TypeOK
BY Invariance, PTL DEF IInv

\* The stream never sleeps while a sound plays, except inside the call that wakes it.
THEOREM StreamIsAwake == Spec => []AwakeWhilePlaying
BY Invariance, PTL DEF IInv

\* The device is active exactly as long as a sound plays, whoever acts on the handles.
LEMMA ActiveInvariance == Spec => []ActiveOK
<1>1. Init => ActiveOK
  BY DEF Init, AInit, ActiveOK, Sounding
<1>2. ActiveOK /\ [Next]_vars => ActiveOK'
  <2> SUFFICES ASSUME ActiveOK, [Next]_vars PROVE ActiveOK'
    OBVIOUS
  <2>1. CASE UNCHANGED avars
    BY <2>1 DEF avars, ActiveOK, Sounding
  <2>2. ASSUME NEW h \in Handles, Operation(h) \/ Finish(h)
        PROVE  ActiveOK'
    BY <2>2 DEF Operation, Start, Pause, Resume, Rearm, Stop, Finish, Becomes, ActiveOK, Sounding
  <2>3. CASE StopAllHandles
    BY <2>3 DEF StopAllHandles, Valid, ActiveOK, Sounding
  <2>4. \/ UNCHANGED avars
        \/ \E h \in Handles : Operation(h) \/ Finish(h)
        \/ StopAllHandles
    <3>1. CASE \E c \in Clients : ClientCall(c)
      BY <3>1 DEF ClientCall
    <3>2. CASE MixEnds
      BY <3>2 DEF MixEnds, CallbacksDone, Cleanup, Operation
    <3>3. CASE \E h \in Handles : MixCallback(h)
      BY <3>3 DEF MixCallback, Callback
    <3>4. CASE Mix \/ Write
      BY <3>4 DEF Mix, MixSounds, Write, PassDone
    <3>5. CASE Destroy
      BY <3>5 DEF Destroy
    <3>6. CASE \/ WakeLock \/ Wake \/ BackendLoop \/ ServerPlays
               \/ Relock \/ Leave \/ TakeDevice \/ CorkTest \/ CorkLock \/ Cork \/ Awake \/ Full \/ Wait
               \/ Close \/ Invalidate \/ NotifyStop \/ UNCHANGED vars
      BY <3>6 DEF WakeLock, Wake, BackendLoop, BackendRead, BackendNotify, ServerPlays, Relock, Leave,
         TakeDevice, CorkTest, CorkLock, Cork, Awake, Full, Wait, Close, Invalidate, NotifyStop, vars,
         handleVars
    <3> QED
      BY <3>1, <3>2, <3>3, <3>4, <3>5, <3>6 DEF Next, MixingThread, Closing, Gone
  <2> QED
    BY <2>1, <2>2, <2>3, <2>4
<1> QED
  BY <1>1, <1>2, PTL DEF Spec

\* Corking leaves nothing behind that would be heard later, and its flush spares every
\* sound that plays: none of them can have been started or resumed since the mixing thread,
\* which holds the device, found the device idle and the ring buffer empty.
THEOREM CorkingSparesWhatPlays == Spec => []NothingLeftBehind
<1>1. IInv /\ ActiveOK => NothingLeftBehind
  <2> SUFFICES ASSUME IInv, ActiveOK PROVE NothingLeftBehind
    OBVIOUS
  <2>1. corked => ring = <<>> /\ stream = <<>>
    BY DEF IInv, SleepsEmpty
  <2>2. ASSUME mt = "corking", NEW i \in DOMAIN stream
        PROVE  ring = <<>> /\ stream[i] \cap Sounding = {}
    BY <2>2 DEF IInv, RoundOK, ActiveOK
  <2>3. mt = "corking" => ring = <<>>
    BY DEF IInv, RoundOK
  <2>4. Len(ring) + chunk.size <= Capacity
    <3>1. CASE mt = "mixing"
      BY <3>1 DEF IInv, RoundOK
    <3>2. CASE mt # "mixing"
      BY <3>2, LenProperties DEF IInv, RoundOK, TypeOK, NoChunk
    <3> QED
      BY <3>1, <3>2
  <2> QED
    BY <2>1, <2>2, <2>3, <2>4 DEF NothingLeftBehind
<1> QED
  BY <1>1, Invariance, ActiveInvariance, PTL
------------------------------------------------------------------------------
(* The ring buffer of any size, for any number of frames.                   *)

\* The hardware keeps the order of stores, and reset() is called, if at all, while no read
\* is in progress.
Conforming == ~Reordering /\ Resets # "any"

Available == ReadSize(m_read, m_write)
Free == WriteSize(m_read, m_write)

\* The reader starts at 0 only until its first store; until then the writer has not
\* reached the end of the buffer, which would look like an empty buffer that is full.
Apart(read, write) == read = 0 => write < Size
------------------------------------------------------------------------------
(* The indices. *)

\* One cell stays free, whatever the two indices are.
LEMMA SizesAddUp ==
    ASSUME NEW r \in Indices, NEW w \in Indices, Apart(r, w)
    PROVE  /\ ReadSize(r, w) \in 0 .. Size - 1
           /\ WriteSize(r, w) \in 0 .. Size - 1
           /\ ReadSize(r, w) + WriteSize(r, w) = Size - 1
BY SizeAssumption DEF ReadSize, WriteSize, Indices, Apart

\* The cells of one lap are different.
LEMMA CellInjective ==
    ASSUME NEW i \in Indices, NEW j \in 0 .. Size - 1, NEW k \in 0 .. Size - 1
    PROVE  Cell(i, j) \in Cells /\ (Cell(i, j) = Cell(i, k) => j = k)
BY SizeAssumption DEF Cell, Cells, Indices

\* The cells to write follow the cells to read.
LEMMA WriteFollowsRead ==
    ASSUME NEW r \in Indices, NEW w \in Indices, Apart(r, w),
           NEW k \in 0 .. WriteSize(r, w) - 1
    PROVE  Cell(w, k) = Cell(r, ReadSize(r, w) + k)
BY SizeAssumption DEF Cell, ReadSize, WriteSize, Indices, Apart

\* A write of n frames makes n more of them available.
LEMMA MoveWrite ==
    ASSUME NEW r \in Indices, NEW w \in Indices, Apart(r, w),
           NEW n \in 1 .. WriteSize(r, w)
    PROVE  /\ Moved(w, w, n) \in Indices
           /\ Apart(r, Moved(w, w, n))
           /\ ReadSize(r, Moved(w, w, n)) = ReadSize(r, w) + n
           /\ WriteSize(r, Moved(w, w, n)) = WriteSize(r, w) - n
BY SizeAssumption DEF Moved, ReadSize, WriteSize, Indices, Apart

\* A read of n frames leaves the others where they are.
LEMMA MoveRead ==
    ASSUME NEW r \in Indices, NEW w \in Indices, Apart(r, w),
           NEW n \in 1 .. ReadSize(r, w)
    PROVE  /\ Moved(r, r, n) \in Indices
           /\ Apart(Moved(r, r, n), w)
           /\ ReadSize(Moved(r, r, n), w) = ReadSize(r, w) - n
           /\ WriteSize(Moved(r, r, n), w) = WriteSize(r, w) + n
           /\ \A k \in 0 .. ReadSize(r, w) - n - 1 : Cell(Moved(r, r, n), k) = Cell(r, n + k)
BY SizeAssumption DEF Cell, Moved, ReadSize, WriteSize, Indices, Apart
------------------------------------------------------------------------------
(* The inductive invariant. *)

Types ==
    /\ m_read \in Indices
    /\ m_write \in Indices
    /\ Apart(m_read, m_write)
    /\ buffer \in [Cells -> Nat]
    /\ written \in Nat
    /\ taken \in Nat
    /\ target \in Seq(Nat)
    /\ written = taken + Available

\* A call in progress works on cells that are its own: a write on free ones, a read
\* on available ones.  A call that has stored its index is over.
WriterOK ==
    /\ writer \in Call
    /\ ~writer.busy => writer = NoCall
    /\ writer.busy => /\ ~writer.stored
                      /\ writer.start = m_write
                      /\ writer.size \in 1 .. Free
                      /\ writer.done \in 0 .. writer.size

ReaderOK ==
    /\ reader \in Call
    /\ ~reader.busy => reader = NoCall
    /\ reader.busy => /\ ~reader.stored
                      /\ reader.start = m_read
                      /\ reader.size \in 1 .. Available
                      /\ reader.done \in 0 .. reader.size
                      /\ reader.done = Len(target)

\* The available cells hold the next frames, those a write has copied the ones after.
DataOK == \A k \in 0 .. Available - 1 : buffer[Cell(m_read, k)] = taken + k + 1

PartOK == writer.busy =>
    \A k \in 0 .. writer.done - 1 : buffer[Cell(m_write, k)] = written + k + 1

TargetOK == reader.busy => \A i \in 1 .. Len(target) : target[i] = taken + i

RingInv == Types /\ WriterOK /\ ReaderOK /\ DataOK /\ PartOK /\ TargetOK
------------------------------------------------------------------------------
(* Every step keeps it. *)

\* An empty buffer nobody works on satisfies the invariant.
LEMMA RingInitInv == RingInit => RingInv
<1> SUFFICES ASSUME RingInit PROVE RingInv
  OBVIOUS
<1>1. m_read \in Indices /\ m_write \in Indices /\ Available = 0
  BY SizeAssumption DEF RingInit, Indices, Available, ReadSize
<1>2. Types
  BY <1>1, SizeAssumption, EmptySeq DEF RingInit, Types, Apart
<1>3. NoCall \in Call
  BY SizeAssumption DEF NoCall, Call, Indices
<1> QED
  BY <1>1, <1>2, <1>3 DEF RingInit, NoCall, RingInv, WriterOK, ReaderOK, DataOK, PartOK, TargetOK

\* A write fixes its cells among the free ones.
LEMMA WriteBeginKeeps ==
    ASSUME RingInv, NEW n \in 1 .. Size, WriteBegin(n)
    PROVE  RingInv'
<1>1. Available \in 0 .. Size - 1 /\ Free \in 0 .. Size - 1
  BY SizesAddUp DEF RingInv, Types, Available, Free
<1>2. WriterOK' /\ writer'.done = 0
  BY <1>1, SizeAssumption DEF RingInv, Types, WriterOK, WriteBegin, Least, Free, Call, Indices
<1>3. Types' /\ ReaderOK' /\ DataOK' /\ TargetOK'
  BY DEF RingInv, Types, ReaderOK, DataOK, TargetOK, WriteBegin, Available
<1> QED
  BY <1>2, <1>3 DEF RingInv, PartOK

\* A copied cell is free and follows those the write has already copied.
LEMMA WriteCopyKeeps ==
    ASSUME RingInv, WriteCopy
    PROVE  RingInv'
<1> DEFINE c == Cell(m_write, writer.done)
<1>1. Available \in 0 .. Size - 1 /\ Free \in 0 .. Size - 1 /\ Available + Free = Size - 1
  BY SizesAddUp DEF RingInv, Types, Available, Free
<1>2. /\ writer.busy /\ ~writer.stored /\ writer.start = m_write
      /\ writer.size \in 1 .. Free /\ writer.done \in 0 .. writer.size - 1
      /\ m_read \in Indices /\ m_write \in Indices /\ Apart(m_read, m_write)
  BY DEF RingInv, WriterOK, WriteCopy, Types
<1>3. c \in Cells /\ buffer' = [buffer EXCEPT ![c] = written + writer.done + 1]
  BY <1>1, <1>2, CellInjective DEF WriteCopy
<1>4. writer' = [writer EXCEPT !.done = writer.done + 1]
  BY <1>2 DEF WriteCopy, Rest, RingInv, WriterOK, Call
<1>5. c = Cell(m_read, Available + writer.done)
  BY <1>1, <1>2, WriteFollowsRead DEF Available, Free
<1>6. buffer' \in [Cells -> Nat] /\ \A d \in Cells \ {c} : buffer'[d] = buffer[d]
  BY <1>2, <1>3 DEF RingInv, Types
<1>7. Types'
  BY <1>6 DEF RingInv, Types, WriteCopy, Available
<1>8. WriterOK'
  <2>1. writer.done + 1 \in 0 .. writer.size /\ writer.done + 1 \in Indices
    BY <1>1, <1>2, SizeAssumption DEF Indices
  <2>2. writer \in Call
    BY DEF RingInv, WriterOK
  <2>3. writer' \in Call /\ writer'.busy /\ ~writer'.stored /\ writer'.start = writer.start
        /\ writer'.size = writer.size /\ writer'.done = writer.done + 1
    BY <1>2, <1>4, <2>1, <2>2 DEF Call
  <2>4. m_write' = m_write /\ Free' = Free
    BY DEF WriteCopy, Free
  <2> QED
    BY <1>2, <2>1, <2>3, <2>4 DEF WriterOK
<1>9. DataOK'
  <2> SUFFICES ASSUME NEW k \in 0 .. Available - 1
               PROVE  buffer'[Cell(m_read, k)] = taken + k + 1
    BY DEF DataOK, Available, WriteCopy
  <2>1. Cell(m_read, k) \in Cells \ {c}
    BY <1>1, <1>2, <1>5, CellInjective
  <2> QED
    BY <1>6, <2>1 DEF RingInv, DataOK
<1>10. PartOK'
  <2> SUFFICES ASSUME NEW k \in 0 .. writer.done
               PROVE  buffer'[Cell(m_write, k)] = written + k + 1
    BY <1>2, <1>4 DEF PartOK, WriteCopy, RingInv, WriterOK, Call
  <2>1. CASE k = writer.done
    BY <1>3, <2>1 DEF RingInv, Types
  <2>2. CASE k # writer.done
    <3>1. Cell(m_write, k) \in Cells \ {c}
      BY <1>1, <1>2, <2>2, CellInjective
    <3> QED
      BY <1>2, <1>6, <2>2, <3>1 DEF RingInv, PartOK
  <2> QED
    BY <2>1, <2>2
<1> QED
  BY <1>7, <1>8, <1>9, <1>10 DEF RingInv, ReaderOK, TargetOK, WriteCopy, Available

\* A finished write hands its cells over.
LEMMA WriteStoreKeeps ==
    ASSUME RingInv, Conforming, WriteStore
    PROVE  /\ RingInv'
           /\ written' = written + writer.size /\ taken' = taken
           /\ writer.size \in 1 .. Size - 1
<1>1. Available \in 0 .. Size - 1 /\ Free \in 0 .. Size - 1
  BY SizesAddUp DEF RingInv, Types, Available, Free
<1>2. /\ writer.busy /\ writer.start = m_write /\ writer.done = writer.size
      /\ writer.size \in 1 .. Free
      /\ m_read \in Indices /\ m_write \in Indices /\ Apart(m_read, m_write)
  BY DEF RingInv, WriterOK, WriteStore, Types, Conforming
<1>3. /\ m_write' = Moved(m_write, m_write, writer.size) /\ m_read' = m_read
      /\ writer' = NoCall /\ written' = written + writer.size
      /\ buffer' = buffer /\ reader' = reader /\ taken' = taken /\ target' = target
  BY <1>2 DEF WriteStore, Rest, RingInv, WriterOK, Call
<1>4. /\ m_write' \in Indices /\ Apart(m_read, m_write')
      /\ Available' = Available + writer.size
  BY <1>2, <1>3, MoveWrite DEF Available, Free
<1>5. Types'
  BY <1>1, <1>2, <1>3, <1>4 DEF RingInv, Types
<1>6. WriterOK' /\ PartOK'
  BY <1>3, SizeAssumption DEF WriterOK, PartOK, NoCall, Call, Indices
<1>7. ReaderOK' /\ TargetOK'
  BY <1>1, <1>2, <1>3, <1>4 DEF RingInv, ReaderOK, TargetOK
<1>8. DataOK'
  <2> SUFFICES ASSUME NEW k \in 0 .. Available' - 1
               PROVE  buffer'[Cell(m_read', k)] = taken' + k + 1
    BY DEF DataOK
  <2> k \in 0 .. Available + writer.size - 1
    BY <1>1, <1>2, <1>4
  <2>1. CASE k < Available
    <3>1. k \in 0 .. Available - 1
      BY <1>1, <1>2, <2>1
    <3> QED
      BY <1>3, <3>1 DEF RingInv, DataOK
  <2>2. CASE k >= Available
    <3>1. k - Available \in 0 .. writer.size - 1
      BY <1>1, <1>2, <2>2
    <3>2. Cell(m_write, k - Available) = Cell(m_read, Available + (k - Available))
      BY <1>1, <1>2, <3>1, WriteFollowsRead DEF Available, Free
    <3>3. buffer[Cell(m_write, k - Available)] = written + (k - Available) + 1
      BY <1>2, <3>1 DEF RingInv, PartOK
    <3>4. Available + (k - Available) = k /\ written + (k - Available) + 1 = taken + k + 1
      BY <1>1, <1>2 DEF RingInv, Types
    <3> QED
      BY <1>3, <3>2, <3>3, <3>4
  <2> QED
    BY <1>1, <1>2, <2>1, <2>2
<1>9. writer.size \in 1 .. Size - 1
  BY <1>1, <1>2, SizeAssumption
<1> QED
  BY <1>3, <1>5, <1>6, <1>7, <1>8, <1>9 DEF RingInv

\* A read fixes its cells among the available ones.
LEMMA ReadBeginKeeps ==
    ASSUME RingInv, NEW n \in 1 .. Size, ReadBegin(n)
    PROVE  RingInv'
<1>1. Available \in 0 .. Size - 1 /\ Free \in 0 .. Size - 1
  BY SizesAddUp DEF RingInv, Types, Available, Free
<1>2. target' \in Seq(Nat) /\ Len(target') = 0
  BY EmptySeq DEF ReadBegin
<1>3. ReaderOK'
  BY <1>1, <1>2, SizeAssumption DEF RingInv, Types, ReaderOK, ReadBegin, Least, Available, Call, Indices
<1>4. Types' /\ TargetOK'
  BY <1>2 DEF RingInv, Types, TargetOK, ReadBegin, Available
<1> QED
  BY <1>3, <1>4 DEF RingInv, WriterOK, DataOK, PartOK, ReadBegin, Available, Free

\* The copied frame is the next one.
LEMMA ReadCopyKeeps ==
    ASSUME RingInv, ReadCopy
    PROVE  RingInv'
<1>1. Available \in 0 .. Size - 1 /\ Free \in 0 .. Size - 1
  BY SizesAddUp DEF RingInv, Types, Available, Free
<1>2. /\ reader.busy /\ ~reader.stored /\ reader.start = m_read
      /\ reader.size \in 1 .. Available /\ reader.done \in 0 .. reader.size - 1
      /\ reader.done = Len(target) /\ m_read \in Indices
  BY DEF RingInv, ReaderOK, ReadCopy, Types
<1> DEFINE f == buffer[Cell(m_read, reader.done)]
<1>3. f = taken + reader.done + 1 /\ f \in Nat
  BY <1>1, <1>2 DEF RingInv, DataOK, Types
<1>4. target' = Append(target, f)
  BY <1>2 DEF ReadCopy
<1>5. /\ target' \in Seq(Nat) /\ Len(target') = Len(target) + 1
      /\ target'[Len(target) + 1] = f
      /\ \A i \in 1 .. Len(target) : target'[i] = target[i]
  <2>1. target \in Seq(Nat)
    BY DEF RingInv, Types
  <2> QED
    BY <1>3, <1>4, <2>1, AppendProperties
<1>6. reader' = [reader EXCEPT !.done = reader.done + 1]
  BY <1>2 DEF ReadCopy, Rest, RingInv, ReaderOK, Call
<1>7. ReaderOK'
  <2>1. reader.done + 1 \in 0 .. reader.size /\ reader.done + 1 \in Indices
    BY <1>1, <1>2, SizeAssumption DEF Indices
  <2>2. reader \in Call
    BY DEF RingInv, ReaderOK
  <2>3. reader' \in Call /\ reader'.busy /\ ~reader'.stored /\ reader'.start = reader.start
        /\ reader'.size = reader.size /\ reader'.done = reader.done + 1
    BY <1>2, <1>6, <2>1, <2>2 DEF Call
  <2>4. m_read' = m_read /\ Available' = Available
    BY DEF ReadCopy, Available
  <2> QED
    BY <1>2, <1>5, <2>1, <2>3, <2>4 DEF ReaderOK
<1>8. TargetOK'
  <2> SUFFICES ASSUME NEW i \in 1 .. Len(target) + 1 PROVE target'[i] = taken + i
    BY <1>2, <1>5, <1>6 DEF TargetOK, ReadCopy
  <2> HIDE DEF f
  <2>1. CASE i = Len(target) + 1
    BY <1>2, <1>3, <1>5, <2>1 DEF RingInv, Types
  <2>2. CASE i # Len(target) + 1
    <3>1. i \in 1 .. Len(target)
      BY <1>2, <2>2
    <3> QED
      BY <1>2, <1>5, <3>1 DEF RingInv, TargetOK
  <2> QED
    BY <2>1, <2>2
<1> QED
  BY <1>5, <1>7, <1>8 DEF RingInv, Types, WriterOK, DataOK, PartOK, ReadCopy, Available, Free

\* A finished read frees its cells.
LEMMA ReadStoreKeeps ==
    ASSUME RingInv, Conforming, ReadStore
    PROVE  /\ RingInv'
           /\ taken' = taken + reader.size /\ written' = written
           /\ reader.size \in 1 .. Available
<1>1. Available \in 0 .. Size - 1 /\ Free \in 0 .. Size - 1
  BY SizesAddUp DEF RingInv, Types, Available, Free
<1>2. /\ reader.busy /\ reader.start = m_read /\ reader.done = reader.size
      /\ reader.size \in 1 .. Available
      /\ m_read \in Indices /\ m_write \in Indices /\ Apart(m_read, m_write)
  BY DEF RingInv, ReaderOK, ReadStore, Types, Conforming
<1>3. /\ m_read' = Moved(m_read, m_read, reader.size) /\ m_write' = m_write
      /\ reader' = NoCall /\ taken' = taken + reader.size
      /\ buffer' = buffer /\ writer' = writer /\ written' = written /\ target' = target
  BY <1>2 DEF ReadStore, Rest, RingInv, ReaderOK, Call
<1>4. /\ m_read' \in Indices /\ Apart(m_read', m_write)
      /\ Available' = Available - reader.size /\ Free' = Free + reader.size
      /\ \A k \in 0 .. Available - reader.size - 1 :
            Cell(m_read', k) = Cell(m_read, reader.size + k)
  BY <1>2, <1>3, MoveRead DEF Available, Free
<1>5. Types'
  <2>1. taken' \in Nat /\ written' = taken' + Available'
    BY <1>1, <1>2, <1>3, <1>4, SizeAssumption DEF RingInv, Types
  <2> QED
    BY <1>3, <1>4, <2>1 DEF RingInv, Types
<1>6. ReaderOK' /\ TargetOK'
  BY <1>3, SizeAssumption DEF ReaderOK, TargetOK, NoCall, Call, Indices
<1>7. WriterOK' /\ PartOK'
  BY <1>1, <1>2, <1>3, <1>4 DEF RingInv, WriterOK, PartOK
<1>8. DataOK'
  <2> SUFFICES ASSUME NEW k \in 0 .. Available - reader.size - 1
               PROVE  buffer[Cell(m_read', k)] = taken + reader.size + k + 1
    BY <1>3, <1>4 DEF DataOK
  <2>1. reader.size + k \in 0 .. Available - 1
    BY <1>1, <1>2
  <2>2. buffer[Cell(m_read, reader.size + k)] = taken + (reader.size + k) + 1
    BY <2>1 DEF RingInv, DataOK
  <2> QED
    BY <1>2, <1>4, <2>2 DEF RingInv, Types
<1> QED
  BY <1>2, <1>3, <1>5, <1>6, <1>7, <1>8 DEF RingInv

\* reset() while nobody works on the buffer empties it.
LEMMA ResetKeeps ==
    ASSUME RingInv, Conforming, Reset
    PROVE  RingInv' /\ Available' = 0
<1>1. ~writer.busy /\ ~reader.busy
  BY FlagsAssumption DEF Reset, Conforming
<1>2. m_read' \in Indices /\ m_write' \in Indices /\ Available' = 0
  BY SizeAssumption DEF Reset, Indices, Available, ReadSize
<1>3. Types'
  BY <1>2, SizeAssumption DEF RingInv, Types, Reset, Apart
<1> QED
  BY <1>1, <1>2, <1>3 DEF RingInv, WriterOK, ReaderOK, DataOK, PartOK, TargetOK, Reset

\* All steps together.
LEMMA RingNextKeeps ==
    ASSUME RingInv, Conforming, [RingNext]_ringVars
    PROVE  RingInv'
<1>1. CASE UNCHANGED ringVars
  BY <1>1 DEF ringVars, RingInv, Types, WriterOK, ReaderOK, DataOK, PartOK, TargetOK, Available, Free
<1> QED
  BY <1>1, WriteBeginKeeps, WriteCopyKeeps, WriteStoreKeeps, ReadBeginKeeps, ReadCopyKeeps,
     ReadStoreKeeps, ResetKeeps DEF RingNext, Writer, Reader
------------------------------------------------------------------------------
(* Theorems. *)

\* Every reachable state of a conforming buffer satisfies the inductive invariant.
THEOREM RingInvariance == Conforming => (RingSpec => []RingInv)
<1> SUFFICES ASSUME Conforming PROVE RingSpec => []RingInv
  OBVIOUS
<1>1. RingInv /\ [RingNext]_ringVars => RingInv'
  BY RingNextKeeps
<1> QED
  BY <1>1, RingInitInv, PTL DEF RingSpec

\* Every variable keeps its type; an index stays within the buffer or just behind it.
THEOREM RingTypeCorrect == Conforming => (RingSpec => []RingTypeOK)
<1>1. RingInv => RingTypeOK
  BY DEF RingInv, Types, WriterOK, ReaderOK, RingTypeOK
<1> QED
  BY <1>1, RingInvariance, PTL

\* Writer and reader never have the same cell to copy.
THEOREM CopiesDoNotOverlap == Conforming => (RingSpec => []NoOverlap)
<1>1. RingInv => NoOverlap
  <2> SUFFICES ASSUME RingInv, NEW c \in Pending(writer), c \in Pending(reader) PROVE FALSE
    BY DEF NoOverlap
  <2>1. PICK j \in writer.done .. writer.size - 1 : c = Cell(writer.start, j)
    BY DEF Pending
  <2>2. PICK k \in reader.done .. reader.size - 1 : c = Cell(reader.start, k)
    BY DEF Pending
  <2>3. writer.busy /\ reader.busy
    BY <2>1, <2>2 DEF RingInv, WriterOK, ReaderOK, NoCall
  <2>4. /\ Available \in 0 .. Size - 1 /\ Free \in 0 .. Size - 1
        /\ Available + Free = Size - 1
    BY SizesAddUp DEF RingInv, Types, Available, Free
  <2>5. /\ writer.start = m_write /\ reader.start = m_read
        /\ j \in 0 .. Free - 1 /\ k \in 0 .. Available - 1
    BY <2>3, <2>4, SizeAssumption DEF RingInv, WriterOK, ReaderOK
  <2>6. Cell(m_read, Available + j) = Cell(m_read, k)
    BY <2>1, <2>2, <2>5, WriteFollowsRead DEF RingInv, Types, Available, Free
  <2>7. Available + j \in 0 .. Size - 1 /\ k \in 0 .. Size - 1
    BY <2>4, <2>5, SizeAssumption
  <2>8. Available + j = k
    BY <2>6, <2>7, CellInjective DEF RingInv, Types
  <2> QED
    BY <2>4, <2>5, <2>8, SizeAssumption
<1> QED
  BY <1>1, RingInvariance, PTL

\* A read hands out the next frames in their order.
THEOREM FramesInOrder == Conforming => (RingSpec => []InOrder)
<1>1. RingInv => InOrder
  BY DEF RingInv, ReaderOK, TargetOK, InOrder
<1> QED
  BY <1>1, RingInvariance, PTL

\* The indices announce exactly the frames that were written and not read.
THEOREM IndicesTellTheTruth == Conforming => (RingSpec => []OnlyWrittenFrames)
<1>1. RingInv => OnlyWrittenFrames
  <2> SUFFICES ASSUME RingInv PROVE OnlyWrittenFrames
    OBVIOUS
  <2>1. Available \in 0 .. Size - 1 /\ written = taken + Available /\ taken \in Nat
    BY SizesAddUp DEF RingInv, Types, Available
  <2>2. written - taken = Available
    BY <2>1, SizeAssumption
  <2> QED
    BY <2>2 DEF OnlyWrittenFrames, Available
<1> QED
  BY <1>1, RingInvariance, PTL

\* What the two sides do without a lock never meets, comes out in order and is
\* announced truthfully.
THEOREM CopiesRight == Conforming => (RingSpec => []CopiesAreRight)
<1>1. NoOverlap /\ InOrder /\ OnlyWrittenFrames => CopiesAreRight
  BY DEF CopiesAreRight
<1> QED
  BY <1>1, CopiesDoNotOverlap, FramesInOrder, IndicesTellTheTruth, PTL
------------------------------------------------------------------------------
(* Refinement. *)

\* n frames from the first on.
Numbered(first, n) == [i \in 1 .. n |-> first + i - 1]

\* The numbers of consecutive frames put together and taken apart.
LEMMA NumberedConcat ==
    ASSUME NEW f \in Nat, NEW a \in Nat, NEW n \in Nat
    PROVE  Numbered(f, a) \o Numbered(f + a, n) = Numbered(f, a + n)
<1> DEFINE s == Numbered(f, a)
           t == Numbered(f + a, n)
           u == Numbered(f, a + n)
<1>1. s \in Seq(Int) /\ t \in Seq(Int) /\ u \in Seq(Int)
  BY DEF Numbered
<1>2. Len(s) = a /\ Len(t) = n /\ Len(u) = a + n
  BY DEF Numbered
<1>3. /\ \A i \in 1 .. a : s[i] = f + i - 1
      /\ \A i \in 1 .. n : t[i] = f + a + i - 1
      /\ \A i \in 1 .. a + n : u[i] = f + i - 1
  BY DEF Numbered
<1> HIDE DEF s, t, u
<1>4. /\ s \o t \in Seq(Int) /\ Len(s \o t) = a + n
      /\ \A i \in 1 .. a + n : (s \o t)[i] = IF i <= a THEN s[i] ELSE t[i - a]
  BY <1>1, <1>2, ConcatProperties
<1>5. ASSUME NEW i \in 1 .. a + n PROVE (s \o t)[i] = u[i]
  <2>1. CASE i <= a
    <3>1. i \in 1 .. a
      BY <2>1
    <3> QED
      BY <1>3, <1>4, <2>1, <3>1
  <2>2. CASE ~(i <= a)
    <3>1. i - a \in 1 .. n
      BY <2>2
    <3>2. (s \o t)[i] = t[i - a]
      BY <1>4, <2>2
    <3>3. t[i - a] = f + a + (i - a) - 1
      BY <1>3, <3>1
    <3> QED
      BY <1>3, <3>2, <3>3
  <2> QED
    BY <2>1, <2>2
<1>6. s \o t = u
  BY <1>1, <1>2, <1>4, <1>5, SeqEqual
<1> QED
  BY <1>6 DEF s, t, u

\* What is left of consecutive frames without the first n.
LEMMA NumberedTail ==
    ASSUME NEW f \in Nat, NEW a \in Nat, NEW n \in 0 .. a
    PROVE  SubSeq(Numbered(f, a), n + 1, a) = Numbered(f + n, a - n)
BY DEF Numbered

\* The contents of the buffer are the consecutive frames that were not read.
ContentsOK ==
    /\ Contents = Numbered(taken + 1, Available)
    /\ Available \in 0 .. Size - 1
    /\ taken \in Nat /\ written \in Nat
    /\ Available = written - taken

LEMMA ContentsAreNumbered == RingInv => ContentsOK
<1> SUFFICES ASSUME RingInv PROVE ContentsOK
  OBVIOUS
<1>1. /\ Available \in 0 .. Size - 1 /\ taken \in Nat /\ written \in Nat
      /\ Available = written - taken
  BY SizesAddUp, SizeAssumption DEF RingInv, Types, Available
<1>2. ASSUME NEW i \in 1 .. Available
      PROVE  buffer[Cell(m_read, i - 1)] = taken + 1 + i - 1
  <2>1. i - 1 \in 0 .. Available - 1
    BY <1>1
  <2>2. buffer[Cell(m_read, i - 1)] = taken + (i - 1) + 1
    BY <2>1 DEF RingInv, DataOK
  <2> QED
    BY <1>1, <2>2
<1>3. Contents = [i \in 1 .. Available |-> buffer[Cell(m_read, i - 1)]]
  BY DEF Contents, Available
<1> HIDE DEF Available
<1>4. Contents = Numbered(taken + 1, Available)
  BY <1>2, <1>3 DEF Numbered
<1> QED
  BY <1>1, <1>4 DEF ContentsOK

\* Every step of a conforming buffer is a step of the queue, or none.
LEMMA StepRefines ==
    ASSUME RingInv, Conforming, [RingNext]_ringVars
    PROVE  [Queue!QNext]_<<Contents, written + 1>>
<1>1. RingInv'
  BY RingNextKeeps
<1>2. /\ Contents = Numbered(taken + 1, Available)
      /\ Available \in 0 .. Size - 1 /\ taken \in Nat /\ written \in Nat
      /\ Available = written - taken
  BY ContentsAreNumbered DEF ContentsOK
<1>3. /\ Contents' = Numbered(taken' + 1, Available')
      /\ Available' \in 0 .. Size - 1 /\ taken' \in Nat /\ written' \in Nat
      /\ Available' = written' - taken'
  <2>1. RingInv' => ContentsOK'
    BY ContentsAreNumbered, PTL
  <2> QED
    BY <1>1, <2>1 DEF ContentsOK
<1>4. Len(Contents) = Available
  BY <1>2, SizeAssumption DEF Numbered
<1> DEFINE a == Available
           b == Available'
<1>a. a \in Int /\ b \in Int /\ taken \in Int /\ taken' \in Int
  BY <1>2, <1>3, SizeAssumption
<1>b. a = written - taken /\ b = written' - taken' /\ written \in Int /\ written' \in Int
  BY <1>2, <1>3
<1>5. ASSUME UNCHANGED <<taken, written>>
      PROVE  UNCHANGED <<Contents, written + 1>>
  <2>1. b = a
    BY <1>b, <1>5
  <2> QED
    BY <1>2, <1>3, <1>5, <2>1
<1>6. CASE WriteStore
  <2> DEFINE n == writer.size
  <2>1. written' = written + n /\ taken' = taken /\ n \in 1 .. Size - 1
    BY <1>6, WriteStoreKeeps
  <2>2. b = a + n
    BY <1>a, <1>b, <2>1, SizeAssumption
  <2>3. Contents' = Contents \o Numbered((taken + 1) + Available, n)
    <3>1. taken + 1 \in Nat /\ a \in Nat /\ n \in Nat
      BY <1>2, <2>1, SizeAssumption
    <3>2. Numbered(taken + 1, a) \o Numbered((taken + 1) + a, n) = Numbered(taken + 1, a + n)
      BY <3>1, NumberedConcat
    <3> QED
      BY <1>2, <1>3, <2>1, <2>2, <3>2
  <2>4. Queue!Frames(n) = Numbered((taken + 1) + Available, n)
    BY <1>2 DEF Queue!Frames, Numbered
  <2>5. Len(Contents) + n <= Size - 1 /\ written' + 1 = written + 1 + n
    BY <1>2, <1>3, <1>4, <2>1, <2>2, SizeAssumption DEF RingInv, Types
  <2>6. Queue!Put(n)
    BY <2>3, <2>4, <2>5 DEF Queue!Put
  <2> QED
    BY <2>1, <2>6 DEF Queue!QNext
<1>7. CASE ReadStore
  <2> DEFINE n == reader.size
  <2>1. taken' = taken + n /\ written' = written /\ n \in 1 .. Available
    BY <1>7, ReadStoreKeeps
  <2>2. b = a - n /\ taken' + 1 = taken + 1 + n
    BY <1>a, <1>b, <2>1, SizeAssumption
  <2>3. Contents' = SubSeq(Contents, n + 1, Len(Contents))
    <3>1. taken + 1 \in Nat /\ a \in Nat /\ n \in 0 .. a
      BY <1>2, <2>1, SizeAssumption
    <3>2. SubSeq(Numbered(taken + 1, a), n + 1, a) = Numbered(taken + 1 + n, a - n)
      BY <3>1, NumberedTail
    <3> QED
      BY <1>2, <1>3, <1>4, <2>2, <3>2
  <2>4. n <= Len(Contents) /\ n \in 1 .. Size - 1
    BY <1>2, <1>4, <2>1, SizeAssumption
  <2>5. Queue!Take(n)
    BY <2>1, <2>3, <2>4 DEF Queue!Take
  <2> QED
    BY <2>4, <2>5 DEF Queue!QNext
<1>8. CASE Reset
  <2>1. b = 0 /\ written' = 0
    BY <1>8, <1>b, <1>a DEF Reset
  <2>2. Contents' = Numbered(taken' + 1, 0)
    BY <1>3, <2>1
  <2>3. Numbered(taken' + 1, 0) = <<>>
    BY DEF Numbered
  <2>4. Queue!Clear
    BY <2>1, <2>2, <2>3 DEF Queue!Clear
  <2> QED
    BY <2>4 DEF Queue!QNext
<1>9. CASE UNCHANGED ringVars
  BY <1>5, <1>9 DEF ringVars
<1>10. CASE WriteCopy \/ ReadCopy \/ \E n \in 1 .. Size : WriteBegin(n) \/ ReadBegin(n)
  BY <1>5, <1>10 DEF WriteCopy, ReadCopy, WriteBegin, ReadBegin
<1> QED
  BY <1>6, <1>7, <1>8, <1>9, <1>10 DEF RingNext, Writer, Reader

\* A conforming ring buffer implements a bounded first-in first-out queue: whatever
\* the lengths of the calls and wherever they wrap, no frame is lost, repeated,
\* overtaken or invented.
THEOREM Refinement == Conforming => (RingSpec => ImplementsQueue)
<1> SUFFICES ASSUME Conforming PROVE RingSpec => ImplementsQueue
  OBVIOUS
<1>1. RingInit => Queue!QInit
  <2> SUFFICES ASSUME RingInit PROVE Contents = <<>> /\ written + 1 = 1
    BY DEF Queue!QInit
  <2>1. ReadSize(m_read, m_write) = 0
    BY DEF RingInit, ReadSize
  <2> QED
    BY <2>1 DEF RingInit, Contents
<1>2. RingInv /\ [RingNext]_ringVars => [Queue!QNext]_<<Contents, written + 1>>
  BY StepRefines
<1> QED
  BY <1>1, <1>2, RingInvariance, PTL DEF RingSpec, ImplementsQueue, Queue!QSpec
=============================================================================
