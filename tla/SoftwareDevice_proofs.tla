------------------------- MODULE SoftwareDevice_proofs -------------------------
(***************************************************************************)
(* Theorems about SoftwareDevice for any number of handles and clients,    *)
(* any sounds and any bound on the calls, and with every client free to    *)
(* call setLoopCount() without the device mutex.                           *)
(***************************************************************************)
EXTENDS SoftwareDevice, SequenceTheorems, TLAPS

\* Erasing a handle from a list without duplicates removes exactly that handle.
LEMMA EraseRemoves ==
    ASSUME NEW S, NEW s \in Seq(S), Distinct(s), NEW h
    PROVE  /\ Erase(s, h) \in Seq(S)
           /\ Distinct(Erase(s, h))
           /\ Range(Erase(s, h)) = Range(s) \ {h}
<1>1. CASE h \notin Range(s)
  BY <1>1 DEF Erase
<1>2. CASE h \in Range(s)
  <2> DEFINE k == IndexOf(s, h)
             e == [i \in 1 .. Len(s) - 1 |-> IF i < k THEN s[i] ELSE s[i + 1]]
  <2>1. Len(s) \in Nat /\ DOMAIN s = 1 .. Len(s) /\ \A i \in 1 .. Len(s) : s[i] \in S
    BY LenProperties, ElementOfSeq
  <2>2. k \in 1 .. Len(s) /\ s[k] = h
    BY <1>2, <2>1 DEF IndexOf, Range
  <2>3. Erase(s, h) = e
    BY <1>2 DEF Erase
  <2> HIDE DEF k
  <2>4. Len(s) - 1 \in Nat
    BY <2>1, <2>2
  <2>5. \A i \in 1 .. Len(s) - 1 : e[i] \in S
    BY <2>1, <2>2
  <2>6. e \in Seq(S)
    <3>1. e \in [1 .. Len(s) - 1 -> S]
      BY <2>5
    <3> QED
      BY <3>1, <2>4, SeqDef
  <2>7. DOMAIN e = 1 .. Len(s) - 1
    OBVIOUS
  <2>8. Distinct(e)
    <3> SUFFICES ASSUME NEW i \in 1 .. Len(s) - 1, NEW j \in 1 .. Len(s) - 1, e[i] = e[j]
                 PROVE  i = j
      BY <2>7 DEF Distinct
    <3> DEFINE f(n) == IF n < k THEN n ELSE n + 1
    <3>1. e[i] = s[f(i)] /\ e[j] = s[f(j)] /\ f(i) \in 1 .. Len(s) /\ f(j) \in 1 .. Len(s)
      BY <2>1, <2>2
    <3>2. f(i) = f(j)
      BY <3>1, <2>1 DEF Distinct
    <3> QED
      BY <3>2, <2>2
  <2>9. Range(e) = Range(s) \ {h}
    <3>1. ASSUME NEW x \in Range(e) PROVE x \in Range(s) \ {h}
      <4>1. PICK i \in 1 .. Len(s) - 1 : x = e[i]
        BY <2>7 DEF Range
      <4>2. PICK j \in 1 .. Len(s) : x = s[j] /\ j # k
        BY <4>1, <2>1, <2>2
      <4> QED
        BY <4>2, <2>1, <2>2 DEF Range, Distinct
    <3>2. ASSUME NEW x \in Range(s) \ {h} PROVE x \in Range(e)
      <4>1. PICK j \in 1 .. Len(s) : x = s[j] /\ j # k
        BY <3>2, <2>1, <2>2 DEF Range
      <4>2. CASE j < k
        <5>1. j \in 1 .. Len(s) - 1 /\ e[j] = x
          BY <4>1, <4>2, <2>1, <2>2
        <5> QED
          BY <5>1, <2>7 DEF Range
      <4>3. CASE j > k
        <5>1. j - 1 \in 1 .. Len(s) - 1 /\ e[j - 1] = x
          BY <4>1, <4>3, <2>1, <2>2
        <5> QED
          BY <5>1, <2>7 DEF Range
      <4> QED
        BY <4>1, <4>2, <4>3, <2>1, <2>2
    <3> QED
      BY <3>1, <3>2
  <2> QED
    BY <2>3, <2>6, <2>8, <2>9
<1> QED
  BY <1>1, <1>2

\* Appending a new handle adds exactly that handle.
LEMMA AppendNew ==
    ASSUME NEW S, NEW s \in Seq(S), Distinct(s), NEW h \in S, h \notin Range(s)
    PROVE  /\ Append(s, h) \in Seq(S)
           /\ Distinct(Append(s, h))
           /\ Range(Append(s, h)) = Range(s) \cup {h}
<1>1. Len(s) \in Nat /\ DOMAIN s = 1 .. Len(s)
  BY LenProperties
<1>2. SUFFICES ASSUME NEW a, a = Append(s, h)
               PROVE  a \in Seq(S) /\ Distinct(a) /\ Range(a) = Range(s) \cup {h}
  OBVIOUS
<1>3. /\ a \in Seq(S)
      /\ Len(a) = Len(s) + 1
      /\ \A i \in 1 .. Len(s) : a[i] = s[i]
      /\ a[Len(s) + 1] = h
  BY <1>2
<1>4. DOMAIN a = 1 .. Len(s) + 1
  BY <1>3, LenProperties
<1>5. Distinct(a)
  BY <1>1, <1>3, <1>4 DEF Distinct, Range
<1>6. Range(a) = Range(s) \cup {h}
  BY <1>1, <1>3, <1>4 DEF Range
<1> QED
  BY <1>3, <1>5, <1>6

\* A list is empty exactly when no handle is on it.
LEMMA EmptyRange ==
    ASSUME NEW S, NEW s \in Seq(S)
    PROVE  s = <<>> <=> Range(s) = {}
<1>1. Len(s) \in Nat /\ DOMAIN s = 1 .. Len(s)
  BY LenProperties
<1>2. ASSUME s # <<>> PROVE Range(s) # {}
  <2>1. 1 \in DOMAIN s
    BY <1>1, <1>2, EmptySeq
  <2> QED
    BY <2>1 DEF Range
<1>3. ASSUME s = <<>> PROVE Range(s) = {}
  BY <1>3 DEF Range
<1> QED
  BY <1>2, <1>3

------------------------------------------------------------------------------
(* The inductive invariant. *)

ListTypes ==
    /\ status \in [Handles -> {"UNBORN", "INVALID"} \cup Live]
    /\ playing \in Seq(Handles)
    /\ paused \in Seq(Handles)
    /\ playback \in BOOLEAN

\* What the device mutex protects, whoever holds it.
ListInv ==
    ListTypes /\ OnOneList /\ ListedIsValid /\ PlayingIsListed /\ BackendRunsForSounds

\* mix() owns the mutex from MixBegin to MixDone.
MixerLocks == mpc # "idle" <=> lock = Mixer

IInv == TypeOK /\ ListInv /\ MixerLocks /\ IteratorValid

\* pause(keep) keeps the lists consistent and touches no other playing handle.
LEMMA PauseKeepsLists ==
    ASSUME ListInv, NEW h \in Handles, NEW s \in {"PAUSED", "STOPPED"}, DoPause(h, s)
    PROVE  ListInv' /\ Range(playing) \ {h} \subseteq Range(playing')
<1>1. CASE status[h] = "PLAYING" /\ h \in Range(playing)
  <2>1. /\ playing' = Erase(playing, h)
        /\ paused' = Append(paused, h)
        /\ playback' = (playback /\ playing' # <<>>)
        /\ status' = [status EXCEPT ![h] = s]
    BY <1>1 DEF DoPause
  <2>2. h \notin Range(paused)
    BY <1>1 DEF ListInv, OnOneList
  <2>3. /\ playing' \in Seq(Handles) /\ Distinct(playing')
        /\ Range(playing') = Range(playing) \ {h}
    BY <2>1, EraseRemoves DEF ListInv, ListTypes, OnOneList
  <2>4. /\ paused' \in Seq(Handles) /\ Distinct(paused')
        /\ Range(paused') = Range(paused) \cup {h}
    BY <2>1, <2>2, AppendNew DEF ListInv, ListTypes, OnOneList
  <2>5. playback
    BY <1>1, EmptyRange DEF ListInv, ListTypes, BackendRunsForSounds
  <2>6. ListTypes' /\ OnOneList' /\ BackendRunsForSounds'
    BY <2>1, <2>3, <2>4, <2>5
       DEF ListInv, ListTypes, OnOneList, BackendRunsForSounds, Live
  <2>7. ListedIsValid' /\ PlayingIsListed'
    BY <1>1, <2>1, <2>3, <2>4 DEF ListInv, ListTypes, ListedIsValid, PlayingIsListed, Live
  <2> QED
    BY <2>3, <2>6, <2>7 DEF ListInv
<1>2. CASE ~ (status[h] = "PLAYING" /\ h \in Range(playing))
  <2>1. UNCHANGED <<status, playing, paused, playback>>
    BY <1>2 DEF DoPause, listVars
  <2> QED
    BY <2>1 DEF ListInv, ListTypes, OnOneList, ListedIsValid, PlayingIsListed,
                BackendRunsForSounds
<1> QED
  BY <1>1, <1>2

\* resume() keeps the lists consistent and takes nothing off the playing list.
LEMMA ResumeKeepsLists ==
    ASSUME ListInv, NEW h \in Handles, DoResume(h)
    PROVE  ListInv' /\ Range(playing) \subseteq Range(playing')
<1>1. CASE status[h] = "PAUSED" /\ h \in Range(paused)
  <2>1. /\ paused' = Erase(paused, h)
        /\ playing' = Append(playing, h)
        /\ playback' = TRUE
        /\ status' = [status EXCEPT ![h] = "PLAYING"]
    BY <1>1 DEF DoResume
  <2>2. h \notin Range(playing)
    BY <1>1 DEF ListInv, OnOneList
  <2>3. /\ paused' \in Seq(Handles) /\ Distinct(paused')
        /\ Range(paused') = Range(paused) \ {h}
    BY <2>1, EraseRemoves DEF ListInv, ListTypes, OnOneList
  <2>4. /\ playing' \in Seq(Handles) /\ Distinct(playing')
        /\ Range(playing') = Range(playing) \cup {h}
    BY <2>1, <2>2, AppendNew DEF ListInv, ListTypes, OnOneList
  <2>5. playing' # <<>>
    BY <2>4, EmptyRange
  <2>6. ListTypes' /\ OnOneList' /\ BackendRunsForSounds'
    BY <2>1, <2>3, <2>4, <2>5
       DEF ListInv, ListTypes, OnOneList, BackendRunsForSounds, Live
  <2>7. ListedIsValid' /\ PlayingIsListed'
    BY <1>1, <2>1, <2>3, <2>4 DEF ListInv, ListTypes, ListedIsValid, PlayingIsListed, Live
  <2> QED
    BY <2>4, <2>6, <2>7 DEF ListInv
<1>2. CASE ~ (status[h] = "PAUSED" /\ h \in Range(paused))
  <2>1. UNCHANGED <<status, playing, paused, playback>>
    BY <1>2 DEF DoResume, listVars
  <2> QED
    BY <2>1 DEF ListInv, ListTypes, OnOneList, ListedIsValid, PlayingIsListed,
                BackendRunsForSounds
<1> QED
  BY <1>1, <1>2

\* stop() keeps the lists consistent and touches no other playing handle.
LEMMA StopKeepsLists ==
    ASSUME ListInv, NEW h \in Handles, DoStop(h)
    PROVE  ListInv' /\ Range(playing) \ {h} \subseteq Range(playing')
<1>1. CASE status[h] \in Live
  <2>1. /\ status' = [status EXCEPT ![h] = "INVALID"]
        /\ playing' = Erase(playing, h)
        /\ paused' = IF h \in Range(playing) THEN paused ELSE Erase(paused, h)
        /\ playback' = (playback /\ (h \in Range(playing) => playing' # <<>>))
    BY <1>1 DEF DoStop
  <2>2. /\ playing' \in Seq(Handles) /\ Distinct(playing')
        /\ Range(playing') = Range(playing) \ {h}
    BY <2>1, EraseRemoves DEF ListInv, ListTypes, OnOneList
  <2>3. /\ paused' \in Seq(Handles) /\ Distinct(paused')
        /\ Range(paused') = Range(paused) \ {h}
    <3>1. CASE h \in Range(playing)
      BY <3>1, <2>1 DEF ListInv, ListTypes, OnOneList
    <3>2. CASE h \notin Range(playing)
      BY <3>2, <2>1, EraseRemoves DEF ListInv, ListTypes, OnOneList
    <3> QED
      BY <3>1, <3>2
  <2>4. BackendRunsForSounds'
    <3>1. CASE h \in Range(playing)
      <4>1. playing # <<>>
        BY <3>1, EmptyRange DEF ListInv, ListTypes
      <4> QED
        BY <4>1, <3>1, <2>1 DEF ListInv, ListTypes, BackendRunsForSounds
    <3>2. CASE h \notin Range(playing)
      <4>1. playing' = playing
        BY <3>2, <2>1 DEF Erase
      <4> QED
        BY <4>1, <3>2, <2>1 DEF ListInv, ListTypes, BackendRunsForSounds
    <3> QED
      BY <3>1, <3>2
  <2>5. ListTypes' /\ OnOneList'
    BY <2>1, <2>2, <2>3 DEF ListInv, ListTypes, OnOneList, Live
  <2>6. ListedIsValid' /\ PlayingIsListed'
    BY <2>1, <2>2, <2>3 DEF ListInv, ListTypes, ListedIsValid, PlayingIsListed, Live
  <2> QED
    BY <2>2, <2>4, <2>5, <2>6 DEF ListInv
<1>2. CASE status[h] \notin Live
  <2>1. UNCHANGED <<status, playing, paused, playback>>
    BY <1>2 DEF DoStop, listVars
  <2> QED
    BY <2>1 DEF ListInv, ListTypes, OnOneList, ListedIsValid, PlayingIsListed,
                BackendRunsForSounds
<1> QED
  BY <1>1, <1>2

\* stopAll() leaves both lists empty and the backend inactive.
LEMMA StopAllKeepsLists ==
    ASSUME ListInv, DoStopAll
    PROVE  ListInv'
<1>1. Range(<<>>) = {} /\ <<>> \in Seq(Handles) /\ Distinct(<<>>)
  <2>1. <<>> \in Seq(Handles) /\ Len(<<>>) = 0
    BY EmptySeq
  <2>2. Range(<<>>) = {}
    BY <2>1, EmptyRange
  <2>3. DOMAIN <<>> = {}
    BY <2>2 DEF Range
  <2> QED
    BY <2>1, <2>2, <2>3 DEF Distinct
<1>2. status' \in [Handles -> {"UNBORN", "INVALID"} \cup Live]
  BY DEF DoStopAll, ListInv, ListTypes
<1>3. playing' = <<>> /\ paused' = <<>> /\ playback' = FALSE
  BY DEF DoStopAll, ListInv, BackendRunsForSounds
<1>4. \A h \in Handles : status'[h] \notin {"PLAYING", "STOPPED"}
  BY DEF DoStopAll, ListInv, ListTypes, PlayingIsListed
<1> QED
  BY <1>1, <1>2, <1>3, <1>4
     DEF ListInv, ListTypes, OnOneList, ListedIsValid, PlayingIsListed, BackendRunsForSounds

\* play() adds its new handle to the playing list.
LEMMA PlayKeepsLists ==
    ASSUME ListInv, NEW h \in Handles, NEW k, DoPlay(h, k)
    PROVE  ListInv' /\ Range(playing) \subseteq Range(playing')
<1>1. h \notin Range(playing) /\ h \notin Range(paused)
  BY DEF DoPlay, ListInv, ListedIsValid, Live
<1>2. /\ playing' \in Seq(Handles) /\ Distinct(playing')
      /\ Range(playing') = Range(playing) \cup {h}
  BY <1>1, AppendNew DEF DoPlay, ListInv, ListTypes, OnOneList
<1>3. playing' # <<>>
  BY <1>2, EmptyRange
<1>4. ListTypes' /\ OnOneList' /\ BackendRunsForSounds'
  BY <1>1, <1>2, <1>3
     DEF DoPlay, ListInv, ListTypes, OnOneList, BackendRunsForSounds, Live
<1>5. ListedIsValid' /\ PlayingIsListed'
  BY <1>2 DEF DoPlay, ListInv, ListTypes, ListedIsValid, PlayingIsListed, Live
<1> QED
  BY <1>2, <1>4, <1>5 DEF ListInv

\* Writing PAUSED over a status the unlocked setLoopCount() saw, whatever the
\* handle became meanwhile, and the rearm of seek() keep the lists consistent.
LEMMA RearmKeepsLists ==
    ASSUME ListInv, NEW h \in Handles, status' = [status EXCEPT ![h] = "PAUSED"],
           UNCHANGED <<playing, paused, playback>>
    PROVE  ListInv'
BY DEF ListInv, ListTypes, OnOneList, ListedIsValid, PlayingIsListed, BackendRunsForSounds, Live

\* The fields of a setLoopCount() call.
LEMMA LoopCallFields ==
    ASSUME NEW r \in Calls \cup {Idle}, r.op \in {"loop", "rearm", "setloop"}
    PROVE  r.h \in Handles /\ r.arg \in LoopCounts
<1>1. r # Idle
  BY DEF Idle
<1>2. r \in [op : {"loop", "rearm", "setloop"}, h : Handles, arg : LoopCounts]
  BY <1>1 DEF Calls
<1> QED
  BY <1>2

LEMMA InitIInv == Init => IInv
<1> SUFFICES ASSUME Init PROVE IInv
  OBVIOUS
<1>1. <<>> \in Seq(Handles) /\ Len(<<>>) = 0
  BY EmptySeq
<1>2. Range(<<>>) = {}
  BY <1>1, EmptyRange
<1>3. DOMAIN <<>> = {}
  BY <1>2 DEF Range
<1>4. TypeOK
  <2>1. ops \in 0 .. MaxOps /\ mixed \in 0 .. BufferLength
    BY SoundsAssumption DEF Init
  <2>2. call \in [Clients -> Calls \cup {Idle}]
    BY DEF Init
  <2>3. /\ playing \in Seq(Handles) /\ paused \in Seq(Handles)
        /\ pauseSounds \in Seq(Handles) /\ stopSounds \in Seq(Handles)
    BY <1>1 DEF Init
  <2>4. /\ status \in [Handles -> {"UNBORN", "INVALID"} \cup Live]
        /\ position \in [Handles -> Nat] /\ loopcount \in [Handles -> Int]
        /\ keep \in [Handles -> BOOLEAN] /\ callback \in [Handles -> BOOLEAN]
    BY DEF Init
  <2>5. /\ playback \in BOOLEAN /\ alive \in BOOLEAN /\ eos \in BOOLEAN
        /\ lock \in Clients \cup {Mixer, NoThread} /\ ended \in SUBSET Handles
        /\ cur \in Handles \cup {NoHandle}
        /\ mpc \in {"idle", "read", "loop", "end", "callback", "collect", "cleanup"}
    BY DEF Init
  <2> QED
    BY <2>1, <2>2, <2>3, <2>4, <2>5 DEF TypeOK
<1>5. ListInv
  BY <1>1, <1>2, <1>3 DEF Init, ListInv, ListTypes, OnOneList, Distinct, ListedIsValid,
                          PlayingIsListed, BackendRunsForSounds
<1>6. MixerLocks /\ IteratorValid
  BY ThreadsAssumption DEF Init, MixerLocks, IteratorValid
<1> QED
  BY <1>4, <1>5, <1>6 DEF IInv

\* A step of a client that holds the mutex finds no mix() in progress.
LEMMA ClientExcludesMix ==
    ASSUME IInv, NEW c \in Clients, CanLock(c)
    PROVE  mpc = "idle"
BY ThreadsAssumption DEF IInv, MixerLocks, CanLock

\* The operations of the clients keep the invariant.
LEMMA HandleStepKeepsIInv ==
    ASSUME IInv, NEW c \in Clients, HandleStep(c)
    PROVE  IInv'
<1> USE DEF IInv
<1>1. CASE PauseBody(c)
  <2>1. call[c] \in Calls /\ call[c].op = "pause" /\ call[c].h \in Handles
    BY <1>1 DEF PauseBody, Locked, TypeOK, Calls, Idle
  <2>2. ListInv'
    BY <1>1, <2>1, PauseKeepsLists DEF PauseBody
  <2>3. mpc' = "idle" /\ lock' = lock
    BY <1>1, ClientExcludesMix DEF PauseBody, Locked, mixVars
  <2>4. TypeOK'
    BY <1>1, <2>2 DEF PauseBody, Locked, TypeOK, mixVars, soundVars, ListInv, ListTypes
  <2> QED
    BY <1>1, <2>2, <2>3, <2>4 DEF MixerLocks, IteratorValid, PauseBody, Locked, mixVars
<1>2. CASE ResumeBody(c)
  <2>1. call[c] \in Calls /\ call[c].op = "resume" /\ call[c].h \in Handles
    BY <1>2 DEF ResumeBody, Locked, TypeOK, Calls, Idle
  <2>2. ListInv'
    BY <1>2, <2>1, ResumeKeepsLists DEF ResumeBody
  <2>3. mpc' = "idle" /\ lock' = lock
    BY <1>2, ClientExcludesMix DEF ResumeBody, Locked, mixVars
  <2>4. ended' \in SUBSET Handles
    BY <1>2 DEF ResumeBody, DoResume, TypeOK
  <2>5. TypeOK'
    BY <1>2, <2>2, <2>4 DEF ResumeBody, Locked, TypeOK, mixVars, soundVars, ListInv, ListTypes
  <2> QED
    BY <1>2, <2>2, <2>3, <2>5 DEF MixerLocks, IteratorValid, ResumeBody, Locked, mixVars
<1>3. CASE StopBody(c)
  <2>1. call[c] \in Calls /\ call[c].op = "stop" /\ call[c].h \in Handles
    BY <1>3 DEF StopBody, Locked, TypeOK, Calls, Idle
  <2>2. ListInv'
    BY <1>3, <2>1, StopKeepsLists DEF StopBody
  <2>3. mpc' = "idle" /\ lock' = lock
    BY <1>3, ClientExcludesMix DEF StopBody, Locked, mixVars
  <2>4. TypeOK'
    BY <1>3, <2>2 DEF StopBody, Locked, TypeOK, mixVars, soundVars, ListInv, ListTypes
  <2> QED
    BY <1>3, <2>2, <2>3, <2>4 DEF MixerLocks, IteratorValid, StopBody, Locked, mixVars
<1>4. CASE SeekBody(c)
  <2>1. call[c] \in Calls /\ call[c].h \in Handles /\ call[c].arg \in Nat
    BY <1>4 DEF SeekBody, Locked, TypeOK, Calls, Idle
  <2>2. \/ status' = [status EXCEPT ![call[c].h] = "PAUSED"]
        \/ status' = status
    BY <1>4 DEF SeekBody
  <2>3. ListInv'
    <3>1. UNCHANGED <<playing, paused, playback>>
      BY <1>4 DEF SeekBody
    <3>2. CASE status' = status
      BY <3>1, <3>2 DEF ListInv, ListTypes, OnOneList, ListedIsValid, PlayingIsListed,
                        BackendRunsForSounds
    <3> QED
      BY <2>1, <2>2, <3>1, <3>2, RearmKeepsLists
  <2>4. mpc' = "idle" /\ lock' = lock
    BY <1>4, ClientExcludesMix DEF SeekBody, Locked, mixVars
  <2>5. position' \in [Handles -> Nat]
    BY <1>4, <2>1 DEF SeekBody, TypeOK
  <2>6. TypeOK'
    BY <1>4, <2>3, <2>5 DEF SeekBody, Locked, TypeOK, mixVars, ListInv, ListTypes
  <2> QED
    BY <1>4, <2>3, <2>4, <2>6 DEF MixerLocks, IteratorValid, SeekBody, Locked, mixVars
<1>5. CASE KeepBody(c) \/ CallbackBody(c)
  <2>1. call[c] \in Calls /\ call[c].h \in Handles /\ call[c].arg \in BOOLEAN
    BY <1>5 DEF KeepBody, CallbackBody, Locked, TypeOK, Calls, Idle
  <2>2. TypeOK'
    BY <1>5, <2>1 DEF KeepBody, CallbackBody, Locked, TypeOK, mixVars, listVars
  <2> QED
    BY <1>5, <2>2 DEF KeepBody, CallbackBody, Locked, mixVars, listVars, ListInv, ListTypes,
       OnOneList, ListedIsValid, PlayingIsListed, BackendRunsForSounds, MixerLocks, IteratorValid
<1>6. CASE LoopTest(c) \/ LoopStore(c) \/ UnlockDevice(c)
  <2>1. call[c].op \in {"loop", "setloop"} =>
           call[c].h \in Handles /\ call[c].arg \in LoopCounts
    BY LoopCallFields DEF TypeOK
  <2>2. call' \in [Clients -> Calls \cup {Idle}]
    <3>1. CASE LoopTest(c)
      <4>1. PICK o \in {"rearm", "setloop"} :
               call' = [call EXCEPT ![c] = [op |-> o, h |-> call[c].h, arg |-> call[c].arg]]
        BY <3>1 DEF LoopTest
      <4>2. [op |-> o, h |-> call[c].h, arg |-> call[c].arg] \in Calls
        BY <3>1, <2>1 DEF Calls, LoopTest
      <4> QED
        BY <4>1, <4>2 DEF TypeOK
    <3>2. CASE LoopStore(c) \/ UnlockDevice(c)
      BY <3>2 DEF LoopStore, UnlockDevice, TypeOK
    <3> QED
      BY <1>6, <3>1, <3>2
  <2>3. loopcount' \in [Handles -> Int]
    BY <1>6, <2>1, SoundsAssumption
       DEF LoopTest, LoopStore, UnlockDevice, TypeOK, soundVars
  <2>4. TypeOK'
    BY <1>6, <2>2, <2>3 DEF LoopTest, LoopStore, UnlockDevice, TypeOK, mixVars, listVars, soundVars
  <2>5. MixerLocks'
    BY <1>6, ThreadsAssumption
       DEF LoopTest, LoopStore, UnlockDevice, mixVars, MixerLocks
  <2> QED
    BY <1>6, <2>4, <2>5 DEF LoopTest, LoopStore, UnlockDevice, mixVars, listVars, ListInv,
       ListTypes, OnOneList, ListedIsValid, PlayingIsListed, BackendRunsForSounds, IteratorValid
<1>7. CASE LoopRearm(c)
  <2>1. call[c].h \in Handles /\ call[c].arg \in LoopCounts
    BY <1>7, LoopCallFields DEF LoopRearm, TypeOK
  <2>2. ListInv'
    BY <1>7, <2>1, RearmKeepsLists DEF LoopRearm
  <2>3. call' \in [Clients -> Calls \cup {Idle}]
    BY <1>7, <2>1 DEF LoopRearm, TypeOK, Calls
  <2>4. TypeOK'
    BY <1>7, <2>2, <2>3 DEF LoopRearm, TypeOK, mixVars, soundVars, ListInv, ListTypes
  <2> QED
    BY <1>7, <2>2, <2>4 DEF LoopRearm, mixVars, MixerLocks, IteratorValid
<1> QED
  BY <1>1, <1>2, <1>3, <1>4, <1>5, <1>6, <1>7 DEF HandleStep

LEMMA ClientKeepsIInv ==
    ASSUME IInv, NEW c \in Clients, Client(c)
    PROVE  IInv'
<1> USE DEF IInv
<1>1. CASE HandleStep(c)
  BY <1>1, HandleStepKeepsIInv
<1>2. ASSUME NEW r \in Calls, Call(c, r)
      PROVE  IInv'
  <2>1. TypeOK'
    BY <1>2, SoundsAssumption DEF Call, Budget, TypeOK, mixVars, listVars, soundVars
  <2> QED
    BY <1>2, <2>1 DEF Call, Budget, mixVars, listVars, ListInv, ListTypes, OnOneList,
       ListedIsValid, PlayingIsListed, BackendRunsForSounds, MixerLocks, IteratorValid
<1>3. ASSUME NEW h \in Handles, NEW k \in BOOLEAN, Play(c, h, k)
      PROVE  IInv'
  <2>1. ListInv'
    BY <1>3, PlayKeepsLists DEF Play
  <2>2. mpc = "idle"
    BY <1>3, ClientExcludesMix DEF Play
  <2>3. TypeOK'
    BY <1>3, <2>1, SoundsAssumption
       DEF Play, DoPlay, Budget, TypeOK, mixVars, ListInv, ListTypes
  <2> QED
    BY <1>3, <2>1, <2>2, <2>3 DEF Play, mixVars, MixerLocks, IteratorValid
<1>4. CASE StopAll(c)
  <2>1. ListInv'
    BY <1>4, StopAllKeepsLists DEF StopAll
  <2>2. mpc = "idle"
    BY <1>4, ClientExcludesMix DEF StopAll
  <2>3. TypeOK'
    BY <1>4, <2>1, SoundsAssumption
       DEF StopAll, Budget, TypeOK, mixVars, soundVars, ListInv, ListTypes
  <2> QED
    BY <1>4, <2>1, <2>2, <2>3 DEF StopAll, mixVars, MixerLocks, IteratorValid
<1>5. CASE LockDevice(c)
  <2>1. TypeOK'
    BY <1>5, SoundsAssumption DEF LockDevice, Budget, TypeOK, mixVars, listVars, soundVars
  <2>2. MixerLocks'
    BY <1>5, ThreadsAssumption DEF LockDevice, MixerLocks, mixVars
  <2> QED
    BY <1>5, <2>1, <2>2 DEF LockDevice, mixVars, listVars, ListInv, ListTypes, OnOneList,
       ListedIsValid, PlayingIsListed, BackendRunsForSounds, IteratorValid
<1>6. ASSUME NEW h \in Handles
      PROVE  /\ \A op \in {"pause", "resume", "stop"} : [op |-> op, h |-> h] \in Calls
             /\ \A p \in 0 .. SoundLength[h] : [op |-> "seek", h |-> h, arg |-> p] \in Calls
             /\ \A op \in {"keep", "callback"}, b \in BOOLEAN :
                    [op |-> op, h |-> h, arg |-> b] \in Calls
             /\ \A n \in LoopCounts : [op |-> "loop", h |-> h, arg |-> n] \in Calls
  BY SoundsAssumption DEF Calls
<1> QED
  BY <1>1, <1>2, <1>3, <1>4, <1>5, <1>6 DEF Client

LEMMA DestroyKeepsIInv == ASSUME IInv, Destroy PROVE IInv'
<1> USE DEF IInv
<1>1. ListInv'
  BY StopAllKeepsLists DEF Destroy
<1>2. TypeOK'
  BY <1>1 DEF Destroy, TypeOK, mixVars, soundVars, ListInv, ListTypes
<1> QED
  BY <1>1, <1>2 DEF Destroy, mixVars, MixerLocks, IteratorValid

\* The next iterator is on the list or end().
LEMMA AfterIsListed ==
    ASSUME NEW S, NEW s \in Seq(S), NEW h, After(s, h) # NoHandle
    PROVE  After(s, h) \in Range(s)
<1>1. h \in Range(s) /\ IndexOf(s, h) < Len(s) /\ After(s, h) = s[IndexOf(s, h) + 1]
  BY DEF After
<1>2. DOMAIN s = 1 .. Len(s) /\ Len(s) \in Nat
  BY LenProperties
<1>3. IndexOf(s, h) \in 1 .. Len(s)
  BY <1>1, <1>2 DEF IndexOf, Range
<1>4. IndexOf(s, h) + 1 \in DOMAIN s
  BY <1>1, <1>2, <1>3
<1> QED
  BY <1>1, <1>4 DEF Range

\* A read never delivers more than it was asked for.
LEMMA ReadLenBounds ==
    ASSUME NEW h \in Handles, NEW from \in Nat, NEW n \in Nat
    PROVE  ReadLen(h, from, n) \in 0 .. n
BY SoundsAssumption DEF ReadLen

\* The steps of mix() keep the invariant.
LEMMA MixKeepsIInv == ASSUME IInv, Mix PROVE IInv'
<1> USE DEF IInv
<1>1. mpc \in {"read", "loop", "end", "callback", "collect"} =>
         cur \in Handles /\ cur \in Range(playing)
  <2>1. Range(playing) \subseteq Handles
    BY ElementOfSeq, LenProperties DEF TypeOK, Range
  <2> QED
    BY <2>1 DEF IteratorValid
<1>2. CASE MixBegin
  <2>1. playing # <<>> => playing[1] \in Range(playing) /\ playing[1] \in Handles
    BY EmptySeq, LenProperties, ElementOfSeq DEF TypeOK, Range
  <2>2. TypeOK'
    BY <1>2, <2>1 DEF MixBegin, TypeOK, listVars, soundVars
  <2> QED
    BY <1>2, <2>1, <2>2 DEF MixBegin, listVars, ListInv, ListTypes, OnOneList,
       ListedIsValid, PlayingIsListed, BackendRunsForSounds, MixerLocks, IteratorValid
<1>3. CASE MixRead \/ MixLoop
  <2>1. cur \in Handles /\ position[cur] \in Nat /\ mixed \in Nat /\ mixed <= BufferLength
        /\ BufferLength \in Nat /\ loopcount[cur] \in Int
    BY <1>1, <1>3, SoundsAssumption DEF MixRead, MixLoop, TypeOK
  <2>2. /\ position' \in [Handles -> Nat] /\ mixed' \in 0 .. BufferLength
        /\ loopcount' \in [Handles -> Int] /\ eos' \in BOOLEAN
    <3>1. CASE MixRead
      <4>1. ReadLen(cur, position[cur], BufferLength) \in 0 .. BufferLength
        BY <2>1, ReadLenBounds
      <4> QED
        BY <3>1, <4>1, <2>1 DEF MixRead, TypeOK
    <3>2. CASE MixLoop
      <4>1. ReadLen(cur, 0, BufferLength - mixed) \in 0 .. BufferLength - mixed
        BY <2>1, ReadLenBounds
      <4> QED
        BY <3>2, <4>1, <2>1 DEF MixLoop, TypeOK
    <3> QED
      BY <1>3, <3>1, <3>2
  <2>3. mpc' \in {"loop", "end"}
    BY <1>3 DEF MixRead, MixLoop
  <2>4. TypeOK'
    BY <1>3, <2>2, <2>3 DEF MixRead, MixLoop, TypeOK, listVars
  <2> QED
    BY <1>1, <1>3, <2>3, <2>4 DEF MixRead, MixLoop, listVars, ListInv, ListTypes, OnOneList,
       ListedIsValid, PlayingIsListed, BackendRunsForSounds, MixerLocks, IteratorValid
<1>4. CASE MixThrow \/ MixEnd
  <2>1. cur \in Handles /\ loopcount[cur] \in Int
    BY <1>1, <1>4 DEF MixThrow, MixEnd, SoundMixed, TypeOK
  <2>2. position' \in [Handles -> Nat] /\ loopcount' \in [Handles -> Int]
    BY <1>4, <2>1 DEF MixThrow, MixEnd, TypeOK, soundVars
  <2>3. eos' \in BOOLEAN /\ mpc' \in {"end", "callback", "collect"}
    BY <1>4 DEF MixThrow, MixEnd, TypeOK
  <2>4. TypeOK'
    BY <1>4, <2>2, <2>3 DEF MixThrow, MixEnd, TypeOK, listVars, soundVars
  <2> QED
    BY <1>1, <1>4, <2>4 DEF MixThrow, MixEnd, SoundMixed, listVars, ListInv, ListTypes, OnOneList,
       ListedIsValid, PlayingIsListed, BackendRunsForSounds, MixerLocks, IteratorValid
<1>5. CASE MixNext \/ MixCollect
  <2>1. cur \in Handles
    BY <1>1, <1>5 DEF MixNext, MixCollect, SoundMixed
  <2>2. /\ cur' = NoHandle \/ cur' \in Range(playing)
        /\ mpc' = IF cur' = NoHandle THEN "cleanup" ELSE "read"
    BY <1>5, AfterIsListed DEF MixNext, MixCollect, Advance, TypeOK
  <2>3. cur' \in Handles \cup {NoHandle}
    BY <2>2, ElementOfSeq, LenProperties DEF TypeOK, Range
  <2>4. pauseSounds' \in Seq(Handles) /\ stopSounds' \in Seq(Handles)
    <3>1. /\ pauseSounds' = pauseSounds \/ pauseSounds' = Append(pauseSounds, cur)
          /\ stopSounds' = stopSounds \/ stopSounds' = Append(stopSounds, cur)
      BY <1>5, Zenon DEF MixNext, MixCollect
    <3>2. /\ Append(pauseSounds, cur) \in Seq(Handles) /\ pauseSounds \in Seq(Handles)
          /\ Append(stopSounds, cur) \in Seq(Handles) /\ stopSounds \in Seq(Handles)
      BY <2>1 DEF TypeOK
    <3> QED
      BY <3>1, <3>2, Zenon
  <2>5. TypeOK'
    BY <1>5, <2>1, <2>2, <2>3, <2>4 DEF MixNext, MixCollect, TypeOK, listVars, soundVars
  <2>6. mpc # "idle"
    BY <1>5 DEF MixNext, MixCollect, SoundMixed
  <2> QED
    BY <1>5, <2>2, <2>5, <2>6 DEF MixNext, MixCollect, listVars, ListInv, ListTypes, OnOneList,
       ListedIsValid, PlayingIsListed, BackendRunsForSounds, MixerLocks, IteratorValid
<1>6. CASE MixCallback
  <2>1. cur \in Handles /\ cur \in Range(playing)
    BY <1>1, <1>6 DEF MixCallback
  <2>2. ListInv' /\ cur \in Range(playing')
    <3>1. CASE UNCHANGED listVars
      BY <3>1, <2>1 DEF listVars, ListInv, ListTypes, OnOneList,
         ListedIsValid, PlayingIsListed, BackendRunsForSounds
    <3>2. ASSUME NEW h \in Handles \ {cur},
                 \/ \E k \in BOOLEAN : DoPlay(h, k)
                 \/ DoPause(h, "PAUSED") \/ DoResume(h) \/ DoStop(h)
          PROVE  ListInv' /\ cur \in Range(playing')
      BY <3>2, <2>1, PlayKeepsLists, PauseKeepsLists, ResumeKeepsLists, StopKeepsLists
    <3> QED
      BY <1>6, <3>1, <3>2 DEF MixCallback
  <2>3. /\ position' = position /\ loopcount' = loopcount /\ callback' = callback
        /\ keep' \in [Handles -> BOOLEAN]
        /\ ended' \in SUBSET Handles /\ ops' \in 0 .. MaxOps
    <3>1. CASE UNCHANGED <<listVars, soundVars, ended, ops>>
      BY <3>1 DEF soundVars, TypeOK
    <3>2. ASSUME Budget, NEW h \in Handles \ {cur},
                 \/ \E k \in BOOLEAN : DoPlay(h, k) /\ UNCHANGED ended
                 \/ DoPause(h, "PAUSED") /\ UNCHANGED <<soundVars, ended>>
                 \/ DoResume(h) /\ UNCHANGED soundVars
                 \/ DoStop(h) /\ UNCHANGED <<soundVars, ended>>
          PROVE  /\ position' = position /\ loopcount' = loopcount /\ callback' = callback
                 /\ keep' \in [Handles -> BOOLEAN]
                 /\ ended' \in SUBSET Handles /\ ops' \in 0 .. MaxOps
      <4>1. ops' \in 0 .. MaxOps
        BY <3>2, SoundsAssumption DEF Budget, TypeOK
      <4>2. ended' \in SUBSET Handles
        BY <3>2 DEF DoResume, TypeOK
      <4>3. /\ position' = position /\ loopcount' = loopcount /\ callback' = callback
            /\ keep' \in [Handles -> BOOLEAN]
        BY <3>2 DEF DoPlay, soundVars, TypeOK
      <4> QED
        BY <4>1, <4>2, <4>3
    <3> QED
      BY <1>6, <3>1, <3>2 DEF MixCallback
  <2>4. TypeOK'
    BY <1>6, <2>2, <2>3 DEF MixCallback, TypeOK, ListInv, ListTypes
  <2> QED
    BY <1>6, <2>2, <2>4 DEF MixCallback, MixerLocks, IteratorValid
<1>7. CASE CleanupPause
  <2>1. Head(pauseSounds) \in Handles /\ Tail(pauseSounds) \in Seq(Handles)
    BY <1>7, HeadTailProperties DEF CleanupPause, TypeOK
  <2>2. ListInv'
    BY <1>7, <2>1, PauseKeepsLists DEF CleanupPause
  <2>3. TypeOK'
    BY <1>7, <2>1, <2>2 DEF CleanupPause, TypeOK, soundVars, ListInv, ListTypes
  <2> QED
    BY <1>7, <2>2, <2>3 DEF CleanupPause, MixerLocks, IteratorValid
<1>8. CASE CleanupStop
  <2>1. Head(stopSounds) \in Handles /\ Tail(stopSounds) \in Seq(Handles)
    BY <1>8, HeadTailProperties DEF CleanupStop, TypeOK
  <2>2. ListInv'
    BY <1>8, <2>1, StopKeepsLists DEF CleanupStop
  <2>3. TypeOK'
    BY <1>8, <2>1, <2>2 DEF CleanupStop, TypeOK, soundVars, ListInv, ListTypes
  <2> QED
    BY <1>8, <2>2, <2>3 DEF CleanupStop, MixerLocks, IteratorValid
<1>9. CASE MixDone
  <2>1. TypeOK'
    BY <1>9 DEF MixDone, TypeOK, listVars, soundVars
  <2> QED
    BY <1>9, <2>1, ThreadsAssumption DEF MixDone, listVars, ListInv, ListTypes, OnOneList,
       ListedIsValid, PlayingIsListed, BackendRunsForSounds, MixerLocks, IteratorValid
<1> QED
  BY <1>2, <1>3, <1>4, <1>5, <1>6, <1>7, <1>8, <1>9 DEF Mix
------------------------------------------------------------------------------
(* Theorems. *)

\* Every reachable state of the device satisfies the inductive invariant.
THEOREM Invariance == Spec => []IInv
<1>1. Init => IInv
  BY InitIInv
<1>2. IInv /\ [Next]_vars => IInv'
  <2> SUFFICES ASSUME IInv, [Next]_vars PROVE IInv'
    OBVIOUS
  <2>1. CASE UNCHANGED vars
    BY <2>1 DEF vars, listVars, soundVars, mixVars, IInv, TypeOK, ListInv, ListTypes, OnOneList,
       ListedIsValid, PlayingIsListed, BackendRunsForSounds, MixerLocks, IteratorValid
  <2> QED
    BY <2>1, MixKeepsIInv, ClientKeepsIInv, DestroyKeepsIInv DEF Next
<1> QED
  BY <1>1, <1>2, PTL DEF Spec

\* Every variable of the device keeps its type; mix() never delivers more frames
\* to the mixer than the backend's buffer has room for.
THEOREM TypeCorrect == Spec => []TypeOK
BY Invariance, PTL DEF IInv

\* No interleaving of handle operations, mix() and stop callbacks puts a handle
\* on a list twice or on both lists.
THEOREM NoHandleTwice == Spec => []OnOneList
BY Invariance, PTL DEF IInv, ListInv

\* A handle on a list is valid, which is what makes the loops of stopAll() end.
THEOREM ListedHandlesAreValid == Spec => []ListedIsValid
BY Invariance, PTL DEF IInv, ListInv

\* A handle whose status is PLAYING is mixed, one whose status is STOPPED is kept.
THEOREM PlayingHandlesAreMixed == Spec => []PlayingIsListed
BY Invariance, PTL DEF IInv, ListInv

\* What is listed and what a status says agree far enough for every operation to find
\* its handle and for every loop over a list to end.
THEOREM ListsSound == Spec => []ListsAreSound
BY Invariance, PTL DEF IInv, ListInv, ListsAreSound

\* The backend was told to run exactly while the playing list is not empty.
THEOREM BackendFollowsList == Spec => []BackendRunsForSounds
BY Invariance, PTL DEF IInv, ListInv

\* No handle operation of another thread invalidates the iterator of mix().
THEOREM MixIteratorValid == Spec => []IteratorValid
BY Invariance, PTL DEF IInv
------------------------------------------------------------------------------
(* Without unlocked calls of setLoopCount() a status says which list a handle is on. *)

LoopCallsLocked == UnlockedLoopers = {}

\* setLoopCount() holds the device from its first to its last step, ...
LoopsLocked == \A c \in Clients : call[c].op \in {"loop", "rearm", "setloop"} => lock = c

\* ... so the handle it makes resumable is still stopped.
RearmsStopped == \A c \in Clients : call[c].op = "rearm" => status[call[c].h] = "STOPPED"

StatusListed ==
    \A h \in Handles : /\ status[h] = "PLAYING" <=> h \in Range(playing)
                       /\ status[h] \in {"PAUSED", "STOPPED"} <=> h \in Range(paused)

LockedInv == IInv /\ LoopsLocked /\ RearmsStopped /\ StatusListed

Rearmed(h) ==
    /\ status[h] = "STOPPED" /\ status' = [status EXCEPT ![h] = "PAUSED"]
    /\ UNCHANGED <<playing, paused, playback>>

\* What a step may do to the lists and to statuses.
ListStep ==
    \/ UNCHANGED listVars
    \/ \E h \in Handles :
          \/ \E s \in {"PAUSED", "STOPPED"} : DoPause(h, s)
          \/ DoResume(h)
          \/ DoStop(h)
          \/ \E k \in BOOLEAN : DoPlay(h, k)
          \/ Rearmed(h)
    \/ DoStopAll

\* Every step does one of these.
LEMMA NextIsListStep ==
    ASSUME LockedInv, Next
    PROVE  ListStep
<1> USE DEF LockedInv, IInv
<1>1. CASE Mix
  <2>1. CASE MixCallback
    BY <2>1 DEF MixCallback, ListStep
  <2>2. CASE CleanupPause
    <3>1. Head(pauseSounds) \in Handles
      BY <2>2, HeadTailProperties DEF CleanupPause, TypeOK
    <3> QED
      BY <2>2, <3>1 DEF CleanupPause, ListStep
  <2>3. CASE CleanupStop
    <3>1. Head(stopSounds) \in Handles
      BY <2>3, HeadTailProperties DEF CleanupStop, TypeOK
    <3> QED
      BY <2>3, <3>1 DEF CleanupStop, ListStep
  <2>4. CASE MixBegin \/ MixRead \/ MixLoop \/ MixThrow \/ MixNext \/ MixEnd \/ MixCollect \/ MixDone
    BY <2>4 DEF MixBegin, MixRead, MixLoop, MixThrow, MixNext, MixEnd, MixCollect, MixDone, ListStep
  <2> QED
    BY <1>1, <2>1, <2>2, <2>3, <2>4 DEF Mix
<1>2. ASSUME NEW c \in Clients, Client(c) PROVE ListStep
  <2>1. CASE PauseBody(c) \/ ResumeBody(c) \/ StopBody(c) \/ SeekBody(c)
    <3>1. call[c].h \in Handles
      BY <2>1 DEF PauseBody, ResumeBody, StopBody, SeekBody, Locked, TypeOK, Calls, Idle
    <3>2. SeekBody(c) => Rearmed(call[c].h) \/ UNCHANGED listVars
      BY DEF SeekBody, Rearmed, listVars
    <3> QED
      BY <2>1, <3>1, <3>2 DEF PauseBody, ResumeBody, StopBody, ListStep
  <2>2. CASE KeepBody(c) \/ CallbackBody(c) \/ LoopTest(c) \/ LoopStore(c) \/ UnlockDevice(c)
             \/ LockDevice(c) \/ \E r : Call(c, r)
    BY <2>2 DEF KeepBody, CallbackBody, LoopTest, LoopStore, UnlockDevice, LockDevice, Call, ListStep
  <2>3. CASE LoopRearm(c)
    <3>1. call[c].h \in Handles
      BY <2>3, LoopCallFields DEF LoopRearm, TypeOK
    <3>2. Rearmed(call[c].h)
      BY <2>3 DEF LoopRearm, Rearmed, RearmsStopped
    <3> QED
      BY <3>1, <3>2 DEF ListStep
  <2>4. CASE StopAll(c) \/ \E h \in Handles : \E k \in BOOLEAN : Play(c, h, k)
    BY <2>4 DEF StopAll, Play, ListStep
  <2> QED
    BY <1>2, <2>1, <2>2, <2>3, <2>4 DEF Client, HandleStep
<1>3. CASE Destroy
  BY <1>3 DEF Destroy, ListStep
<1> QED
  BY <1>1, <1>2, <1>3 DEF Next

\* The list operations move a handle and its status together.
LEMMA ListStepKeepsStatusListed ==
    ASSUME ListInv, StatusListed, ListStep
    PROVE  StatusListed'
<1> USE DEF ListInv, ListTypes, OnOneList
<1>1. ASSUME NEW h \in Handles, NEW s \in {"PAUSED", "STOPPED"}, DoPause(h, s) PROVE StatusListed'
  <2>1. CASE status[h] = "PLAYING" /\ h \in Range(playing)
    <3>1. /\ playing' = Erase(playing, h) /\ paused' = Append(paused, h)
          /\ status' = [status EXCEPT ![h] = s]
      BY <1>1, <2>1 DEF DoPause
    <3>2. Range(playing') = Range(playing) \ {h} /\ Range(paused') = Range(paused) \cup {h}
      BY <2>1, <3>1, EraseRemoves, AppendNew
    <3> QED
      BY <3>1, <3>2 DEF StatusListed
  <2>2. CASE ~(status[h] = "PLAYING" /\ h \in Range(playing))
    BY <1>1, <2>2 DEF DoPause, listVars, StatusListed
  <2> QED
    BY <2>1, <2>2
<1>2. ASSUME NEW h \in Handles, DoResume(h) PROVE StatusListed'
  <2>1. CASE status[h] = "PAUSED" /\ h \in Range(paused)
    <3>1. /\ paused' = Erase(paused, h) /\ playing' = Append(playing, h)
          /\ status' = [status EXCEPT ![h] = "PLAYING"]
      BY <1>2, <2>1 DEF DoResume
    <3>2. Range(paused') = Range(paused) \ {h} /\ Range(playing') = Range(playing) \cup {h}
      BY <2>1, <3>1, EraseRemoves, AppendNew
    <3> QED
      BY <3>1, <3>2 DEF StatusListed
  <2>2. CASE ~(status[h] = "PAUSED" /\ h \in Range(paused))
    BY <1>2, <2>2 DEF DoResume, listVars, StatusListed
  <2> QED
    BY <2>1, <2>2
<1>3. ASSUME NEW h \in Handles, DoStop(h) PROVE StatusListed'
  <2>1. CASE status[h] \in Live
    <3>1. /\ status' = [status EXCEPT ![h] = "INVALID"]
          /\ playing' = Erase(playing, h)
          /\ paused' = IF h \in Range(playing) THEN paused ELSE Erase(paused, h)
      BY <1>3, <2>1 DEF DoStop
    <3>2. Range(playing') = Range(playing) \ {h} /\ Range(paused') = Range(paused) \ {h}
      BY <3>1, EraseRemoves
    <3> QED
      BY <3>1, <3>2 DEF StatusListed
  <2>2. CASE status[h] \notin Live
    BY <1>3, <2>2 DEF DoStop, listVars, StatusListed
  <2> QED
    BY <2>1, <2>2
<1>4. ASSUME NEW h \in Handles, NEW k \in BOOLEAN, DoPlay(h, k) PROVE StatusListed'
  <2>1. h \notin Range(playing) /\ h \notin Range(paused)
    BY <1>4 DEF DoPlay, StatusListed
  <2>2. Range(playing') = Range(playing) \cup {h}
    BY <1>4, <2>1, AppendNew DEF DoPlay
  <2> QED
    BY <1>4, <2>1, <2>2 DEF DoPlay, StatusListed
<1>5. ASSUME NEW h \in Handles, Rearmed(h) PROVE StatusListed'
  BY <1>5 DEF Rearmed, StatusListed
<1>6. CASE DoStopAll
  <2>1. Range(<<>>) = {}
    BY EmptyRange, EmptySeq
  <2>2. /\ \A h \in Handles : status'[h] = IF h \in Range(playing) \cup Range(paused) THEN "INVALID"
                                                                                    ELSE status[h]
        /\ playing' = <<>> /\ paused' = <<>>
    BY <1>6 DEF DoStopAll
  <2> QED
    BY <2>1, <2>2 DEF StatusListed
<1>7. CASE UNCHANGED listVars
  BY <1>7 DEF listVars, StatusListed
<1> QED
  BY <1>1, <1>2, <1>3, <1>4, <1>5, <1>6, <1>7 DEF ListStep

\* Nobody but the client itself changes a status while it is between the test and the
\* write of setLoopCount().
LEMMA LockedLoopExcludes ==
    ASSUME LockedInv, NEW c \in Clients, call[c].op \in {"loop", "rearm", "setloop"}, Next
    PROVE  /\ lock' = lock
           /\ status' = status \/ LoopRearm(c)
           /\ call'[c] = call[c] \/ LoopTest(c) \/ LoopRearm(c) \/ LoopStore(c)
<1> USE DEF LockedInv, IInv
<1>1. lock = c /\ c # Mixer /\ c # NoThread /\ mpc = "idle" /\ call[c] # Idle
  BY ThreadsAssumption DEF LoopsLocked, MixerLocks, Idle
<1>2. ~Mix /\ ~Destroy
  BY <1>1 DEF Mix, MixBegin, MixRead, MixLoop, MixThrow, MixNext, MixEnd, SoundMixed, MixCallback,
     MixCollect, CleanupPause, CleanupStop, MixDone, Destroy
<1>3. PICK d \in Clients : Client(d)
  BY <1>2 DEF Next
<1>4. CASE d = c
  BY <1>1, <1>3, <1>4 DEF Client, HandleStep, PauseBody, ResumeBody, StopBody, SeekBody, KeepBody,
     CallbackBody, Locked, LoopTest, LoopStore, LoopRearm, UnlockDevice, Call, Play, StopAll, LockDevice,
     listVars
<1>5. CASE d # c
  <2>1. ~CanLock(d) /\ lock # d /\ lock # NoThread
    BY <1>1, <1>5 DEF CanLock
  <2>2. ~(call[d].op \in {"loop", "rearm", "setloop"})
    BY <2>1 DEF LoopsLocked
  <2>3. \E r : Call(d, r)
    BY <1>3, <2>1, <2>2 DEF Client, HandleStep, PauseBody, ResumeBody, StopBody, SeekBody, KeepBody,
       CallbackBody, Locked, LoopTest, LoopStore, LoopRearm, UnlockDevice, Play, StopAll, LockDevice
  <2>4. lock' = lock /\ status' = status /\ \E r : call' = [call EXCEPT ![d] = r]
    BY <2>3 DEF Call, listVars
  <2> QED
    BY <1>5, <2>4 DEF TypeOK
<1> QED
  BY <1>4, <1>5

\* A client gets into setLoopCount() under the lock, and through it step by step.
LEMMA LoopCallComesFrom ==
    ASSUME IInv, LoopCallsLocked, NEW c \in Clients, Next,
           call'[c].op \in {"loop", "rearm", "setloop"},
           ~(call[c].op \in {"loop", "rearm", "setloop"})
    PROVE  call'[c].op = "loop" /\ lock = c /\ lock' = c
<1> USE DEF IInv
<1>1. ~(Idle.op \in {"loop", "rearm", "setloop"})
  BY DEF Idle
<1>2. ~Mix /\ ~Destroy
  BY DEF Mix, MixBegin, MixRead, MixLoop, MixThrow, MixNext, MixEnd, MixCallback,
     MixCollect, CleanupPause, CleanupStop, MixDone, Destroy
<1>3. PICK d \in Clients : Client(d)
  BY <1>2 DEF Next
<1>4. CASE \E r \in Calls : r.op \notin {"rearm", "setloop"} /\ Call(d, r)
  <2>1. PICK r \in Calls : r.op \notin {"rearm", "setloop"} /\ Call(d, r)
    BY <1>4
  <2>2. call' = [call EXCEPT ![d] = r] /\ lock' = lock /\ (r.op = "loop" => lock = d)
    BY <2>1 DEF Call, LoopCallsLocked
  <2>3. c = d /\ call'[c] = r
    BY <2>2 DEF TypeOK
  <2> QED
    BY <2>1, <2>2, <2>3
<1>5. CASE ~(\E r \in Calls : r.op \notin {"rearm", "setloop"} /\ Call(d, r))
  <2>1. ASSUME NEW h \in Handles
        PROVE  /\ \A op \in {"pause", "resume", "stop"} : [op |-> op, h |-> h] \in Calls
               /\ \A p \in 0 .. SoundLength[h] : [op |-> "seek", h |-> h, arg |-> p] \in Calls
               /\ \A op \in {"keep", "callback"}, b \in BOOLEAN :
                      [op |-> op, h |-> h, arg |-> b] \in Calls
               /\ \A n \in LoopCounts : [op |-> "loop", h |-> h, arg |-> n] \in Calls
    BY SoundsAssumption DEF Calls
  <2>2. \/ HandleStep(d) \/ StopAll(d) \/ LockDevice(d)
        \/ \E h \in Handles : \E k \in BOOLEAN : Play(d, h, k)
    BY <1>3, <1>5, <2>1 DEF Client
  <2>3. call' = call \/ call' = [call EXCEPT ![d] = Idle] \/ LoopTest(d) \/ LoopRearm(d)
    BY <2>2 DEF HandleStep, PauseBody, ResumeBody, StopBody, SeekBody, KeepBody,
       CallbackBody, Locked, LoopStore, UnlockDevice, Play, StopAll, LockDevice
  <2>4. LoopTest(d) \/ LoopRearm(d) => c # d /\ call'[c] = call[c]
    BY DEF LoopTest, LoopRearm, TypeOK
  <2> QED
    BY <1>1, <2>3, <2>4 DEF TypeOK
<1> QED
  BY <1>4, <1>5

LEMMA NextKeepsLockedInv ==
    ASSUME LockedInv, LoopCallsLocked, [Next]_vars, IInv'
    PROVE  LockedInv'
<1>1. CASE UNCHANGED vars
  BY <1>1 DEF vars, listVars, LockedInv, LoopsLocked, RearmsStopped, StatusListed
<1>2. CASE Next
  <2>1. StatusListed'
    BY <1>2, NextIsListStep, ListStepKeepsStatusListed DEF LockedInv, IInv
  <2>2. LoopsLocked'
    <3> SUFFICES ASSUME NEW c \in Clients, call'[c].op \in {"loop", "rearm", "setloop"} PROVE lock' = c
      BY DEF LoopsLocked
    <3>1. CASE call[c].op \in {"loop", "rearm", "setloop"}
      BY <1>2, <3>1, LockedLoopExcludes DEF LockedInv, LoopsLocked
    <3>2. CASE ~(call[c].op \in {"loop", "rearm", "setloop"})
      BY <1>2, <3>2, LoopCallComesFrom DEF LockedInv
    <3> QED
      BY <3>1, <3>2
  <2>3. RearmsStopped'
    <3> SUFFICES ASSUME NEW c \in Clients, call'[c].op = "rearm" PROVE status'[call'[c].h] = "STOPPED"
      BY DEF RearmsStopped
    <3>1. call[c].op \in {"loop", "rearm", "setloop"}
      BY <1>2, LoopCallComesFrom DEF LockedInv
    <3>2. call[c].h \in Handles /\ call[c] \in Calls \cup {Idle}
      BY <3>1, LoopCallFields DEF LockedInv, IInv, TypeOK
    <3>3. ~LoopRearm(c) /\ ~LoopStore(c)
      <4>1. call \in [Clients -> Calls \cup {Idle}]
        BY DEF LockedInv, IInv, TypeOK
      <4>2. LoopRearm(c) => call'[c].op = "setloop"
        BY <4>1 DEF LoopRearm
      <4>3. LoopStore(c) => call'[c].op = "none"
        BY <4>1 DEF LoopStore, Idle
      <4> QED
        BY <4>2, <4>3
    <3>4. CASE LoopTest(c)
      BY <3>4 DEF LoopTest, listVars, LockedInv, IInv, TypeOK
    <3>5. CASE call'[c] = call[c]
      BY <1>2, <3>1, <3>3, <3>5, LockedLoopExcludes DEF LockedInv, RearmsStopped
    <3> QED
      BY <1>2, <3>1, <3>3, <3>4, <3>5, LockedLoopExcludes
  <2> QED
    BY <2>1, <2>2, <2>3 DEF LockedInv
<1> QED
  BY <1>1, <1>2

\* Locking every setLoopCount() makes a status and the lists agree for good.
THEOREM LockedInvariance == LoopCallsLocked => (Spec => []LockedInv)
<1> SUFFICES ASSUME LoopCallsLocked PROVE Spec => []LockedInv
  OBVIOUS
<1>1. Init => LockedInv
  <2> SUFFICES ASSUME Init PROVE LockedInv
    OBVIOUS
  <2>1. Range(<<>>) = {}
    BY EmptyRange, EmptySeq
  <2> QED
    BY <2>1, InitIInv DEF Init, Idle, LockedInv, LoopsLocked, RearmsStopped, StatusListed
<1>2. LockedInv /\ [Next]_vars /\ IInv' => LockedInv'
  BY NextKeepsLockedInv
<1> QED
  BY <1>1, <1>2, Invariance, PTL DEF Spec

\* stop() is final once no setLoopCount() runs beside it.
THEOREM StopIsFinal == LoopCallsLocked => (Spec => InvalidIsFinal)
<1> SUFFICES ASSUME LoopCallsLocked PROVE Spec => InvalidIsFinal
  OBVIOUS
<1>1. LockedInv /\ [Next]_vars => [\A h \in Handles : status[h] = "INVALID" => status'[h] = "INVALID"]_vars
  <2> SUFFICES ASSUME LockedInv, Next, NEW h \in Handles, status[h] = "INVALID"
               PROVE  status'[h] = "INVALID"
    OBVIOUS
  <2>1. ListStep
    BY NextIsListStep
  <2>2. status \in [Handles -> {"UNBORN", "INVALID"} \cup Live]
    BY DEF LockedInv, IInv, TypeOK
  <2> QED
    BY <2>1, <2>2 DEF ListStep, DoPause, DoResume, DoStop, DoPlay, Rearmed, DoStopAll, listVars, Live
<1> QED
  BY <1>1, LockedInvariance, PTL DEF Spec, InvalidIsFinal

\* A list is not empty exactly when some handle is on it.
LEMMA SomeoneListed ==
    ASSUME NEW s \in Seq(Handles)
    PROVE  s # <<>> <=> \E h \in Handles : h \in Range(s)
<1>1. Range(s) \subseteq Handles
  BY RangeOfSeq DEF Range
<1> QED
  BY <1>1, EmptyRange

\* Each change of the lists is a move of the promise, or none.
LEMMA ListStepKeepsPromise ==
    ASSUME ListInv, StatusListed, ListStep, ListInv', StatusListed'
    PROVE  [Promise!ANext]_<<status, playback>>
<1> USE DEF ListInv, ListTypes
<1>1. playback' = (\E h \in Handles : status'[h] = "PLAYING")
  BY SomeoneListed DEF BackendRunsForSounds, StatusListed
<1>2. ASSUME NEW h \in Handles, NEW s, status' = [status EXCEPT ![h] = s]
      PROVE  Promise!Becomes(h, s)
  BY <1>1, <1>2 DEF Promise!Becomes
<1>3. ASSUME NEW h \in Handles, NEW s \in {"PAUSED", "STOPPED"}, DoPause(h, s)
      PROVE  Promise!Pause(h) \/ Promise!Finish(h) \/ UNCHANGED <<status, playback>>
  BY <1>2, <1>3 DEF DoPause, listVars, Promise!Pause, Promise!Finish
<1>4. ASSUME NEW h \in Handles, DoResume(h)
      PROVE  Promise!Resume(h) \/ UNCHANGED <<status, playback>>
  BY <1>2, <1>4 DEF DoResume, listVars, Promise!Resume
<1>5. ASSUME NEW h \in Handles, DoStop(h)
      PROVE  Promise!Stop(h) \/ UNCHANGED <<status, playback>>
  BY <1>2, <1>5 DEF DoStop, listVars, Promise!Stop, Promise!Valid, Live
<1>6. ASSUME NEW h \in Handles, NEW k, DoPlay(h, k)
      PROVE  Promise!Start(h)
  BY <1>2, <1>6 DEF DoPlay, Promise!Start
<1>7. ASSUME NEW h \in Handles, Rearmed(h)
      PROVE  Promise!Rearm(h)
  BY <1>2, <1>7 DEF Rearmed, Promise!Rearm
<1>8. ASSUME DoStopAll
      PROVE  Promise!StopAllHandles
  <2>1. \A h \in Handles : h \in Range(playing) \cup Range(paused) <=> Promise!Valid(h)
    BY DEF StatusListed, Promise!Valid
  <2>2. status' = [h \in Handles |-> IF Promise!Valid(h) THEN "INVALID" ELSE status[h]]
    BY <1>8, <2>1 DEF DoStopAll
  <2>3. playback' = FALSE
    BY <1>8 DEF DoStopAll, BackendRunsForSounds
  <2> QED
    BY <2>2, <2>3 DEF Promise!StopAllHandles
<1>9. CASE UNCHANGED listVars
  BY <1>9 DEF listVars
<1> QED
  BY <1>3, <1>4, <1>5, <1>6, <1>7, <1>8, <1>9 DEF ListStep, Promise!ANext

\* The device, with its lists, its mutex and its mix(), implements the promise of
\* IHandle.h: a handle moves only along the promised transitions, and the backend is
\* active exactly while one plays.
THEOREM KeepsPromise == LoopCallsLocked => (Spec => ImplementsPromise)
<1> SUFFICES ASSUME LoopCallsLocked PROVE Spec => ImplementsPromise
  OBVIOUS
<1>1. Init => Promise!AInit
  BY DEF Init, Promise!AInit
<1>2. LockedInv /\ [Next]_vars /\ LockedInv' => [Promise!ANext]_<<status, playback>>
  <2> SUFFICES ASSUME LockedInv, [Next]_vars, LockedInv'
               PROVE  [Promise!ANext]_<<status, playback>>
    OBVIOUS
  <2>1. CASE UNCHANGED vars
    BY <2>1 DEF vars, listVars
  <2>2. CASE Next
    BY <2>2, NextIsListStep, ListStepKeepsPromise DEF LockedInv, IInv
  <2> QED
    BY <2>1, <2>2
<1> QED
  BY <1>1, <1>2, LockedInvariance, PTL DEF Spec, ImplementsPromise, Promise!ASpec, Promise!avars
------------------------------------------------------------------------------
(* mix() takes what it ended off the playing list before it lets go of the device. *)

Mixing == mpc \in {"read", "loop", "end", "callback", "collect"}

\* a comes before b in the list s.
Before(s, a, b) == \E i, j \in DOMAIN s : i < j /\ s[i] = a /\ s[j] = b

\* An ended sound still on the playing list is put aside for the cleanup, and the
\* iterator is already behind it.
EndedLeave ==
    /\ \A h \in ended : status[h] # "UNBORN"
    /\ \A h \in ended \cap Range(playing) :
           /\ mpc # "idle"
           /\ h \in Range(pauseSounds) \cup Range(stopSounds)
           /\ Mixing => Before(playing, h, cur)

\* Erasing a handle keeps the order of the others.
LEMMA EraseKeepsOrder ==
    ASSUME NEW S, NEW s \in Seq(S), NEW h, NEW a, NEW b, a # h, b # h, Before(s, a, b)
    PROVE  Before(Erase(s, h), a, b)
<1>1. CASE h \notin Range(s)
  BY <1>1 DEF Erase
<1>2. CASE h \in Range(s)
  <2> DEFINE k == IndexOf(s, h)
             e == [i \in 1 .. Len(s) - 1 |-> IF i < k THEN s[i] ELSE s[i + 1]]
  <2>1. Len(s) \in Nat /\ DOMAIN s = 1 .. Len(s)
    BY LenProperties
  <2>2. k \in 1 .. Len(s) /\ s[k] = h
    BY <1>2, <2>1 DEF IndexOf, Range
  <2>3. Erase(s, h) = e
    BY <1>2 DEF Erase
  <2>4. PICK i \in 1 .. Len(s), j \in 1 .. Len(s) : i < j /\ s[i] = a /\ s[j] = b
    BY <2>1 DEF Before
  <2>5. i # k /\ j # k
    BY <2>2, <2>4
  <2> HIDE DEF k
  <2> DEFINE f(n) == IF n < k THEN n ELSE n - 1
  <2>6. \A n \in 1 .. Len(s) : n # k => f(n) \in 1 .. Len(s) - 1 /\ e[f(n)] = s[n]
    BY <2>1, <2>2
  <2>7. f(i) < f(j)
    BY <2>1, <2>2, <2>4, <2>5
  <2>8. DOMAIN e = 1 .. Len(s) - 1
    OBVIOUS
  <2>9. f(i) \in DOMAIN e /\ f(j) \in DOMAIN e /\ e[f(i)] = a /\ e[f(j)] = b
    BY <2>4, <2>5, <2>6, <2>8
  <2> HIDE DEF e, f
  <2>10. Before(e, a, b)
    BY <2>7, <2>9 DEF Before
  <2> QED
    BY <2>3, <2>10
<1> QED
  BY <1>1, <1>2

\* Appending a handle keeps the order of the list.
LEMMA AppendKeepsOrder ==
    ASSUME NEW S, NEW s \in Seq(S), NEW h \in S, NEW a, NEW b, Before(s, a, b)
    PROVE  Before(Append(s, h), a, b)
<1>1. Len(s) \in Nat /\ DOMAIN s = 1 .. Len(s)
  BY LenProperties
<1>2. SUFFICES ASSUME NEW t, t = Append(s, h) PROVE Before(t, a, b)
  OBVIOUS
<1>3. /\ t \in Seq(S)
      /\ Len(t) = Len(s) + 1
      /\ \A i \in 1 .. Len(s) : t[i] = s[i]
  BY <1>2
<1>4. DOMAIN t = 1 .. Len(s) + 1
  BY <1>3, LenProperties
<1> QED
  BY <1>1, <1>3, <1>4 DEF Before

\* What is not behind an element of the list is before its successor.
LEMMA AfterIsLater ==
    ASSUME NEW S, NEW s \in Seq(S), Distinct(s), NEW a, NEW b \in Range(s),
           a = b \/ Before(s, a, b), After(s, b) # NoHandle
    PROVE  Before(s, a, After(s, b))
<1> DEFINE k == IndexOf(s, b)
<1>1. Len(s) \in Nat /\ DOMAIN s = 1 .. Len(s)
  BY LenProperties
<1>2. k \in 1 .. Len(s) /\ s[k] = b
  BY <1>1 DEF IndexOf, Range
<1>3. k < Len(s) /\ After(s, b) = s[k + 1]
  BY DEF After
<1> HIDE DEF k
<1>4. PICK i \in 1 .. Len(s) : i <= k /\ s[i] = a
  <2>1. CASE a = b
    BY <1>2, <2>1
  <2>2. CASE Before(s, a, b)
    BY <1>1, <1>2, <2>2 DEF Before, Distinct
  <2> QED
    BY <2>1, <2>2
<1>5. i < k + 1 /\ k + 1 \in 1 .. Len(s)
  BY <1>1, <1>2, <1>3, <1>4
<1> QED
  BY <1>1, <1>3, <1>4, <1>5 DEF Before

\* No element of a list without duplicates is before itself.
LEMMA NotBeforeItself ==
    ASSUME NEW s, Distinct(s), NEW a, DOMAIN s \subseteq Int
    PROVE  ~Before(s, a, a)
BY DEF Before, Distinct

\* What the operations on a handle do to the ended sounds: they forget one that plays
\* again and put none on the playing list, and the order of that list stays.
HandleOp(h) ==
    \/ \E s \in {"PAUSED", "STOPPED"} : DoPause(h, s) /\ UNCHANGED ended
    \/ DoResume(h)
    \/ DoStop(h) /\ UNCHANGED ended
    \/ \E k \in BOOLEAN : DoPlay(h, k) /\ UNCHANGED ended

LEMMA HandleOpKeepsEnded ==
    ASSUME ListInv, NEW h \in Handles, ended \in SUBSET Handles,
           \A g \in ended : status[g] # "UNBORN", HandleOp(h)
    PROVE  /\ ended' \subseteq ended
           /\ \A g \in ended' :
                 /\ status'[g] # "UNBORN"
                 /\ g \in Range(playing') => g \in Range(playing)
                 /\ \A b : /\ g \in Range(playing') /\ b # h /\ Before(playing, g, b)
                           => Before(playing', g, b)
<1> USE DEF ListInv, ListTypes, OnOneList
<1>1. CASE UNCHANGED listVars /\ ended' \subseteq ended
  BY <1>1 DEF listVars
<1>2. CASE /\ playing' = Erase(playing, h) /\ ended' = ended
           /\ \E s \in Live \cup {"INVALID"} : status' = [status EXCEPT ![h] = s]
  <2>1. Range(playing') = Range(playing) \ {h}
    BY <1>2, EraseRemoves
  <2>2. \A g \in ended' : status'[g] # "UNBORN"
    BY <1>2 DEF Live
  <2>3. \A a, b : a # h /\ b # h /\ Before(playing, a, b) => Before(playing', a, b)
    BY <1>2, EraseKeepsOrder
  <2> QED
    BY <1>2, <2>1, <2>2, <2>3
<1>3. CASE /\ playing' = Append(playing, h) /\ ended' \subseteq ended \ {h}
           /\ h \notin Range(playing) /\ status' = [status EXCEPT ![h] = "PLAYING"]
  <2>1. Range(playing') = Range(playing) \cup {h}
    BY <1>3, AppendNew
  <2>2. \A g \in ended' : status'[g] # "UNBORN" /\ g # h
    BY <1>3
  <2>3. \A a, b : Before(playing, a, b) => Before(playing', a, b)
    BY <1>3, AppendKeepsOrder
  <2> QED
    BY <1>3, <2>1, <2>2, <2>3
<1>4. CASE \E s \in {"PAUSED", "STOPPED"} : DoPause(h, s) /\ UNCHANGED ended
  BY <1>1, <1>2, <1>4 DEF DoPause, Live
<1>5. CASE DoResume(h)
  BY <1>1, <1>3, <1>5 DEF DoResume
<1>6. CASE DoStop(h) /\ UNCHANGED ended
  BY <1>1, <1>2, <1>6 DEF DoStop
<1>7. CASE \E k \in BOOLEAN : DoPlay(h, k) /\ UNCHANGED ended
  BY <1>3, <1>7 DEF DoPlay, ListedIsValid, Live
<1> QED
  BY <1>4, <1>5, <1>6, <1>7 DEF HandleOp

\* The head is the only element a list loses with it, and appending loses none.
LEMMA TailRange ==
    ASSUME NEW S, NEW s \in Seq(S), s # <<>>
    PROVE  Range(s) \subseteq Range(Tail(s)) \cup {Head(s)}
<1>1. /\ Len(s) \in Nat \ {0} /\ DOMAIN s = 1 .. Len(s)
      /\ Tail(s) \in Seq(S) /\ Len(Tail(s)) = Len(s) - 1 /\ Head(s) = s[1]
      /\ \A i \in 1 .. Len(s) - 1 : Tail(s)[i] = s[i + 1]
  BY LenProperties, HeadTailProperties, EmptySeq
<1>2. DOMAIN Tail(s) = 1 .. Len(s) - 1
  BY <1>1, LenProperties
<1>3. ASSUME NEW i \in 1 .. Len(s), i # 1 PROVE s[i] \in Range(Tail(s))
  <2>1. i - 1 \in 1 .. Len(s) - 1 /\ Tail(s)[i - 1] = s[i]
    BY <1>1, <1>3
  <2> QED
    BY <1>2, <2>1 DEF Range
<1> QED
  BY <1>1, <1>3 DEF Range

LEMMA AppendRange ==
    ASSUME NEW S, NEW s \in Seq(S), NEW h \in S
    PROVE  Range(Append(s, h)) = Range(s) \cup {h}
<1>1. Len(s) \in Nat /\ DOMAIN s = 1 .. Len(s)
  BY LenProperties
<1>2. SUFFICES ASSUME NEW t, t = Append(s, h) PROVE Range(t) = Range(s) \cup {h}
  OBVIOUS
<1>3. /\ t \in Seq(S) /\ Len(t) = Len(s) + 1
      /\ \A i \in 1 .. Len(s) : t[i] = s[i]
      /\ t[Len(s) + 1] = h
  BY <1>2
<1>4. DOMAIN t = 1 .. Len(s) + 1
  BY <1>3, LenProperties
<1> QED
  BY <1>1, <1>3, <1>4 DEF Range

\* A client changes the playing list only while mix() does not run.
LEMMA ClientLeavesMix ==
    ASSUME TypeOK, ListInv, MixerLocks, NEW c \in Clients, Client(c)
    PROVE  /\ UNCHANGED mixVars
           /\ \/ /\ UNCHANGED <<playing, ended>>
                 /\ \A g \in Handles : status[g] # "UNBORN" => status'[g] # "UNBORN"
              \/ /\ mpc = "idle"
                 /\ \/ \E h \in Handles : HandleOp(h)
                    \/ DoStopAll /\ UNCHANGED ended
<1> USE DEF TypeOK
<1>1. CanLock(c) => mpc = "idle"
  BY ThreadsAssumption DEF CanLock, MixerLocks
<1>2. CASE PauseBody(c) \/ ResumeBody(c) \/ StopBody(c)
  <2>1. call[c].h \in Handles /\ CanLock(c) /\ UNCHANGED mixVars
    BY <1>2 DEF PauseBody, ResumeBody, StopBody, Locked, Calls, Idle
  <2>2. HandleOp(call[c].h)
    BY <1>2 DEF PauseBody, ResumeBody, StopBody, HandleOp
  <2> QED
    BY <1>1, <2>1, <2>2
<1>3. CASE SeekBody(c)
  BY <1>3 DEF SeekBody, Locked, Live
<1>4. CASE LoopRearm(c)
  BY <1>4 DEF LoopRearm
<1>5. CASE KeepBody(c) \/ CallbackBody(c) \/ LoopTest(c) \/ LoopStore(c) \/ UnlockDevice(c)
           \/ LockDevice(c) \/ \E r : Call(c, r)
  BY <1>5 DEF KeepBody, CallbackBody, LoopTest, LoopStore, UnlockDevice, LockDevice, Call, Locked,
     listVars
<1>6. CASE \E h \in Handles : \E k \in BOOLEAN : Play(c, h, k)
  BY <1>1, <1>6 DEF Play, HandleOp
<1>7. CASE StopAll(c)
  BY <1>1, <1>7 DEF StopAll
<1> QED
  BY <1>2, <1>3, <1>4, <1>5, <1>6, <1>7 DEF Client, HandleStep

\* The iterator moves on behind everything that ended.
LEMMA AdvanceKeepsOrder ==
    ASSUME TypeOK, ListInv, cur \in Range(playing), Advance, playing' = playing,
           NEW a, a = cur \/ Before(playing, a, cur)
    PROVE  mpc' # "idle" /\ (Mixing' => Before(playing', a, cur'))
<1>1. cur' # NoHandle => Before(playing, a, cur')
  BY AfterIsLater DEF Advance, ListInv, ListTypes, OnOneList
<1> QED
  BY <1>1 DEF Advance, Mixing

\* A step of mix() keeps the ended sounds on their way out.
LEMMA MixKeepsEnded ==
    ASSUME LockedInv, EndedLeave, Mix
    PROVE  EndedLeave'
<1> USE DEF LockedInv, IInv
<1>t. /\ ended \in SUBSET Handles /\ cur \in Handles \cup {NoHandle}
      /\ pauseSounds \in Seq(Handles) /\ stopSounds \in Seq(Handles)
  BY DEF TypeOK
<1>1. CASE MixBegin
  BY <1>1 DEF MixBegin, EndedLeave, listVars
<1>2. CASE MixRead \/ MixLoop \/ MixThrow \/ MixEnd
  <2>1. UNCHANGED <<status, playing, ended, cur, pauseSounds, stopSounds>>
    BY <1>2 DEF MixRead, MixLoop, MixThrow, MixEnd, listVars
  <2>2. Mixing /\ mpc' # "idle"
    BY <1>2 DEF MixRead, MixLoop, MixThrow, MixEnd, SoundMixed, Mixing
  <2> QED
    BY <2>1, <2>2 DEF EndedLeave
<1>3. CASE MixNext
  <2>1. UNCHANGED <<status, playing, ended, pauseSounds, stopSounds>> /\ Advance
    BY <1>3 DEF MixNext, listVars
  <2>2. Mixing /\ cur \in Range(playing)
    BY <1>3 DEF MixNext, SoundMixed, Mixing, IteratorValid
  <2>3. \A g \in ended \cap Range(playing) : mpc' # "idle" /\ (Mixing' => Before(playing', g, cur'))
    BY <2>1, <2>2, AdvanceKeepsOrder DEF EndedLeave
  <2> QED
    BY <2>1, <2>3 DEF EndedLeave
<1>4. CASE MixCallback
  <2>1. /\ UNCHANGED <<cur, pauseSounds, stopSounds>>
        /\ Mixing /\ mpc' # "idle" /\ cur \in Range(playing)
    BY <1>4 DEF MixCallback, Mixing, IteratorValid
  <2>2. CASE UNCHANGED listVars /\ UNCHANGED ended
    BY <2>1, <2>2 DEF listVars, EndedLeave
  <2>3. CASE \E h \in Handles \ {cur} : HandleOp(h)
    <3>1. PICK h \in Handles \ {cur} : HandleOp(h)
      BY <2>3
    <3>2. \A g \in ended : status[g] # "UNBORN"
      BY DEF EndedLeave
    <3>3. /\ ended' \subseteq ended
          /\ \A g \in ended' :
                /\ status'[g] # "UNBORN"
                /\ g \in Range(playing') => g \in Range(playing)
                /\ g \in Range(playing') /\ Before(playing, g, cur) => Before(playing', g, cur)
      BY <1>t, <3>1, <3>2, HandleOpKeepsEnded
    <3> QED
      BY <2>1, <3>3 DEF EndedLeave
  <2> QED
    BY <1>4, <2>2, <2>3 DEF MixCallback, HandleOp
<1>5. CASE MixCollect
  <2>1. UNCHANGED <<status, playing>> /\ Advance /\ ended' = ended \cup {cur}
    BY <1>5 DEF MixCollect, listVars
  <2>2. Mixing /\ cur \in Range(playing)
    BY <1>5 DEF MixCollect, Mixing, IteratorValid
  <2>3. \A g \in ended' \cap Range(playing) : mpc' # "idle" /\ (Mixing' => Before(playing', g, cur'))
    BY <2>1, <2>2, AdvanceKeepsOrder DEF EndedLeave
  <2>4. status[cur] # "UNBORN"
    BY <2>2 DEF ListInv, ListedIsValid, Live
  <2>5. \A s \in Seq(Handles) : Range(Append(s, cur)) = Range(s) \cup {cur}
    <3>1. cur \in Handles
      BY <2>2, RangeOfSeq DEF ListInv, ListTypes
    <3> QED
      BY <3>1, AppendRange
  <2>6. Range(pauseSounds) \cup Range(stopSounds) \cup {cur} \subseteq
            Range(pauseSounds') \cup Range(stopSounds')
    BY <1>t, <1>5, <2>5 DEF MixCollect
  <2> QED
    BY <2>1, <2>3, <2>4, <2>6 DEF EndedLeave
<1>6. CASE CleanupPause
  <2> DEFINE h == Head(pauseSounds)
  <2>1. /\ h \in Handles /\ HandleOp(h) /\ DoPause(h, "STOPPED")
        /\ UNCHANGED <<ended, mpc, stopSounds>> /\ mpc = "cleanup"
    BY <1>t, <1>6, HeadTailProperties DEF CleanupPause, HandleOp
  <2>2. Range(pauseSounds) \subseteq Range(pauseSounds') \cup {h}
    BY <1>t, <1>6, TailRange DEF CleanupPause
  <2>3. h \notin Range(playing')
    <3>1. CASE h \in Range(playing)
      BY <2>1, <3>1, EraseRemoves DEF DoPause, StatusListed, ListInv, ListTypes, OnOneList
    <3>2. CASE h \notin Range(playing)
      BY <2>1, <3>2 DEF DoPause, listVars
    <3> QED
      BY <3>1, <3>2
  <2>4. \A g \in ended' : status'[g] # "UNBORN" /\ (g \in Range(playing') => g \in Range(playing))
    BY <1>t, <2>1, HandleOpKeepsEnded DEF EndedLeave
  <2> HIDE DEF h
  <2> QED
    BY <2>1, <2>2, <2>3, <2>4 DEF EndedLeave, Mixing
<1>7. CASE CleanupStop
  <2> DEFINE h == Head(stopSounds)
  <2>1. /\ h \in Handles /\ HandleOp(h) /\ DoStop(h)
        /\ UNCHANGED <<ended, mpc, pauseSounds>> /\ mpc = "cleanup"
    BY <1>t, <1>7, HeadTailProperties DEF CleanupStop, HandleOp
  <2>2. Range(stopSounds) \subseteq Range(stopSounds') \cup {h}
    BY <1>t, <1>7, TailRange DEF CleanupStop
  <2>3. h \notin Range(playing')
    <3>1. CASE h \in Range(playing)
      BY <2>1, <3>1, EraseRemoves DEF DoStop, ListInv, ListedIsValid, ListTypes, OnOneList
    <3>2. CASE h \notin Range(playing)
      BY <2>1, <3>2 DEF DoStop, listVars, Erase
    <3> QED
      BY <3>1, <3>2
  <2>4. \A g \in ended' : status'[g] # "UNBORN" /\ (g \in Range(playing') => g \in Range(playing))
    BY <1>t, <2>1, HandleOpKeepsEnded DEF EndedLeave
  <2> HIDE DEF h
  <2> QED
    BY <2>1, <2>2, <2>3, <2>4 DEF EndedLeave, Mixing
<1>8. CASE MixDone
  <2>1. Range(pauseSounds) = {} /\ Range(stopSounds) = {}
    BY <1>t, <1>8, EmptyRange DEF MixDone
  <2> QED
    BY <1>8, <2>1 DEF MixDone, EndedLeave, listVars, Mixing
<1> QED
  BY <1>1, <1>2, <1>3, <1>4, <1>5, <1>6, <1>7, <1>8 DEF Mix

\* Every step does.
LEMMA NextKeepsEnded ==
    ASSUME LockedInv, EndedLeave, [Next]_vars
    PROVE  EndedLeave'
<1> USE DEF LockedInv, IInv
<1>1. CASE UNCHANGED vars
  BY <1>1 DEF vars, listVars, mixVars, EndedLeave, Mixing
<1>2. CASE Mix
  BY <1>2, MixKeepsEnded
<1>3. CASE /\ UNCHANGED <<mixVars, playing, ended>>
           /\ \A g \in Handles : status[g] # "UNBORN" => status'[g] # "UNBORN"
  BY <1>3 DEF mixVars, EndedLeave, Mixing, TypeOK
<1>4. CASE mpc = "idle" /\ UNCHANGED mixVars /\ \E h \in Handles : HandleOp(h)
  <2>1. ended \in SUBSET Handles /\ (\A g \in ended : status[g] # "UNBORN")
    BY DEF TypeOK, EndedLeave
  <2>2. /\ ended' \subseteq ended
        /\ \A g \in ended' : /\ status'[g] # "UNBORN"
                             /\ g \in Range(playing') => g \in Range(playing)
    BY <1>4, <2>1, HandleOpKeepsEnded
  <2> QED
    BY <1>4, <2>2 DEF EndedLeave
<1>5. CASE mpc = "idle" /\ UNCHANGED mixVars /\ DoStopAll /\ UNCHANGED ended
  <2>1. Range(playing') = {}
    BY <1>5, EmptyRange, EmptySeq DEF DoStopAll
  <2>2. \A g \in ended : status'[g] # "UNBORN"
    BY <1>5 DEF DoStopAll, EndedLeave, TypeOK
  <2> QED
    BY <1>5, <2>1, <2>2 DEF EndedLeave
<1>6. CASE \E c \in Clients : Client(c)
  BY <1>3, <1>4, <1>5, <1>6, ClientLeavesMix
<1>7. CASE Destroy
  BY <1>5, <1>7 DEF Destroy
<1> QED
  BY <1>1, <1>2, <1>6, <1>7 DEF Next

\* The end of a sound is reported once between two times it plays, unless a
\* setLoopCount() without the device mutex hides the ended handle from the cleanup.
THEOREM EndsReportedOnce == LoopCallsLocked => (Spec => []EndReportedOnce)
<1> SUFFICES ASSUME LoopCallsLocked PROVE Spec => []EndReportedOnce
  OBVIOUS
<1>1. Init => EndedLeave
  BY DEF Init, EndedLeave
<1>2. LockedInv /\ EndedLeave /\ [Next]_vars => EndedLeave'
  BY NextKeepsEnded
<1>3. LockedInv /\ EndedLeave => EndReportedOnce
  <2> SUFFICES ASSUME LockedInv, EndedLeave, mpc \in {"callback", "collect"}, cur \in ended PROVE FALSE
    BY DEF EndReportedOnce
  <2>1. cur \in Range(playing) /\ Mixing
    BY DEF LockedInv, IInv, IteratorValid, Mixing
  <2>2. Before(playing, cur, cur)
    BY <2>1 DEF EndedLeave
  <2>3. Distinct(playing) /\ DOMAIN playing \subseteq Int
    BY LenProperties DEF LockedInv, IInv, ListInv, ListTypes, OnOneList
  <2> QED
    BY <2>2, <2>3, NotBeforeItself
<1> QED
  BY <1>1, <1>2, <1>3, LockedInvariance, PTL DEF Spec
=============================================================================
