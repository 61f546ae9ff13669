# Audaspace in TLA+

Models of the parts of Audaspace in which several threads, callbacks and states
meet, or in which positions and lengths are computed through layers, the TLC
configurations that check them on small instances, and proofs that TLAPS checks
for every size. All paths below are relative to the repository.

- [The system](#the-system): what there is, and what is hard about it
- [The modules](#the-modules): what models what, and how it corresponds to the code
- [The runs](#the-runs): what is checked, with which bounds and why they are enough
- [Fairness](#fairness)
- [The proofs](#the-proofs): what holds for every instance, and along which argument
- [Findings](#findings): where the code and its comments disagree, and what callers have to avoid
- [Not modelled](#not-modelled)
- [Plan](#plan)

## The system

Audaspace turns *sounds* (descriptions, `ISound`) into *readers* (streams of
samples, `IReader`) and plays readers on *devices* (`IDevice`), which give out
*handles* (`IHandle`). Almost everything concurrent happens in the devices and in
the few parts that register stop callbacks with a device.

| component | state | operations | who meets there |
|---|---|---|---|
| Software mixing device (`src/devices/SoftwareDevice.cpp`) | two lists of handles, status, loop count, reader position of each handle, `m_playback`, a recursive mutex | handle operations, `play`, `stopAll`, `lock`, `mix` | user threads, the backend's thread in `mix()`, stop callbacks |
| Mixing thread device (`src/devices/MixingThreadDevice.cpp`; PulseAudio, PipeWire, JACK) | mixing thread, condition variable, ring buffer, corked stream | fill loop, `playing`, `notify`, stop | user threads, mixing thread, main loop of the backend |
| Ring buffer (`src/util/RingBuffer.cpp`) | two volatile indices, the memory | `read`, `write`, `reset` | mixing thread and the backend's callback, without a lock |
| Threaded device (`src/devices/ThreadedDevice.cpp`; WASAPI) | thread, `m_playing`, `m_stop` | `start`, `playing`, rounds, stop | user threads, mixing thread, hardware that fails |
| OpenAL device (`plugins/openal/OpenALDevice.cpp`) | lists of handles, one queue of buffers per source, `m_playing` | as the software device; rounds that refill queues | user threads, streaming thread, OpenAL |
| Dynamic music (`src/fx/DynamicMusic.cpp`) | scenes, current and fading handle, atomic flags, fade thread | `changeScene`, `stop`, `pause`, `resume`, `seek`, `setVolume`, two stop callbacks, three fades | client, mixing thread, fade thread |
| Playback manager (`src/fx/PlaybackCategory.cpp`, `PlaybackManager.cpp`) | tables of categories and of handles, data of callbacks | `play`, `pause`, `resume`, `stop`, `clean`, a stop callback | client, users of single handles, mixing thread |
| Sequencer (`src/sequence/Sequence*.cpp`) | entries with revisions, handles with the revisions they have seen, a device of its own | edits; the reader's merge and updates | client, mixing thread |
| Animated properties (`src/sequence/AnimateableProperty.cpp`) | frames, list of unknown ranges | writes, reads | client, mixing thread |
| Thread pool and convolver (`src/util/ThreadPool.cpp`, `src/fx/*Convolver*.cpp`) | task queue, futures, windows, delay line, tail | `enqueue`, `getNext`, `reset`, `read`, `seek` | pool threads, mixing thread |
| Readers that cut and join (`src/fx/`, `src/sequence/`) | what is left of a loop or a delay, a position, the readers inside | `read`, `seek`, `getPosition`, `getLength` | one thread at a time, several layers |
| Other effects, generators, resampling, files, codecs, bindings | mostly arithmetic | | |

How they interact: a user thread calls a handle, which locks the device; when the
playing list becomes empty or stops being empty the device calls the virtual
function `playing()`, which starts, wakes, stops or puts to sleep whatever thread
mixes; that thread locks the device and calls `mix()`, which reads the readers and
calls the stop callbacks of sounds that ended, with the device locked; callbacks
(dynamic music, playback categories) play and stop further sounds. A sequence is a
reader with a device inside, whose handles follow entries that are edited meanwhile;
a convolver is a reader that waits for a pool of threads.

What is hard about it:

1. `mix()` walks a list that callbacks change, and puts handles aside that
   callbacks and other threads go on using; handle operations test `m_status`
   before they lock; `setLoopCount()` never locks.
2. The mixing thread waits on a condition variable without a condition; corking a
   stream races with waking it; two locks are nested.
3. Two flags stand for "there is a thread, and it is going to stop"; the thread
   ends by itself when the hardware fails.
4. The ring buffer has no lock at all.
5. Dynamic music spreads one change of scene over three threads and six fields.
6. A category keeps a table of handles that the mixing thread empties, in an entry whose
   number the callback was given; its status is written after the device was unlocked.
7. Nothing tells a sequence's handles that an entry was edited: they compare revisions,
   in several critical sections, and the list of entries is merged by number.
8. Tasks of a pool wait for tasks they queued in the same pool; several write the same fields.
9. To OpenAL's thread a source that has stopped may have ended, run dry, been paused or been
   sought.
10. Each reader cuts its reads by what `getPosition()`, `getLength()` and `eos` of the
    reader inside say, and those are computed differently everywhere.

`PROJECT.json` lists each hazard at its line with the properties about it.
What makes each component correct: the lists and the statuses of handles agree and
the backend runs exactly for what plays (1); no mixed frame and no playing sound is
lost, idle streams sleep, destructors return (2, 3); the buffer is a queue (4); one
scene is heard, what plays can be stopped, changes end (5); a category reaches all of its
sounds and its data are used once (6); what is heard of an entry is what the entry says (7); the
output is the convolution and its whole tail, and reads return (8); every chunk is heard once, in
order (9); a composition of readers gives the frames the composition stands for (10).

## The modules

```
PlaybackHandles ------- implemented by ------- SoftwareDevice
      |
   MixPass ------- composed into ------- MixingThreadDevice, ThreadedDevice, PlaybackCategory
FrameQueue ------- implemented by ------- RingBuffer
DynamicMusic    SequenceReader    AnimateableProperty    Convolver    OpenALDevice    SoundReaders
```

**PlaybackHandles** is the abstract specification: what `include/devices/IHandle.h`
and `IDevice.h` promise about a handle's status and about the device being active,
with no list, lock or thread.

**SoftwareDevice** models `SoftwareDevice.cpp` in full interleaving. `playing` and
`paused` are `m_playingSounds` and `m_pausedSounds`, `playback` is `m_playback` (each
call `playing(m_playback = b)` is a change of it), `lock` the owner of `m_mutex`
(recursive: `LockDevice` lets a client do several calls at once). A client's call is
`Call` (the unlocked test of `m_status`), then one locked step, `PauseBody`,
`ResumeBody`, `StopBody`, `SeekBody`, `KeepBody` or `CallbackBody`; `setLoopCount()`
is `LoopTest`, `LoopRearm`, `LoopStore`, three steps without the lock. `mix()` is a
step per phase: `MixBegin`, `MixRead`, `MixLoop`, `MixThrow`, `MixNext`, `MixEnd`,
`MixCallback`, `MixCollect`, `CleanupPause`, `CleanupStop`, `MixDone`. The reader is
`BufferReader` (`src/util/BufferReader.cpp`), whose read is short only at the end.
Stop callbacks may start, pause, resume or stop other handles, or do nothing; they
leave the handle that ended alone, since stopping it there frees the list node the
loop stands on. `Destroy` is `destroy()`. `ended` is a history variable.

**MixPass** is a pass of `mix()` as the parts built on it see it: which sounds
end, what callbacks do, the cleanup. It works on the state of PlaybackHandles, which
SoftwareDevice was shown to implement; its cleanup (`Cleanup`) allows whatever
SoftwareDevice's does for kept and other sounds.

**MixingThreadDevice** composes MixPass with `updateRingBuffer()` and with the
PulseAudio plugin (`plugins/pulseaudio/PulseAudioDevice.cpp`); PipeWire sleeps by
deactivating its stream and flushes it later, in a callback (`handleStateChanged()`), which
is not modelled. `mt` is the program counter
of the mixing thread, which owns `m_mixingLock` in all its states but "ready",
"waiting" and "done"; `lock` and `mainloop` are the device mutex and the main loop lock. A
call that makes the device active notifies (`Notify`), then takes the main loop lock
(`WakeLock`, `Wake`); `CorkTest`, `CorkLock`, `Cork` are `preMixingWork()`;
`BackendRead`, `BackendNotify` are `PulseAudio_request()`; `Close`, `Invalidate`,
`NotifyStop`, `Destroy` the destructor. `ring` is the sequence that RingBuffer
implements; a frame is the set of sounds mixed into it. `stream` holds the frames the server was
given and has not played: `ServerPlays` plays one, the flush in `Cork` drops them all, and a sound
is heard when its frame is played. Silence the plugin pads with is left out.

**ThreadedDevice** composes MixPass with `ThreadedDevice.cpp` and with the loop of the
WASAPI plugin (`plugins/wasapi/WASAPIDevice.cpp`): `StartThread` is `start()`,
`Playing` is `playing()`, `Round`, `FirstMix`, `SecondMix`, `RoundDone` a round,
`Fault` and `Switch` the paths on which the device is lost and opened again or not,
`DoStop` is `doStop()`, `CloseStop` and `Join` the destructor.

**RingBuffer** models `RingBuffer.cpp` cell by cell: a call loads the other side's
index (`ReadBegin`, `WriteBegin`), copies (`ReadCopy`, `WriteCopy`) and stores its own
index (`ReadStore`, `WriteStore`). `Reordering` lets an index be seen before the copy
it announces, which `volatile` does not forbid on a weakly ordered processor; `Resets`
says when `reset()` may come. **FrameQueue** is the bounded queue it implements.

**DynamicMusic** models `DynamicMusic.cpp`: the client's `changeScene()`
(`ChangeBegins`, `ChangeJoins`, `Change`) and other operations (`OperationBegins`,
`PointerRead`, `CurrentDone`, `OtherDone`, `Returns`, `StopReturns`), the callbacks on
the mixing thread (`TransitionBegins` and `TransitionGoesOn` are
`transitionCallback()`, `ScenePlays` and `ScenePublished` are `sceneCallback()`), and
the three fading functions as one (`FadeBegins` to `FadePublished`, by `fade.kind`).
Every read of a shared field that is not under the device mutex is in a step of its
own. A null pointer that is dereferenced is the value of `crashed`.

**PlaybackCategory** composes MixPass with categories and their manager. `play()` is
`PlayBegins` (the device is locked and gives a handle) or `PlayFails` (it gives none,
and the function returns with the device locked, which `leaked` remembers),
`PlayRegisters` (up to the unlock) and `PlayCounts` (`m_currentID++` after it).
`pause()`, `resume()` and `stop()` are `Apply`, which also drops invalid handles, and
`StatusWritten`, after the unlock. `CleanHandleCallback` is the stop callback on the
mixing thread; `data` is the memory it is given. `UseHandle` lets users act on single
handles. `cleanHandles()` does not lock: clients of the model call it under the device's
`lock()`, as they have to.

**SequenceReader** models `SequenceData`, `SequenceEntry`, `SequenceReader` and
`SequenceHandle`, with the reader's own device as a set of sounds. Time is in animation
frames, the pieces a read is cut into. `ReadBegins` takes the lock of the sequence and
merges (`MergedFrom`) when the revision of the list has changed; then each handle is
updated: `UpdateTests` (the sound's revision, without the entry's lock), `UpdatePlaces`
(`updatePosition()`: start, pause, resume, stop), `UpdateSeeks` (the rest of `seek()`),
`UpdateRevises` (the entry's revision); `MixPiece` mixes and goes on or returns. Edits of an
entry come between any two of these steps; `add()` and `remove()` wait for the lock. `Seek`
is the reader's. `touched` is a history variable: the entries edited during these updates.

**AnimateableProperty** keeps the frames (`buffer`), `m_isAnimated` and the list
`m_unknown`; `Write`, `WriteStatic` and `WriteConstantRange` are the three writes,
`UpdateUnknownAfterWrite` and `Cached` the functions they call. `written` and `default` are
the history against which `Read` is checked.

**Convolver** models `ConvolverReader`, `Convolver` and `FFTConvolver` on the queue of
`ThreadPool`. A window stands for its Fourier transform, and a sum is the set of its terms, one part
of the impulse response and one window each: a term added twice, lost or taken from the wrong
block is another set. `Copy`, `LoadBuffer` and `BlockLoaded` are `read()` and
`loadBuffer()`; `TakeTask`, `GetNext`, `Enqueue`, `EndTask` and `SumParts` what the threads
do; `Reset` is `seek()`, channel by channel. (A sum is order-free only up to rounding.)

**OpenALDevice** models `play()`, `pause()`, `resume()`, `stop()`, `seek()`, `setKeep()`, the
destructor and the streaming thread: `RoundBegins`, `Refill`, `CheckSource` for each sound,
`RoundEnds`, and `RoundFails`, an error of OpenAL. `Mix` is OpenAL, which plays the
queue of a source while the thread holds the device. A sound is a sequence of chunks, one per buffer;
`Announced` are the sounds whose last chunk comes with the end of stream.

**SoundReaders** has the readers as recursive functions. `Frames` is the reference, the frames
a tree of sounds stands for; `NewReader`, `SeekTo`, `Read`, `Position`, `Length` are the
constructors and methods. A frame is the set of buffer frames that sound in it. `eos` is passed as
in the code, by reference: a reader that does not set it leaves the caller's value, and one that
was never initialized has either. `Composes` and the operators before it say which sounds
may be put into which (see [Findings](#findings)); each of them is needed, TLC shows a
counterexample without it.

Definitions named `X_Something` and marked *Slip* are plausible mistakes in `X`; the
properties are known to detect them. `MC*.tla` and `MC*.cfg` are the instances.

## The runs

| run | module | what it shows | states |
|---|---|---|---|
| `handles` | SoftwareDevice | status and lists agree, `mix()`'s iterator stays valid, an end is reported once, finite sounds end, the backend runs exactly for sounds, the device implements PlaybackHandles: if `setLoopCount()` is called under `lock()` | 249 159 |
| `stop_is_final` | SoftwareDevice | **violated**: an unlocked `setLoopCount()` undoes `stop()` | |
| `ring_buffer` | RingBuffer | the two copies never touch a cell at once, reads are in order, the buffer implements FrameQueue, every frame is read | 3 194 |
| `mixing_thread` | MixingThreadDevice | stream awake while a sound plays, nothing left behind by a sleeping stream and nothing of a playing sound flushed, playing sounds heard, device mutex released, destructor ends | 119 817 |
| `threaded` | ThreadedDevice | while the hardware works a playing sound has a thread that is not about to end and is mixed, and an idle thread ends; whatever fails, `m_playing` tells whether a thread runs and `join()` returns | 7 681 |
| `music` | DynamicMusic | one sound is left, of the right scene, that can be stopped; `stop()` is final, also in a transition; fades end, a transition with a sound of its own leads to its scene unless the client stops or pauses it | 120 324 |
| `categories` | PlaybackCategory | a category reaches every sound it gave out, callback data are used once, a paused category is silent | 253 822 |
| `sequence` | SequenceReader | handles follow the entries, no sound is left behind, what is heard of each entry is what it asks for | 4 147 619 |
| `animation` | AnimateableProperty | a frame reads as the last one written before it, and the unknown ranges are exactly the unwritten frames | 25 821 |
| `convolver` | Convolver | reads give the convolution, the tail is whole, calls return | 167 126 |
| `openal` | OpenALDevice | chunks are heard once, in order and to the end; playing sounds have a thread, but for those a failed round left; sounds and the thread end | 375 219 |
| `readers` | SoundReaders | 127 sounds, read and sought in every order: frames, end and position are right | 16 040 |

Bounds, and why they are enough:

- *SoftwareDevice.* Two handles, so that one can act on the neighbour of the other in
  a list; two clients and the mixer, so that three unlocked reads can overlap. A
  buffer of 2 frames, a sound of 3 (one buffer and a half: the last read is short
  and the loop has to start in the middle of a buffer) and a sound of 1 (several
  loops in one buffer), one of which may throw. `MaxOps` bounds the calls of clients and
  callbacks to 4: play two sounds and two calls that race. Loop counts include for ever.
- *RingBuffer.* 4 cells; calls of 1 to 4 frames; 9 frames between two resets, so that both
  indices wrap twice, and rest on `Size`, on 0 and in between.
- *MixingThreadDevice.* A ring of two frames, requests of one, so that the buffer is
  full, half full and empty when the client calls; the server holds a frame, so that a flush
has something to drop. `MaxRequests` is an assumption on
  timing: while the mixing thread fills the buffer under the device mutex the backend
  asks at most once; a backend that always asks again would keep the loop of
  `updateRingBuffer()` going, and the code relies on mixing being faster than playing.
- *ThreadedDevice.* Two sounds and six calls: the last sound ends and the next starts
  in every phase of a round, twice. Two faults: a failure and a change of the default
  device. The properties about working hardware say so (`HardwareWorks`).
- *DynamicMusic.* Three scenes counting the silent one; three handles, the most that
  exist at once (current, fading, ending); seven calls, the first two of
  which add scenes, and one transition with a sound of its own. A fade step is any share. The client sets
  volumes above 0 only: a fade-in to volume 0 ends at once and a fade-out at volume 0
  has an increment of 0. `Patient` is a client that makes no second
  change, and adds neither scenes nor transitions, while one is scheduled or in course; it stops, pauses, resumes, seeks and sets
  volumes at any moment of it. `Handover = FALSE` keeps out one race: no callback runs between an
  operation's copy of the current pointer and its use of it. What happens otherwise is under Findings.
- *PlaybackCategory.* Two sounds (symmetric), two categories, six calls of one client or of users of
  handles, one failing `play()`. A second client is under Findings.
- *SequenceReader.* Sounds of 1 and 9 pieces (one ends before its entry, one outlives it) and one
  that cannot be played; places with and without a skip, beginning before and after
  the position; three entries, four pieces, four edits, so that an entry is removed and another
  added in one interval, or edited twice during one update; three handles of the device, the
  most that play at once. `KeepTime` is 1, so that a sound is paused, resumed and stopped.
- *AnimateableProperty.* Six frames and four writes of up to two frames: a range is split, both
  parts are trimmed, and one of them vanishes.
- *Convolver.* Three channels on two threads (an uneven share), three parts of an impulse response
  that ends inside a block, a sound of two blocks, reads that end inside a block and on its
  boundary, a seek at every moment a seek is possible.
- *OpenALDevice.* Two buffers per source; a sound of one chunk announced with it and a sound of four,
  whose end an empty read tells; up to one loop, five calls, an error of OpenAL.
- *SoundReaders.* Buffers of 3 and 2 frames; reads of 1, 2 and 4 frames, so that a read ends before,
  at and after every boundary; five calls; every kind of reader over every other.

Deadlock is checked except where the bounds or the code make a system stop: in SoftwareDevice
after `destroy()`, in PlaybackCategory after a `play()` that leaks the lock, in
OpenALDevice after the destructor, elsewhere when a bound on calls is reached. The others have an
explicit stutter for a system that is done (`Gone`, `Rest`).

## Fairness

- *SoftwareDevice*: weak fairness of `Mix` (the backend asks for audio as long as it
  runs) and of every begun call. Clients may stop calling.
- *RingBuffer*: weak fairness of the reader.
- *MixingThreadDevice*: weak fairness of each thread's program; strong fairness of the
  steps that acquire a lock (`CorkLock`, `WakeLock`, `Invalidate`, `Destroy`). The main
  loop and the mixing thread sleep for about a period between two rounds, so a lock
  they take again and again is free for most of the time; a mutex that starved a
  waiter for ever under those conditions would be broken. Clients have none, except
  that a call in progress goes on; the server plays what it was given while the stream is awake.
- *ThreadedDevice*: weak fairness of the mixing thread and of `Join`. None for faults.
- *DynamicMusic*: weak fairness of a call in progress, of callbacks, of the fade
  thread, and of the end of each finite sound that plays. None for new calls. A sound
  that is paused does not have to end.
- *Convolver*: weak fairness of the reader inside a call and of each thread of the pool.
- *OpenALDevice*: weak fairness of the streaming thread, of the destructor once it joins, and of
  each source (OpenAL plays what is queued). None for clients or errors.
- *PlaybackCategory, SequenceReader, AnimateableProperty, SoundReaders*: none; their
  properties are about safety.

## The proofs

Safety, for any number of handles, clients, cells, buffers, and any sizes and bounds. Each
inductive invariant was first checked by TLC as an invariant of its run.

**SoftwareDevice_proofs**: TypeCorrect, NoHandleTwice, ListedHandlesAreValid,
PlayingHandlesAreMixed, ListsSound, BackendFollowsList, MixIteratorValid. All of them hold with
`setLoopCount()` unlocked. The properties are not inductive alone: that a listed
handle is valid depends on the fact that the only unlocked write of a status
(`LoopRearm`) writes PAUSED, and that a sound stays listed while `mix()` stands on it
on the fact that only the holder of the mutex removes nodes. The invariant therefore
adds who holds the mutex in which phase of `mix()`, and that the two lists are
disjoint and free of repetitions. Lemmas about `Erase` and `Append` on lists without
repetitions carry the list operations.

Three more hold when every `setLoopCount()` runs under the mutex (`LoopCallsLocked`): EndsReportedOnce, StopIsFinal and KeepsPromise, the
refinement of PlaybackHandles. Without it all three fail: the `stop_is_final`
finding revives a stopped handle, and a handle re-armed while it is on the playing list is skipped by
the cleanup's `pause()`, so that its end is reported again (TLC finds it). The invariant then gains that STOPPED is
re-armed only by its holder and that a status and the lists agree (`LockedInv`). Each step of the lists maps to a step of the promise or to a stutter.
For EndsReportedOnce, what has ended is still ahead of the cleanup of the same `mix()`
(`EndedLeave`); that needs the order in which the list is walked, hence lemmas that `Erase` and
`Append` keep the order of the other handles.

**MixingThreadDevice_proofs**: TypeCorrect, StreamIsAwake, CorkingSparesWhatPlays (the ring is empty
when the stream sleeps, and no frame the flush drops is of a sound that plays), for any
ring, requests and number of clients. The invariant says who holds the two locks at each
point, that what the mixing thread tested is still true when it acts on it (inactive and
empty until the stream is corked; awake while it fills), that what `mix()` was asked for
still fits, and that no client is in a call while the destructor runs. Each of the three modules about parts composed
with MixPass begins with the lemmas about a pass it needs.

Its second part is about RingBuffer, the memory between the mixing thread and the backend: RingTypeCorrect,
CopiesDoNotOverlap, FramesInOrder,
IndicesTellTheTruth (together CopiesRight), Refinement (the buffer implements FrameQueue). Assumed:
`Conforming`, stores in order and resets only between reads; both are needed (see Findings).
The invariant says which frame number is in which
cell: frame `taken + k` in the k-th cell after the read index, for those stored, and
for those copied by the call in progress. The boundary case is an index of `Size`,
the same cell as 0.

**ThreadedDevice_proofs**: TypeCorrect and FlagTellsTheTruth whatever fails;
PlayingSoundsHaveThread as long as the hardware has worked: its invariant relates `m_playing`
and `m_stop` to the phase of the round, including the test of `m_stop` at its end.

**OpenALDevice_proofs**: OpenALSoundsHaveThread, also where the thread does not keep up or clients
pause sounds at their end: without a thread, only sounds play that a failed round left (`abandoned`, a history variable), and
the next `start()` gives those a thread as well. `start()` looks at `m_playing` only, so the invariant adds that `m_playing`
holds exactly while there is a thread; the thread ends in the step that leaves no sound playing.
OpenALPlaysWholeSounds: what is heard of a sound are its chunks, in order, in every pass and to the end, for
sounds of any length, any number of buffers and any seeks. Assumed: `Conforming`, the thread keeps up
and no sound is paused behind its end; without either TLC finds it violated (see Findings). The
invariant (`HearInv`) says that there is no gap from the chunk heard last, over what is queued and
not played, to the next chunk of the reader, counting the loops (`Continues`); that an end of stream is
seen behind the last pass only (`EndIsEnd`); and what the state of a source says of its queue
(`SourceOK`): one that has stopped has played everything. The two loops that fill buffers are recursive
functions of a number of reads; that they keep `Continues` is shown from the least read that would not
(`LeastNumber`), which needs no induction over data.

**PlaybackCategory_proofs**: CallbackDataUsedOnce, CategoriesReachTheirSounds, PausedCategoriesAreSilent, for
any number of sounds and keys, assuming `Restrained`: one client at a time, and no kept sound that
is started again after its end. Both are needed (see Findings). The properties are about single sounds; the
invariant relates the two tables: an entry and the data of its sound name each other, the numbers in use
are below `m_currentID` (but for the one about to be counted), a sound that was
reported is in no table, and a category that is gone has no sound left to report. A paused category counts
as paused from the moment its handles are, although `m_status` is written after the unlock.

**DynamicMusic_proofs**: NobodyIsOrphaned, CurrentSceneIsHeard and StopSilences, for any scenes,
transitions, volumes, calls and handles. Assumed: `Conforming`, no change on top of a scheduled one (`Patient`) and no
callback inside an operation that holds a copy of the pointer (`~Handover`). Both are needed (see
Findings); all other calls may come at any moment of a transition, so StopSilences
covers a `stop()` between the scheduling of a transition and each of its callbacks. The invariant (`MusicInv`) says that
callbacks and fades do not overlap, and what a client in the middle of a call may overlap with (`OneAtATime`); that the other pointer leads to a
sound only during a fade-out (`FadeHandles`); which sound the current handle plays in each phase of a
change (`CurrentSound`), and that callbacks run for the current handle (`CallbackHandle`) with a target in
the matrix (`TargetsAreKnown`); that the client's copy of the pointer is not stale (`CallHandle`). Most
steps only pause, stop or change the volume of what plays: `Tames` says so once, and the lemmas about `Quiet` steps
use it for the client and the fades alike.

**SequenceReader_proofs**: SequenceNoStraySounds and SequenceEntriesHaveHandles for any client,
SequenceEntriesAreHeard for one that does not move an entry whose sound has ended (`MovesEnded = FALSE`;
otherwise TLC finds it violated, see Findings), SequenceTypes. Any sounds, places, edits and numbers of
entries; the device is only assumed to have a handle for each entry ever added, where the code's has no
bound. `OwnInv` says that sounds and handles belong to each other (`Owned`), and that the handles follow
the entries whenever the revision seen is that of the list. `Local` is what every operation of a handle
guarantees: it touches its own sound only, and takes a free one to start. From this follows that the other
handles keep theirs (`OthersKept`, `OwnedKept`) and that there is a free one (`RoomForAll`, the pigeonhole
principle). The merge is a loop over two lists, the seek a loop over the handles, both recursive
functions; their invariants (`Merging`, `Seeking`) hold at the last turn because there is no first turn
at which they fail. EntriesAreHeard says something at the moment of mixing only; `HeardInv` says
for each handle what holds before its update (`Pending`: it is where it has to be if it is within its
entry, and waits at the beginning if that is still to come), at each step of it (`InUpdate`) and
after it (`Updated`), in terms of the two pairs of revisions, so that an edit at any moment only makes
them disagree. What has ended counts as being at every place behind its end (`AtPlace`). A moved entry's
sound must not have ended, or the seek would leave it paused: this is where the assumption is used.

Its last part is about AnimateableProperty, which it extends as well: AnimReadsAreHeld, AnimUnknownIsUnwritten
and AnimTypes, for any number of frames, values and writes, of an application that leaves alone the two weak
points (`Rewrites = FALSE`, `Shortens = FALSE`; see Findings). ReadsAreHeld looks back over any number of frames; the invariant (`AnimInv`)
says it locally: each frame is as written or repeats the one before it (`Repeats`). For that to survive a write
into the middle, no range may begin where another ends: each begins at frame 0 or behind a written frame
(`Kept`), which is what `Rewrites` could break. What a write leaves of the ranges is the invariant of the
walk over the list (`Cut`).

**Convolver_proofs**: ConvolverOutputIsConvolution and ConvolverTailIsWhole, for any number of threads and
channels, any lengths and any reads. Assumed, both because the code needs it (see Findings): `WholeBlocks`, the sound ends with a
whole block wherever it is played from, and for the tail `LastTaskWorks`, the last of the tasks for the channels
has a channel. The invariant (`Inv`) is about the number b of blocks read. A channel has got b
of them, or b - 1 while it is `Due`, its task queued or under way; each task is in one of these places
and each channel in one task (`TasksOnce`, from the arithmetic of the shares). `ChannelAt` says what a channel with n blocks looks like: its window is
number n, its line has those before it, its sum only terms of block n + 1, and all those of each task that
is done; so the wait for the tasks completes the sum. Behind the sound the windows are silence, and b ends
at `Blocks + P`. `StreamOK` relates the samples read to the blocks. That a window moves on by half is `NextWindow`; a
quotient, remainder and share are bounded by lemmas about products.

Out of the prover's reach, so only model-checked: liveness under fairness
(FiniteSoundEnds, EveryFrameIsRead, PlayingIsHeard, DeviceIsReleased,
ShutdownEnds, SoundsAreMixed, TransitionsEnd, ScheduledIsReached, CallsReturn,
SoundsAndThreadEnd), and all of SoundReaders, whose readers are RECURSIVE operators.

## Findings

`setLoopCount()` (`SoftwareDevice.cpp:452`) writes the status without the mutex; a
`stop()` in between is undone and the handle reports PAUSED for ever, while
`IHandle.h:73` says it is "definitely invalid afterwards" (`stop_is_final`).

The following was seen while modelling. The passing runs keep it out by a constant, or by saying
which calls are allowed; setting the constant, where one is named, shows it in TLC.

*Ring buffer.* The JACK device calls `reset()` on the mixing thread while its process callback may be
inside `read()`; the callback's store then makes frames available that nobody wrote
(`Resets = "any"`, `JackDevice.cpp:136`). The `volatile` indices do not order the copy
(`Reordering = TRUE`); on x86 the processor does.

*MixingThreadDevice.* Corking flushes the stream (`PulseAudioDevice.cpp:37`), which drops, unheard, what the server had
not yet played: up to a buffer of the end of the last sound, or of one just stopped or paused.

*ThreadedDevice.* A set `m_stop` is taken for a running thread (`ThreadedDevice.cpp:28`). After the
thread has ended by itself the end of the last sound sets it, and no later `play()` starts a thread;
hence `HardwareWorks` in the properties.

*DynamicMusic.* A transition into a scene without a sound leaves `m_transitioning` set for ever (:257);
`changeScene(0)` in the silent scene uses a null handle, so a client's first call can end the program
(:63); a second change on top of a scheduled one can leave a sound that no pointer refers to (`Patient =
FALSE`, with another transition); so can `stop()` when a callback replaces the handle it has copied, and then a sound starts after it
(`Handover = TRUE`); `stop()` in a transition drops the callbacks but not `m_transitioning`, so
`changeScene()` refuses for ever (:245); a fade-out at volume 0 never ends by itself;
`addScene()` reallocates `m_scenes` while callbacks read it (:42).

*PlaybackCategory.* A kept sound that ended and is started again runs the callback a second time, on
data that were deleted (`Rearming = TRUE`). `m_currentID++` comes after the unlock (:59), so two clients that play
in one category at once use one number twice and a sound is lost from the table (two `Clients`).
`play()` returns with the device locked when the device gives no handle (:42). `cleanHandles()` walks
the table without a lock.

*Sequence.* When an entry whose sound has ended is moved, the seek makes the ended sound paused, and only
the next update resumes it: it is heard one piece late (`MovesEnded = TRUE`,
`SequenceHandle.cpp:187`, `SoftwareDevice.cpp:379`). An entry with a negative end never plays,
although `Sequence.h:150` and `SequenceEntry.h:127` say that it plays to the end of its sound.
`setSpecs()` with another rate shifts the time.

*AnimateableProperty.* A write that ends just before an unknown range does not fill that range in again
(`Rewrites = TRUE`), and after a static value the frames of an earlier, longer animation come back
(`Shortens = TRUE`). `writeConstantRange()` takes no lock while `write()` and `read()` do, and may
reallocate under a reader.

*Convolver.* A short last block leaves samples of an earlier block behind it, which the next window
contains (`FFTConvolver.cpp:189`); the run's sounds and seeks end on blocks. A task that has several
channels overwrites the length it was given with the one it got for the channel before
(`ConvolverReader.cpp:193`). The reader takes the length from the last task, which
has no channel left when shares are uneven enough (five channels, four threads): the tail is then too long.

*OpenALDevice.* A sound that is paused when its stream has been read to the end is taken for one that
ended (`PausesAtEnd = TRUE`, `OpenALDevice.cpp:1087`). When a queue runs dry between two rounds,
WholeSoundIsHeard does not hold either (`KeepsUp = FALSE`). A reader that throws leaves `m_eos` unset, so the last buffers
repeat (:1030). `stop()` calls the stop callback before the handle is invalid (:218). An error of OpenAL ends
the thread while sounds play (:1121), and nothing starts another until some sound is started or resumed; hence `abandoned` in SoundsHaveThread.

*Readers.* Each rule of `Composes` in SoundReaders stands for one of these. `LoopReader` multiplies position
and length by its count, so limiting a loop cuts it at the wrong place. `LimiterReader` with a negative
end reports a negative position. `DoubleReader::seek()` does not find the second sound, so a reversed
or sought double is wrong. A `DelayReader` that fills a read leaves `eos` unset, and
`SuperposeReader.cpp:84` and `ModulatorReader.cpp:84` pass it a variable that is not initialized.
`ReverseReader` announces its end one read late, so looping a reversed or ping-ponged sound leaves a gap; when the reader inside gives fewer frames than it was asked for, it
clears the beginning of the buffer and not its end, and swaps frames it did not get to the front (`ReverseReader.cpp:73`). A
`LoopReader` sought to its end plays the last pass again, and over an empty sound divides by zero.
`MutableReader::seek()` backwards makes a new reader and does not seek it.

## Not modelled

- *Arithmetic*: filters, faders, envelopes, pitch, resampling (its coefficient tables are the largest files
  of the repository), mixing, format conversion, channel matrices, generators, cubic interpolation.
  Floating point is out of TLC's reach, and none of them has more than one state variable that matters.
- *Input and output*: files and codecs (FFmpeg, libsndfile), plugin loading, the device manager's table.
- *Bindings* (C, Python) and demos: wrappers that call the library; no state beyond a reference.
- *Backends*: SDL and CoreAudio, whose order of locks and asynchronous starts depend on a
  library outside the repository; of JACK the transport, in which two revisions are compared by the mixing thread
  and two callbacks (`JackDevice.cpp:127`); of OpenAL reconnecting, stop callbacks, formats and 3D.
- *Setters* of volume, pitch, panning and 3D data, `setSpecs()`, `setQuality()` and the synchronizer in
  SoftwareDevice: they touch neither the lists nor a status.
- *Barrier*: used by nothing in the library. `ThreadPool`'s destructor: a reader keeps its pool alive.
- *Readers that cannot seek*, which `LimiterReader` skips by reading (`LimiterReader.cpp:36`); those of SoundReaders all can.
- *The overlap-add variant* of FFTConvolver, a change of the impulse response, and the binaural reader.
- *Memory* is abstracted throughout: a handle whose last reference is gone is not distinguished from one
  that is invalid, and reading what was freed is a history variable (`dangling`, `crashed`).

Hazards of these parts that `PROJECT.json` leaves out: the shutdown callback of JACK joining the mixing
thread while the destructor does (`JackDevice.cpp:147`); SDL called with the device mutex held
(`SDLDevice.cpp:43`); a sound list whose mutex stays locked after an exception (`SoundList.cpp:57`); a
ring buffer of one sample, which the fill loop can never fill (`MixingThreadDevice.cpp:59`).

## Plan

Done: the modules, runs and proofs above.

Left, in this order:

1. JACK's transport: revisions against the two callbacks; every seek is synchronized to its own time.
2. PlaybackCategory and DynamicMusic on SoftwareDevice itself in place of MixPass, for callbacks that
   see the lists.
