------------------------- MODULE SequenceReader_proofs -------------------------
(***************************************************************************)
(* Theorems about SequenceReader, for any sounds, places, edits and reads: *)
(* that the device has no sounds but those of the handles, that the        *)
(* handles follow the entries, and, where the client does not move an      *)
(* entry whose sound has ended, that what is heard is what the entries     *)
(* say.  The last part is about the animated values of a sequence and its  *)
(* entries, AnimateableProperty: that a frame reads as what was written.   *)
(***************************************************************************)
EXTENDS SequenceReader, AnimateableProperty, SequenceTheorems, FiniteSetTheorems, WellFoundedInduction, TLAPS

(* Types. *)

Statuses == {"PLAYING", "PAUSED", "STOPPED", "INVALID"}
Steps == {"test", "place", "follow", "seek", "revise"}
Sound == Sounds \cup {NoSound}
HandleType ==
    [entry : Nat, ptr : Device \cup {NoHandle}, valid : BOOLEAN, posRev : Nat, soundRev : Nat]
SoundType == [status : Statuses, sound : Sound, pos : Nat]
EntryType == [place : Places, sound : Sound, posRev : Nat, soundRev : Nat]
HandleOnDevice == [handle : HandleType, device : [Device -> SoundType]]

EntriesOK ==
    /\ m_entries \in Seq(Nat) /\ entry \in Seq(EntryType)
    /\ Len(m_entries) <= Len(entry) /\ Len(entry) <= MaxId
    /\ \A i \in 1 .. Len(m_entries) : m_entries[i] \in 1 .. Len(entry)

HandlesOK ==
    /\ m_handles \in Seq(HandleType) /\ Len(m_handles) <= MaxId
    /\ \A i \in 1 .. Len(m_handles) : m_handles[i].entry \in 1 .. Len(entry)
    /\ device \in [Device -> SoundType]

ReadOK ==
    /\ m_position \in 0 .. MaxTime /\ (at # "idle" => m_position < MaxTime)
    /\ seen \in Nat /\ m_entry_status \in Nat /\ seen <= m_entry_status
    /\ at \in Steps \cup {"idle", "mix"}
    /\ IF at \in Steps THEN cur \in 1 .. Len(m_handles) ELSE cur = 0

\* Every sound of the device belongs to one of the handles hs.
Owned(hs, dev) ==
    /\ \A i, j \in 1 .. Len(hs) : hs[i].ptr # NoHandle /\ hs[i].ptr = hs[j].ptr => i = j
    /\ \A i \in 1 .. Len(hs) : hs[i].ptr # NoHandle => dev[hs[i].ptr].status # "INVALID"
    /\ \A d \in Device : dev[d].status # "INVALID" => \E i \in 1 .. Len(hs) : hs[i].ptr = d

\* The handles hs are those of the entries es, in their order.
Follow(hs, es) == Len(hs) = Len(es) /\ \A i \in 1 .. Len(hs) : hs[i].entry = es[i]

\* While a read goes on nobody changes the list of entries; between two reads the reader
\* knows from the revision whether somebody has.
OwnInv ==
    /\ EntriesOK /\ HandlesOK /\ ReadOK
    /\ Owned(m_handles, device)
    /\ at # "idle" \/ seen = m_entry_status => Follow(m_handles, m_entries)

(* What is heard, of a handle h whose sound on the device is v. *)

SoundAgrees(h) == h.soundRev = entry[h.entry].soundRev
PosAgrees(h) == h.posRev = entry[h.entry].posRev

\* t is before, within, or behind what the entry of h says.
Before(h, t) == t < entry[h.entry].place.begin
Within(h, t) == entry[h.entry].place.begin <= t /\ t <= entry[h.entry].place.end
Behind(h, t) == t > entry[h.entry].place.end

PlaceOf(h, t) == (IF Before(h, t) THEN 0 ELSE t - entry[h.entry].place.begin) + entry[h.entry].place.skip

\* A sound that has ended is where it was at its end.
AtPlace(v, x) == v.pos = x \/ (v.pos >= Length[v.sound] /\ x >= Length[v.sound])

Unplayable(s) == s = NoSound \/ (s # NoSound /\ Length[s] = 0)

\* A handle is never ahead of its entry, and its sound is one the entry had.
Consistent(h, v) ==
    /\ h.posRev <= entry[h.entry].posRev /\ h.soundRev <= entry[h.entry].soundRev
    /\ h.ptr # NoHandle => /\ h.valid /\ v.sound \in Sounds
                           /\ v.status = "STOPPED" => v.pos >= Length[v.sound]
                           /\ SoundAgrees(h) => v.sound = entry[h.entry].sound
    /\ ~h.valid /\ SoundAgrees(h) => Unplayable(entry[h.entry].sound)

\* The handle of an entry that was moved has a sound that goes on.
MovedPlays(h, v) == h.ptr # NoHandle /\ ~PosAgrees(h) => v.status # "STOPPED"

\* The handle was not updated for the piece at t yet: before the entry begins it waits at
\* the entry's place, and within the entry it is where it has to be.
Pending(h, v, t) ==
    /\ MovedPlays(h, v)
    /\ h.ptr # NoHandle /\ PosAgrees(h) =>
           /\ Before(h, t) => v.status = "PAUSED" /\ v.pos = entry[h.entry].place.skip
           /\ Within(h, t) => AtPlace(v, PlaceOf(h, t))

\* The handle was placed: what is heard of it is right, unless its entry was moved.
Settled(h, v, t) ==
    h.ptr # NoHandle /\ PosAgrees(h) =>
        /\ Before(h, t) => v.status = "PAUSED" /\ v.pos = entry[h.entry].place.skip
        /\ Within(h, t) => v.status \in {"PLAYING", "STOPPED"} /\ AtPlace(v, PlaceOf(h, t))
        /\ Behind(h, t) => v.status # "PLAYING"

\* The handle was updated; where its entry was edited since, it does not stop.
Updated(h, v, t) ==
    /\ Settled(h, v, t)
    /\ h.ptr # NoHandle /\ ~PosAgrees(h) => v.pos < Length[v.sound]
    /\ h.entry \notin touched =>
           /\ SoundAgrees(h)
           /\ h.ptr # NoHandle => PosAgrees(h)
           /\ h.ptr = NoHandle => ~h.valid \/ ~Within(h, t)

\* The handle is being updated, at the step x.
InUpdate(x, h, v, t) ==
    /\ x = "test" => Pending(h, v, t)
    /\ x # "test" /\ h.entry \notin touched => SoundAgrees(h)
    /\ x = "place" => h.valid /\ h.ptr = NoHandle
    /\ x = "follow" => h.ptr # NoHandle /\ Pending(h, v, t)
    /\ x = "seek" => h.ptr # NoHandle /\ v.status = "PLAYING" /\ (PosAgrees(h) => Within(h, t))
    /\ x = "revise" => h.ptr # NoHandle /\ Settled(h, v, t) /\ MovedPlays(h, v)

\* What holds of the i-th handle depends on whether the update has come to it.
HandleHeard(i, h, v) ==
    /\ Consistent(h, v)
    /\ at # "mix" /\ i > cur => Pending(h, v, m_position)
    /\ at # "mix" /\ i = cur => InUpdate(at, h, v, m_position)
    /\ at = "mix" \/ (at # "idle" /\ i < cur) => Updated(h, v, m_position)

HeardInv ==
    /\ OwnInv
    /\ \A i \in 1 .. Len(m_handles) : HandleHeard(i, m_handles[i], device[m_handles[i].ptr])
------------------------------------------------------------------------------
(* Records: one field is replaced. *)

LEMMA PtrReplaced ==
    ASSUME NEW h \in HandleType, NEW p \in Device \cup {NoHandle}
    PROVE  LET k == [h EXCEPT !.ptr = p] IN
           /\ k \in HandleType /\ k.ptr = p /\ k.entry = h.entry /\ k.valid = h.valid
           /\ k.posRev = h.posRev /\ k.soundRev = h.soundRev
BY DEF HandleType

LEMMA ValidReplaced ==
    ASSUME NEW h \in HandleType, NEW b \in BOOLEAN
    PROVE  LET k == [h EXCEPT !.valid = b] IN
           /\ k \in HandleType /\ k.valid = b /\ k.entry = h.entry /\ k.ptr = h.ptr
           /\ k.posRev = h.posRev /\ k.soundRev = h.soundRev
BY DEF HandleType

LEMMA PosRevReplaced ==
    ASSUME NEW h \in HandleType, NEW n \in Nat
    PROVE  LET k == [h EXCEPT !.posRev = n] IN
           /\ k \in HandleType /\ k.posRev = n /\ k.entry = h.entry /\ k.ptr = h.ptr
           /\ k.valid = h.valid /\ k.soundRev = h.soundRev
BY DEF HandleType

LEMMA SoundRevReplaced ==
    ASSUME NEW h \in HandleType, NEW n \in Nat
    PROVE  LET k == [h EXCEPT !.soundRev = n] IN
           /\ k \in HandleType /\ k.soundRev = n /\ k.entry = h.entry /\ k.ptr = h.ptr
           /\ k.valid = h.valid /\ k.posRev = h.posRev
BY DEF HandleType

LEMMA HandleReplaced ==
    ASSUME NEW o \in HandleOnDevice, NEW k \in HandleType
    PROVE  LET r == [o EXCEPT !.handle = k] IN
           /\ r \in HandleOnDevice /\ r.handle = k /\ r.device = o.device
BY DEF HandleOnDevice

LEMMA DeviceReplaced ==
    ASSUME NEW o \in HandleOnDevice, NEW d \in Device, NEW v \in SoundType
    PROVE  LET r == [o EXCEPT !.device[d] = v] IN
           /\ r \in HandleOnDevice /\ r.handle = o.handle /\ r.device[d] = v
           /\ \A x \in Device : x # d => r.device[x] = o.device[x]
<1> DEFINE dev == [o.device EXCEPT ![d] = v]
           r == [o EXCEPT !.device = dev]
<1>1. o.device \in [Device -> SoundType] /\ o.handle \in HandleType
  BY DEF HandleOnDevice
<1>2. dev \in [Device -> SoundType] /\ dev[d] = v /\ \A x \in Device : x # d => dev[x] = o.device[x]
  BY <1>1
<1> HIDE DEF dev
<1>3. r \in HandleOnDevice /\ r.handle = o.handle /\ r.device = dev
  BY <1>2 DEF HandleOnDevice
<1> QED
  BY <1>2, <1>3 DEF dev

LEMMA SetDoes ==
    ASSUME NEW o \in HandleOnDevice, NEW d \in Device, NEW s \in Statuses
    PROVE  LET r == Set(o, d, s) IN
           /\ r \in HandleOnDevice /\ r.handle = o.handle
           /\ r.device[d].status = s
           /\ r.device[d].pos = o.device[d].pos /\ r.device[d].sound = o.device[d].sound
           /\ \A x \in Device : x # d => r.device[x] = o.device[x]
<1> DEFINE v == [o.device[d] EXCEPT !.status = s]
<1>1. o.device[d] \in SoundType
  BY DEF HandleOnDevice
<1>2. v \in SoundType /\ v.status = s /\ v.pos = o.device[d].pos /\ v.sound = o.device[d].sound
  BY <1>1 DEF SoundType
<1>3. Set(o, d, s) = [o EXCEPT !.device[d] = v]
  BY DEF Set
<1> HIDE DEF v
<1> QED
  BY <1>2, <1>3, DeviceReplaced
------------------------------------------------------------------------------
(* What the operations of a handle do. *)

\* h and k are the same handle of the same entry, of the same revisions.
SameRevisions(h, k) ==
    k.entry = h.entry /\ k.posRev = h.posRev /\ k.soundRev = h.soundRev

LEMMA DroppedDoes ==
    ASSUME NEW o \in HandleOnDevice
    PROVE  LET r == Dropped(o) IN
           /\ r \in HandleOnDevice /\ SameRevisions(o.handle, r.handle) /\ r.handle.valid = o.handle.valid
           /\ r.handle.ptr = NoHandle
           /\ o.handle.ptr # NoHandle => r.device[o.handle.ptr].status = "INVALID"
           /\ \A x \in Device : x # o.handle.ptr => r.device[x] = o.device[x]
<1>1. o.handle \in HandleType /\ o.handle.ptr \in Device \cup {NoHandle}
  BY DEF HandleOnDevice, HandleType
<1>2. CASE o.handle.ptr = NoHandle
  BY <1>2 DEF Dropped, SameRevisions
<1>3. CASE o.handle.ptr # NoHandle
  <2>1. PICK d \in Device : d = o.handle.ptr
    BY <1>1, <1>3
  <2>2. PICK s : s = Set(o, d, "INVALID")
    OBVIOUS
  <2>3. /\ s \in HandleOnDevice /\ s.handle = o.handle /\ s.device[d].status = "INVALID"
        /\ \A x \in Device : x # d => s.device[x] = o.device[x]
    <3>1. "INVALID" \in Statuses
      BY DEF Statuses
    <3> QED
      BY <2>2, <3>1, SetDoes, Zenon
  <2>4. PICK k : k = [s.handle EXCEPT !.ptr = NoHandle]
    OBVIOUS
  <2>5. /\ k \in HandleType /\ k.ptr = NoHandle /\ k.entry = o.handle.entry /\ k.valid = o.handle.valid
        /\ k.posRev = o.handle.posRev /\ k.soundRev = o.handle.soundRev
    BY <1>1, <2>3, <2>4, PtrReplaced
  <2>6. Dropped(o) = [s EXCEPT !.handle = k]
    BY <1>3, <2>1, <2>2, <2>4 DEF Dropped
  <2>7. Dropped(o) \in HandleOnDevice /\ Dropped(o).handle = k /\ Dropped(o).device = s.device
    BY <2>3, <2>5, <2>6, HandleReplaced
  <2> QED
    BY <2>1, <2>3, <2>5, <2>7 DEF SameRevisions
<1> QED
  BY <1>2, <1>3

LEMMA PausedDoes ==
    ASSUME NEW o \in HandleOnDevice, NEW d \in Device, o.handle.ptr = d
    PROVE  LET r == Paused(o) IN
           /\ r \in HandleOnDevice /\ r.handle = o.handle
           /\ r.device[d].status = IF o.device[d].status = "PLAYING" THEN "PAUSED" ELSE o.device[d].status
           /\ r.device[d].pos = o.device[d].pos /\ r.device[d].sound = o.device[d].sound
           /\ \A x \in Device : x # d => r.device[x] = o.device[x]
<1>1. CASE o.device[d].status = "PLAYING"
  BY <1>1, SetDoes DEF Paused, Statuses
<1>2. CASE o.device[d].status # "PLAYING"
  BY <1>2 DEF Paused
<1> QED
  BY <1>1, <1>2

LEMMA ResumedDoes ==
    ASSUME NEW o \in HandleOnDevice, NEW d \in Device, o.handle.ptr = d
    PROVE  LET r == Resumed(o) IN
           /\ r \in HandleOnDevice /\ r.handle = o.handle
           /\ r.device[d].status = IF o.device[d].status = "PAUSED" THEN "PLAYING" ELSE o.device[d].status
           /\ r.device[d].pos = o.device[d].pos /\ r.device[d].sound = o.device[d].sound
           /\ \A x \in Device : x # d => r.device[x] = o.device[x]
<1>1. CASE o.device[d].status = "PAUSED"
  BY <1>1, SetDoes DEF Resumed, Statuses
<1>2. CASE o.device[d].status # "PAUSED"
  BY <1>2 DEF Resumed
<1> QED
  BY <1>1, <1>2

\* The sound of the handle is one of the device's, and if it has none the device has room.
Alive(o) == o.handle.ptr # NoHandle => o.device[o.handle.ptr].status # "INVALID"
HasRoom(o) == o.handle.ptr = NoHandle => \E d \in Device : o.device[d].status = "INVALID"

\* Starts a sound: r is o afterwards.
Started1(o, r, d) ==
    /\ d \in Device /\ o.device[d].status = "INVALID"
    /\ r.handle.valid /\ r.handle.ptr = d
    /\ r.device[d].status = "PLAYING" /\ r.device[d].sound = entry[o.handle.entry].sound /\ r.device[d].pos = 0
    /\ \A x \in Device : x # d => r.device[x] = o.device[x]

LEMMA StartedDoes ==
    ASSUME NEW o \in HandleOnDevice, HasRoom(o), o.handle.ptr = NoHandle,
           entry[o.handle.entry] \in EntryType
    PROVE  LET r == Started(o)
               s == entry[o.handle.entry].sound
           IN
           /\ r \in HandleOnDevice /\ SameRevisions(o.handle, r.handle)
           /\ ~o.handle.valid => r = o
           /\ o.handle.valid /\ Unplayable(s) =>
                  ~r.handle.valid /\ r.handle.ptr = NoHandle /\ r.device = o.device
           /\ o.handle.valid /\ ~Unplayable(s) => \E d \in Device : Started1(o, r, d)
<1> DEFINE s == entry[o.handle.entry].sound
           d == CHOOSE x \in Device : o.device[x].status = "INVALID"
<1>1. Dropped(o) = o
  BY DEF Dropped
<1>2. d \in Device /\ o.device[d].status = "INVALID"
  BY DEF HasRoom
<1>3. o.handle \in HandleType /\ s \in Sound
  BY DEF HandleOnDevice, EntryType
<1>4. CASE ~o.handle.valid
  BY <1>4 DEF Started, SameRevisions
<1>5. CASE o.handle.valid /\ Unplayable(s)
  <2>1. PICK k : k = [o.handle EXCEPT !.valid = FALSE]
    OBVIOUS
  <2>2. /\ k \in HandleType /\ ~k.valid /\ k.entry = o.handle.entry /\ k.ptr = o.handle.ptr
        /\ k.posRev = o.handle.posRev /\ k.soundRev = o.handle.soundRev
    BY <1>3, <2>1, ValidReplaced
  <2>3. Started(o) = [o EXCEPT !.handle = k]
    BY <1>1, <1>5, <2>1 DEF Started, Unplayable
  <2>4. Started(o) \in HandleOnDevice /\ Started(o).handle = k /\ Started(o).device = o.device
    BY <2>2, <2>3, HandleReplaced
  <2> QED
    BY <1>5, <2>2, <2>4 DEF SameRevisions
<1>6. CASE o.handle.valid /\ ~Unplayable(s)
  <2>1. PICK k : k = [o.handle EXCEPT !.ptr = d]
    OBVIOUS
  <2>2. /\ k \in HandleType /\ k.ptr = d /\ k.entry = o.handle.entry /\ k.valid = o.handle.valid
        /\ k.posRev = o.handle.posRev /\ k.soundRev = o.handle.soundRev
    <3>1. d \in Device \cup {NoHandle}
      BY <1>2
    <3> HIDE DEF d
    <3> QED
      BY <1>3, <2>1, <3>1, PtrReplaced
  <2>3. PICK v : v = [status |-> "PLAYING", sound |-> s, pos |-> 0]
    OBVIOUS
  <2>4. v \in SoundType /\ v.status = "PLAYING" /\ v.sound = s /\ v.pos = 0
    BY <1>3, <2>3 DEF SoundType, Statuses
  <2>5. PICK r1 : r1 = [o EXCEPT !.handle = k]
    OBVIOUS
  <2>6. r1 \in HandleOnDevice /\ r1.handle = k /\ r1.device = o.device
    BY <2>2, <2>5, HandleReplaced
  <2>7. Started(o) = [r1 EXCEPT !.device[d] = v]
    <3>1. Started(o) = [o EXCEPT !.handle.ptr = d, !.device[d] = v]
      BY <1>1, <1>6, <2>3 DEF Started, Unplayable
    <3>2. [o EXCEPT !.handle.ptr = d, !.device[d] = v] = [r1 EXCEPT !.device[d] = v]
      BY <2>1, <2>5, <2>6
    <3> QED
      BY <3>1, <3>2
  <2> HIDE DEF d
  <2>8. /\ Started(o) \in HandleOnDevice /\ Started(o).handle = k /\ Started(o).device[d] = v
        /\ \A x \in Device : x # d => Started(o).device[x] = o.device[x]
    BY <1>2, <2>4, <2>6, <2>7, DeviceReplaced
  <2>9. Started1(o, Started(o), d)
    BY <1>2, <1>6, <2>2, <2>4, <2>8 DEF Started1
  <2> QED
    BY <1>2, <1>6, <2>2, <2>8, <2>9 DEF SameRevisions
<1> QED
  BY <1>4, <1>5, <1>6

\* An operation changes no sound but the handle's own, and starts one where there was none.
Local(o, r) ==
    /\ r \in HandleOnDevice /\ SameRevisions(o.handle, r.handle)
    /\ \A x \in Device : x # o.handle.ptr /\ x # r.handle.ptr => r.device[x] = o.device[x]
    /\ Alive(r)
    /\ r.handle.ptr # o.handle.ptr =>
           /\ o.handle.ptr # NoHandle => r.device[o.handle.ptr].status = "INVALID"
           /\ r.handle.ptr # NoHandle => o.device[r.handle.ptr].status = "INVALID"

\* The part of seek() and update() that starts, pauses, resumes and stops.
PlacedFrom(o, r, t) ==
    LET h == o.handle
        v == o.device[h.ptr]
        w == r.device[h.ptr]
    IN
    /\ r.handle.valid = h.valid /\ r.handle.ptr \in {h.ptr, NoHandle}
    /\ r.handle.ptr = NoHandle => ~Within(h, t)
    /\ r.handle.ptr = h.ptr =>
           /\ w.sound = v.sound /\ w.pos = v.pos
           /\ w.status = IF Within(h, t) THEN IF v.status = "PAUSED" THEN "PLAYING" ELSE v.status
                         ELSE IF v.status = "PLAYING" THEN "PAUSED" ELSE v.status

PlacedNew(o, r, t) ==
    LET h == o.handle
        s == entry[h.entry].sound
        w == r.device[r.handle.ptr]
    IN
    /\ r.handle.ptr = NoHandle =>
           IF Within(h, t) /\ h.valid THEN ~r.handle.valid /\ Unplayable(s) ELSE r.handle.valid = h.valid
    /\ r.handle.ptr # NoHandle =>
           /\ Within(h, t) /\ r.handle.valid
           /\ s \in Sounds /\ w.status = "PLAYING" /\ w.sound = s /\ w.pos = 0

LEMMA PlacedDoes ==
    ASSUME NEW o \in HandleOnDevice, Alive(o), HasRoom(o), entry[o.handle.entry] \in EntryType,
           NEW t \in Nat, NEW r, r = Placed(o, t)
    PROVE  /\ Local(o, r)
           /\ o.handle.ptr # NoHandle => PlacedFrom(o, r, t)
           /\ o.handle.ptr = NoHandle => PlacedNew(o, r, t)
<1> DEFINE h == o.handle
           p == entry[h.entry].place
<1>1. /\ p \in [begin : Nat, end : Nat, skip : Nat] /\ p.begin \in Nat /\ p.end \in Nat
      /\ KeepTime \in Nat /\ NoHandle \notin Device
  BY SequenceAssumption DEF EntryType
<1>2. h.ptr \in Device \cup {NoHandle} /\ h \in HandleType
  BY DEF HandleOnDevice, HandleType
<1>3. CASE h.ptr # NoHandle
  <2>1. PICK d \in Device : d = h.ptr
    BY <1>2, <1>3
  <2>2. o.device[d].status # "INVALID"
    BY <1>3, <2>1 DEF Alive
  <2>3. CASE Within(h, t)
    <3>1. r = Resumed(o)
      BY <1>1, <1>3, <2>3 DEF Placed, Within
    <3>2. /\ r \in HandleOnDevice /\ r.handle = o.handle
          /\ r.device[d].status = IF o.device[d].status = "PAUSED" THEN "PLAYING" ELSE o.device[d].status
          /\ r.device[d].pos = o.device[d].pos /\ r.device[d].sound = o.device[d].sound
          /\ \A x \in Device : x # d => r.device[x] = o.device[x]
      BY <2>1, <3>1, ResumedDoes
    <3>3. Local(o, r)
      BY <1>3, <2>1, <2>2, <3>2 DEF Local, SameRevisions, Alive
    <3>4. PlacedFrom(o, r, t)
      BY <1>3, <2>1, <2>3, <3>2 DEF PlacedFrom
    <3> QED
      BY <1>3, <3>3, <3>4
  <2>4. CASE ~Within(h, t)
    <3>1. r = Dropped(o) \/ r = Paused(o)
      BY <1>1, <1>3, <2>4 DEF Placed, Within
    <3>2. CASE r = Dropped(o)
      <4>1. /\ r \in HandleOnDevice /\ SameRevisions(o.handle, r.handle) /\ r.handle.valid = o.handle.valid
            /\ r.handle.ptr = NoHandle
            /\ o.handle.ptr # NoHandle => r.device[o.handle.ptr].status = "INVALID"
            /\ \A x \in Device : x # o.handle.ptr => r.device[x] = o.device[x]
        BY <3>2, DroppedDoes
      <4>2. Local(o, r)
        BY <1>3, <2>1, <4>1 DEF Local, Alive
      <4>3. PlacedFrom(o, r, t)
        BY <1>3, <2>4, <4>1 DEF PlacedFrom
      <4> QED
        BY <1>3, <4>2, <4>3
    <3>3. CASE r = Paused(o)
      <4>1. /\ r \in HandleOnDevice /\ r.handle = o.handle
            /\ r.device[d].status = IF o.device[d].status = "PLAYING" THEN "PAUSED" ELSE o.device[d].status
            /\ r.device[d].pos = o.device[d].pos /\ r.device[d].sound = o.device[d].sound
            /\ \A x \in Device : x # d => r.device[x] = o.device[x]
        BY <2>1, <3>3, PausedDoes
      <4>2. Local(o, r)
        BY <1>3, <2>1, <2>2, <4>1 DEF Local, SameRevisions, Alive
      <4>3. PlacedFrom(o, r, t)
        BY <1>3, <2>1, <2>4, <4>1 DEF PlacedFrom
      <4> QED
        BY <1>3, <4>2, <4>3
    <3> QED
      BY <3>1, <3>2, <3>3
  <2> QED
    BY <1>3, <2>3, <2>4
<1>4. CASE h.ptr = NoHandle
  <2>1. CASE ~Within(h, t) \/ ~h.valid
    <3>1. r = o
      <4>1. CASE ~Within(h, t)
        BY <1>4, <4>1 DEF Placed, Within
      <4>2. CASE Within(h, t) /\ ~h.valid
        BY <1>4, <4>2 DEF Placed, Within, Started
      <4> QED
        BY <2>1, <4>1, <4>2
    <3>2. Local(o, r)
      BY <3>1 DEF Local, SameRevisions, Alive
    <3>3. PlacedNew(o, r, t)
      BY <1>4, <2>1, <3>1 DEF PlacedNew
    <3> QED
      BY <1>4, <3>2, <3>3
  <2>2. CASE Within(h, t) /\ h.valid
    <3>1. r = Started(o)
      BY <1>4, <2>2 DEF Placed, Within
    <3>2. /\ r \in HandleOnDevice /\ SameRevisions(h, r.handle)
          /\ Unplayable(entry[h.entry].sound) =>
                 ~r.handle.valid /\ r.handle.ptr = NoHandle /\ r.device = o.device
          /\ ~Unplayable(entry[h.entry].sound) => \E d \in Device : Started1(o, r, d)
      BY <1>4, <2>2, <3>1, StartedDoes
    <3>3. CASE Unplayable(entry[h.entry].sound)
      <4>1. Local(o, r)
        BY <1>4, <3>2, <3>3 DEF Local, Alive
      <4>2. PlacedNew(o, r, t)
        BY <2>2, <3>2, <3>3 DEF PlacedNew
      <4> QED
        BY <1>4, <4>1, <4>2
    <3>4. CASE ~Unplayable(entry[h.entry].sound)
      <4>1. PICK d \in Device : Started1(o, r, d)
        BY <3>2, <3>4
      <4>2. entry[h.entry].sound \in Sounds
        BY <3>4 DEF Unplayable, EntryType, Sound
      <4>3. Local(o, r)
        BY <1>4, <3>2, <4>1 DEF Local, Started1, Alive
      <4>4. PlacedNew(o, r, t)
        BY <1>1, <1>4, <2>2, <4>1, <4>2 DEF PlacedNew, Started1
      <4> QED
        BY <1>4, <4>3, <4>4
    <3> QED
      BY <3>3, <3>4
  <2> QED
    BY <2>1, <2>2
<1> QED
  BY <1>3, <1>4

\* The part of seek() and update() that moves the sound.
SoughtFrom(q, r, t) ==
    LET h == q.handle
        v == q.device[h.ptr]
        w == r.device[h.ptr]
    IN
    /\ r.handle = h
    /\ h.ptr # NoHandle =>
           /\ w.sound = v.sound /\ w.pos = PlaceOf(h, t)
           /\ w.status = IF v.status = "STOPPED" THEN "PAUSED" ELSE v.status

LEMMA SoughtDoes ==
    ASSUME NEW o \in HandleOnDevice, Alive(o), entry[o.handle.entry] \in EntryType,
           NEW t \in Nat, NEW r, r = Sought(o, t)
    PROVE  Local(o, r) /\ SoughtFrom(o, r, t)
<1> DEFINE p == entry[o.handle.entry].place
           x == (IF t < p.begin THEN 0 ELSE t - p.begin) + p.skip
<1>1. x \in Nat /\ x = PlaceOf(o.handle, t)
  <2>1. p.begin \in Nat /\ p.skip \in Nat
    BY SequenceAssumption DEF EntryType
  <2> QED
    BY <2>1 DEF PlaceOf, Before
<1>2. o.handle.ptr \in Device \cup {NoHandle}
  BY DEF HandleOnDevice, HandleType
<1>3. CASE o.handle.ptr = NoHandle
  <2>1. r = o
    BY <1>3 DEF Sought
  <2> QED
    BY <1>3, <2>1 DEF Local, SoughtFrom, SameRevisions, Alive
<1>4. CASE o.handle.ptr # NoHandle
  <2>1. PICK d \in Device : d = o.handle.ptr
    BY <1>2, <1>4
  <2>2. PICK u : u = o.device[d]
    OBVIOUS
  <2>3. u \in SoundType /\ u.status # "INVALID"
    BY <1>4, <2>1, <2>2 DEF HandleOnDevice, Alive
  <2>4. PICK s \in Statuses : s = IF u.status = "STOPPED" THEN "PAUSED" ELSE u.status
    BY <2>3 DEF SoundType, Statuses
  <2> HIDE DEF x
  <2>5. PICK w : w = [u EXCEPT !.pos = x, !.status = s]
    OBVIOUS
  <2>6. w \in SoundType /\ w.pos = x /\ w.sound = u.sound /\ w.status = s
    BY <1>1, <2>3, <2>5 DEF SoundType
  <2>7. r = [o EXCEPT !.device[d] = w]
    <3>1. r = [o EXCEPT !.device[d].pos = x, !.device[d].status = IF @ = "STOPPED" THEN "PAUSED" ELSE @]
      BY <1>4, <2>1 DEF Sought, x
    <3>2. o.device \in [Device -> SoundType] /\ o \in HandleOnDevice
      BY DEF HandleOnDevice
    <3>3. PICK o1 : o1 = [o EXCEPT !.device[d].pos = x]
      OBVIOUS
    <3>4. PICK u1 : u1 = [u EXCEPT !.pos = x]
      OBVIOUS
    <3>5. u1 \in SoundType /\ u1.status = u.status
      BY <1>1, <2>3, <3>4 DEF SoundType
    <3>6. o1 = [o EXCEPT !.device[d] = u1]
      BY <2>2, <3>3, <3>4
    <3>7. o1.device = [o.device EXCEPT ![d] = u1]
      BY <3>2, <3>6 DEF HandleOnDevice
    <3>8. o1.device[d] = u1
      BY <3>2, <3>7
    <3>9. r = [o EXCEPT !.device[d].pos = x, !.device[d].status = s]
      BY <2>2, <2>4, <3>1, <3>3, <3>5, <3>8
    <3>10. r = [o1 EXCEPT !.device[d] = [u1 EXCEPT !.status = s]]
      BY <3>3, <3>8, <3>9
    <3>11. w = [u1 EXCEPT !.status = s]
      BY <2>5, <3>4
    <3>12. r = [o1 EXCEPT !.device[d] = w]
      BY <3>10, <3>11
    <3>13. r = [o EXCEPT !.device = [o1.device EXCEPT ![d] = w]]
      BY <3>2, <3>6, <3>7, <3>12 DEF HandleOnDevice
    <3>14. [o1.device EXCEPT ![d] = w] = [o.device EXCEPT ![d] = w]
      BY <3>2, <3>7
    <3> QED
      BY <3>13, <3>14
  <2>8. /\ r \in HandleOnDevice /\ r.handle = o.handle /\ r.device[d] = w
        /\ \A y \in Device : y # d => r.device[y] = o.device[y]
    BY <2>6, <2>7, DeviceReplaced
  <2>9. s # "INVALID"
    BY <2>3, <2>4
  <2>10. Local(o, r)
    BY <1>4, <2>1, <2>6, <2>8, <2>9 DEF Local, SameRevisions, Alive
  <2>11. SoughtFrom(o, r, t)
    BY <1>1, <1>4, <2>1, <2>2, <2>4, <2>6, <2>8 DEF SoughtFrom
  <2> QED
    BY <2>10, <2>11
<1> QED
  BY <1>3, <1>4

LEMMA LocalTwice ==
    ASSUME NEW o \in HandleOnDevice, NEW q, NEW r, Local(o, q), Local(q, r), r.handle = q.handle
    PROVE  Local(o, r)
<1>1. o.handle.ptr \in Device \cup {NoHandle} /\ q.handle.ptr \in Device \cup {NoHandle}
  BY DEF HandleOnDevice, HandleType, Local
<1>2. \A x \in Device : x # o.handle.ptr /\ x # q.handle.ptr => r.device[x] = o.device[x]
  BY DEF Local
<1>3. r.handle.ptr # o.handle.ptr =>
           /\ o.handle.ptr # NoHandle => r.device[o.handle.ptr].status = "INVALID"
           /\ r.handle.ptr # NoHandle => o.device[r.handle.ptr].status = "INVALID"
  BY <1>1 DEF Local
<1> QED
  BY <1>2, <1>3 DEF Local, SameRevisions

LEMMA SeekAllDoes ==
    ASSUME NEW o \in HandleOnDevice, Alive(o), HasRoom(o), entry[o.handle.entry] \in EntryType,
           NEW t \in Nat, NEW r, r = SeekAll(o, t)
    PROVE  /\ Local(o, r)
           /\ ~o.handle.valid => r = o
           /\ o.handle.valid =>
                  \E q \in HandleOnDevice :
                      /\ SameRevisions(o.handle, q.handle)
                      /\ o.handle.ptr # NoHandle => PlacedFrom(o, q, t)
                      /\ o.handle.ptr = NoHandle => PlacedNew(o, q, t)
                      /\ SoughtFrom(q, r, t)
<1>1. CASE ~o.handle.valid
  BY <1>1 DEF SeekAll, Local, SameRevisions, Alive
<1>2. CASE o.handle.valid
  <2>1. PICK q : q = Placed(o, t)
    OBVIOUS
  <2>2. /\ Local(o, q) 
        /\ o.handle.ptr # NoHandle => PlacedFrom(o, q, t)
        /\ o.handle.ptr = NoHandle => PlacedNew(o, q, t)
    BY <2>1, PlacedDoes
  <2>3. /\ q \in HandleOnDevice /\ SameRevisions(o.handle, q.handle) /\ Alive(q)
        /\ entry[q.handle.entry] \in EntryType
    BY <2>2 DEF Local, SameRevisions
  <2>4. r = Sought(q, t)
    BY <1>2, <2>1 DEF SeekAll
  <2>5. Local(q, r) /\ SoughtFrom(q, r, t)
    BY <2>3, <2>4, SoughtDoes
  <2>6. Local(o, r)
    BY <2>2, <2>5, LocalTwice DEF SoughtFrom
  <2> QED
    BY <1>2, <2>2, <2>3, <2>5, <2>6
<1> QED
  BY <1>1, <1>2
------------------------------------------------------------------------------
(* The handles and the sounds of the device. *)

LEMMA HandleInListReplaced ==
    ASSUME NEW hs \in Seq(HandleType), NEW i \in 1 .. Len(hs), NEW k \in HandleType,
           NEW hs2, hs2 = [hs EXCEPT ![i] = k]
    PROVE  /\ hs2 \in Seq(HandleType) /\ Len(hs2) = Len(hs) /\ hs2[i] = k
           /\ \A j \in 1 .. Len(hs) : j # i => hs2[j] = hs[j]
BY ExceptSeq

\* If a handle has no sound, the device has room for one: each of the others has one at most.
LEMMA RoomForAll ==
    ASSUME NEW hs \in Seq(HandleType), Len(hs) <= MaxId, NEW dev, Owned(hs, dev),
           NEW i \in 1 .. Len(hs), hs[i].ptr = NoHandle
    PROVE  \E d \in Device : dev[d].status = "INVALID"
<1> SUFFICES ASSUME \A d \in Device : dev[d].status # "INVALID" PROVE FALSE
  OBVIOUS
<1>1. Len(hs) \in Nat /\ MaxId \in Nat /\ IsFiniteSet(Device) /\ MaxId <= Cardinality(Device)
      /\ NoHandle \notin Device
  BY SequenceAssumption
<1> DEFINE T == (1 .. Len(hs)) \ {i}
           f == [d \in Device |-> CHOOSE k \in 1 .. Len(hs) : hs[k].ptr = d]
<1>2. \A d \in Device : f[d] \in 1 .. Len(hs) /\ hs[f[d]].ptr = d
  BY DEF Owned
<1> HIDE DEF f
<1>3. \A d \in Device : f[d] \in T
  BY <1>1, <1>2
<1>4. f \in [Device -> T]
  BY <1>3 DEF f
<1>5. IsFiniteSet(T) /\ Cardinality(T) = Len(hs) - 1
  <2>1. IsFiniteSet(1 .. Len(hs)) /\ Cardinality(1 .. Len(hs)) = Len(hs)
    <3>1. PICK n \in Nat : n = Len(hs)
      BY <1>1
    <3>2. IsFiniteSet(1 .. n) /\ Cardinality(1 .. n) = IF 1 > n THEN 0 ELSE n - 1 + 1
      <4>1. 1 \in Int /\ n \in Int
        OBVIOUS
      <4> QED
        BY <4>1, FS_Interval, Zenon
    <3>3. (IF 1 > n THEN 0 ELSE n - 1 + 1) = n
      OBVIOUS
    <3> QED
      BY <3>1, <3>2, <3>3
  <2> QED
    BY <2>1, FS_RemoveElement
<1>6. Cardinality(Device) \in Nat
  BY <1>1, FS_CardinalityType
<1>7. Cardinality(T) < Cardinality(Device)
  BY <1>1, <1>5, <1>6
<1>8. \E x, y \in Device : x # y /\ f[x] = f[y]
  BY <1>1, <1>4, <1>5, <1>7, FS_PigeonHole
<1> QED
  BY <1>2, <1>8

\* What a handle does to its sound leaves the sounds of the others alone ...
LEMMA OthersKept ==
    ASSUME NEW hs \in Seq(HandleType), NEW i \in 1 .. Len(hs),
           NEW o \in HandleOnDevice, o.handle.ptr = hs[i].ptr, Owned(hs, o.device),
           NEW r, Local(o, r), NEW k \in 1 .. Len(hs), k # i, hs[k].ptr # NoHandle
    PROVE  /\ r.device[hs[k].ptr] = o.device[hs[k].ptr]
           /\ hs[k].ptr # hs[i].ptr /\ hs[k].ptr # r.handle.ptr
<1>1. hs[k] \in HandleType /\ hs[i] \in HandleType
  BY ElementOfSeq
<1>2. hs[k].ptr \in Device /\ o.device[hs[k].ptr].status # "INVALID" /\ hs[k].ptr # hs[i].ptr
  BY <1>1 DEF Owned, HandleType
<1>3. hs[k].ptr # r.handle.ptr
  BY <1>2 DEF Local
<1> QED
  BY <1>2, <1>3 DEF Local

\* ... and no sound without a handle.
LEMMA OwnedKept ==
    ASSUME NEW hs \in Seq(HandleType), NEW i \in 1 .. Len(hs),
           NEW o \in HandleOnDevice, o.handle.ptr = hs[i].ptr, Owned(hs, o.device),
           NEW r, Local(o, r), NEW hs2, hs2 = [hs EXCEPT ![i] = r.handle]
    PROVE  Owned(hs2, r.device)
<1>1. r.handle \in HandleType /\ r.device \in [Device -> SoundType] /\ r.handle.ptr \in Device \cup {NoHandle}
  BY DEF Local, HandleOnDevice, HandleType
<1>2. /\ hs2 \in Seq(HandleType) /\ Len(hs2) = Len(hs) /\ hs2[i] = r.handle
      /\ \A j \in 1 .. Len(hs) : j # i => hs2[j] = hs[j]
  BY <1>1, HandleInListReplaced
<1>3. \A k \in 1 .. Len(hs) : k # i /\ hs[k].ptr # NoHandle =>
          /\ r.device[hs[k].ptr] = o.device[hs[k].ptr]
          /\ hs[k].ptr # hs[i].ptr /\ hs[k].ptr # r.handle.ptr
  BY OthersKept
<1>4. ASSUME NEW k \in 1 .. Len(hs), NEW l \in 1 .. Len(hs), hs2[k].ptr # NoHandle, hs2[k].ptr = hs2[l].ptr
      PROVE  k = l
  BY <1>2, <1>3, <1>4 DEF Owned
<1>5. ASSUME NEW k \in 1 .. Len(hs), hs2[k].ptr # NoHandle
      PROVE  r.device[hs2[k].ptr].status # "INVALID"
  BY <1>2, <1>3, <1>5 DEF Owned, Local, Alive
<1>6. ASSUME NEW d \in Device, r.device[d].status # "INVALID"
      PROVE  \E k \in 1 .. Len(hs) : hs2[k].ptr = d
  <2>1. CASE d = r.handle.ptr
    BY <1>2, <2>1
  <2>2. CASE d # r.handle.ptr
    <3>1. d # hs[i].ptr
      <4>1. NoHandle \notin Device
        BY SequenceAssumption
      <4> QED
        BY <1>6, <2>2, <4>1 DEF Local
    <3>2. r.device[d] = o.device[d]
      BY <2>2, <3>1 DEF Local
    <3>3. PICK k \in 1 .. Len(hs) : hs[k].ptr = d
      BY <1>6, <3>2 DEF Owned
    <3> QED
      BY <1>2, <3>1, <3>3
  <2> QED
    BY <2>1, <2>2
<1> QED
  BY <1>2, <1>4, <1>5, <1>6 DEF Owned
------------------------------------------------------------------------------
(* The walk that merges the handles and the entries. *)

\* A nonempty set of numbers has a least one.
LEMMA LeastNumber ==
    ASSUME NEW T, T \subseteq Nat, T # {}
    PROVE  \E n \in T : \A m \in T : n <= m
<1>1. IsWellFoundedOn(OpToRel(<, Nat), Nat)
  BY NatLessThanWellFounded
<1>2. PICK n \in T : \A m \in T : ~(<<m, n>> \in OpToRel(<, Nat))
  BY <1>1, WFMin
<1>3. \A m \in T : ~(m < n)
  BY <1>2 DEF OpToRel
<1> QED
  BY <1>3

MergeStart == [i |-> 1, j |-> 1, list |-> <<>>]

\* walk is where the loop is after each of its first N turns; so is after for the handles
\* hs that seek one by one.
Walks(hs, es, N, walk) ==
    walk = [n \in 0 .. N |-> IF n = 0 THEN MergeStart ELSE MergeOnce(hs, es, walk[n - 1])]
Seeks(hs, dev, t, N, after) ==
    after = [n \in 0 .. N |-> IF n = 0 THEN [handles |-> hs, device |-> dev] ELSE SeekOnce(after[n - 1], n, t)]

\* The loops terminate.
LEMMA LoopsExist ==
    ASSUME NEW hs, NEW es, NEW dev, NEW t, NEW N \in Nat
    PROVE  (\E walk : Walks(hs, es, N, walk)) /\ (\E after : Seeks(hs, dev, t, N, after))
<1> DEFINE start == [handles |-> hs, device |-> dev]
           A(g, m) == [n \in 0 .. m |-> IF n = 0 THEN MergeStart ELSE MergeOnce(hs, es, g[n - 1])]
           B(g, m) == [n \in 0 .. m |-> IF n = 0 THEN start ELSE SeekOnce(g[n - 1], n, t)]
           bad == {m \in Nat : ~((\E g : g = A(g, m)) /\ (\E g : g = B(g, m)))}
<1>1. ASSUME bad # {} PROVE FALSE
  <2>1. PICK m \in bad : \A k \in bad : m <= k
    BY <1>1, LeastNumber
  <2>2. m # 0
    <3>1. ASSUME NEW g, g = [n \in 0 .. 0 |-> MergeStart] PROVE g = A(g, 0)
      BY <3>1
    <3>2. ASSUME NEW g, g = [n \in 0 .. 0 |-> start] PROVE g = B(g, 0)
      BY <3>2
    <3>3. (\E g : g = A(g, 0)) /\ (\E g : g = B(g, 0))
      <4>1. PICK g : g = [n \in 0 .. 0 |-> MergeStart]
        OBVIOUS
      <4>2. PICK f : f = [n \in 0 .. 0 |-> start]
        OBVIOUS
      <4> HIDE DEF A, B, start
      <4> QED
        BY <3>1, <3>2, <4>1, <4>2
    <3> HIDE DEF A, B
    <3> QED
      BY <2>1, <3>3
  <2>3. m - 1 \in Nat /\ m - 1 \notin bad
    <3>1. m \in Nat
      BY <2>1
    <3> HIDE DEF bad
    <3> QED
      BY <2>1, <2>2, <3>1
  <2>4. PICK a : a = A(a, m - 1)
    BY <2>3
  <2>5. PICK b : b = B(b, m - 1)
    BY <2>3
  <2> DEFINE a2 == [n \in 0 .. m |-> IF n = m THEN MergeOnce(hs, es, a[m - 1]) ELSE a[n]]
             b2 == [n \in 0 .. m |-> IF n = m THEN SeekOnce(b[m - 1], m, t) ELSE b[n]]
  <2>6. \A n \in 0 .. m : n = m \/ n \in 0 .. m - 1
    BY <2>1
  <2>7. a2 = A(a2, m)
    <3>1. \A n \in 0 .. m - 1 : a[n] = IF n = 0 THEN MergeStart ELSE MergeOnce(hs, es, a[n - 1])
      BY <2>4
    <3>2. \A n \in 0 .. m : a2[n] = IF n = 0 THEN MergeStart ELSE MergeOnce(hs, es, a2[n - 1])
      BY <2>1, <2>2, <2>6, <3>1
    <3> QED
      BY <3>2
  <2>8. b2 = B(b2, m)
    <3>1. \A n \in 0 .. m - 1 : b[n] = IF n = 0 THEN start ELSE SeekOnce(b[n - 1], n, t)
      BY <2>5
    <3>2. \A n \in 0 .. m : b2[n] = IF n = 0 THEN start ELSE SeekOnce(b2[n - 1], n, t)
      BY <2>1, <2>2, <2>6, <3>1
    <3> QED
      BY <3>2
  <2> HIDE DEF A, B, a2, b2
  <2>9. m \notin bad
    BY <2>7, <2>8
  <2> QED
    BY <2>1, <2>9
<1> QED
  BY <1>1 DEF Walks, Seeks

\* The list has a handle for each entry that was passed: a new one, or one that was passed
\* as well; no two share a sound.
Merging(hs, es, w) ==
    /\ w.i \in 1 .. Len(hs) + 1 /\ w.j \in 1 .. Len(es) + 1
    /\ w.list \in Seq(HandleType) /\ Len(w.list) = w.j - 1
    /\ \A k \in 1 .. w.j - 1 :
           /\ w.list[k].entry = es[k]
           /\ w.list[k] = NewHandle(es[k]) \/ \E m \in 1 .. w.i - 1 : w.list[k] = hs[m]
    /\ \A k, l \in 1 .. w.j - 1 :
           w.list[k].ptr # NoHandle /\ w.list[k].ptr = w.list[l].ptr => k = l

NoSharing(hs) == \A i, j \in 1 .. Len(hs) : hs[i].ptr # NoHandle /\ hs[i].ptr = hs[j].ptr => i = j

LEMMA NewHandleIsHandle ==
    ASSUME NEW e \in Nat
    PROVE  LET k == NewHandle(e) IN
           /\ k \in HandleType /\ k.entry = e /\ k.ptr = NoHandle /\ k.valid /\ k.posRev = 0 /\ k.soundRev = 0
BY DEF NewHandle, HandleType

\* A handle that was passed is another one.
LEMMA EarlierHandle ==
    ASSUME NEW n \in Nat, NEW i \in 1 .. n + 1, i <= n, NEW l \in 1 .. i - 1
    PROVE  l \in 1 .. n /\ i \in 1 .. n /\ l # i
  OBVIOUS

\* One turn passes a handle or an entry, until the entries are passed.
LEMMA MergeOnceMerges ==
    ASSUME NEW hs \in Seq(HandleType), NEW es \in Seq(Nat), NoSharing(hs),
           NEW w, Merging(hs, es, w), NEW x, x = MergeOnce(hs, es, w)
    PROVE  /\ Merging(hs, es, x)
           /\ IF w.j > Len(es) THEN x.j = w.j ELSE x.i + x.j >= w.i + w.j + 1
<1>1. PICK n \in Nat, m \in Nat : n = Len(hs) /\ m = Len(es)
  BY LenProperties
<1>2. PICK i \in 1 .. n + 1, j \in 1 .. m + 1, list \in {w.list} : i = w.i /\ j = w.j /\ list = w.list
  BY <1>1 DEF Merging
<1>3. /\ list \in Seq(HandleType) /\ Len(list) = j - 1
      /\ \A k \in 1 .. j - 1 : /\ list[k].entry = es[k]
                               /\ list[k] = NewHandle(es[k]) \/ \E l \in 1 .. i - 1 : list[k] = hs[l]
      /\ \A k, l \in 1 .. j - 1 : list[k].ptr # NoHandle /\ list[k].ptr = list[l].ptr => k = l
  BY <1>2 DEF Merging
<1>4. CASE j > m
  <2>1. x = w
    BY <1>1, <1>2, <1>4 DEF MergeOnce
  <2> QED
    BY <1>1, <1>2, <1>4, <2>1
<1>5. CASE j <= m
  <2>1. es[j] \in Nat
    BY <1>1, <1>5, ElementOfSeq
  <2>2. CASE i > n \/ (i <= n /\ hs[i].entry < es[j])
    <3>1. PICK h : h = NewHandle(es[j])
      OBVIOUS
    <3>2. h \in HandleType /\ h.entry = es[j] /\ h.ptr = NoHandle
      BY <2>1, <3>1, NewHandleIsHandle
    <3>3. PICK new : new = Append(list, h)
      OBVIOUS
    <3>4. new \in Seq(HandleType) /\ Len(new) = j /\ new[j] = h /\ \A k \in 1 .. j - 1 : new[k] = list[k]
      BY <1>3, <3>2, <3>3, AppendProperties
    <3>5. x.i = i /\ x.j = j + 1 /\ x.list = new
      <4>1. ~(w.j > Len(es)) /\ (w.i > Len(hs) \/ (w.i <= Len(hs) /\ hs[w.i].entry < es[w.j]))
        BY <1>1, <1>2, <1>5, <2>2
      <4>2. x = [i |-> w.i, j |-> w.j + 1, list |-> Append(w.list, NewHandle(es[w.j]))]
        BY <4>1 DEF MergeOnce
      <4> QED
        BY <1>2, <3>1, <3>3, <4>2
    <3>6. \A k \in 1 .. j : /\ new[k].entry = es[k]
                            /\ new[k] = NewHandle(es[k]) \/ \E l \in 1 .. i - 1 : new[k] = hs[l]
      <4>1. ASSUME NEW k \in 1 .. j
            PROVE  /\ new[k].entry = es[k]
                   /\ new[k] = NewHandle(es[k]) \/ \E l \in 1 .. i - 1 : new[k] = hs[l]
        <5>1. CASE k = j
          BY <3>1, <3>2, <3>4, <5>1
        <5>2. CASE k \in 1 .. j - 1
          BY <1>3, <3>4, <5>2
        <5> QED
          BY <5>1, <5>2
      <4> QED
        BY <4>1
    <3>7. \A k, l \in 1 .. j : new[k].ptr # NoHandle /\ new[k].ptr = new[l].ptr => k = l
      <4>1. ASSUME NEW k \in 1 .. j, NEW l \in 1 .. j, new[k].ptr # NoHandle, new[k].ptr = new[l].ptr
            PROVE  k = l
        <5>1. k # j /\ l # j
          BY <3>2, <3>4, <4>1
        <5>2. k \in 1 .. j - 1 /\ l \in 1 .. j - 1
          BY <5>1
        <5> QED
          BY <1>3, <3>4, <4>1, <5>2
      <4> QED
        BY <4>1
    <3>8. Merging(hs, es, x)
      <4>1. x.i \in 1 .. n + 1 /\ x.j - 1 = j /\ x.j \in 1 .. m + 1
        BY <1>5, <3>5
      <4> QED
        BY <1>1, <3>4, <3>5, <3>6, <3>7, <4>1 DEF Merging
    <3> QED
      BY <1>1, <1>2, <1>5, <3>5, <3>8
  <2>3. CASE i <= n /\ hs[i].entry = es[j]
    <3>1. PICK h : h = hs[i]
      OBVIOUS
    <3>2. h \in HandleType /\ h.entry = es[j]
      BY <1>1, <2>3, <3>1, ElementOfSeq
    <3>3. PICK new : new = Append(list, h)
      OBVIOUS
    <3>4. new \in Seq(HandleType) /\ Len(new) = j /\ new[j] = h /\ \A k \in 1 .. j - 1 : new[k] = list[k]
      BY <1>3, <3>2, <3>3, AppendProperties
    <3>5. x.i = i + 1 /\ x.j = j + 1 /\ x.list = new
      <4>1. ~(hs[i].entry < es[j])
        BY <2>1, <2>3
      <4>2. ~(w.j > Len(es)) /\ ~(w.i > Len(hs)) /\ hs[w.i].entry = es[w.j] /\ ~(hs[w.i].entry < es[w.j])
        BY <1>1, <1>2, <1>5, <2>3, <4>1
      <4>3. x = [i |-> w.i + 1, j |-> w.j + 1, list |-> Append(w.list, hs[w.i])]
        BY <4>2 DEF MergeOnce
      <4> QED
        BY <1>2, <3>1, <3>3, <4>3
    <3>6. \A k \in 1 .. j : /\ new[k].entry = es[k]
                            /\ new[k] = NewHandle(es[k]) \/ \E l \in 1 .. i : new[k] = hs[l]
      <4>1. ASSUME NEW k \in 1 .. j
            PROVE  /\ new[k].entry = es[k]
                   /\ new[k] = NewHandle(es[k]) \/ \E l \in 1 .. i : new[k] = hs[l]
        <5>1. CASE k = j
          BY <3>1, <3>2, <3>4, <5>1
        <5>2. CASE k \in 1 .. j - 1
          <6>1. \A l \in 1 .. i - 1 : l \in 1 .. i
            OBVIOUS
          <6> QED
            BY <1>3, <3>4, <5>2, <6>1
        <5> QED
          BY <5>1, <5>2
      <4> QED
        BY <4>1
    <3>7. \A k, l \in 1 .. j : new[k].ptr # NoHandle /\ new[k].ptr = new[l].ptr => k = l
      <4>1. \A k \in 1 .. j : k = j \/ k \in 1 .. j - 1
        OBVIOUS
      <4>2. \A k \in 1 .. j - 1 : new[k].ptr # NoHandle => new[k].ptr # h.ptr
        <5>1. ASSUME NEW k \in 1 .. j - 1, new[k].ptr # NoHandle PROVE new[k].ptr # h.ptr
          <6>1. CASE list[k] = NewHandle(es[k])
            <7>1. k \in 1 .. m
              BY <1>5
            <7>2. es[k] \in Nat
              BY <1>1, <7>1, ElementOfSeq
            <7> QED
              BY <3>4, <5>1, <6>1, <7>2, NewHandleIsHandle
          <6>2. CASE \E l \in 1 .. i - 1 : list[k] = hs[l]
            <7>1. PICK l \in 1 .. i - 1 : list[k] = hs[l]
              BY <6>2
            <7>2. l \in 1 .. n /\ i \in 1 .. n /\ l # i
              BY <2>3, EarlierHandle
            <7> QED
              BY <1>1, <3>1, <3>4, <5>1, <7>1, <7>2 DEF NoSharing
          <6> QED
            BY <1>3, <6>1, <6>2
        <5> QED
          BY <5>1
      <4>3. \A k, l \in 1 .. j - 1 : new[k].ptr # NoHandle /\ new[k].ptr = new[l].ptr => k = l
        BY <1>3, <3>4
      <4>4. ASSUME NEW k \in 1 .. j, NEW l \in 1 .. j, new[k].ptr # NoHandle, new[k].ptr = new[l].ptr
            PROVE  k = l
        <5>1. CASE k = j /\ l = j
          BY <5>1
        <5>2. CASE k = j /\ l \in 1 .. j - 1
          <6>1. new[l].ptr # NoHandle /\ new[l].ptr = h.ptr
            BY <3>4, <4>4, <5>2
          <6> QED
            BY <4>2, <5>2, <6>1
        <5>3. CASE k \in 1 .. j - 1 /\ l = j
          <6>1. new[k].ptr = h.ptr
            BY <3>4, <4>4, <5>3
          <6> QED
            BY <4>2, <4>4, <5>3, <6>1
        <5>4. CASE k \in 1 .. j - 1 /\ l \in 1 .. j - 1
          BY <4>3, <4>4, <5>4
        <5> QED
          BY <4>1, <5>1, <5>2, <5>3, <5>4
      <4> QED
        BY <4>4
    <3>8. Merging(hs, es, x)
      <4>1. x.i - 1 = i /\ x.j - 1 = j /\ x.i \in 1 .. n + 1 /\ x.j \in 1 .. m + 1
        <5>1. i <= n /\ i \in Nat /\ j \in Nat
          BY <2>3
        <5> QED
          BY <1>5, <3>5, <5>1
      <4> QED
        BY <1>1, <3>4, <3>5, <3>6, <3>7, <4>1 DEF Merging
    <3> QED
      BY <1>1, <1>2, <1>5, <3>5, <3>8
  <2>4. CASE i <= n /\ ~(hs[i].entry < es[j]) /\ hs[i].entry # es[j]
    <3>1. x.i = i + 1 /\ x.j = j /\ x.list = list
      <4>1. ~(w.j > Len(es)) /\ ~(w.i > Len(hs)) /\ ~(hs[w.i].entry < es[w.j]) /\ hs[w.i].entry # es[w.j]
        BY <1>1, <1>2, <1>5, <2>4
      <4>2. x = [i |-> w.i + 1, j |-> w.j, list |-> w.list]
        BY <4>1 DEF MergeOnce
      <4> QED
        BY <1>2, <4>2
    <3>2. Merging(hs, es, x)
      <4>1. x.i \in 1 .. n + 1 /\ x.i - 1 = i /\ \A l \in 1 .. i - 1 : l \in 1 .. i
        BY <2>4, <3>1
      <4>2. \A k \in 1 .. j - 1 :
                /\ list[k].entry = es[k]
                /\ list[k] = NewHandle(es[k]) \/ \E l \in 1 .. i : list[k] = hs[l]
        BY <1>3, <4>1
      <4> QED
        BY <1>1, <1>3, <3>1, <4>1, <4>2 DEF Merging
    <3> QED
      BY <1>1, <1>2, <1>5, <3>1, <3>2
  <2> QED
    BY <2>2, <2>3, <2>4
<1> QED
  BY <1>4, <1>5

\* list are the handles of the entries es, new ones or those there were.
Merged(list, hs, es) ==
    /\ list \in Seq(HandleType) /\ Follow(list, es) /\ NoSharing(list)
    /\ \A k \in 1 .. Len(list) :
           list[k] = NewHandle(es[k]) \/ \E m \in 1 .. Len(hs) : list[k] = hs[m]

\* So the walk is long enough.
LEMMA MergedFromMerges ==
    ASSUME NEW hs \in Seq(HandleType), NEW es \in Seq(Nat), NoSharing(hs),
           NEW list, list = MergedFrom(hs, es)
    PROVE  Merged(list, hs, es)
<1>1. PICK N \in Nat, M \in Nat : N = Len(hs) /\ M = Len(es)
  BY LenProperties
<1> DEFINE Walk == CHOOSE walk : Walks(hs, es, N + M, walk)
<1>2. list = Walk[N + M].list
  BY <1>1 DEF MergedFrom, Walks, MergeStart
<1>3. Walks(hs, es, N + M, Walk)
  <2>1. \E walk : Walks(hs, es, N + M, walk)
    <3>1. N + M \in Nat
      BY <1>1
    <3> QED
      BY <3>1, LoopsExist
  <2> QED
    BY <2>1
<1> HIDE DEF Walk
<1>4. /\ Walk[0] = MergeStart
      /\ \A n \in 1 .. N + M : Walk[n] = MergeOnce(hs, es, Walk[n - 1])
  <2>1. \A n \in 0 .. N + M : Walk[n] = IF n = 0 THEN MergeStart ELSE MergeOnce(hs, es, Walk[n - 1])
    BY <1>3 DEF Walks
  <2>2. 0 \in 0 .. N + M /\ \A n \in 1 .. N + M : n \in 0 .. N + M /\ n # 0
    BY <1>1
  <2> QED
    BY <2>1, <2>2
<1> DEFINE Good(n) == /\ Merging(hs, es, Walk[n])
                      /\ Walk[n].j > M \/ Walk[n].i + Walk[n].j >= n + 2
           bad == {n \in 0 .. N + M : ~Good(n)}
<1>5. Good(0)
  <2>1. MergeStart.i = 1 /\ MergeStart.j = 1 /\ MergeStart.list = <<>>
    BY DEF MergeStart
  <2>2. <<>> \in Seq(HandleType) /\ Len(<<>>) = 0
    OBVIOUS
  <2>3. Merging(hs, es, MergeStart)
    BY <1>1, <2>1, <2>2 DEF Merging
  <2> QED
    BY <1>4, <2>1, <2>3
<1>6. ASSUME NEW n \in 1 .. N + M, Good(n - 1) PROVE Good(n)
  <2>1. PICK w : w = Walk[n - 1]
    OBVIOUS
  <2>2. PICK x : x = Walk[n]
    OBVIOUS
  <2>3. x = MergeOnce(hs, es, w) /\ Merging(hs, es, w) /\ (w.j > M \/ w.i + w.j >= (n - 1) + 2)
    BY <1>4, <1>6, <2>1, <2>2
  <2>4. /\ Merging(hs, es, x)
        /\ IF w.j > M THEN x.j = w.j ELSE x.i + x.j >= w.i + w.j + 1
    BY <1>1, <2>3, MergeOnceMerges
  <2>5. w.i \in Nat /\ w.j \in Nat /\ x.i \in Nat /\ x.j \in Nat
    BY <1>1, <2>3, <2>4 DEF Merging
  <2>6. x.j > M \/ x.i + x.j >= n + 2
    BY <2>3, <2>4, <2>5
  <2> QED
    BY <2>2, <2>4, <2>6
<1>7. ASSUME bad # {} PROVE FALSE
  <2>0. bad \subseteq Nat
    OBVIOUS
  <2>1. PICK m \in bad : \A k \in bad : m <= k
    <3> HIDE DEF bad
    <3> QED
      BY <1>7, <2>0, LeastNumber
  <2> HIDE DEF Good
  <2>2. m # 0
    BY <1>5, <2>1
  <2>3. m \in 1 .. N + M /\ m - 1 \in 0 .. N + M /\ m - 1 \notin bad
    BY <2>1, <2>2
  <2>4. Good(m - 1)
    BY <2>3
  <2> QED
    BY <1>6, <2>1, <2>3, <2>4
<1>8. PICK w : w = Walk[N + M]
  OBVIOUS
<1>9. Merging(hs, es, w) /\ (w.j > M \/ w.i + w.j >= (N + M) + 2)
  <2>1. Good(N + M)
    <3>1. N + M \in 0 .. N + M
      BY <1>1
    <3> HIDE DEF Good
    <3> QED
      BY <1>7, <3>1
  <2> QED
    BY <1>8, <2>1
<1>10. w.j = M + 1 /\ w.i \in 1 .. N + 1
  BY <1>1, <1>9 DEF Merging
<1>11. list = w.list /\ list \in Seq(HandleType) /\ Len(list) = M
  BY <1>1, <1>2, <1>8, <1>9, <1>10 DEF Merging
<1>12. \A k \in 1 .. M :
          /\ list[k].entry = es[k]
          /\ list[k] = NewHandle(es[k]) \/ \E m \in 1 .. N : list[k] = hs[m]
  <2>1. \A k \in 1 .. w.j - 1 :
          /\ list[k].entry = es[k]
          /\ list[k] = NewHandle(es[k]) \/ \E m \in 1 .. w.i - 1 : list[k] = hs[m]
    BY <1>9, <1>11 DEF Merging
  <2>2. w.j - 1 = M /\ \A m \in 1 .. w.i - 1 : m \in 1 .. N
    BY <1>10
  <2> QED
    BY <2>1, <2>2
<1>13. NoSharing(list)
  <2>1. w.j - 1 = M
    BY <1>10
  <2> QED
    BY <1>9, <1>11, <2>1 DEF Merging, NoSharing
<1> QED
  BY <1>1, <1>11, <1>12, <1>13 DEF Merged, Follow

\* The handles that go take their sounds with them.
LEMMA ReleasedOwns ==
    ASSUME m_handles \in Seq(HandleType), device \in [Device -> SoundType], Owned(m_handles, device),
           NEW list \in Seq(HandleType), NoSharing(list),
           \A k \in 1 .. Len(list) :
               list[k].ptr = NoHandle \/ \E m \in 1 .. Len(m_handles) : list[k] = m_handles[m],
           NEW dev, dev = Released(list)
    PROVE  /\ dev \in [Device -> SoundType] /\ Owned(list, dev)
           /\ \A k \in 1 .. Len(list) : list[k].ptr # NoHandle => dev[list[k].ptr] = device[list[k].ptr]
<1>1. \A d \in Device : [device[d] EXCEPT !.status = "INVALID"] \in SoundType
                        /\ [device[d] EXCEPT !.status = "INVALID"].status = "INVALID"
  BY DEF SoundType, Statuses
<1>2. DOMAIN m_handles = 1 .. Len(m_handles) /\ DOMAIN list = 1 .. Len(list)
  BY LenProperties
<1> DEFINE Gone(d) == \E i \in 1 .. Len(m_handles) : m_handles[i].ptr = d /\ \A j \in 1 .. Len(list) : list[j].ptr # d
<1>3. dev = [d \in Device |-> IF Gone(d) THEN [device[d] EXCEPT !.status = "INVALID"] ELSE device[d]]
  BY <1>2 DEF Released
<1>4. /\ \A d \in Device : ~Gone(d) => dev[d] = device[d]
      /\ \A d \in Device : Gone(d) => dev[d].status = "INVALID"
      /\ dev \in [Device -> SoundType]
  BY <1>1, <1>3
<1>5. ASSUME NEW k \in 1 .. Len(list), list[k].ptr # NoHandle
      PROVE  dev[list[k].ptr] = device[list[k].ptr] /\ device[list[k].ptr].status # "INVALID"
  <2>1. list[k].ptr \in Device
    <3>1. list[k] \in HandleType
      BY ElementOfSeq
    <3> QED
      BY <1>5, <3>1 DEF HandleType
  <2>2. ~Gone(list[k].ptr)
    BY <1>5
  <2>3. PICK m \in 1 .. Len(m_handles) : list[k] = m_handles[m]
    BY <1>5
  <2>4. device[list[k].ptr].status # "INVALID"
    BY <1>5, <2>3 DEF Owned
  <2> HIDE DEF Gone
  <2> QED
    BY <1>4, <2>1, <2>2, <2>4
<1>6. ASSUME NEW d \in Device, dev[d].status # "INVALID"
      PROVE  \E k \in 1 .. Len(list) : list[k].ptr = d
  <2>1. ~Gone(d)
    BY <1>4, <1>6
  <2>2. device[d].status # "INVALID"
    BY <1>4, <1>6, <2>1
  <2>3. PICK i \in 1 .. Len(m_handles) : m_handles[i].ptr = d
    BY <2>2 DEF Owned
  <2> QED
    BY <2>1, <2>3
<1> HIDE DEF Gone
<1> QED
  BY <1>4, <1>5, <1>6 DEF Owned, NoSharing

\* One handle h with the sound v seeks, and is h2 with the sound v2 afterwards.
SeekTurns(h, v, h2, v2, t) ==
    \E o \in HandleOnDevice, r \in HandleOnDevice :
        /\ o.handle = h /\ (h.ptr # NoHandle => o.device[h.ptr] = v)
        /\ Alive(o) /\ HasRoom(o) /\ r = SeekAll(o, t)
        /\ r.handle = h2 /\ (h2.ptr # NoHandle => r.device[h2.ptr] = v2)

\* n of the handles hs have sought, the others are as they were.
Seeking(hs, dev, t, n, hs2, dev2) ==
    /\ hs2 \in Seq(HandleType) /\ Len(hs2) = Len(hs) /\ dev2 \in [Device -> SoundType]
    /\ Owned(hs2, dev2)
    /\ \A k \in 1 .. Len(hs) : hs2[k].entry = hs[k].entry
    /\ \A k \in 1 .. Len(hs) : k > n =>
           hs2[k] = hs[k] /\ (hs[k].ptr # NoHandle => dev2[hs[k].ptr] = dev[hs[k].ptr])
    /\ \A k \in 1 .. Len(hs) : k <= n =>
           SeekTurns(hs[k], dev[hs[k].ptr], hs2[k], dev2[hs2[k].ptr], t)

LEMMA SeekOnceSeeks ==
    ASSUME NEW hs \in Seq(HandleType), Len(hs) <= MaxId, NEW dev,
           \A k \in 1 .. Len(hs) : entry[hs[k].entry] \in EntryType,
           NEW t \in Nat, NEW i \in 1 .. Len(hs), NEW a, NEW b,
           Seeking(hs, dev, t, i - 1, a.handles, a.device), b = SeekOnce(a, i, t)
    PROVE  Seeking(hs, dev, t, i, b.handles, b.device)
<1>1. PICK hs1, dev1 : hs1 = a.handles /\ dev1 = a.device
  OBVIOUS
<1>2. /\ hs1 \in Seq(HandleType) /\ Len(hs1) = Len(hs) /\ dev1 \in [Device -> SoundType]
      /\ Owned(hs1, dev1) /\ hs1[i] \in HandleType
  <2>1. /\ hs1 \in Seq(HandleType) /\ Len(hs1) = Len(hs) /\ dev1 \in [Device -> SoundType]
        /\ Owned(hs1, dev1)
    BY <1>1 DEF Seeking
  <2> QED
    BY <2>1, ElementOfSeq
<1>3. /\ \A k \in 1 .. Len(hs) : hs1[k].entry = hs[k].entry
      /\ \A k \in 1 .. Len(hs) : k > i - 1 =>
             hs1[k] = hs[k] /\ (hs[k].ptr # NoHandle => dev1[hs[k].ptr] = dev[hs[k].ptr])
      /\ \A k \in 1 .. Len(hs) : k <= i - 1 =>
             SeekTurns(hs[k], dev[hs[k].ptr], hs1[k], dev1[hs1[k].ptr], t)
  BY <1>1 DEF Seeking
<1>4. PICK o : o = [handle |-> hs1[i], device |-> dev1]
  OBVIOUS
<1>5. o \in HandleOnDevice /\ o.handle = hs1[i] /\ o.device = dev1
  BY <1>2, <1>4 DEF HandleOnDevice
<1>6. Alive(o)
  BY <1>2, <1>5 DEF Alive, Owned
<1>7. HasRoom(o)
  <2>1. o.handle.ptr = NoHandle => \E d \in Device : dev1[d].status = "INVALID"
    BY <1>2, <1>5, RoomForAll
  <2> QED
    BY <1>5, <2>1 DEF HasRoom
<1>8. entry[o.handle.entry] \in EntryType /\ hs1[i] = hs[i] /\ (hs[i].ptr # NoHandle => dev1[hs[i].ptr] = dev[hs[i].ptr])
  <2>1. i > i - 1
    OBVIOUS
  <2> QED
    BY <1>3, <1>5, <2>1
<1>9. PICK r : r = SeekAll(o, t)
  OBVIOUS
<1>10. Local(o, r)
  BY <1>5, <1>6, <1>7, <1>8, <1>9, SeekAllDoes
<1>11. PICK hs2 : hs2 = [hs1 EXCEPT ![i] = r.handle]
  OBVIOUS
<1>12. b.handles = hs2 /\ b.device = r.device
  BY <1>1, <1>4, <1>9, <1>11 DEF SeekOnce
<1>13. r \in HandleOnDevice /\ r.handle \in HandleType /\ r.device \in [Device -> SoundType]
       /\ r.handle.entry = o.handle.entry
  BY <1>10 DEF Local, HandleOnDevice, SameRevisions
<1>14. /\ hs2 \in Seq(HandleType) /\ Len(hs2) = Len(hs) /\ hs2[i] = r.handle
       /\ \A j \in 1 .. Len(hs) : j # i => hs2[j] = hs1[j]
  BY <1>2, <1>11, <1>13, HandleInListReplaced
<1>15. Owned(hs2, r.device)
  BY <1>2, <1>5, <1>10, <1>11, OwnedKept
<1>16. \A k \in 1 .. Len(hs) : k # i /\ hs1[k].ptr # NoHandle => r.device[hs1[k].ptr] = dev1[hs1[k].ptr]
  BY <1>2, <1>5, <1>10, OthersKept
<1>17. \A k \in 1 .. Len(hs) : hs2[k].entry = hs[k].entry
  BY <1>3, <1>5, <1>13, <1>14
<1>18. \A k \in 1 .. Len(hs) : k > i =>
           hs2[k] = hs[k] /\ (hs[k].ptr # NoHandle => r.device[hs[k].ptr] = dev[hs[k].ptr])
  BY <1>3, <1>14, <1>16
<1>19. ASSUME NEW k \in 1 .. Len(hs), k <= i
       PROVE  SeekTurns(hs[k], dev[hs[k].ptr], hs2[k], r.device[hs2[k].ptr], t)
  <2>1. CASE k = i
    BY <1>5, <1>6, <1>7, <1>8, <1>9, <1>13, <1>14, <2>1 DEF SeekTurns
  <2>2. CASE k # i
    <3>1. SeekTurns(hs[k], dev[hs[k].ptr], hs1[k], dev1[hs1[k].ptr], t)
      BY <1>3, <1>19, <2>2
    <3>2. hs2[k] = hs1[k] /\ (hs1[k].ptr # NoHandle => r.device[hs1[k].ptr] = dev1[hs1[k].ptr])
      BY <1>14, <1>16, <2>2
    <3> QED
      BY <3>1, <3>2 DEF SeekTurns
  <2> QED
    BY <2>1, <2>2
<1> QED
  BY <1>12, <1>13, <1>14, <1>15, <1>17, <1>18, <1>19 DEF Seeking

\* The loop of seek() over the handles.
LEMMA SeekSeeks ==
    ASSUME NEW t \in Nat, Seek(t), m_handles \in Seq(HandleType), Len(m_handles) <= MaxId,
           device \in [Device -> SoundType], Owned(m_handles, device),
           \A k \in 1 .. Len(m_handles) : entry[m_handles[k].entry] \in EntryType
    PROVE  Seeking(m_handles, device, t, Len(m_handles), m_handles', device')
<1>1. PICK N \in Nat : N = Len(m_handles)
  BY LenProperties
<1> DEFINE After == CHOOSE after : Seeks(m_handles, device, t, N, after)
<1>2. m_handles' = After[N].handles /\ device' = After[N].device
  BY <1>1 DEF Seek, Seeks
<1>3. Seeks(m_handles, device, t, N, After)
  <2>1. \E after : Seeks(m_handles, device, t, N, after)
    BY <1>1, LoopsExist
  <2> QED
    BY <2>1
<1> HIDE DEF After
<1>4. /\ After[0] = [handles |-> m_handles, device |-> device]
      /\ \A n \in 1 .. N : After[n] = SeekOnce(After[n - 1], n, t)
  <2>1. \A n \in 0 .. N : After[n] = IF n = 0 THEN [handles |-> m_handles, device |-> device]
                                     ELSE SeekOnce(After[n - 1], n, t)
    BY <1>3 DEF Seeks
  <2>2. 0 \in 0 .. N /\ \A n \in 1 .. N : n \in 0 .. N /\ n # 0
    BY <1>1
  <2> QED
    BY <2>1, <2>2
<1> DEFINE Good(n) == Seeking(m_handles, device, t, n, After[n].handles, After[n].device)
           bad == {n \in 0 .. N : ~Good(n)}
<1>5. Good(0)
  <2>1. After[0].handles = m_handles /\ After[0].device = device
    BY <1>4
  <2>2. \A k \in 1 .. Len(m_handles) : ~(k <= 0)
    BY <1>1
  <2> QED
    BY <2>1, <2>2 DEF Seeking
<1>6. ASSUME NEW n \in 1 .. N, Good(n - 1) PROVE Good(n)
  BY <1>1, <1>4, <1>6, SeekOnceSeeks
<1>7. ASSUME bad # {} PROVE FALSE
  <2>0. bad \subseteq Nat
    OBVIOUS
  <2>1. PICK m \in bad : \A k \in bad : m <= k
    <3> HIDE DEF bad
    <3> QED
      BY <1>7, <2>0, LeastNumber
  <2> HIDE DEF Good
  <2>2. m # 0
    BY <1>5, <2>1
  <2>3. m \in 1 .. N /\ m - 1 \in 0 .. N /\ m - 1 \notin bad
    BY <2>1, <2>2
  <2>4. Good(m - 1)
    BY <2>3
  <2> QED
    BY <1>6, <2>1, <2>3, <2>4
<1>8. Good(N)
  <2>1. N \in 0 .. N
    BY <1>1
  <2> HIDE DEF Good
  <2> QED
    BY <1>7, <2>1
<1> QED
  BY <1>1, <1>2, <1>8
------------------------------------------------------------------------------
(* Ownership is an invariant. *)

LEMMA EntryHasType ==
    ASSUME EntriesOK, NEW e \in 1 .. Len(entry)
    PROVE  entry[e] \in EntryType
<1>1. entry \in Seq(EntryType)
  BY DEF EntriesOK
<1> QED
  BY <1>1, ElementOfSeq

\* The initial state satisfies the invariant.
LEMMA InitOwns == Init => OwnInv
<1> SUFFICES ASSUME Init PROVE OwnInv
  OBVIOUS
<1>1. /\ m_entries = <<>> /\ entry = <<>> /\ m_handles = <<>> /\ device = [d \in Device |-> Silent]
      /\ m_entry_status = 0 /\ seen = 0 /\ m_position = 0 /\ at = "idle" /\ cur = 0
  BY DEF Init
<1>2. \A S : <<>> \in Seq(S) /\ Len(<<>>) = 0
  OBVIOUS
<1>3. MaxId \in Nat /\ MaxTime \in Nat
  BY SequenceAssumption
<1>4. EntriesOK
  BY <1>1, <1>2, <1>3 DEF EntriesOK
<1>5. Silent \in SoundType /\ Silent.status = "INVALID"
  BY DEF Silent, SoundType, Statuses, Sound
<1>6. device \in [Device -> SoundType] /\ \A d \in Device : device[d].status = "INVALID"
  BY <1>1, <1>5
<1>7. HandlesOK
  BY <1>1, <1>2, <1>3, <1>6 DEF HandlesOK
<1>8. ReadOK
  BY <1>1, <1>3 DEF ReadOK, Steps
<1>9. Owned(m_handles, device)
  BY <1>1, <1>2, <1>6 DEF Owned
<1>10. Follow(m_handles, m_entries)
  BY <1>1, <1>2 DEF Follow
<1> QED
  BY <1>4, <1>7, <1>8, <1>9, <1>10 DEF OwnInv

\* What an update does to the handle and the device, o beforehand and r afterwards.
HandleStored(o, r) ==
    /\ o \in HandleOnDevice /\ Local(o, r) /\ Store(r)
    /\ o.device = device /\ o.handle.ptr = m_handles[cur].ptr /\ o.handle.entry = m_handles[cur].entry

LEMMA StoreOwns ==
    ASSUME OwnInv, at \in Steps, NEW o, NEW r, HandleStored(o, r)
    PROVE  /\ m_handles' \in Seq(HandleType) /\ Len(m_handles') = Len(m_handles)
           /\ device' \in [Device -> SoundType] /\ Owned(m_handles', device')
           /\ \A k \in 1 .. Len(m_handles) : m_handles'[k].entry = m_handles[k].entry
           /\ m_handles'[cur] = r.handle /\ device' = r.device
           /\ \A k \in 1 .. Len(m_handles) : k # cur =>
                  /\ m_handles'[k] = m_handles[k]
                  /\ m_handles[k].ptr # NoHandle => device'[m_handles[k].ptr] = device[m_handles[k].ptr]
<1>1. /\ m_handles \in Seq(HandleType) /\ cur \in 1 .. Len(m_handles) /\ Owned(m_handles, device)
  BY DEF OwnInv, HandlesOK, ReadOK
<1>2. /\ o \in HandleOnDevice /\ Local(o, r) /\ o.device = device /\ o.handle.ptr = m_handles[cur].ptr
      /\ o.handle.entry = m_handles[cur].entry
  BY DEF HandleStored
<1>3. m_handles' = [m_handles EXCEPT ![cur] = r.handle] /\ device' = r.device
  BY DEF HandleStored, Store
<1>4. r.handle \in HandleType /\ r.device \in [Device -> SoundType] /\ r.handle.entry = o.handle.entry
  BY <1>2 DEF Local, HandleOnDevice, SameRevisions
<1>5. /\ m_handles' \in Seq(HandleType) /\ Len(m_handles') = Len(m_handles) /\ m_handles'[cur] = r.handle
      /\ \A j \in 1 .. Len(m_handles) : j # cur => m_handles'[j] = m_handles[j]
  BY <1>1, <1>3, <1>4, HandleInListReplaced
<1>6. Owned(m_handles', device')
  BY <1>1, <1>2, <1>3, OwnedKept
<1>7. \A k \in 1 .. Len(m_handles) : k # cur /\ m_handles[k].ptr # NoHandle =>
          device'[m_handles[k].ptr] = device[m_handles[k].ptr]
  BY <1>1, <1>2, <1>3, OthersKept
<1> QED
  BY <1>2, <1>3, <1>4, <1>5, <1>6, <1>7

\* The update goes on, with the same handle or with the next.
LEMMA UpdateOwns ==
    ASSUME OwnInv, at \in Steps, UNCHANGED <<entryVars, seen, m_position>>,
           m_handles' \in Seq(HandleType), Len(m_handles') = Len(m_handles),
           device' \in [Device -> SoundType], Owned(m_handles', device'),
           \A k \in 1 .. Len(m_handles) : m_handles'[k].entry = m_handles[k].entry,
           NextHandle \/ (at' \in Steps /\ cur' = cur)
    PROVE  OwnInv'
<1>1. UNCHANGED <<m_entries, entry, m_entry_status, seen, m_position>>
  BY DEF entryVars
<1>2. EntriesOK'
  BY <1>1 DEF OwnInv, EntriesOK
<1>3. HandlesOK'
  BY <1>1 DEF OwnInv, HandlesOK
<1>4. ReadOK'
  <2>1. Len(m_handles) \in Nat /\ cur \in 1 .. Len(m_handles)
    BY LenProperties DEF OwnInv, HandlesOK, ReadOK
  <2>2. CASE NextHandle /\ cur < Len(m_handles)
    <3>1. at' = "test" /\ cur' = cur + 1
      BY <2>2 DEF NextHandle
    <3>2. cur' \in 1 .. Len(m_handles') /\ at' \in Steps
      BY <2>1, <2>2, <3>1 DEF Steps
    <3> QED
      BY <1>1, <3>2 DEF OwnInv, ReadOK, Steps
  <2>3. CASE NextHandle /\ ~(cur < Len(m_handles))
    <3>1. at' = "mix" /\ cur' = 0
      BY <2>3 DEF NextHandle
    <3> QED
      BY <1>1, <3>1 DEF OwnInv, ReadOK, Steps
  <2>4. CASE at' \in Steps /\ cur' = cur
    <3>1. cur' \in 1 .. Len(m_handles')
      BY <2>1, <2>4
    <3> QED
      BY <1>1, <2>4, <3>1 DEF OwnInv, ReadOK, Steps
  <2> QED
    BY <2>2, <2>3, <2>4
<1>5. Follow(m_handles', m_entries')
  BY <1>1 DEF OwnInv, Follow, Steps
<1> QED
  BY <1>2, <1>3, <1>4, <1>5 DEF OwnInv

\* The handle that is being updated.
LEMMA MineIs ==
    ASSUME OwnInv, at \in Steps
    PROVE  /\ Mine \in HandleOnDevice /\ Mine.handle = m_handles[cur] /\ Mine.device = device
           /\ Alive(Mine) /\ HasRoom(Mine) /\ entry[Mine.handle.entry] \in EntryType
           /\ cur \in 1 .. Len(m_handles) /\ m_handles[cur] \in HandleType
<1>1. /\ m_handles \in Seq(HandleType) /\ device \in [Device -> SoundType] /\ Len(m_handles) <= MaxId
      /\ cur \in 1 .. Len(m_handles) /\ Owned(m_handles, device) /\ EntriesOK
      /\ m_handles[cur].entry \in 1 .. Len(entry)
  BY DEF OwnInv, HandlesOK, ReadOK
<1>2. m_handles[cur] \in HandleType
  BY <1>1, ElementOfSeq
<1>3. Mine \in HandleOnDevice /\ Mine.handle = m_handles[cur] /\ Mine.device = device
  BY <1>1, <1>2 DEF Mine, HandleOnDevice
<1>4. Alive(Mine)
  BY <1>1, <1>3 DEF Alive, Owned
<1>5. HasRoom(Mine)
  <2>1. m_handles[cur].ptr = NoHandle => \E d \in Device : device[d].status = "INVALID"
    BY <1>1, RoomForAll
  <2> QED
    BY <1>3, <2>1 DEF HasRoom
<1>6. entry[Mine.handle.entry] \in EntryType
  BY <1>1, <1>3, EntryHasType
<1> QED
  BY <1>1, <1>2, <1>3, <1>4, <1>5, <1>6

\* update() with another sound: the handle has none, and may start again.
LEMMA TestStores ==
    ASSUME OwnInv, UpdateTests, m_handles[cur].soundRev # entry[m_handles[cur].entry].soundRev
    PROVE  /\ \E o, r : HandleStored(o, r)
           /\ at' = "place" /\ cur' = cur
           /\ LET h == m_handles'[cur] IN
              /\ h.entry = m_handles[cur].entry /\ h.posRev = m_handles[cur].posRev
              /\ h.soundRev = entry[h.entry].soundRev /\ h.valid /\ h.ptr = NoHandle
<1>1. at \in Steps /\ at = "test"
  BY DEF UpdateTests, Steps
<1>2. /\ Mine \in HandleOnDevice /\ Mine.handle = m_handles[cur] /\ Mine.device = device
      /\ Alive(Mine) /\ entry[Mine.handle.entry] \in EntryType
      /\ cur \in 1 .. Len(m_handles) /\ m_handles[cur] \in HandleType
  BY <1>1, MineIs
<1>3. PICK n \in Nat : n = entry[Mine.handle.entry].soundRev
  BY <1>2 DEF EntryType
<1>4. PICK k1 : k1 = [Mine.handle EXCEPT !.soundRev = n]
  OBVIOUS
<1>5. /\ k1 \in HandleType /\ k1.soundRev = n /\ k1.entry = Mine.handle.entry /\ k1.ptr = Mine.handle.ptr
      /\ k1.valid = Mine.handle.valid /\ k1.posRev = Mine.handle.posRev
  BY <1>2, <1>4, SoundRevReplaced
<1>6. PICK k : k = [k1 EXCEPT !.valid = TRUE]
  OBVIOUS
<1>7. /\ k \in HandleType /\ k.valid /\ k.entry = k1.entry /\ k.ptr = k1.ptr
      /\ k.posRev = k1.posRev /\ k.soundRev = k1.soundRev
  BY <1>5, <1>6, ValidReplaced
<1>8. PICK o : o = [Mine EXCEPT !.handle = k]
  OBVIOUS
<1>9. o \in HandleOnDevice /\ o.handle = k /\ o.device = device
  BY <1>2, <1>7, <1>8, HandleReplaced
<1>10. o = [Mine EXCEPT !.handle.soundRev = n, !.handle.valid = TRUE]
  <2>1. PICK o1 : o1 = [Mine EXCEPT !.handle.soundRev = n]
    OBVIOUS
  <2>2. o1 = [Mine EXCEPT !.handle = k1]
    BY <1>4, <2>1
  <2>3. o1 \in HandleOnDevice /\ o1.handle = k1 /\ o1.device = device
    BY <1>2, <1>5, <2>2, HandleReplaced
  <2>4. [Mine EXCEPT !.handle.soundRev = n, !.handle.valid = TRUE] = [o1 EXCEPT !.handle.valid = TRUE]
    BY <2>1
  <2>5. [o1 EXCEPT !.handle.valid = TRUE] = [o1 EXCEPT !.handle = k]
    BY <1>6, <2>3
  <2>6. [o1 EXCEPT !.handle = k] = [Mine EXCEPT !.handle = k]
    BY <1>2, <1>9, <2>2, <2>3 DEF HandleOnDevice
  <2> QED
    BY <1>8, <2>4, <2>5, <2>6
<1>11. PICK r : r = Dropped(o)
  OBVIOUS
<1>12. Store(r) /\ at' = "place" /\ cur' = cur
  BY <1>2, <1>3, <1>10, <1>11 DEF UpdateTests
<1>13. /\ r \in HandleOnDevice /\ SameRevisions(o.handle, r.handle) /\ r.handle.valid = o.handle.valid
       /\ r.handle.ptr = NoHandle
       /\ o.handle.ptr # NoHandle => r.device[o.handle.ptr].status = "INVALID"
       /\ \A x \in Device : x # o.handle.ptr => r.device[x] = o.device[x]
  BY <1>9, <1>11, DroppedDoes
<1>14. Local(o, r)
  BY <1>13 DEF Local, Alive
<1>15. HandleStored(o, r)
  BY <1>2, <1>5, <1>7, <1>9, <1>12, <1>14 DEF HandleStored
<1>16. m_handles'[cur] = r.handle
  BY <1>1, <1>15, StoreOwns
<1> QED
  BY <1>2, <1>3, <1>5, <1>7, <1>9, <1>12, <1>13, <1>15, <1>16 DEF SameRevisions

LEMMA PlaceStores ==
    ASSUME OwnInv, UpdatePlaces
    PROVE  \E r \in HandleOnDevice :
               /\ HandleStored(Mine, r)
               /\ Mine.handle.ptr # NoHandle => PlacedFrom(Mine, r, m_position)
               /\ Mine.handle.ptr = NoHandle => PlacedNew(Mine, r, m_position)
               /\ IF r.handle.ptr = NoHandle THEN NextHandle
                  ELSE at' = (IF at = "place" THEN "seek" ELSE "revise") /\ cur' = cur
<1>1. at \in Steps /\ m_position \in Nat
  BY DEF UpdatePlaces, Steps, OwnInv, ReadOK
<1>2. /\ Mine \in HandleOnDevice /\ Mine.handle = m_handles[cur] /\ Mine.device = device
      /\ Alive(Mine) /\ HasRoom(Mine) /\ entry[Mine.handle.entry] \in EntryType
  BY <1>1, MineIs
<1>3. PICK r : r = Placed(Mine, m_position)
  OBVIOUS
<1>4. /\ Local(Mine, r)
      /\ Mine.handle.ptr # NoHandle => PlacedFrom(Mine, r, m_position)
      /\ Mine.handle.ptr = NoHandle => PlacedNew(Mine, r, m_position)
  BY <1>1, <1>2, <1>3, PlacedDoes
<1>5. /\ Store(r)
      /\ IF r.handle.ptr = NoHandle THEN NextHandle
         ELSE at' = (IF at = "place" THEN "seek" ELSE "revise") /\ cur' = cur
  BY <1>3 DEF UpdatePlaces
<1>6. HandleStored(Mine, r) /\ r \in HandleOnDevice
  BY <1>2, <1>4, <1>5 DEF HandleStored, Local
<1> QED
  BY <1>4, <1>5, <1>6

LEMMA SeekStores ==
    ASSUME OwnInv, UpdateSeeks
    PROVE  \E r \in HandleOnDevice :
               HandleStored(Mine, r) /\ SoughtFrom(Mine, r, m_position) /\ at' = "revise" /\ cur' = cur
<1>1. at \in Steps /\ m_position \in Nat
  BY DEF UpdateSeeks, Steps, OwnInv, ReadOK
<1>2. /\ Mine \in HandleOnDevice /\ Mine.handle = m_handles[cur] /\ Mine.device = device
      /\ Alive(Mine) /\ entry[Mine.handle.entry] \in EntryType
  BY <1>1, MineIs
<1>3. PICK r : r = Sought(Mine, m_position)
  OBVIOUS
<1>4. Local(Mine, r) /\ SoughtFrom(Mine, r, m_position)
  BY <1>1, <1>2, <1>3, SoughtDoes
<1>5. Store(r) /\ at' = "revise" /\ cur' = cur
  BY <1>3 DEF UpdateSeeks
<1> QED
  BY <1>2, <1>4, <1>5 DEF HandleStored, Local

\* The entry was moved: the handle seeks, knowing of it.
LEMMA ReviseStores ==
    ASSUME OwnInv, UpdateRevises, m_handles[cur].posRev # entry[m_handles[cur].entry].posRev
    PROVE  \E o \in HandleOnDevice, r \in HandleOnDevice :
               /\ HandleStored(o, r)
               /\ o.handle.posRev = entry[o.handle.entry].posRev
               /\ o.handle.soundRev = m_handles[cur].soundRev /\ o.handle.valid = m_handles[cur].valid
               /\ ~o.handle.valid => r = o
               /\ o.handle.valid =>
                     \E q \in HandleOnDevice :
                         /\ SameRevisions(o.handle, q.handle)
                         /\ o.handle.ptr # NoHandle => PlacedFrom(o, q, m_position)
                         /\ o.handle.ptr = NoHandle => PlacedNew(o, q, m_position)
                         /\ SoughtFrom(q, r, m_position)
<1>1. at \in Steps /\ m_position \in Nat
  BY DEF UpdateRevises, Steps, OwnInv, ReadOK
<1>2. /\ Mine \in HandleOnDevice /\ Mine.handle = m_handles[cur] /\ Mine.device = device
      /\ Alive(Mine) /\ HasRoom(Mine) /\ entry[Mine.handle.entry] \in EntryType
      /\ m_handles[cur] \in HandleType
  BY <1>1, MineIs
<1>3. PICK n \in Nat : n = entry[Mine.handle.entry].posRev
  BY <1>2 DEF EntryType
<1>4. PICK k : k = [Mine.handle EXCEPT !.posRev = n]
  OBVIOUS
<1>5. /\ k \in HandleType /\ k.posRev = n /\ k.entry = Mine.handle.entry /\ k.ptr = Mine.handle.ptr
      /\ k.valid = Mine.handle.valid /\ k.soundRev = Mine.handle.soundRev
  BY <1>2, <1>4, PosRevReplaced
<1>6. PICK o : o = [Mine EXCEPT !.handle = k]
  OBVIOUS
<1>7. o \in HandleOnDevice /\ o.handle = k /\ o.device = device
  BY <1>2, <1>5, <1>6, HandleReplaced
<1>8. o = [Mine EXCEPT !.handle.posRev = n]
  BY <1>4, <1>6
<1>9. Alive(o) /\ HasRoom(o) /\ entry[o.handle.entry] \in EntryType
  BY <1>2, <1>5, <1>7 DEF Alive, HasRoom
<1>10. PICK r : r = SeekAll(o, m_position)
  OBVIOUS
<1>11. /\ Local(o, r)
       /\ ~o.handle.valid => r = o
       /\ o.handle.valid =>
              \E q \in HandleOnDevice :
                  /\ SameRevisions(o.handle, q.handle)
                  /\ o.handle.ptr # NoHandle => PlacedFrom(o, q, m_position)
                  /\ o.handle.ptr = NoHandle => PlacedNew(o, q, m_position)
                  /\ SoughtFrom(q, r, m_position)
  BY <1>1, <1>7, <1>9, <1>10, SeekAllDoes
<1>12. Store(r)
  BY <1>2, <1>3, <1>8, <1>10 DEF UpdateRevises
<1>13. HandleStored(o, r) /\ r \in HandleOnDevice
  BY <1>2, <1>5, <1>7, <1>11, <1>12 DEF HandleStored, Local
<1> QED
  BY <1>2, <1>3, <1>5, <1>7, <1>11, <1>13

\* The client adds an entry.
LEMMA AddDoes ==
    ASSUME OwnInv, NEW p \in Places, NEW s \in Sounds, Add(p, s)
    PROVE  /\ OwnInv' /\ UNCHANGED <<touched, readerVars>> /\ at = "idle"
           /\ Len(entry') = Len(entry) + 1 /\ entry'[Len(entry) + 1].posRev = 1
           /\ \A e \in 1 .. Len(entry) : entry'[e] = entry[e]
<1> DEFINE new == [place |-> p, sound |-> s, posRev |-> 1, soundRev |-> 0]
<1>1. /\ at = "idle" /\ Len(entry) < MaxId /\ entry' = Append(entry, new)
      /\ m_entries' = Append(m_entries, Len(entry) + 1) /\ m_entry_status' = m_entry_status + 1
      /\ UNCHANGED <<touched, readerVars>>
  BY DEF Add, SequenceFree
<1>2. new \in EntryType /\ new.posRev = 1
  BY DEF EntryType, Sound
<1> HIDE DEF new
<1>3. /\ entry \in Seq(EntryType) /\ m_entries \in Seq(Nat) /\ Len(m_entries) <= Len(entry)
      /\ \A i \in 1 .. Len(m_entries) : m_entries[i] \in 1 .. Len(entry)
      /\ MaxId \in Nat
  BY SequenceAssumption DEF OwnInv, EntriesOK
<1>4. PICK n \in Nat, m \in Nat : n = Len(entry) /\ m = Len(m_entries)
  BY <1>3, LenProperties
<1>5. /\ entry' \in Seq(EntryType) /\ Len(entry') = n + 1 /\ entry'[n + 1] = new
      /\ \A e \in 1 .. n : entry'[e] = entry[e]
  BY <1>1, <1>2, <1>3, <1>4, AppendProperties
<1>6. /\ m_entries' \in Seq(Nat) /\ Len(m_entries') = m + 1 /\ m_entries'[m + 1] = n + 1
      /\ \A i \in 1 .. m : m_entries'[i] = m_entries[i]
  <2>1. n + 1 \in Nat
    OBVIOUS
  <2> QED
    BY <1>1, <1>3, <1>4, <2>1, AppendProperties
<1>7. \A i \in 1 .. m + 1 : m_entries'[i] \in 1 .. n + 1
  <2>1. ASSUME NEW i \in 1 .. m + 1 PROVE m_entries'[i] \in 1 .. n + 1
    <3>1. CASE i = m + 1
      BY <1>6, <3>1
    <3>2. CASE i \in 1 .. m
      <4>1. m_entries[i] \in 1 .. n
        BY <1>3, <1>4, <3>2
      <4>2. m_entries'[i] = m_entries[i]
        BY <1>6, <3>2
      <4> QED
        BY <4>1, <4>2
    <3> QED
      BY <3>1, <3>2
  <2> QED
    BY <2>1
<1>8. EntriesOK'
  BY <1>1, <1>3, <1>4, <1>5, <1>6, <1>7 DEF EntriesOK
<1>9. HandlesOK'
  <2>1. \A x \in 1 .. n : x \in 1 .. n + 1
    OBVIOUS
  <2> QED
    BY <1>1, <1>4, <1>5, <2>1 DEF OwnInv, HandlesOK, readerVars
<1>10. ReadOK' /\ seen' # m_entry_status' /\ at' = "idle"
  BY <1>1 DEF OwnInv, ReadOK, readerVars, Steps
<1>11. Owned(m_handles', device')
  BY <1>1 DEF OwnInv, readerVars
<1> QED
  BY <1>1, <1>2, <1>4, <1>5, <1>8, <1>9, <1>10, <1>11 DEF OwnInv

\* The client removes one.
LEMMA RemoveOwns ==
    ASSUME OwnInv, NEW i \in DOMAIN m_entries, RemoveEntry(i)
    PROVE  OwnInv'
<1>1. /\ at = "idle" /\ m_entry_status' = m_entry_status + 1 /\ UNCHANGED <<entry, readerVars>>
      /\ m_entries' = [k \in 1 .. Len(m_entries) - 1 |-> IF k < i THEN m_entries[k] ELSE m_entries[k + 1]]
  BY DEF RemoveEntry, SequenceFree
<1>2. /\ m_entries \in Seq(Nat) /\ Len(m_entries) <= Len(entry) /\ Len(entry) \in Nat
      /\ \A k \in 1 .. Len(m_entries) : m_entries[k] \in 1 .. Len(entry)
  BY LenProperties DEF OwnInv, EntriesOK
<1>3. PICK n \in Nat : n = Len(m_entries)
  BY <1>2, LenProperties
<1>4. i \in 1 .. n
  BY <1>2, <1>3, LenProperties
<1>5. \A k \in 1 .. n - 1 : m_entries'[k] \in 1 .. Len(entry)
  <2>1. ASSUME NEW k \in 1 .. n - 1 PROVE m_entries'[k] \in 1 .. Len(entry)
    <3>1. k \in 1 .. n /\ k + 1 \in 1 .. n
      OBVIOUS
    <3>2. m_entries'[k] = m_entries[k] \/ m_entries'[k] = m_entries[k + 1]
      BY <1>1, <1>3
    <3> QED
      BY <1>2, <1>3, <3>1, <3>2
  <2> QED
    BY <2>1
<1>6. m_entries' \in Seq(Nat) /\ Len(m_entries') = n - 1
  <2>1. n - 1 \in Nat
    BY <1>4
  <2>2. \A k \in 1 .. n - 1 : m_entries'[k] \in Nat
    BY <1>2, <1>5
  <2>3. m_entries' = [k \in 1 .. n - 1 |-> m_entries'[k]]
    BY <1>1, <1>3
  <2>4. m_entries' \in [1 .. n - 1 -> Nat]
    BY <2>2, <2>3
  <2> QED
    BY <2>1, <2>4
<1>7. EntriesOK'
  BY <1>1, <1>2, <1>3, <1>5, <1>6 DEF OwnInv, EntriesOK
<1>8. HandlesOK'
  BY <1>1 DEF OwnInv, HandlesOK, readerVars
<1>9. ReadOK' /\ seen' # m_entry_status' /\ at' = "idle"
  BY <1>1 DEF OwnInv, ReadOK, readerVars, Steps
<1>10. Owned(m_handles', device')
  BY <1>1 DEF OwnInv, readerVars
<1> QED
  BY <1>7, <1>8, <1>9, <1>10 DEF OwnInv

\* The client changes an entry.
EntryChanged(e, f) ==
    /\ f \in EntryType /\ entry' = [entry EXCEPT ![e] = f]
    /\ touched' = touched \cup {e}
    /\ UNCHANGED <<m_entries, m_entry_status, readerVars>>

LEMMA MoveDoes ==
    ASSUME EntriesOK, NEW e \in 1 .. Len(entry), NEW p \in Places, Move(e, p)
    PROVE  /\ MovesEnded \/ ~SoundEnded(e)
           /\ \E f : /\ EntryChanged(e, f) /\ f.posRev = entry[e].posRev + 1
                     /\ f.sound = entry[e].sound /\ f.soundRev = entry[e].soundRev
<1>1. PICK x \in EntryType : x = entry[e]
  BY EntryHasType
<1>2. x.posRev + 1 \in Nat
  BY <1>1 DEF EntryType
<1>3. PICK y : y = [x EXCEPT !.place = p]
  OBVIOUS
<1>4. /\ y \in EntryType /\ y.posRev = x.posRev /\ y.sound = x.sound /\ y.soundRev = x.soundRev
  BY <1>1, <1>3 DEF EntryType
<1>5. PICK f : f = [y EXCEPT !.posRev = x.posRev + 1]
  OBVIOUS
<1>6. f \in EntryType /\ f.posRev = x.posRev + 1 /\ f.sound = x.sound /\ f.soundRev = x.soundRev
  BY <1>2, <1>4, <1>5 DEF EntryType
<1>7. entry' = [entry EXCEPT ![e] = f]
  <2>1. entry \in Seq(EntryType) /\ DOMAIN entry = 1 .. Len(entry)
    BY LenProperties DEF EntriesOK
  <2>2. entry' = [entry EXCEPT ![e].place = p, ![e].posRev = x.posRev + 1]
    BY <1>1, <1>4, <2>1 DEF Move
  <2>3. PICK g : g = [entry EXCEPT ![e].place = p]
    OBVIOUS
  <2>4. g = [entry EXCEPT ![e] = y]
    BY <1>1, <1>3, <2>3
  <2>5. g[e] = y
    BY <2>1, <2>4
  <2>6. entry' = [g EXCEPT ![e] = f]
    BY <1>5, <2>2, <2>3, <2>5
  <2> QED
    BY <2>1, <2>4, <2>6
<1>8. EntryChanged(e, f)
  BY <1>6, <1>7 DEF EntryChanged, Move
<1> QED
  BY <1>1, <1>6, <1>8 DEF Move

LEMMA SetSoundDoes ==
    ASSUME EntriesOK, NEW e \in 1 .. Len(entry), NEW s \in Sounds \cup {NoSound}, SetSound(e, s)
    PROVE  \E f : /\ EntryChanged(e, f) /\ f.soundRev = entry[e].soundRev + 1
                  /\ f.place = entry[e].place /\ f.posRev = entry[e].posRev
<1>1. PICK x \in EntryType : x = entry[e]
  BY EntryHasType
<1>2. x.soundRev + 1 \in Nat
  BY <1>1 DEF EntryType
<1>3. PICK y : y = [x EXCEPT !.sound = s]
  OBVIOUS
<1>4. /\ y \in EntryType /\ y.posRev = x.posRev /\ y.place = x.place /\ y.soundRev = x.soundRev
  BY <1>1, <1>3 DEF EntryType, Sound
<1>5. PICK f : f = [y EXCEPT !.soundRev = x.soundRev + 1]
  OBVIOUS
<1>6. f \in EntryType /\ f.posRev = x.posRev /\ f.place = x.place /\ f.soundRev = x.soundRev + 1
  BY <1>2, <1>4, <1>5 DEF EntryType
<1>7. entry' = [entry EXCEPT ![e] = f]
  <2>1. entry \in Seq(EntryType) /\ DOMAIN entry = 1 .. Len(entry)
    BY LenProperties DEF EntriesOK
  <2>2. entry' = [entry EXCEPT ![e].sound = s, ![e].soundRev = x.soundRev + 1]
    BY <1>1, <1>4, <2>1 DEF SetSound
  <2>3. PICK g : g = [entry EXCEPT ![e].sound = s]
    OBVIOUS
  <2>4. g = [entry EXCEPT ![e] = y]
    BY <1>1, <1>3, <2>3
  <2>5. g[e] = y
    BY <2>1, <2>4
  <2>6. entry' = [g EXCEPT ![e] = f]
    BY <1>5, <2>2, <2>3, <2>5
  <2> QED
    BY <2>1, <2>4, <2>6
<1>8. EntryChanged(e, f)
  BY <1>6, <1>7 DEF EntryChanged, SetSound
<1> QED
  BY <1>1, <1>6, <1>8

LEMMA ChangeOwns ==
    ASSUME OwnInv, NEW e \in 1 .. Len(entry), NEW f, EntryChanged(e, f)
    PROVE  /\ OwnInv' /\ Len(entry') = Len(entry) /\ entry'[e] = f
           /\ \A x \in 1 .. Len(entry) : x # e => entry'[x] = entry[x]
<1>1. /\ f \in EntryType /\ entry' = [entry EXCEPT ![e] = f] /\ entry \in Seq(EntryType)
      /\ UNCHANGED <<m_entries, m_entry_status, m_handles, seen, device, m_position, at, cur>>
  BY DEF EntryChanged, OwnInv, EntriesOK, readerVars
<1>2. /\ entry' \in Seq(EntryType) /\ Len(entry') = Len(entry) /\ entry'[e] = f
      /\ \A x \in 1 .. Len(entry) : x # e => entry'[x] = entry[x]
  BY <1>1, ExceptSeq
<1>3. EntriesOK' /\ HandlesOK'
  BY <1>1, <1>2 DEF OwnInv, EntriesOK, HandlesOK
<1>4. ReadOK' /\ Owned(m_handles', device') /\ (at' # "idle" \/ seen' = m_entry_status' => Follow(m_handles', m_entries'))
  BY <1>1 DEF OwnInv, ReadOK
<1> QED
  BY <1>2, <1>3, <1>4 DEF OwnInv

\* A read begins: the handles follow the list, those that stay keep their sounds.
LEMMA ReadBeginsDoes ==
    ASSUME OwnInv, ReadBegins
    PROVE  /\ OwnInv' /\ UNCHANGED <<entry, m_position>> /\ touched' = {} /\ at = "idle"
           /\ at' = (IF m_handles' = <<>> THEN "mix" ELSE "test")
           /\ cur' = (IF m_handles' = <<>> THEN 0 ELSE 1)
           /\ \A k \in 1 .. Len(m_handles') :
                  \/ \E e \in Nat : m_handles'[k] = NewHandle(e)
                  \/ \E m \in 1 .. Len(m_handles) :
                         /\ m_handles'[k] = m_handles[m]
                         /\ m_handles[m].ptr # NoHandle => device'[m_handles[m].ptr] = device[m_handles[m].ptr]
<1> DEFINE hs == IF m_entry_status # seen THEN MergedFrom(m_handles, m_entries) ELSE m_handles
<1>1. /\ at = "idle" /\ m_position < MaxTime
      /\ m_handles' = hs /\ device' = Released(hs)
      /\ at' = (IF hs = <<>> THEN "mix" ELSE "test") /\ cur' = (IF hs = <<>> THEN 0 ELSE 1)
      /\ seen' = m_entry_status /\ touched' = {}
      /\ UNCHANGED <<m_entries, entry, m_entry_status, edits, m_position>>
  BY DEF ReadBegins
<1>2. /\ m_handles \in Seq(HandleType) /\ m_entries \in Seq(Nat) /\ device \in [Device -> SoundType]
      /\ Owned(m_handles, device) /\ NoSharing(m_handles)
      /\ Len(m_entries) <= Len(entry) /\ Len(entry) <= MaxId /\ Len(m_handles) <= MaxId
      /\ Len(entry) \in Nat /\ MaxId \in Nat
      /\ \A i \in 1 .. Len(m_entries) : m_entries[i] \in 1 .. Len(entry)
      /\ \A i \in 1 .. Len(m_handles) : m_handles[i].entry \in 1 .. Len(entry)
  BY SequenceAssumption, LenProperties DEF OwnInv, EntriesOK, HandlesOK, Owned, NoSharing
<1>3. Merged(hs, m_handles, m_entries)
  <2>1. CASE m_entry_status # seen
    <3>1. hs = MergedFrom(m_handles, m_entries)
      BY <2>1
    <3> HIDE DEF hs
    <3>2. m_handles \in Seq(HandleType) /\ m_entries \in Seq(Nat) /\ NoSharing(m_handles)
      BY <1>2
    <3> QED
      BY <3>1, <3>2, MergedFromMerges
  <2>2. CASE m_entry_status = seen
    <3>1. hs = m_handles /\ Follow(m_handles, m_entries)
      BY <2>2 DEF OwnInv
    <3> HIDE DEF hs
    <3> QED
      BY <1>2, <3>1 DEF Merged
  <2> QED
    BY <2>1, <2>2
<1> HIDE DEF hs
<1>4. /\ Len(hs) = Len(m_entries) /\ Len(hs) \in Nat /\ Len(m_entries) \in Nat
      /\ \A k \in 1 .. Len(hs) : hs[k].entry = m_entries[k]
  BY <1>2, <1>3, LenProperties DEF Merged, Follow
<1>5. \A k \in 1 .. Len(hs) :
          /\ (\E e \in Nat : hs[k] = NewHandle(e)) \/ \E m \in 1 .. Len(m_handles) : hs[k] = m_handles[m]
          /\ hs[k].ptr = NoHandle \/ \E m \in 1 .. Len(m_handles) : hs[k] = m_handles[m]
  <2>1. ASSUME NEW k \in 1 .. Len(hs), hs[k] = NewHandle(m_entries[k])
        PROVE  hs[k].ptr = NoHandle /\ \E e \in Nat : hs[k] = NewHandle(e)
    <3>1. m_entries[k] \in Nat
      BY <1>2, <1>4
    <3> QED
      BY <2>1, <3>1, NewHandleIsHandle
  <2> QED
    BY <1>3, <2>1 DEF Merged
<1>6. /\ device' \in [Device -> SoundType] /\ Owned(hs, device')
      /\ \A k \in 1 .. Len(hs) : hs[k].ptr # NoHandle => device'[hs[k].ptr] = device[hs[k].ptr]
  BY <1>1, <1>2, <1>3, <1>5, ReleasedOwns DEF Merged
<1>7. EntriesOK'
  BY <1>1 DEF OwnInv, EntriesOK
<1>8. HandlesOK'
  <2>1. \A k \in 1 .. Len(hs) : hs[k].entry \in 1 .. Len(entry)
    BY <1>2, <1>4
  <2> QED
    BY <1>1, <1>2, <1>3, <1>4, <1>6, <2>1 DEF HandlesOK, Merged
<1>9. ReadOK'
  <2>1. hs # <<>> => 1 \in 1 .. Len(hs)
    BY <1>3, EmptySeq DEF Merged
  <2> QED
    BY <1>1, <2>1 DEF OwnInv, ReadOK, Steps
<1>10. OwnInv'
  BY <1>1, <1>3, <1>6, <1>7, <1>8, <1>9 DEF OwnInv, Merged
<1>11. ASSUME NEW k \in 1 .. Len(hs)
       PROVE  \/ \E e \in Nat : hs[k] = NewHandle(e)
              \/ \E m \in 1 .. Len(m_handles) :
                     /\ hs[k] = m_handles[m]
                     /\ m_handles[m].ptr # NoHandle => device'[m_handles[m].ptr] = device[m_handles[m].ptr]
  <2>1. CASE \E m \in 1 .. Len(m_handles) : hs[k] = m_handles[m]
    BY <1>6, <2>1
  <2> QED
    BY <1>5, <2>1
<1> QED
  BY <1>1, <1>10, <1>11

LEMMA MixedType ==
    ASSUME NEW s \in SoundType
    PROVE  /\ Mixed(s) \in SoundType /\ Mixed(s).sound = s.sound
           /\ s.status # "PLAYING" => Mixed(s) = s
           /\ s.status = "PLAYING" /\ s.pos < Length[s.sound] =>
                  Mixed(s).status = "PLAYING" /\ Mixed(s).pos = s.pos + 1
           /\ s.status = "PLAYING" /\ ~(s.pos < Length[s.sound]) =>
                  Mixed(s).status = "STOPPED" /\ Mixed(s).pos = s.pos
<1>1. CASE s.status # "PLAYING"
  BY <1>1 DEF Mixed
<1>2. CASE s.status = "PLAYING" /\ s.pos < Length[s.sound]
  <2>1. Mixed(s) = [s EXCEPT !.pos = s.pos + 1]
    BY <1>2 DEF Mixed
  <2>2. s.pos + 1 \in Nat
    BY DEF SoundType
  <2> QED
    BY <1>2, <2>1, <2>2 DEF SoundType
<1>3. CASE s.status = "PLAYING" /\ ~(s.pos < Length[s.sound])
  <2>1. Mixed(s) = [s EXCEPT !.status = "STOPPED"]
    BY <1>3 DEF Mixed
  <2> QED
    BY <1>3, <2>1 DEF SoundType, Statuses
<1> QED
  BY <1>1, <1>2, <1>3

\* A piece is mixed.
LEMMA MixOwns ==
    ASSUME OwnInv, MixPiece
    PROVE  OwnInv'
<1>1. /\ at = "mix" /\ device' = [d \in Device |-> Mixed(device[d])] /\ m_position' = m_position + 1
      /\ \/ at' = "idle" /\ cur' = 0
         \/ at' = "test" /\ cur' = 1 /\ m_handles # <<>> /\ m_position' < MaxTime
      /\ UNCHANGED <<m_entries, entry, m_entry_status, m_handles, seen>>
  BY DEF MixPiece
<1>2. EntriesOK'
  BY <1>1 DEF OwnInv, EntriesOK
<1>3. \A d \in Device : device[d] \in SoundType
  BY DEF OwnInv, HandlesOK
<1>4. device' \in [Device -> SoundType] /\ \A d \in Device : device'[d] = Mixed(device[d])
  BY <1>1, <1>3, MixedType
<1>5. \A d \in Device : device'[d].status # "INVALID" <=> device[d].status # "INVALID"
  <2>1. \A d \in Device : device[d].status = "PLAYING" => device'[d].status \in {"PLAYING", "STOPPED"}
    BY <1>3, <1>4, MixedType
  <2>2. \A d \in Device : device[d].status # "PLAYING" => device'[d] = device[d]
    BY <1>3, <1>4, MixedType
  <2> QED
    BY <2>1, <2>2
<1>6. HandlesOK'
  BY <1>1, <1>4 DEF OwnInv, HandlesOK
<1>7. Owned(m_handles, device')
  <2>1. m_handles \in Seq(HandleType) /\ Owned(m_handles, device)
    BY DEF OwnInv, HandlesOK
  <2>2. \A k \in 1 .. Len(m_handles) : m_handles[k].ptr # NoHandle => m_handles[k].ptr \in Device
    <3>1. \A k \in 1 .. Len(m_handles) : m_handles[k] \in HandleType
      BY <2>1, ElementOfSeq
    <3> QED
      BY <3>1 DEF HandleType
  <2> QED
    BY <1>5, <2>1, <2>2 DEF Owned
<1>8. ReadOK'
  <2>1. m_handles # <<>> => 1 \in 1 .. Len(m_handles)
    BY EmptySeq DEF OwnInv, HandlesOK
  <2>2. m_position' \in 0 .. MaxTime
    BY <1>1, SequenceAssumption DEF OwnInv, ReadOK
  <2> QED
    BY <1>1, <2>1, <2>2 DEF OwnInv, ReadOK, Steps
<1>9. Follow(m_handles', m_entries')
  BY <1>1 DEF OwnInv
<1> QED
  BY <1>1, <1>2, <1>6, <1>7, <1>8, <1>9 DEF OwnInv

\* The reader seeks.
LEMMA SeekOwns ==
    ASSUME OwnInv, NEW t \in 0 .. MaxTime - 1, Seek(t)
    PROVE  /\ OwnInv' /\ Seeking(m_handles, device, t, Len(m_handles), m_handles', device')
<1>1. /\ at = "idle" /\ m_position' = t
      /\ UNCHANGED <<m_entries, entry, m_entry_status, touched, seen, at, cur>>
  BY DEF Seek
<1>2. /\ m_handles \in Seq(HandleType) /\ Len(m_handles) <= MaxId
      /\ device \in [Device -> SoundType] /\ Owned(m_handles, device) /\ EntriesOK
      /\ \A k \in 1 .. Len(m_handles) : m_handles[k].entry \in 1 .. Len(entry)
  BY DEF OwnInv, HandlesOK
<1>3. \A k \in 1 .. Len(m_handles) : entry[m_handles[k].entry] \in EntryType
  BY <1>2, EntryHasType
<1>4. Seeking(m_handles, device, t, Len(m_handles), m_handles', device')
  BY <1>2, <1>3, SeekSeeks
<1>5. /\ m_handles' \in Seq(HandleType) /\ Len(m_handles') = Len(m_handles)
      /\ device' \in [Device -> SoundType] /\ Owned(m_handles', device')
      /\ \A k \in 1 .. Len(m_handles) : m_handles'[k].entry = m_handles[k].entry
  BY <1>4 DEF Seeking
<1>6. EntriesOK' /\ HandlesOK'
  BY <1>1, <1>2, <1>5 DEF EntriesOK, HandlesOK
<1>7. ReadOK'
  BY <1>1, SequenceAssumption DEF OwnInv, ReadOK, Steps
<1>8. seen' = m_entry_status' => Follow(m_handles', m_entries')
  BY <1>1, <1>5 DEF OwnInv, Follow
<1> QED
  BY <1>1, <1>4, <1>5, <1>6, <1>7, <1>8 DEF OwnInv

\* An update of a handle.
LEMMA UpdatesOwn ==
    ASSUME OwnInv, UpdateTests \/ UpdatePlaces \/ UpdateSeeks \/ UpdateRevises
    PROVE  OwnInv'
<1>1. at \in Steps /\ UNCHANGED <<entryVars, seen, m_position>>
  BY DEF UpdateTests, UpdatePlaces, UpdateSeeks, UpdateRevises, Steps
<1>2. ASSUME NEW o, NEW r, HandleStored(o, r), NextHandle \/ (at' \in Steps /\ cur' = cur)
      PROVE  OwnInv'
  <2>1. /\ m_handles' \in Seq(HandleType) /\ Len(m_handles') = Len(m_handles)
        /\ device' \in [Device -> SoundType] /\ Owned(m_handles', device')
        /\ \A k \in 1 .. Len(m_handles) : m_handles'[k].entry = m_handles[k].entry
    BY <1>1, <1>2, StoreOwns
  <2> QED
    BY <1>1, <1>2, <2>1, UpdateOwns
<1>3. ASSUME UNCHANGED <<m_handles, device>>, NextHandle \/ (at' \in Steps /\ cur' = cur)
      PROVE  OwnInv'
  <2>1. /\ m_handles' \in Seq(HandleType) /\ Len(m_handles') = Len(m_handles)
        /\ device' \in [Device -> SoundType] /\ Owned(m_handles', device')
        /\ \A k \in 1 .. Len(m_handles) : m_handles'[k].entry = m_handles[k].entry
    BY <1>3 DEF OwnInv, HandlesOK
  <2> QED
    BY <1>1, <1>3, <2>1, UpdateOwns
<1>4. CASE UpdateTests
  <2>1. Mine.handle = m_handles[cur]
    BY <1>1, MineIs
  <2>2. CASE m_handles[cur].soundRev # entry[m_handles[cur].entry].soundRev
    <3>1. (\E o, r : HandleStored(o, r)) /\ at' = "place" /\ cur' = cur
      BY <1>4, <2>2, TestStores
    <3> QED
      BY <1>2, <3>1 DEF Steps
  <2>3. CASE m_handles[cur].soundRev = entry[m_handles[cur].entry].soundRev
    <3>1. UNCHANGED <<m_handles, device>> /\ (NextHandle \/ (at' \in {"follow", "place"} /\ cur' = cur))
      BY <1>4, <2>1, <2>3 DEF UpdateTests
    <3> QED
      BY <1>3, <3>1 DEF Steps
  <2> QED
    BY <2>2, <2>3
<1>5. CASE UpdatePlaces
  <2>1. PICK r : /\ HandleStored(Mine, r)
                 /\ NextHandle \/ (at' = (IF at = "place" THEN "seek" ELSE "revise") /\ cur' = cur)
    BY <1>5, PlaceStores
  <2> QED
    BY <1>2, <2>1 DEF Steps
<1>6. CASE UpdateSeeks
  <2>1. PICK r : HandleStored(Mine, r) /\ at' = "revise" /\ cur' = cur
    BY <1>6, SeekStores
  <2> QED
    BY <1>2, <2>1 DEF Steps
<1>7. CASE UpdateRevises
  <2>1. Mine.handle = m_handles[cur] /\ NextHandle
    BY <1>1, <1>7, MineIs DEF UpdateRevises
  <2>2. CASE m_handles[cur].posRev # entry[m_handles[cur].entry].posRev
    <3>1. \E o, r : HandleStored(o, r)
      BY <1>7, <2>2, ReviseStores
    <3> QED
      BY <1>2, <2>1, <3>1
  <2>3. CASE m_handles[cur].posRev = entry[m_handles[cur].entry].posRev
    <3>1. UNCHANGED <<m_handles, device>>
      BY <1>7, <2>1, <2>3 DEF UpdateRevises
    <3> QED
      BY <1>3, <2>1, <3>1
  <2> QED
    BY <2>2, <2>3
<1> QED
  BY <1>4, <1>5, <1>6, <1>7

\* The client's edits, but for the new entries, are of entries of the list.
LEMMA ClientDoes ==
    ASSUME OwnInv, Client
    PROVE  \/ \E p \in Places, s \in Sounds : Add(p, s)
           \/ \E i \in DOMAIN m_entries : RemoveEntry(i)
           \/ \E e \in 1 .. Len(entry), p \in Places : Move(e, p)
           \/ \E e \in 1 .. Len(entry), s \in Sounds \cup {NoSound} : SetSound(e, s)
<1>1. /\ m_entries \in Seq(Nat)
      /\ \A i \in 1 .. Len(m_entries) : m_entries[i] \in 1 .. Len(entry)
  BY DEF OwnInv, EntriesOK
<1>2. DOMAIN m_entries = 1 .. Len(m_entries)
  BY <1>1, LenProperties
<1>3. CASE \E p \in Places, s \in Sounds : Add(p, s)
  BY <1>3
<1>4. ASSUME NEW i \in DOMAIN m_entries,
             \/ \E p \in Places : Move(m_entries[i], p)
             \/ \E s \in Sounds \cup {NoSound} : SetSound(m_entries[i], s)
      PROVE  \/ \E e \in 1 .. Len(entry), p \in Places : Move(e, p)
             \/ \E e \in 1 .. Len(entry), s \in Sounds \cup {NoSound} : SetSound(e, s)
  <2>1. PICK e \in 1 .. Len(entry) : e = m_entries[i]
    BY <1>1, <1>2
  <2>2. (\E p \in Places : Move(e, p)) \/ (\E s \in Sounds \cup {NoSound} : SetSound(e, s))
    BY <1>4, <2>1, Zenon
  <2> QED
    BY <2>2, Zenon
<1>5. \/ \E p \in Places, s \in Sounds : Add(p, s)
      \/ \E i \in DOMAIN m_entries : RemoveEntry(i)
      \/ \E i \in DOMAIN m_entries : \/ \E p \in Places : Move(m_entries[i], p)
                                     \/ \E s \in Sounds \cup {NoSound} : SetSound(m_entries[i], s)
  BY Zenon DEF Client
<1> QED
  BY <1>3, <1>4, <1>5, Zenon

\* Every step keeps the invariant.
LEMMA NextOwns == OwnInv /\ [Next]_vars => OwnInv'
<1> SUFFICES ASSUME OwnInv, [Next]_vars PROVE OwnInv'
  OBVIOUS
<1>1. CASE Client
  <2>1. ASSUME NEW e \in 1 .. Len(entry), NEW p \in Places, Move(e, p) PROVE OwnInv'
    <3>1. PICK f : EntryChanged(e, f)
      BY <2>1, MoveDoes DEF OwnInv
    <3> QED
      BY <3>1, ChangeOwns
  <2>2. ASSUME NEW e \in 1 .. Len(entry), NEW s \in Sounds \cup {NoSound}, SetSound(e, s) PROVE OwnInv'
    <3>1. PICK f : EntryChanged(e, f)
      BY <2>2, SetSoundDoes DEF OwnInv
    <3> QED
      BY <3>1, ChangeOwns
  <2>3. ASSUME NEW p \in Places, NEW s \in Sounds, Add(p, s) PROVE OwnInv'
    BY <2>3, AddDoes
  <2>4. ASSUME NEW i \in DOMAIN m_entries, RemoveEntry(i) PROVE OwnInv'
    BY <2>4, RemoveOwns
  <2> QED
    BY <1>1, <2>1, <2>2, <2>3, <2>4, ClientDoes
<1>2. CASE ReadBegins
  BY <1>2, ReadBeginsDoes
<1>3. CASE UpdateTests \/ UpdatePlaces \/ UpdateSeeks \/ UpdateRevises
  BY <1>3, UpdatesOwn
<1>4. CASE MixPiece
  BY <1>4, MixOwns
<1>5. ASSUME NEW t \in 0 .. MaxTime - 1, Seek(t) PROVE OwnInv'
  BY <1>5, SeekOwns
<1>6. CASE UNCHANGED vars
  <2>1. UNCHANGED <<m_entries, entry, m_entry_status, m_handles, seen, device, m_position, at, cur>>
    BY <1>6 DEF vars, entryVars, readerVars
  <2> QED
    BY <2>1 DEF OwnInv, EntriesOK, HandlesOK, ReadOK
<1> QED
  BY <1>1, <1>2, <1>3, <1>4, <1>5, <1>6 DEF Next, Reader

\* Every variable keeps its type.
THEOREM SequenceTypes == Spec => []TypeOK
<1>1. OwnInv => TypeOK
  <2> SUFFICES ASSUME OwnInv PROVE TypeOK
    OBVIOUS
  <2>1. /\ m_entries \in Seq(Nat) /\ entry \in Seq(EntryType) /\ m_handles \in Seq(HandleType)
        /\ \A i \in 1 .. Len(m_entries) : m_entries[i] \in 1 .. Len(entry)
        /\ \A i \in 1 .. Len(m_handles) : m_handles[i].entry \in 1 .. Len(entry)
        /\ device \in [Device -> SoundType] /\ EntriesOK /\ ReadOK
    BY DEF OwnInv, EntriesOK, HandlesOK
  <2>2. /\ DOMAIN m_entries = 1 .. Len(m_entries) /\ DOMAIN entry = 1 .. Len(entry)
        /\ DOMAIN m_handles = 1 .. Len(m_handles) /\ Len(m_handles) \in Nat
    BY <2>1, LenProperties
  <2>3. \A e \in DOMAIN entry : entry[e].place \in Places /\ entry[e].sound \in Sounds \cup {NoSound}
    <3>1. \A e \in 1 .. Len(entry) : entry[e] \in EntryType
      BY <2>1, EntryHasType
    <3> QED
      BY <2>2, <3>1 DEF EntryType, Sound
  <2>4. \A i \in DOMAIN m_handles : m_handles[i].ptr \in Device \cup {NoHandle}
    <3>1. \A i \in 1 .. Len(m_handles) : m_handles[i] \in HandleType
      BY <2>1, ElementOfSeq
    <3> QED
      BY <2>2, <3>1 DEF HandleType
  <2>5. m_position \in 0 .. MaxTime /\ at \in Steps \cup {"idle", "mix"} /\ cur \in 0 .. Len(m_handles)
    BY <2>1, <2>2 DEF ReadOK
  <2>6. device \in [Device -> [status : {"PLAYING", "PAUSED", "STOPPED", "INVALID"},
                               sound : Sounds \cup {NoSound}, pos : Nat]]
    BY <2>1 DEF SoundType, Statuses, Sound
  <2> QED
    BY <2>1, <2>2, <2>3, <2>4, <2>5, <2>6 DEF TypeOK, Steps
<1> QED
  BY <1>1, InitOwns, NextOwns, PTL DEF Spec

\* The device has no sound but those the handles hold, each of another one: for any number of
\* entries, in whatever order they are added, removed, moved, given another sound and read.
THEOREM SequenceNoStraySounds == Spec => []NoStraySounds
<1>1. OwnInv => NoStraySounds
  <2> SUFFICES ASSUME OwnInv, NEW d \in Device, device[d].status # "INVALID"
               PROVE  Cardinality({i \in DOMAIN m_handles : m_handles[i].ptr = d}) = 1
    BY DEF NoStraySounds
  <2>1. DOMAIN m_handles = 1 .. Len(m_handles) /\ Owned(m_handles, device) /\ NoHandle \notin Device
    BY LenProperties, SequenceAssumption DEF OwnInv, HandlesOK
  <2>2. PICK i \in 1 .. Len(m_handles) : m_handles[i].ptr = d
    BY <2>1 DEF Owned
  <2>3. {k \in DOMAIN m_handles : m_handles[k].ptr = d} = {i}
    BY <2>1, <2>2 DEF Owned
  <2> QED
    BY <2>3, FS_Singleton
<1> QED
  BY <1>1, InitOwns, NextOwns, PTL DEF Spec

\* When a piece is mixed, every entry of the sequence has one handle, in the order of the
\* entries, and no other has: also where entries came and went between the reads.
THEOREM SequenceEntriesHaveHandles == Spec => []EntriesHaveHandles
<1>1. OwnInv => EntriesHaveHandles
  <2> SUFFICES ASSUME OwnInv, at = "mix"
               PROVE  [i \in DOMAIN m_handles |-> m_handles[i].entry] = m_entries
    BY DEF EntriesHaveHandles
  <2>1. /\ DOMAIN m_handles = 1 .. Len(m_handles) /\ m_entries \in [1 .. Len(m_entries) -> Nat]
        /\ Follow(m_handles, m_entries)
    BY LenProperties DEF OwnInv, HandlesOK, EntriesOK
  <2> QED
    BY <2>1 DEF Follow
<1> QED
  BY <1>1, InitOwns, NextOwns, PTL DEF Spec
------------------------------------------------------------------------------
(* What is heard: what the steps of an update do to one handle. *)

Typed(h, v) ==
    /\ h \in HandleType /\ entry[h.entry] \in EntryType
    /\ h.ptr # NoHandle => v \in SoundType /\ v.status # "INVALID"

LEMMA TypedNumbers ==
    ASSUME NEW h, NEW v, Typed(h, v), Consistent(h, v)
    PROVE  /\ entry[h.entry].place.begin \in Nat /\ entry[h.entry].place.end \in Nat
           /\ entry[h.entry].place.skip \in Nat
           /\ entry[h.entry].posRev \in Nat /\ entry[h.entry].soundRev \in Nat
           /\ h.posRev \in Nat /\ h.soundRev \in Nat /\ h.valid \in BOOLEAN
           /\ h.ptr # NoHandle => /\ v.pos \in Nat /\ Length[v.sound] \in Nat
                                  /\ v.status \in {"PLAYING", "PAUSED", "STOPPED"}
<1>1. /\ entry[h.entry].place \in [begin : Nat, end : Nat, skip : Nat]
      /\ entry[h.entry].posRev \in Nat /\ entry[h.entry].soundRev \in Nat
  BY SequenceAssumption DEF Typed, EntryType
<1>2. h.posRev \in Nat /\ h.soundRev \in Nat /\ h.valid \in BOOLEAN
  BY DEF Typed, HandleType
<1>3. h.ptr # NoHandle => v.pos \in Nat /\ v.status \in {"PLAYING", "PAUSED", "STOPPED"}
  BY DEF Typed, SoundType, Statuses
<1>4. h.ptr # NoHandle => Length[v.sound] \in Nat
  BY SequenceAssumption DEF Consistent
<1> QED
  BY <1>1, <1>2, <1>3, <1>4

\* A handle without a sound starts one.
LEMMA PlaceHears ==
    ASSUME NEW o \in HandleOnDevice, NEW r \in HandleOnDevice, NEW t \in Nat,
           Local(o, r), PlacedNew(o, r, t), o.handle.ptr = NoHandle,
           NEW v, Typed(o.handle, v), Consistent(o.handle, v), InUpdate("place", o.handle, v, t)
    PROVE  LET k == r.handle
               w == r.device[k.ptr]
           IN
           /\ Consistent(k, w)
           /\ k.ptr = NoHandle => Updated(k, w, t)
           /\ k.ptr # NoHandle => InUpdate("seek", k, w, t)
<1> DEFINE h == o.handle
           k == r.handle
           w == r.device[k.ptr]
<1>1. k.entry = h.entry /\ k.posRev = h.posRev /\ k.soundRev = h.soundRev
  BY DEF Local, SameRevisions
<1>2. h.valid /\ (h.entry \notin touched => SoundAgrees(h))
  BY DEF InUpdate
<1>3. /\ k.ptr = NoHandle =>
             IF Within(h, t) THEN ~k.valid /\ Unplayable(entry[h.entry].sound) ELSE k.valid
      /\ k.ptr # NoHandle =>
             /\ Within(h, t) /\ k.valid /\ entry[h.entry].sound \in Sounds
             /\ w.status = "PLAYING" /\ w.sound = entry[h.entry].sound /\ w.pos = 0
  BY <1>2 DEF PlacedNew
<1>4. h.posRev <= entry[h.entry].posRev /\ h.soundRev <= entry[h.entry].soundRev
  BY DEF Consistent
<1> HIDE DEF h, k, w
<1>5. Consistent(k, w)
  BY <1>1, <1>3, <1>4 DEF Consistent
<1>6. (k.entry \notin touched => SoundAgrees(k)) /\ (Within(k, t) <=> Within(h, t))
  BY <1>1, <1>2 DEF SoundAgrees, Within
<1>7. ASSUME k.ptr = NoHandle PROVE Updated(k, w, t)
  BY <1>3, <1>6, <1>7 DEF Updated, Settled
<1>8. ASSUME k.ptr # NoHandle PROVE InUpdate("seek", k, w, t)
  BY <1>3, <1>6, <1>8 DEF InUpdate
<1> QED
  BY <1>5, <1>7, <1>8 DEF h, k, w

\* What PlacedFrom does to what is heard of a handle that was not moved.
LEMMA FollowHears ==
    ASSUME NEW o \in HandleOnDevice, NEW r \in HandleOnDevice, NEW t \in Nat,
           Local(o, r), PlacedFrom(o, r, t), o.handle.ptr # NoHandle,
           Typed(o.handle, o.device[o.handle.ptr]), Consistent(o.handle, o.device[o.handle.ptr]),
           InUpdate("follow", o.handle, o.device[o.handle.ptr], t)
    PROVE  LET k == r.handle
               w == r.device[k.ptr]
           IN
           /\ Consistent(k, w)
           /\ k.ptr = NoHandle => Updated(k, w, t)
           /\ k.ptr # NoHandle => InUpdate("revise", k, w, t)
<1> DEFINE h == o.handle
           v == o.device[h.ptr]
           k == r.handle
           w == r.device[k.ptr]
<1>1. k.entry = h.entry /\ k.posRev = h.posRev /\ k.soundRev = h.soundRev
  BY DEF Local, SameRevisions
<1>2. (h.entry \notin touched => SoundAgrees(h)) /\ Pending(h, v, t)
  BY DEF InUpdate
<1>3. /\ k.valid = h.valid /\ k.ptr \in {h.ptr, NoHandle}
      /\ k.ptr = NoHandle => ~Within(h, t)
      /\ k.ptr # NoHandle =>
             /\ w.sound = v.sound /\ w.pos = v.pos
             /\ w.status = IF Within(h, t) THEN IF v.status = "PAUSED" THEN "PLAYING" ELSE v.status
                           ELSE IF v.status = "PLAYING" THEN "PAUSED" ELSE v.status
  BY DEF PlacedFrom
<1>4. h.posRev <= entry[h.entry].posRev /\ h.soundRev <= entry[h.entry].soundRev
  BY DEF Consistent
<1>5. /\ h.ptr # NoHandle /\ h.valid /\ v.sound \in Sounds
      /\ v.status = "STOPPED" => v.pos >= Length[v.sound]
      /\ SoundAgrees(h) => v.sound = entry[h.entry].sound
      /\ v.status \in {"PLAYING", "PAUSED", "STOPPED"}
      /\ entry[h.entry].place.begin \in Nat /\ entry[h.entry].place.end \in Nat
  BY TypedNumbers DEF Consistent
<1> HIDE DEF h, v, k, w
<1>6. /\ SoundAgrees(k) <=> SoundAgrees(h)
      /\ PosAgrees(k) <=> PosAgrees(h)
      /\ Within(k, t) <=> Within(h, t)
      /\ Before(k, t) <=> Before(h, t)
      /\ Behind(k, t) <=> Behind(h, t)
      /\ PlaceOf(k, t) = PlaceOf(h, t)
  BY <1>1 DEF SoundAgrees, PosAgrees, Within, Before, Behind, PlaceOf
<1>7. Consistent(k, w)
  <2>1. k.ptr # NoHandle /\ w.status = "STOPPED" => w.pos >= Length[w.sound]
    BY <1>3, <1>5
  <2>2. k.valid /\ (k.ptr # NoHandle /\ SoundAgrees(k) => w.sound = entry[k.entry].sound)
    BY <1>1, <1>3, <1>5, <1>6
  <2> QED
    BY <1>1, <1>3, <1>4, <1>5, <2>1, <2>2 DEF Consistent
<1>8. ASSUME k.ptr = NoHandle PROVE Updated(k, w, t)
  BY <1>1, <1>2, <1>3, <1>6, <1>8 DEF Updated, Settled
<1>9. ASSUME k.ptr # NoHandle PROVE InUpdate("revise", k, w, t)
  <2>1. Before(h, t) => ~Within(h, t)
    BY <1>5 DEF Before, Within
  <2>2. Behind(h, t) => ~Within(h, t)
    BY <1>5 DEF Behind, Within
  <2>3. /\ ~PosAgrees(h) => v.status # "STOPPED"
        /\ PosAgrees(h) /\ Before(h, t) => v.status = "PAUSED" /\ v.pos = entry[h.entry].place.skip
        /\ PosAgrees(h) /\ Within(h, t) => AtPlace(v, PlaceOf(h, t))
    BY <1>2, <1>5 DEF Pending, MovedPlays
  <2>4. MovedPlays(k, w)
    BY <1>3, <1>6, <1>9, <2>3 DEF MovedPlays
  <2>5. PosAgrees(k) /\ Before(k, t) => w.status = "PAUSED" /\ w.pos = entry[k.entry].place.skip
    BY <1>1, <1>3, <1>6, <1>9, <2>1, <2>3
  <2>6. PosAgrees(k) /\ Within(k, t) => w.status \in {"PLAYING", "STOPPED"} /\ AtPlace(w, PlaceOf(k, t))
    BY <1>3, <1>5, <1>6, <1>9, <2>3 DEF AtPlace
  <2>7. Behind(k, t) => w.status # "PLAYING"
    BY <1>3, <1>5, <1>6, <1>9, <2>2
  <2>8. Settled(k, w, t)
    BY <2>5, <2>6, <2>7 DEF Settled
  <2>9. k.entry \notin touched => SoundAgrees(k)
    BY <1>1, <1>2, <1>6
  <2> QED
    BY <1>9, <2>4, <2>8, <2>9 DEF InUpdate
<1> QED
  BY <1>7, <1>8, <1>9 DEF h, v, k, w

\* The sound that was started moves to its place.
LEMMA SeekHears ==
    ASSUME NEW o \in HandleOnDevice, NEW r \in HandleOnDevice, NEW t \in Nat,
           SoughtFrom(o, r, t),
           Typed(o.handle, o.device[o.handle.ptr]), Consistent(o.handle, o.device[o.handle.ptr]),
           InUpdate("seek", o.handle, o.device[o.handle.ptr], t)
    PROVE  LET k == r.handle
               w == r.device[k.ptr]
           IN Consistent(k, w) /\ InUpdate("revise", k, w, t)
<1> DEFINE h == o.handle
           v == o.device[h.ptr]
           w == r.device[h.ptr]
<1>1. r.handle = h
  BY DEF SoughtFrom
<1>2. /\ h.ptr # NoHandle /\ v.status = "PLAYING" /\ (PosAgrees(h) => Within(h, t))
      /\ h.entry \notin touched => SoundAgrees(h)
  BY DEF InUpdate
<1>3. w.sound = v.sound /\ w.pos = PlaceOf(h, t) /\ w.status = "PLAYING"
  BY <1>2 DEF SoughtFrom
<1>4. entry[h.entry].place.begin \in Nat /\ entry[h.entry].place.end \in Nat
  BY TypedNumbers
<1>5. Consistent(h, v)
  OBVIOUS
<1> HIDE DEF h, v, w
<1>6. Consistent(h, w)
  BY <1>2, <1>3, <1>5 DEF Consistent
<1>7. Settled(h, w, t)
  <2>1. Within(h, t) => ~Before(h, t) /\ ~Behind(h, t)
    BY <1>4 DEF Before, Within, Behind
  <2> QED
    BY <1>2, <1>3, <2>1 DEF Settled, AtPlace
<1>8. InUpdate("revise", h, w, t)
  BY <1>2, <1>3, <1>7 DEF InUpdate, MovedPlays
<1> QED
  BY <1>1, <1>6, <1>8 DEF h, w

\* What a seek as a whole makes of a sound: q is o after PlacedFrom or PlacedNew.
LEMMA SeekAllHears ==
    ASSUME NEW o \in HandleOnDevice, NEW q \in HandleOnDevice, NEW r \in HandleOnDevice, NEW t \in Nat,
           Local(o, r), o.handle.valid,
           SameRevisions(o.handle, q.handle), SoughtFrom(q, r, t),
           o.handle.ptr # NoHandle => PlacedFrom(o, q, t),
           o.handle.ptr = NoHandle => PlacedNew(o, q, t),
           NEW v, Typed(o.handle, v), Consistent(o.handle, v),
           o.handle.ptr # NoHandle => o.device[o.handle.ptr] = v
    PROVE  LET k == r.handle
               w == r.device[k.ptr]
           IN
           /\ SameRevisions(o.handle, k) /\ Consistent(k, w)
           /\ k.ptr # NoHandle =>
                  /\ k.valid /\ w.pos = PlaceOf(k, t) /\ w.status \in {"PLAYING", "PAUSED"}
                  /\ Before(k, t) => w.status = "PAUSED"
                  /\ Within(k, t) /\ v.status # "STOPPED" => w.status = "PLAYING"
                  /\ Behind(k, t) => w.status = "PAUSED"
           /\ k.ptr = NoHandle => ~k.valid \/ ~Within(k, t)
<1> DEFINE h == o.handle
           k == r.handle
           w == r.device[k.ptr]
           u == q.device[q.handle.ptr]
<1>1. k = q.handle /\ k.entry = h.entry /\ k.posRev = h.posRev /\ k.soundRev = h.soundRev
  BY DEF SoughtFrom, SameRevisions
<1>2. k.ptr # NoHandle =>
          w.sound = u.sound /\ w.pos = PlaceOf(k, t) /\ w.status = IF u.status = "STOPPED" THEN "PAUSED" ELSE u.status
  BY DEF SoughtFrom
<1>3. /\ entry[h.entry].place.begin \in Nat /\ entry[h.entry].place.end \in Nat
      /\ h.posRev <= entry[h.entry].posRev /\ h.soundRev <= entry[h.entry].soundRev
      /\ h.ptr # NoHandle =>
             /\ v.sound \in Sounds /\ (SoundAgrees(h) => v.sound = entry[h.entry].sound)
             /\ v.status \in {"PLAYING", "PAUSED", "STOPPED"}
  BY TypedNumbers DEF Consistent
<1>4. /\ Before(h, t) => ~Within(h, t)
      /\ Behind(h, t) => ~Within(h, t)
  BY <1>3 DEF Before, Behind, Within
<1>5. CASE h.ptr # NoHandle
  <2>1. /\ k.valid /\ k.ptr \in {h.ptr, NoHandle}
        /\ k.ptr = NoHandle => ~Within(h, t)
        /\ k.ptr # NoHandle =>
               /\ u.sound = v.sound
               /\ u.status = IF Within(h, t) THEN IF v.status = "PAUSED" THEN "PLAYING" ELSE v.status
                             ELSE IF v.status = "PLAYING" THEN "PAUSED" ELSE v.status
    BY <1>1, <1>5 DEF PlacedFrom
  <2> HIDE DEF h, k, w, u
  <2>2. k.ptr # NoHandle =>
            /\ w.status = IF Within(h, t) /\ v.status # "STOPPED" THEN "PLAYING" ELSE "PAUSED"
            /\ w.sound = v.sound
    BY <1>2, <1>3, <1>5, <2>1
  <2> QED
    BY <1>1, <1>2, <1>3, <1>4, <1>5, <2>1, <2>2
       DEF h, k, w, SameRevisions, Consistent, Before, Within, Behind, SoundAgrees
<1>6. CASE h.ptr = NoHandle
  <2>1. /\ k.ptr = NoHandle =>
             IF Within(h, t) THEN ~k.valid /\ Unplayable(entry[h.entry].sound) ELSE k.valid
        /\ k.ptr # NoHandle =>
             /\ Within(h, t) /\ k.valid /\ entry[h.entry].sound \in Sounds
             /\ u.status = "PLAYING" /\ u.sound = entry[h.entry].sound
    BY <1>1, <1>6 DEF PlacedNew
  <2> HIDE DEF h, k, w, u
  <2>2. k.ptr # NoHandle => w.status = "PLAYING" /\ w.sound = entry[h.entry].sound
    BY <1>2, <2>1
  <2> QED
    BY <1>1, <1>2, <1>3, <1>4, <1>6, <2>1, <2>2
       DEF h, k, w, SameRevisions, Consistent, Before, Within, Behind, SoundAgrees
<1> QED
  BY <1>5, <1>6

\* Handles without a sound have none that matters.
LEMMA SoundOfNone ==
    ASSUME NEW h, NEW v, NEW w, h.ptr # NoHandle => v = w, NEW t, NEW x
    PROVE  /\ Consistent(h, v) => Consistent(h, w)
           /\ Pending(h, v, t) => Pending(h, w, t)
           /\ Updated(h, v, t) => Updated(h, w, t)
           /\ InUpdate(x, h, v, t) => InUpdate(x, h, w, t)
<1>1. Pending(h, v, t) => Pending(h, w, t)
  BY DEF Pending, MovedPlays
<1>2. Settled(h, v, t) => Settled(h, w, t)
  BY DEF Settled
<1> QED
  BY <1>1, <1>2 DEF Consistent, Updated, InUpdate, MovedPlays

\* The entries of handles are what they were.
LEMMA SameEntries ==
    ASSUME NEW h, NEW v, NEW t, NEW x, entry'[h.entry] = entry[h.entry],
           h.entry \in touched' <=> h.entry \in touched
    PROVE  /\ Consistent(h, v) => Consistent(h, v)'
           /\ Pending(h, v, t) => Pending(h, v, t)'
           /\ Updated(h, v, t) => Updated(h, v, t)'
           /\ InUpdate(x, h, v, t) => InUpdate(x, h, v, t)'
<1>1. /\ SoundAgrees(h)' <=> SoundAgrees(h)
      /\ PosAgrees(h)' <=> PosAgrees(h)
      /\ Before(h, t)' <=> Before(h, t)
      /\ Within(h, t)' <=> Within(h, t)
      /\ Behind(h, t)' <=> Behind(h, t)
      /\ PlaceOf(h, t)' = PlaceOf(h, t)
  BY DEF SoundAgrees, PosAgrees, Before, Within, Behind, PlaceOf
<1>2. Consistent(h, v) => Consistent(h, v)'
  BY <1>1 DEF Consistent
<1>3. Pending(h, v, t) => Pending(h, v, t)'
  BY <1>1 DEF Pending, MovedPlays
<1>4. Settled(h, v, t) => Settled(h, v, t)'
  BY <1>1 DEF Settled
<1>5. MovedPlays(h, v) => MovedPlays(h, v)'
  BY <1>1 DEF MovedPlays
<1>6. Updated(h, v, t) => Updated(h, v, t)'
  BY <1>1, <1>4 DEF Updated
<1>7. InUpdate(x, h, v, t) => InUpdate(x, h, v, t)'
  BY <1>1, <1>3, <1>4, <1>5 DEF InUpdate
<1> QED
  BY <1>2, <1>3, <1>6, <1>7

\* The update goes on, with the same handle or with the next; nothing changes for the others.
LEMMA UpdateHears ==
    ASSUME HeardInv, at \in Steps, OwnInv', UNCHANGED <<entry, touched, m_position>>,
           Len(m_handles') = Len(m_handles), NEW k, k = m_handles'[cur], NEW w, w = device'[k.ptr],
           \A i \in 1 .. Len(m_handles) : i # cur =>
                  /\ m_handles'[i] = m_handles[i]
                  /\ m_handles[i].ptr # NoHandle => device'[m_handles[i].ptr] = device[m_handles[i].ptr],
           Consistent(k, w),
           \/ NextHandle /\ Updated(k, w, m_position)
           \/ at' \in Steps /\ cur' = cur /\ InUpdate(at', k, w, m_position)
    PROVE  HeardInv'
<1>0. PICK n \in Nat : n = Len(m_handles)
  BY LenProperties DEF HeardInv, OwnInv, HandlesOK
<1>1. PICK c \in 1 .. n : n = Len(m_handles) /\ c = cur
  BY <1>0 DEF HeardInv, OwnInv, ReadOK
<1>2. PICK t : t = m_position
  OBVIOUS
<1>3. ASSUME NEW i \in 1 .. n PROVE HandleHeard(i, m_handles[i], device[m_handles[i].ptr])
  BY <1>1 DEF HeardInv
<1>4. at # "mix" /\ at # "idle" /\ (NextHandle \/ (at' \in Steps /\ cur' = cur))
  BY DEF Steps
<1>5. ASSUME NEW i \in 1 .. n, NEW h, h = m_handles'[i], NEW v, v = device'[h.ptr]
      PROVE  HandleHeard(i, h, v)'
  <2>1. CASE i = c
    <3>1. h = k /\ v = w
      BY <1>1, <1>5, <2>1
    <3>2. Consistent(h, v)'
      BY <3>1, SameEntries
    <3>3. CASE NextHandle /\ Updated(k, w, m_position)
      <4>1. Updated(h, v, t)'
        BY <1>2, <3>1, <3>3, SameEntries
      <4>2. at' = "mix" \/ (at' = "test" /\ cur' = c + 1)
        BY <1>1, <3>3 DEF NextHandle
      <4> QED
        BY <1>2, <2>1, <3>2, <4>1, <4>2 DEF HandleHeard
    <3>4. CASE at' \in Steps /\ cur' = cur /\ InUpdate(at', k, w, m_position)
      <4>1. PICK x : x = at'
        OBVIOUS
      <4>2. InUpdate(x, h, v, t)'
        BY <1>2, <3>1, <3>4, <4>1, SameEntries
      <4>3. x # "mix" /\ x # "idle" /\ cur' = c
        BY <1>1, <3>4, <4>1 DEF Steps
      <4> QED
        BY <1>2, <2>1, <3>2, <4>1, <4>2, <4>3 DEF HandleHeard
    <3> QED
      BY <3>3, <3>4
  <2>2. CASE i # c
    <3>1. PICK u : u = device[h.ptr]
      OBVIOUS
    <3>2. h = m_handles[i] /\ (h.ptr # NoHandle => u = v)
      BY <1>1, <1>5, <2>2, <3>1
    <3>3. HandleHeard(i, h, u)
      BY <1>3, <3>1, <3>2
    <3>4. /\ Consistent(h, u)
          /\ i > c => Pending(h, u, t)
          /\ i < c => Updated(h, u, t)
      BY <1>1, <1>2, <1>4, <3>3 DEF HandleHeard
    <3>5. /\ Consistent(h, v)
          /\ i > c => Pending(h, v, t)
          /\ i < c => Updated(h, v, t)
      BY <3>2, <3>4, SoundOfNone
    <3>6. /\ Consistent(h, v)'
          /\ i > c => Pending(h, v, t)'
          /\ i < c => Updated(h, v, t)'
      BY <3>5, SameEntries
    <3>7. CASE at' \in Steps /\ cur' = cur
      <4>1. cur' = c /\ at' # "mix" /\ at' # "idle"
        BY <1>1, <3>7 DEF Steps
      <4> QED
        BY <1>2, <2>2, <3>6, <4>1 DEF HandleHeard
    <3>8. CASE NextHandle
      <4>1. CASE c < n
        <5>1. at' = "test" /\ cur' = c + 1
          BY <1>1, <3>8, <4>1 DEF NextHandle
        <5>2. i > cur' => i > c
          BY <5>1
        <5>3. i < cur' => i < c
          BY <2>2, <5>1
        <5>4. i = cur' => i > c
          BY <5>1
        <5>5. Pending(h, v, t)' => InUpdate("test", h, v, t)'
          BY DEF InUpdate
        <5> QED
          BY <1>2, <3>6, <5>1, <5>2, <5>3, <5>4, <5>5 DEF HandleHeard
      <4>2. CASE ~(c < n)
        <5>1. at' = "mix" /\ i < c
          BY <1>1, <2>2, <3>8, <4>2 DEF NextHandle
        <5> QED
          BY <1>2, <3>6, <5>1 DEF HandleHeard
      <4> QED
        BY <4>1, <4>2
    <3> QED
      BY <1>4, <3>7, <3>8
  <2> QED
    BY <2>1, <2>2
<1>6. ASSUME NEW i \in 1 .. n PROVE HandleHeard(i, m_handles[i], device[m_handles[i].ptr])'
  <2>1. PICK h : h = m_handles'[i]
    OBVIOUS
  <2>2. PICK v : v = device'[h.ptr]
    OBVIOUS
  <2>3. HandleHeard(i, h, v)'
    BY <1>5, <2>1, <2>2
  <2> QED
    BY <2>1, <2>2, <2>3
<1> QED
  BY <1>1, <1>6 DEF HeardInv

\* The invariant of what is heard, for one handle.
LEMMA HandleIsTyped ==
    ASSUME OwnInv, NEW i \in 1 .. Len(m_handles)
    PROVE  /\ m_handles[i].entry \in 1 .. Len(entry)
           /\ Typed(m_handles[i], device[m_handles[i].ptr])
<1>1. /\ m_handles \in Seq(HandleType) /\ device \in [Device -> SoundType] /\ EntriesOK
      /\ m_handles[i].entry \in 1 .. Len(entry) /\ Owned(m_handles, device)
  BY DEF OwnInv, HandlesOK
<1>2. m_handles[i] \in HandleType
  BY <1>1, ElementOfSeq
<1>3. entry[m_handles[i].entry] \in EntryType
  BY <1>1, EntryHasType
<1>4. m_handles[i].ptr # NoHandle =>
          device[m_handles[i].ptr] \in SoundType /\ device[m_handles[i].ptr].status # "INVALID"
  BY <1>1, <1>2 DEF Owned, HandleType
<1> QED
  BY <1>1, <1>2, <1>3, <1>4 DEF Typed

\* The handle that is being updated, and what an update stores.
LEMMA MineHears ==
    ASSUME HeardInv, at \in Steps
    PROVE  LET h == m_handles[cur]
               v == device[h.ptr]
           IN
           /\ Mine.handle = h /\ Mine.device = device /\ Mine \in HandleOnDevice
           /\ cur \in 1 .. Len(m_handles) /\ m_position \in Nat
           /\ Typed(h, v) /\ Consistent(h, v) /\ InUpdate(at, h, v, m_position)
<1>1. OwnInv /\ at # "mix" /\ at # "idle"
  BY DEF HeardInv, Steps
<1>2. /\ Mine \in HandleOnDevice /\ Mine.handle = m_handles[cur] /\ Mine.device = device
      /\ cur \in 1 .. Len(m_handles)
  BY <1>1, MineIs
<1>3. Typed(m_handles[cur], device[m_handles[cur].ptr])
  BY <1>1, <1>2, HandleIsTyped
<1>4. HandleHeard(cur, m_handles[cur], device[m_handles[cur].ptr])
  BY <1>2 DEF HeardInv
<1>5. m_position \in Nat
  BY <1>1 DEF OwnInv, ReadOK
<1> QED
  BY <1>1, <1>2, <1>3, <1>4, <1>5 DEF HandleHeard

LEMMA StoreHears ==
    ASSUME HeardInv, at \in Steps, OwnInv', UNCHANGED <<entryVars, m_position>>,
           NEW o, NEW r, HandleStored(o, r),
           NEW k, k = r.handle, NEW w, w = r.device[k.ptr], Consistent(k, w),
           \/ NextHandle /\ Updated(k, w, m_position)
           \/ at' \in Steps /\ cur' = cur /\ InUpdate(at', k, w, m_position)
    PROVE  HeardInv'
<1>1. /\ Len(m_handles') = Len(m_handles) /\ m_handles'[cur] = k /\ device' = r.device
      /\ \A i \in 1 .. Len(m_handles) : i # cur =>
             /\ m_handles'[i] = m_handles[i]
             /\ m_handles[i].ptr # NoHandle => device'[m_handles[i].ptr] = device[m_handles[i].ptr]
  BY StoreOwns DEF HeardInv
<1>2. UNCHANGED <<entry, touched, m_position>>
  BY DEF entryVars
<1> QED
  BY <1>1, <1>2, UpdateHears

LEMMA KeepHears ==
    ASSUME HeardInv, at \in Steps, OwnInv', UNCHANGED <<entryVars, m_position, m_handles, device>>,
           NEW k, k = m_handles[cur], NEW w, w = device[k.ptr],
           \/ NextHandle /\ Updated(k, w, m_position)
           \/ at' \in Steps /\ cur' = cur /\ InUpdate(at', k, w, m_position)
    PROVE  HeardInv'
<1>1. Consistent(k, w)
  BY MineHears
<1>2. UNCHANGED <<entry, touched, m_position>>
  BY DEF entryVars
<1> QED
  BY <1>1, <1>2, UpdateHears

\* update(): the handle of an entry with another sound has none; it may start the new one.
LEMMA TestHears ==
    ASSUME HeardInv, UpdateTests, OwnInv'
    PROVE  HeardInv'
<1>1. at \in Steps /\ at = "test" /\ UNCHANGED <<entryVars, seen, m_position>> /\ OwnInv
  BY DEF UpdateTests, Steps, HeardInv
<1>2. PICK h : h = m_handles[cur]
  OBVIOUS
<1>3. PICK v : v = device[h.ptr]
  OBVIOUS
<1>4. /\ Mine.handle = h /\ Typed(h, v) /\ Consistent(h, v) /\ Pending(h, v, m_position)
  BY <1>1, <1>2, <1>3, MineHears DEF InUpdate
<1>5. CASE h.soundRev # entry[h.entry].soundRev
  <2>1. PICK k : k = m_handles'[cur]
    OBVIOUS
  <2>2. PICK w : w = device'[k.ptr]
    OBVIOUS
  <2>3. /\ \E o, r : HandleStored(o, r)
        /\ at' = "place" /\ cur' = cur
        /\ k.entry = h.entry /\ k.posRev = h.posRev
        /\ k.soundRev = entry[k.entry].soundRev /\ k.valid /\ k.ptr = NoHandle
    BY <1>1, <1>2, <1>5, <2>1, TestStores
  <2>4. h.posRev <= entry[h.entry].posRev /\ entry[h.entry].soundRev \in Nat
    BY <1>4, TypedNumbers DEF Consistent
  <2>5. Consistent(k, w)
    BY <2>3, <2>4 DEF Consistent
  <2>6. InUpdate(at', k, w, m_position)
    BY <2>3 DEF InUpdate, SoundAgrees
  <2>7. /\ Len(m_handles') = Len(m_handles)
        /\ \A i \in 1 .. Len(m_handles) : i # cur =>
               /\ m_handles'[i] = m_handles[i]
               /\ m_handles[i].ptr # NoHandle => device'[m_handles[i].ptr] = device[m_handles[i].ptr]
    BY <1>1, <2>3, StoreOwns
  <2>8. UNCHANGED <<entry, touched, m_position>> /\ at' \in Steps
    BY <1>1, <2>3 DEF entryVars, Steps
  <2> QED
    BY <1>1, <2>1, <2>2, <2>3, <2>5, <2>6, <2>7, <2>8, UpdateHears
<1>6. CASE h.soundRev = entry[h.entry].soundRev
  <2>1. /\ UNCHANGED <<m_handles, device>>
        /\ IF ~h.valid THEN NextHandle
           ELSE at' = (IF h.ptr # NoHandle THEN "follow" ELSE "place") /\ cur' = cur
    BY <1>1, <1>2, <1>4, <1>6 DEF UpdateTests
  <2>2. SoundAgrees(h)
    BY <1>6 DEF SoundAgrees
  <2>3. CASE ~h.valid
    <3>1. h.ptr = NoHandle
      BY <1>4, <2>3 DEF Consistent
    <3>2. Updated(h, v, m_position)
      BY <2>2, <2>3, <3>1 DEF Updated, Settled
    <3> QED
      BY <1>1, <1>2, <1>3, <2>1, <2>3, <3>2, KeepHears
  <2>4. CASE h.valid
    <3>1. PICK x \in {"follow", "place"} : x = at' /\ (x = "follow" <=> h.ptr # NoHandle) /\ cur' = cur
      BY <2>1, <2>4
    <3>2. InUpdate(x, h, v, m_position)
      BY <1>4, <2>2, <2>4, <3>1 DEF InUpdate
    <3> QED
      BY <1>1, <1>2, <1>3, <2>1, <3>1, <3>2, KeepHears DEF Steps
  <2> QED
    BY <2>3, <2>4
<1> QED
  BY <1>5, <1>6

LEMMA PlacesHears ==
    ASSUME HeardInv, UpdatePlaces, OwnInv'
    PROVE  HeardInv'
<1>1. /\ at \in {"place", "follow"} /\ at \in Steps /\ UNCHANGED <<entryVars, seen, m_position>> /\ OwnInv
  BY DEF UpdatePlaces, Steps, HeardInv
<1>2. PICK o : o = Mine
  OBVIOUS
<1>3. /\ o \in HandleOnDevice /\ m_position \in Nat
      /\ Typed(o.handle, o.device[o.handle.ptr]) /\ Consistent(o.handle, o.device[o.handle.ptr])
      /\ InUpdate(at, o.handle, o.device[o.handle.ptr], m_position)
  BY <1>1, <1>2, MineHears
<1>4. PICK r \in HandleOnDevice :
          /\ HandleStored(o, r)
          /\ o.handle.ptr # NoHandle => PlacedFrom(o, r, m_position)
          /\ o.handle.ptr = NoHandle => PlacedNew(o, r, m_position)
          /\ IF r.handle.ptr = NoHandle THEN NextHandle
             ELSE at' = (IF at = "place" THEN "seek" ELSE "revise") /\ cur' = cur
  BY <1>1, <1>2, PlaceStores
<1>5. Local(o, r)
  BY <1>4 DEF HandleStored
<1>6. PICK k : k = r.handle
  OBVIOUS
<1>7. PICK w : w = r.device[k.ptr]
  OBVIOUS
<1>8. /\ Consistent(k, w)
      /\ k.ptr = NoHandle => Updated(k, w, m_position)
      /\ k.ptr # NoHandle => InUpdate(IF at = "place" THEN "seek" ELSE "revise", k, w, m_position)
  <2>1. CASE at = "place"
    <3>1. o.handle.ptr = NoHandle
      BY <1>3, <2>1 DEF InUpdate
    <3> QED
      BY <1>3, <1>4, <1>5, <1>6, <1>7, <2>1, <3>1, PlaceHears
  <2>2. CASE at = "follow"
    <3>1. o.handle.ptr # NoHandle
      BY <1>3, <2>2 DEF InUpdate
    <3> QED
      BY <1>3, <1>4, <1>5, <1>6, <1>7, <2>2, <3>1, FollowHears
  <2> QED
    BY <1>1, <2>1, <2>2
<1>9. \/ NextHandle /\ Updated(k, w, m_position)
      \/ at' \in Steps /\ cur' = cur /\ InUpdate(at', k, w, m_position)
  BY <1>4, <1>6, <1>8 DEF Steps
<1> QED
  BY <1>1, <1>4, <1>6, <1>7, <1>8, <1>9, StoreHears

LEMMA SeeksHears ==
    ASSUME HeardInv, UpdateSeeks, OwnInv'
    PROVE  HeardInv'
<1>1. at = "seek" /\ at \in Steps /\ UNCHANGED <<entryVars, seen, m_position>> /\ OwnInv
  BY DEF UpdateSeeks, Steps, HeardInv
<1>2. PICK o : o = Mine
  OBVIOUS
<1>3. /\ o \in HandleOnDevice /\ m_position \in Nat
      /\ Typed(o.handle, o.device[o.handle.ptr]) /\ Consistent(o.handle, o.device[o.handle.ptr])
      /\ InUpdate("seek", o.handle, o.device[o.handle.ptr], m_position)
  BY <1>1, <1>2, MineHears
<1>4. PICK r \in HandleOnDevice :
          HandleStored(o, r) /\ SoughtFrom(o, r, m_position) /\ at' = "revise" /\ cur' = cur
  BY <1>1, <1>2, SeekStores
<1>5. PICK k : k = r.handle
  OBVIOUS
<1>6. PICK w : w = r.device[k.ptr]
  OBVIOUS
<1>7. Consistent(k, w) /\ InUpdate(at', k, w, m_position) /\ at' \in Steps
  BY <1>3, <1>4, <1>5, <1>6, SeekHears DEF Steps
<1> QED
  BY <1>1, <1>4, <1>5, <1>6, <1>7, StoreHears

LEMMA RevisesHears ==
    ASSUME HeardInv, UpdateRevises, OwnInv'
    PROVE  HeardInv'
<1>1. at = "revise" /\ at \in Steps /\ UNCHANGED <<entryVars, seen, m_position>> /\ OwnInv
  BY DEF UpdateRevises, Steps, HeardInv
<1>2. PICK h : h = m_handles[cur]
  OBVIOUS
<1>3. PICK v : v = device[h.ptr]
  OBVIOUS
<1>4. /\ Mine.handle = h /\ Typed(h, v) /\ Consistent(h, v) /\ m_position \in Nat
      /\ h.ptr # NoHandle /\ Settled(h, v, m_position) /\ MovedPlays(h, v)
      /\ h.entry \notin touched => SoundAgrees(h)
  BY <1>1, <1>2, <1>3, MineHears DEF InUpdate
<1>5. NextHandle
  BY DEF UpdateRevises
<1>6. CASE h.posRev = entry[h.entry].posRev
  <2>1. UNCHANGED <<m_handles, device>>
    BY <1>4, <1>6 DEF UpdateRevises
  <2>2. PosAgrees(h)
    BY <1>6 DEF PosAgrees
  <2>3. Updated(h, v, m_position)
    BY <1>4, <2>2 DEF Updated
  <2> QED
    BY <1>1, <1>2, <1>3, <1>5, <2>1, <2>3, KeepHears
<1>7. CASE h.posRev # entry[h.entry].posRev
  <2>1. PICK o \in HandleOnDevice, r \in HandleOnDevice :
            /\ HandleStored(o, r)
            /\ o.handle.posRev = entry[o.handle.entry].posRev
            /\ o.handle.soundRev = h.soundRev /\ o.handle.valid = h.valid
            /\ ~o.handle.valid => r = o
            /\ o.handle.valid =>
                  \E q \in HandleOnDevice :
                      /\ SameRevisions(o.handle, q.handle)
                      /\ o.handle.ptr # NoHandle => PlacedFrom(o, q, m_position)
                      /\ o.handle.ptr = NoHandle => PlacedNew(o, q, m_position)
                      /\ SoughtFrom(q, r, m_position)
    BY <1>1, <1>2, <1>7, ReviseStores
  <2>2. PICK g : g = o.handle
    OBVIOUS
  <2>3. /\ g.entry = h.entry /\ g.ptr = h.ptr /\ o.device = device /\ Local(o, r)
        /\ g.posRev = entry[h.entry].posRev /\ g.soundRev = h.soundRev /\ g.valid = h.valid
    BY <1>2, <2>1, <2>2 DEF HandleStored
  <2>4. g.valid
    BY <1>4, <2>3 DEF Consistent
  <2>5. PICK q \in HandleOnDevice :
            /\ SameRevisions(o.handle, q.handle)
            /\ o.handle.ptr # NoHandle => PlacedFrom(o, q, m_position)
            /\ o.handle.ptr = NoHandle => PlacedNew(o, q, m_position)
            /\ SoughtFrom(q, r, m_position)
    BY <2>1, <2>2, <2>4
  <2>6. g \in HandleType /\ entry[h.entry].posRev \in Nat
    BY <1>4, <2>2, TypedNumbers DEF HandleOnDevice
  <2>7. Typed(g, v)
    BY <1>4, <2>3, <2>6 DEF Typed
  <2>8. Consistent(g, v)
    BY <1>4, <2>3, <2>6 DEF Consistent, SoundAgrees
  <2>9. o.handle.ptr # NoHandle => o.device[o.handle.ptr] = v
    BY <1>3, <2>2, <2>3
  <2>10. PICK k : k = r.handle
    OBVIOUS
  <2>11. PICK w : w = r.device[k.ptr]
    OBVIOUS
  <2>12. /\ SameRevisions(g, k) /\ Consistent(k, w)
         /\ k.ptr # NoHandle =>
                /\ k.valid /\ w.pos = PlaceOf(k, m_position) /\ w.status \in {"PLAYING", "PAUSED"}
                /\ Before(k, m_position) => w.status = "PAUSED"
                /\ Within(k, m_position) /\ v.status # "STOPPED" => w.status = "PLAYING"
                /\ Behind(k, m_position) => w.status = "PAUSED"
         /\ k.ptr = NoHandle => ~k.valid \/ ~Within(k, m_position)
    BY <1>4, <2>2, <2>3, <2>4, <2>5, <2>7, <2>8, <2>9, <2>10, <2>11, SeekAllHears
  <2>13. v.status # "STOPPED"
    BY <1>4, <1>7 DEF MovedPlays, PosAgrees
  <2>14. PosAgrees(k) /\ (k.entry \notin touched => SoundAgrees(k)) /\ k.entry = h.entry
    BY <1>4, <2>3, <2>12 DEF SameRevisions, PosAgrees, SoundAgrees
  <2>15. Settled(k, w, m_position)
    <3>1. Before(k, m_position) => PlaceOf(k, m_position) = entry[k.entry].place.skip
      <4>1. entry[k.entry].place.skip \in Nat
        BY <1>4, <2>14, TypedNumbers
      <4> QED
        BY <4>1 DEF PlaceOf
    <3> QED
      BY <2>12, <2>13, <3>1 DEF Settled, AtPlace
  <2>16. Updated(k, w, m_position)
    BY <2>12, <2>14, <2>15 DEF Updated
  <2> QED
    BY <1>1, <1>5, <2>1, <2>10, <2>11, <2>12, <2>16, StoreHears
<1> QED
  BY <1>6, <1>7
------------------------------------------------------------------------------
(* What is heard: the other steps. *)

\* A step that leaves the reader alone, for a handle whose entry was not changed.
LEMMA HandleKeepsHearing ==
    ASSUME HeardInv, UNCHANGED <<m_handles, device, m_position, at, cur>>,
           NEW i \in 1 .. Len(m_handles),
           entry'[m_handles[i].entry] = entry[m_handles[i].entry],
           m_handles[i].entry \in touched' <=> m_handles[i].entry \in touched
    PROVE  HandleHeard(i, m_handles[i], device[m_handles[i].ptr])'
<1>1. PICK h : h = m_handles[i]
  OBVIOUS
<1>2. PICK v : v = device[h.ptr]
  OBVIOUS
<1>3. PICK t : t = m_position
  OBVIOUS
<1>4. PICK x : x = at
  OBVIOUS
<1>5. HandleHeard(i, h, v)
  BY <1>1, <1>2 DEF HeardInv
<1>6. /\ Consistent(h, v) => Consistent(h, v)'
      /\ Pending(h, v, t) => Pending(h, v, t)'
      /\ Updated(h, v, t) => Updated(h, v, t)'
      /\ InUpdate(x, h, v, t) => InUpdate(x, h, v, t)'
  BY <1>1, SameEntries
<1>7. HandleHeard(i, h, v)'
  BY <1>3, <1>4, <1>5, <1>6 DEF HandleHeard
<1>8. h = m_handles'[i] /\ v = device'[h.ptr]
  BY <1>1, <1>2
<1> QED
  BY <1>7, <1>8

\* An entry is moved whose sound has not ended: its handle will see that.
LEMMA MovedHears ==
    ASSUME NEW h, NEW v, NEW t, NEW x, Typed(h, v), Consistent(h, v),
           h.ptr # NoHandle => v.pos < Length[v.sound],
           entry'[h.entry].posRev = entry[h.entry].posRev + 1,
           entry'[h.entry].sound = entry[h.entry].sound,
           entry'[h.entry].soundRev = entry[h.entry].soundRev,
           h.entry \in touched'
    PROVE  /\ Consistent(h, v)' /\ Pending(h, v, t)' /\ Updated(h, v, t)'
           /\ InUpdate(x, h, v, t) => InUpdate(x, h, v, t)'
<1>1. /\ h.posRev \in Nat /\ entry[h.entry].posRev \in Nat
      /\ h.posRev <= entry[h.entry].posRev /\ h.soundRev <= entry[h.entry].soundRev
      /\ h.ptr # NoHandle => v.pos \in Nat /\ Length[v.sound] \in Nat
  BY TypedNumbers DEF Consistent
<1>2. ~PosAgrees(h)' /\ h.posRev <= entry'[h.entry].posRev /\ h.soundRev <= entry'[h.entry].soundRev
  BY <1>1 DEF PosAgrees
<1>3. SoundAgrees(h)' <=> SoundAgrees(h)
  BY DEF SoundAgrees
<1>4. h.ptr # NoHandle => v.status # "STOPPED"
  BY <1>1 DEF Consistent
<1>5. Consistent(h, v)'
  BY <1>2, <1>3 DEF Consistent
<1>6. MovedPlays(h, v)' /\ Pending(h, v, t)'
  BY <1>2, <1>4 DEF Pending, MovedPlays
<1>7. Settled(h, v, t)'
  BY <1>2 DEF Settled
<1>8. Updated(h, v, t)'
  BY <1>7 DEF Updated
<1>9. InUpdate(x, h, v, t) => InUpdate(x, h, v, t)'
  BY <1>2, <1>6, <1>7 DEF InUpdate
<1> QED
  BY <1>5, <1>6, <1>8, <1>9

\* An entry has another sound: its handle will see that.
LEMMA ResoundedHears ==
    ASSUME NEW h, NEW v, NEW t, NEW x, Typed(h, v), Consistent(h, v),
           entry'[h.entry].soundRev = entry[h.entry].soundRev + 1,
           entry'[h.entry].place = entry[h.entry].place,
           entry'[h.entry].posRev = entry[h.entry].posRev,
           h.entry \in touched'
    PROVE  /\ Consistent(h, v)'
           /\ Pending(h, v, t) => Pending(h, v, t)'
           /\ Updated(h, v, t) => Updated(h, v, t)'
           /\ InUpdate(x, h, v, t) => InUpdate(x, h, v, t)'
<1>1. /\ h.soundRev \in Nat /\ entry[h.entry].soundRev \in Nat
      /\ h.posRev <= entry[h.entry].posRev /\ h.soundRev <= entry[h.entry].soundRev
  BY TypedNumbers DEF Consistent
<1>2. /\ ~SoundAgrees(h)' /\ h.posRev <= entry'[h.entry].posRev /\ h.soundRev <= entry'[h.entry].soundRev
  BY <1>1 DEF SoundAgrees
<1>3. /\ PosAgrees(h)' <=> PosAgrees(h)
      /\ Before(h, t)' <=> Before(h, t)
      /\ Within(h, t)' <=> Within(h, t)
      /\ Behind(h, t)' <=> Behind(h, t)
      /\ PlaceOf(h, t)' = PlaceOf(h, t)
  BY DEF PosAgrees, Before, Within, Behind, PlaceOf
<1>4. Consistent(h, v)'
  BY <1>2 DEF Consistent
<1>5. MovedPlays(h, v) => MovedPlays(h, v)'
  BY <1>3 DEF MovedPlays
<1>6. Pending(h, v, t) => Pending(h, v, t)'
  BY <1>3, <1>5 DEF Pending
<1>7. Settled(h, v, t) => Settled(h, v, t)'
  BY <1>3 DEF Settled
<1>8. Updated(h, v, t) => Updated(h, v, t)'
  BY <1>3, <1>7 DEF Updated
<1>9. InUpdate(x, h, v, t) => InUpdate(x, h, v, t)'
  BY <1>3, <1>5, <1>6, <1>7 DEF InUpdate
<1> QED
  BY <1>4, <1>6, <1>8, <1>9

\* An edit of the entry e, of which the handles know nothing yet.
LEMMA EditHears ==
    ASSUME HeardInv, NEW e \in 1 .. Len(entry), NEW f, EntryChanged(e, f),
           \A h, v, t, x : Typed(h, v) /\ Consistent(h, v) /\ h.entry = e
                           /\ (\E i \in 1 .. Len(m_handles) : h = m_handles[i] /\ v = device[h.ptr]) =>
               /\ Consistent(h, v)'
               /\ Pending(h, v, t) => Pending(h, v, t)'
               /\ Updated(h, v, t) => Updated(h, v, t)'
               /\ InUpdate(x, h, v, t) => InUpdate(x, h, v, t)'
    PROVE  HeardInv'
<1>1. /\ OwnInv' /\ OwnInv /\ touched' = touched \cup {e}
      /\ UNCHANGED <<m_handles, device, m_position, at, cur>>
      /\ \A y \in 1 .. Len(entry) : y # e => entry'[y] = entry[y]
  BY ChangeOwns DEF EntryChanged, readerVars, HeardInv
<1>2. ASSUME NEW i \in 1 .. Len(m_handles)
      PROVE  HandleHeard(i, m_handles[i], device[m_handles[i].ptr])'
  <2>1. m_handles[i].entry \in 1 .. Len(entry) /\ Typed(m_handles[i], device[m_handles[i].ptr])
    BY <1>1, HandleIsTyped
  <2>2. CASE m_handles[i].entry # e
    BY <1>1, <2>1, <2>2, HandleKeepsHearing
  <2>3. CASE m_handles[i].entry = e
    <3>1. PICK h : h = m_handles[i]
      OBVIOUS
    <3>2. PICK v : v = device[h.ptr]
      OBVIOUS
    <3>3. PICK t : t = m_position
      OBVIOUS
    <3>4. PICK x : x = at
      OBVIOUS
    <3>5. HandleHeard(i, h, v)
      BY <3>1, <3>2 DEF HeardInv
    <3>6. Typed(h, v) /\ Consistent(h, v)
      BY <2>1, <3>1, <3>2, <3>5 DEF HandleHeard
    <3>7. /\ Consistent(h, v)'
          /\ Pending(h, v, t) => Pending(h, v, t)'
          /\ Updated(h, v, t) => Updated(h, v, t)'
          /\ InUpdate(x, h, v, t) => InUpdate(x, h, v, t)'
      BY <2>3, <3>1, <3>2, <3>6
    <3>8. HandleHeard(i, h, v)'
      BY <1>1, <3>3, <3>4, <3>5, <3>7 DEF HandleHeard
    <3>9. h = m_handles'[i] /\ v = device'[h.ptr]
      BY <1>1, <3>1, <3>2
    <3> QED
      BY <3>8, <3>9
  <2> QED
    BY <2>2, <2>3
<1> QED
  BY <1>1, <1>2 DEF HeardInv

LEMMA ClientHears ==
    ASSUME HeardInv, Client, ~MovesEnded
    PROVE  HeardInv'
<1>0. OwnInv /\ EntriesOK
  BY DEF HeardInv, OwnInv
<1>1. ASSUME NEW p \in Places, NEW s \in Sounds, Add(p, s) PROVE HeardInv'
  <2>1. /\ OwnInv' /\ UNCHANGED <<touched, m_handles, device, m_position, at, cur>>
        /\ \A e \in 1 .. Len(entry) : entry'[e] = entry[e]
    BY <1>0, <1>1, AddDoes DEF readerVars
  <2>2. ASSUME NEW i \in 1 .. Len(m_handles) PROVE HandleHeard(i, m_handles[i], device[m_handles[i].ptr])'
    <3>1. m_handles[i].entry \in 1 .. Len(entry)
      BY <1>0, HandleIsTyped
    <3> QED
      BY <2>1, <3>1, HandleKeepsHearing
  <2> QED
    BY <2>1, <2>2 DEF HeardInv
<1>2. ASSUME NEW i \in DOMAIN m_entries, RemoveEntry(i) PROVE HeardInv'
  <2>1. OwnInv' /\ UNCHANGED <<entry, touched, m_handles, device, m_position, at, cur>>
    BY <1>0, <1>2, RemoveOwns DEF RemoveEntry, readerVars
  <2>2. ASSUME NEW k \in 1 .. Len(m_handles) PROVE HandleHeard(k, m_handles[k], device[m_handles[k].ptr])'
    BY <2>1, HandleKeepsHearing
  <2> QED
    BY <2>1, <2>2 DEF HeardInv
<1>3. ASSUME NEW e \in 1 .. Len(entry), NEW p \in Places, Move(e, p) PROVE HeardInv'
  <2>1. PICK f : /\ EntryChanged(e, f) /\ f.posRev = entry[e].posRev + 1
                 /\ f.sound = entry[e].sound /\ f.soundRev = entry[e].soundRev
    BY <1>0, <1>3, MoveDoes
  <2>2. ~SoundEnded(e)
    BY <1>0, <1>3, MoveDoes
  <2>3. entry'[e] = f /\ e \in touched'
    BY <1>0, <2>1, ChangeOwns DEF EntryChanged
  <2>4. ASSUME NEW h, NEW v, NEW t, NEW x, Typed(h, v), Consistent(h, v), h.entry = e,
               NEW i \in 1 .. Len(m_handles), h = m_handles[i], v = device[h.ptr]
        PROVE  /\ Consistent(h, v)' /\ Pending(h, v, t)' /\ Updated(h, v, t)'
               /\ InUpdate(x, h, v, t) => InUpdate(x, h, v, t)'
    <3>1. i \in DOMAIN m_handles
      BY <1>0, LenProperties DEF OwnInv, HandlesOK
    <3>2. h.ptr # NoHandle => ~(v.pos >= Length[v.sound])
      BY <2>2, <2>4, <3>1 DEF SoundEnded
    <3>3. h.ptr # NoHandle => v.pos < Length[v.sound]
      BY <2>4, <3>2, TypedNumbers
    <3> QED
      BY <2>1, <2>3, <2>4, <3>3, MovedHears
  <2>5. \A h, v, t, x : Typed(h, v) /\ Consistent(h, v) /\ h.entry = e
                        /\ (\E i \in 1 .. Len(m_handles) : h = m_handles[i] /\ v = device[h.ptr]) =>
            /\ Consistent(h, v)'
            /\ Pending(h, v, t) => Pending(h, v, t)'
            /\ Updated(h, v, t) => Updated(h, v, t)'
            /\ InUpdate(x, h, v, t) => InUpdate(x, h, v, t)'
    BY <2>4
  <2> QED
    BY <2>1, <2>5, EditHears
<1>4. ASSUME NEW e \in 1 .. Len(entry), NEW s \in Sounds \cup {NoSound}, SetSound(e, s) PROVE HeardInv'
  <2>1. PICK f : /\ EntryChanged(e, f) /\ f.soundRev = entry[e].soundRev + 1
                 /\ f.place = entry[e].place /\ f.posRev = entry[e].posRev
    BY <1>0, <1>4, SetSoundDoes
  <2>2. entry'[e] = f /\ e \in touched'
    BY <1>0, <2>1, ChangeOwns DEF EntryChanged
  <2>3. \A h, v, t, x : Typed(h, v) /\ Consistent(h, v) /\ h.entry = e =>
            /\ Consistent(h, v)'
            /\ Pending(h, v, t) => Pending(h, v, t)'
            /\ Updated(h, v, t) => Updated(h, v, t)'
            /\ InUpdate(x, h, v, t) => InUpdate(x, h, v, t)'
    BY <2>1, <2>2, ResoundedHears
  <2> QED
    BY <2>1, <2>3, EditHears
<1> QED
  BY <1>0, <1>1, <1>2, <1>3, <1>4, ClientDoes

\* Before the first update of a piece.
LEMMA PieceHears ==
    ASSUME OwnInv', entry' = entry,
           at' = "idle" \/ (at' = "test" /\ cur' = 1) \/ m_handles' = <<>>,
           NEW t, t = m_position',
           \A i \in 1 .. Len(m_handles') :
               /\ Consistent(m_handles'[i], device'[m_handles'[i].ptr])
               /\ Pending(m_handles'[i], device'[m_handles'[i].ptr], t)
    PROVE  HeardInv'
<1>1. ASSUME NEW i \in 1 .. Len(m_handles')
      PROVE  HandleHeard(i, m_handles[i], device[m_handles[i].ptr])'
  <2>1. PICK h : h = m_handles'[i]
    OBVIOUS
  <2>2. PICK v : v = device'[h.ptr]
    OBVIOUS
  <2>3. Consistent(h, v) /\ Pending(h, v, t)
    BY <2>1, <2>2
  <2>4. /\ SoundAgrees(h)' <=> SoundAgrees(h)
        /\ PosAgrees(h)' <=> PosAgrees(h)
        /\ Before(h, t)' <=> Before(h, t)
        /\ Within(h, t)' <=> Within(h, t)
        /\ PlaceOf(h, t)' = PlaceOf(h, t)
    BY DEF SoundAgrees, PosAgrees, Before, Within, PlaceOf
  <2>5. Consistent(h, v)'
    BY <2>3, <2>4 DEF Consistent
  <2>6. Pending(h, v, t)'
    BY <2>3, <2>4 DEF Pending, MovedPlays
  <2>7. (at' = "idle" /\ cur' = 0) \/ (at' = "test" /\ cur' = 1)
    <3>1. m_handles' # <<>>
      OBVIOUS
    <3> QED
      BY <3>1 DEF OwnInv, ReadOK, Steps
  <2>8. i > 0 /\ ~(i < 1)
    BY LenProperties DEF OwnInv, HandlesOK
  <2>9. HandleHeard(i, h, v)'
    <3>1. Pending(h, v, m_position)'
      BY <2>6
    <3>2. InUpdate("test", h, v, m_position)'
      BY <3>1 DEF InUpdate
    <3> QED
      BY <2>5, <2>7, <2>8, <3>1, <3>2 DEF HandleHeard
  <2> QED
    BY <2>1, <2>2, <2>9
<1> QED
  BY <1>1 DEF HeardInv

LEMMA BeginsHears ==
    ASSUME HeardInv, ReadBegins
    PROVE  HeardInv'
<1>1. /\ OwnInv' /\ UNCHANGED <<entry, m_position>> /\ at = "idle"
      /\ at' = (IF m_handles' = <<>> THEN "mix" ELSE "test")
      /\ cur' = (IF m_handles' = <<>> THEN 0 ELSE 1)
      /\ \A k \in 1 .. Len(m_handles') :
             \/ \E e \in Nat : m_handles'[k] = NewHandle(e)
             \/ \E m \in 1 .. Len(m_handles) :
                    /\ m_handles'[k] = m_handles[m]
                    /\ m_handles[m].ptr # NoHandle => device'[m_handles[m].ptr] = device[m_handles[m].ptr]
  BY ReadBeginsDoes DEF HeardInv
<1>2. OwnInv /\ cur = 0 /\ EntriesOK
  BY <1>1 DEF HeardInv, OwnInv, ReadOK, Steps
<1>3. PICK t : t = m_position
  OBVIOUS
<1>4. ASSUME NEW k \in 1 .. Len(m_handles')
      PROVE  /\ Consistent(m_handles'[k], device'[m_handles'[k].ptr])
             /\ Pending(m_handles'[k], device'[m_handles'[k].ptr], t)
  <2>1. PICK h : h = m_handles'[k]
    OBVIOUS
  <2>2. PICK v : v = device'[h.ptr]
    OBVIOUS
  <2>3. ASSUME NEW e \in Nat, h = NewHandle(e) PROVE Consistent(h, v) /\ Pending(h, v, t)
    <3>1. h.ptr = NoHandle /\ h.valid /\ h.posRev = 0 /\ h.soundRev = 0
      BY <2>3, NewHandleIsHandle
    <3>2. h.entry \in 1 .. Len(entry)
      BY <1>1, <2>1 DEF OwnInv, HandlesOK
    <3>3. entry[h.entry] \in EntryType
      BY <1>2, <3>2, EntryHasType
    <3>4. entry[h.entry].posRev \in Nat /\ entry[h.entry].soundRev \in Nat
      BY <3>3 DEF EntryType
    <3> QED
      BY <3>1, <3>4 DEF Consistent, Pending, MovedPlays
  <2>4. ASSUME NEW m \in 1 .. Len(m_handles), h = m_handles[m],
               m_handles[m].ptr # NoHandle => device'[m_handles[m].ptr] = device[m_handles[m].ptr]
        PROVE  Consistent(h, v) /\ Pending(h, v, t)
    <3>1. PICK u : u = device[h.ptr]
      OBVIOUS
    <3>2. HandleHeard(m, h, u)
      BY <2>4, <3>1 DEF HeardInv
    <3>3. m > 0
      BY <1>2, LenProperties DEF OwnInv, HandlesOK
    <3>4. Consistent(h, u) /\ Pending(h, u, t)
      BY <1>1, <1>2, <1>3, <3>2, <3>3 DEF HandleHeard
    <3>5. h.ptr # NoHandle => u = v
      BY <2>2, <2>4, <3>1
    <3> QED
      BY <3>4, <3>5, SoundOfNone
  <2>5. Consistent(h, v) /\ Pending(h, v, t)
    BY <1>1, <2>1, <2>3, <2>4
  <2> QED
    BY <2>1, <2>2, <2>5
<1>5. at' = "idle" \/ (at' = "test" /\ cur' = 1) \/ m_handles' = <<>>
  BY <1>1
<1> QED
  BY <1>1, <1>3, <1>4, <1>5, PieceHears

\* What mixing a piece does to the sound of a handle.
LEMMA MixedHears ==
    ASSUME NEW h, NEW v, NEW w, NEW t \in Nat, Typed(h, v), Consistent(h, v), Updated(h, v, t),
           h.ptr # NoHandle => w = Mixed(v)
    PROVE  Consistent(h, w) /\ Pending(h, w, t + 1)
<1>1. CASE h.ptr = NoHandle
  BY <1>1 DEF Consistent, Pending, MovedPlays
<1>2. CASE h.ptr # NoHandle
  <2>1. /\ v \in SoundType /\ v.pos \in Nat /\ Length[v.sound] \in Nat
        /\ v.status \in {"PLAYING", "PAUSED", "STOPPED"}
        /\ entry[h.entry].place.begin \in Nat /\ entry[h.entry].place.end \in Nat
        /\ entry[h.entry].place.skip \in Nat
    BY <1>2, TypedNumbers DEF Typed
  <2>2. /\ w.sound = v.sound
        /\ v.status # "PLAYING" => w = v
        /\ v.status = "PLAYING" /\ v.pos < Length[v.sound] => w.status = "PLAYING" /\ w.pos = v.pos + 1
        /\ v.status = "PLAYING" /\ ~(v.pos < Length[v.sound]) => w.status = "STOPPED" /\ w.pos = v.pos
    BY <1>2, <2>1, MixedType
  <2>3. v.status = "STOPPED" => v.pos >= Length[v.sound]
    BY <1>2 DEF Consistent
  <2>4. w.status = "STOPPED" => w.pos >= Length[w.sound]
    BY <2>1, <2>2, <2>3
  <2>5. Consistent(h, w)
    BY <1>2, <2>2, <2>4 DEF Consistent
  <2>6. MovedPlays(h, w)
    <3>1. ~PosAgrees(h) => v.pos < Length[v.sound]
      BY <1>2 DEF Updated
    <3>2. v.pos < Length[v.sound] => w.status # "STOPPED"
      BY <2>1, <2>2, <2>3
    <3> QED
      BY <3>1, <3>2 DEF MovedPlays
  <2>7. ASSUME PosAgrees(h)
        PROVE  /\ Before(h, t) => v.status = "PAUSED" /\ v.pos = entry[h.entry].place.skip
               /\ Within(h, t) => v.status \in {"PLAYING", "STOPPED"} /\ AtPlace(v, PlaceOf(h, t))
    BY <1>2, <2>7 DEF Updated, Settled
  <2>8. ASSUME PosAgrees(h), Before(h, t + 1)
        PROVE  w.status = "PAUSED" /\ w.pos = entry[h.entry].place.skip
    <3>1. Before(h, t)
      BY <2>1, <2>8 DEF Before
    <3> QED
      BY <2>2, <2>7, <2>8, <3>1
  <2>9. ASSUME PosAgrees(h), Within(h, t + 1)
        PROVE  AtPlace(w, PlaceOf(h, t + 1))
    <3>1. PICK x \in Nat : x = PlaceOf(h, t + 1)
      BY <2>1, <2>9 DEF PlaceOf, Before, Within
    <3>2. CASE Before(h, t)
      <4>1. x = entry[h.entry].place.skip
        BY <2>1, <2>9, <3>1, <3>2 DEF PlaceOf, Before, Within
      <4> QED
        BY <2>2, <2>7, <2>9, <3>1, <3>2, <4>1 DEF AtPlace
    <3>3. CASE ~Before(h, t)
      <4>1. Within(h, t)
        BY <2>1, <2>9, <3>3 DEF Before, Within
      <4>2. PICK y \in Nat : y = PlaceOf(h, t) /\ x = y + 1
        BY <2>1, <3>1, <3>3, <4>1 DEF PlaceOf, Before, Within
      <4>3. /\ v.status \in {"PLAYING", "STOPPED"}
            /\ v.pos = y \/ (v.pos >= Length[v.sound] /\ y >= Length[v.sound])
        BY <2>7, <2>9, <4>1, <4>2 DEF AtPlace
      <4>4. w.pos = x \/ (w.pos >= Length[w.sound] /\ x >= Length[w.sound])
        BY <2>1, <2>2, <2>3, <4>2, <4>3
      <4> QED
        BY <3>1, <4>4 DEF AtPlace
    <3> QED
      BY <3>2, <3>3
  <2> QED
    BY <2>5, <2>6, <2>8, <2>9 DEF Pending
<1> QED
  BY <1>1, <1>2

LEMMA PieceMixedHears ==
    ASSUME HeardInv, MixPiece
    PROVE  HeardInv'
<1>1. /\ at = "mix" /\ device' = [d \in Device |-> Mixed(device[d])] /\ m_position' = m_position + 1
      /\ (at' = "idle" /\ cur' = 0) \/ (at' = "test" /\ cur' = 1)
      /\ UNCHANGED <<m_entries, entry, m_entry_status, m_handles, seen>>
  BY DEF MixPiece
<1>2. OwnInv /\ OwnInv' /\ m_position \in Nat
  BY MixOwns DEF HeardInv, OwnInv, ReadOK
<1>3. PICK t \in Nat : t = m_position
  BY <1>2
<1>4. ASSUME NEW i \in 1 .. Len(m_handles)
      PROVE  /\ Consistent(m_handles'[i], device'[m_handles'[i].ptr])
             /\ Pending(m_handles'[i], device'[m_handles'[i].ptr], t + 1)
  <2>1. PICK h : h = m_handles[i] /\ h = m_handles'[i]
    BY <1>1
  <2>2. PICK v : v = device[h.ptr]
    OBVIOUS
  <2>3. PICK w : w = device'[h.ptr]
    OBVIOUS
  <2>4. Typed(h, v) /\ h.ptr \in Device \cup {NoHandle}
    BY <1>2, <2>1, <2>2, HandleIsTyped DEF Typed, HandleType
  <2>5. Consistent(h, v) /\ Updated(h, v, t)
    BY <1>1, <1>3, <2>1, <2>2 DEF HeardInv, HandleHeard
  <2>6. h.ptr # NoHandle => w = Mixed(v)
    BY <1>1, <2>2, <2>3, <2>4
  <2>7. Consistent(h, w) /\ Pending(h, w, t + 1)
    BY <2>4, <2>5, <2>6, MixedHears
  <2> QED
    BY <2>1, <2>3, <2>7
<1>5. PICK t1 : t1 = m_position' /\ t1 = t + 1
  BY <1>1, <1>3
<1> QED
  BY <1>1, <1>2, <1>4, <1>5, PieceHears

\* A seek, for one handle.
LEMMA SoughtHears ==
    ASSUME NEW h, NEW v, NEW h2, NEW v2, NEW t \in Nat, SeekTurns(h, v, h2, v2, t),
           Typed(h, v), Consistent(h, v)
    PROVE  Consistent(h2, v2) /\ Pending(h2, v2, t)
<1>1. PICK o \in HandleOnDevice, r \in HandleOnDevice :
          /\ o.handle = h /\ (h.ptr # NoHandle => o.device[h.ptr] = v)
          /\ Alive(o) /\ HasRoom(o) /\ r = SeekAll(o, t)
          /\ r.handle = h2 /\ (h2.ptr # NoHandle => r.device[h2.ptr] = v2)
  BY DEF SeekTurns
<1>2. /\ Local(o, r)
      /\ ~o.handle.valid => r = o
      /\ o.handle.valid =>
             \E q \in HandleOnDevice :
                 /\ SameRevisions(o.handle, q.handle)
                 /\ o.handle.ptr # NoHandle => PlacedFrom(o, q, t)
                 /\ o.handle.ptr = NoHandle => PlacedNew(o, q, t)
                 /\ SoughtFrom(q, r, t)
  <2>1. entry[o.handle.entry] \in EntryType
    BY <1>1 DEF Typed
  <2> QED
    BY <1>1, <2>1, SeekAllDoes
<1>3. CASE ~h.valid
  <2>1. h2 = h /\ h.ptr = NoHandle
    BY <1>1, <1>2, <1>3 DEF Consistent
  <2> QED
    BY <2>1, SoundOfNone DEF Pending, MovedPlays
<1>4. CASE h.valid
  <2>1. PICK q \in HandleOnDevice :
            /\ SameRevisions(o.handle, q.handle)
            /\ o.handle.ptr # NoHandle => PlacedFrom(o, q, t)
            /\ o.handle.ptr = NoHandle => PlacedNew(o, q, t)
            /\ SoughtFrom(q, r, t)
    BY <1>1, <1>2, <1>4
  <2>2. PICK w : w = r.device[h2.ptr]
    OBVIOUS
  <2>3. /\ SameRevisions(h, h2) /\ Consistent(h2, w)
        /\ h2.ptr # NoHandle =>
               /\ w.pos = PlaceOf(h2, t) /\ w.status \in {"PLAYING", "PAUSED"}
               /\ Before(h2, t) => w.status = "PAUSED"
    BY <1>1, <1>2, <1>4, <2>1, <2>2, SeekAllHears
  <2>4. entry[h2.entry].place.skip \in Nat
    BY <2>3, TypedNumbers DEF SameRevisions
  <2>5. Before(h2, t) => PlaceOf(h2, t) = entry[h2.entry].place.skip
    BY <2>4 DEF PlaceOf
  <2>6. Pending(h2, w, t)
    BY <2>3, <2>5 DEF Pending, MovedPlays, AtPlace
  <2> QED
    BY <1>1, <2>2, <2>3, <2>6, SoundOfNone
<1> QED
  BY <1>3, <1>4

LEMMA ReaderSeeksHears ==
    ASSUME HeardInv, NEW t \in 0 .. MaxTime - 1, Seek(t)
    PROVE  HeardInv'
<1>1. /\ at = "idle" /\ m_position' = t /\ UNCHANGED <<entry, at, cur>>
  BY DEF Seek
<1>2. /\ OwnInv /\ OwnInv' /\ Seeking(m_handles, device, t, Len(m_handles), m_handles', device')
      /\ cur = 0 /\ t \in Nat /\ Len(m_handles) \in Nat
  BY <1>1, SeekOwns, LenProperties DEF HeardInv, OwnInv, HandlesOK, ReadOK, Steps
<1>3. ASSUME NEW i \in 1 .. Len(m_handles)
      PROVE  /\ Consistent(m_handles'[i], device'[m_handles'[i].ptr])
             /\ Pending(m_handles'[i], device'[m_handles'[i].ptr], t)
  <2>1. SeekTurns(m_handles[i], device[m_handles[i].ptr], m_handles'[i], device'[m_handles'[i].ptr], t)
    BY <1>2 DEF Seeking
  <2>2. Typed(m_handles[i], device[m_handles[i].ptr])
    BY <1>2, HandleIsTyped
  <2>3. Consistent(m_handles[i], device[m_handles[i].ptr])
    BY DEF HeardInv, HandleHeard
  <2> QED
    BY <1>2, <2>1, <2>2, <2>3, SoughtHears
<1>4. Len(m_handles') = Len(m_handles)
  BY <1>2 DEF Seeking
<1> QED
  BY <1>1, <1>2, <1>3, <1>4, PieceHears

\* Every step keeps it, where no entry is moved whose sound has ended.
LEMMA NextHears == ~MovesEnded /\ HeardInv /\ [Next]_vars => HeardInv'
<1> SUFFICES ASSUME ~MovesEnded, HeardInv, [Next]_vars PROVE HeardInv'
  OBVIOUS
<1>0. OwnInv /\ OwnInv'
  BY NextOwns DEF HeardInv
<1>1. CASE Client
  BY <1>1, ClientHears
<1>2. CASE ReadBegins
  BY <1>2, BeginsHears
<1>3. CASE UpdateTests
  BY <1>0, <1>3, TestHears
<1>4. CASE UpdatePlaces
  BY <1>0, <1>4, PlacesHears
<1>5. CASE UpdateSeeks
  BY <1>0, <1>5, SeeksHears
<1>6. CASE UpdateRevises
  BY <1>0, <1>6, RevisesHears
<1>7. CASE MixPiece
  BY <1>7, PieceMixedHears
<1>8. ASSUME NEW t \in 0 .. MaxTime - 1, Seek(t) PROVE HeardInv'
  BY <1>8, ReaderSeeksHears
<1>9. CASE UNCHANGED vars
  <2>1. UNCHANGED <<entry, touched, m_handles, device, m_position, at, cur>>
    BY <1>9 DEF vars, entryVars, readerVars
  <2>2. ASSUME NEW i \in 1 .. Len(m_handles)
        PROVE  HandleHeard(i, m_handles[i], device[m_handles[i].ptr])'
    BY <2>1, HandleKeepsHearing
  <2> QED
    BY <1>0, <2>1, <2>2 DEF HeardInv
<1> QED
  BY <1>1, <1>2, <1>3, <1>4, <1>5, <1>6, <1>7, <1>8, <1>9 DEF Next, Reader

LEMMA InitHears == Init => HeardInv
<1> SUFFICES ASSUME Init PROVE HeardInv
  OBVIOUS
<1>1. Len(m_handles) = 0
  BY DEF Init
<1> QED
  BY <1>1, InitOwns DEF HeardInv

\* One handle that was updated is heard as its entry says.
LEMMA UpdatedIsHeard ==
    ASSUME NEW h, NEW v, NEW t \in Nat, Typed(h, v), Consistent(h, v), Updated(h, v, t),
           h.entry \notin touched,
           NEW e, e = entry[h.entry], NEW x, x = t - e.place.begin + e.place.skip
    PROVE  LET due == /\ e.place.begin <= t /\ t <= e.place.end
                      /\ e.sound # NoSound /\ x < (IF e.sound = NoSound THEN 0 ELSE Length[e.sound])
           IN /\ (h.ptr # NoHandle /\ v.status = "PLAYING" /\ v.pos < Length[v.sound]) <=> due
              /\ due => v.sound = e.sound /\ v.pos = x
<1> DEFINE long == e.sound # NoSound /\ x < (IF e.sound = NoSound THEN 0 ELSE Length[e.sound])
           heard == h.ptr # NoHandle /\ v.status = "PLAYING" /\ v.pos < Length[v.sound]
<1>1. /\ SoundAgrees(h) /\ (h.ptr # NoHandle => PosAgrees(h))
      /\ h.ptr = NoHandle => ~h.valid \/ ~Within(h, t)
      /\ Settled(h, v, t)
  BY DEF Updated
<1>2. /\ e.place.begin \in Nat /\ e.place.end \in Nat /\ e.place.skip \in Nat
      /\ h.ptr # NoHandle => v.pos \in Nat /\ Length[v.sound] \in Nat /\ v.sound = e.sound /\ e.sound \in Sounds
      /\ h.ptr # NoHandle /\ v.status = "STOPPED" => v.pos >= Length[v.sound]
      /\ NoSound \notin Sounds
  BY <1>1, TypedNumbers, SequenceAssumption DEF Consistent
<1>3. Within(h, t) <=> e.place.begin <= t /\ t <= e.place.end
  BY DEF Within
<1>4. ASSUME Within(h, t) PROVE x \in Nat /\ x = PlaceOf(h, t)
  BY <1>2, <1>3, <1>4 DEF PlaceOf, Before
<1>5. (heard <=> Within(h, t) /\ long) /\ (Within(h, t) /\ long => v.sound = e.sound /\ v.pos = x)
  <2>1. CASE h.ptr = NoHandle
    <3>1. Within(h, t) => Unplayable(e.sound)
      BY <1>1, <2>1 DEF Consistent
    <3>2. Within(h, t) => ~long
      BY <1>4, <3>1 DEF Unplayable
    <3> QED
      BY <2>1, <3>2
  <2>2. CASE h.ptr # NoHandle /\ Within(h, t)
    <3>1. v.status \in {"PLAYING", "STOPPED"} /\ (v.pos = x \/ (v.pos >= Length[v.sound] /\ x >= Length[v.sound]))
      BY <1>1, <1>4, <2>2 DEF Settled, AtPlace
    <3>2. long <=> x < Length[v.sound]
      BY <1>2, <2>2
    <3> QED
      BY <1>2, <1>4, <2>2, <3>1, <3>2
  <2>3. CASE h.ptr # NoHandle /\ ~Within(h, t)
    <3>1. Before(h, t) \/ Behind(h, t)
      BY <1>2, <2>3 DEF Before, Behind, Within
    <3>2. v.status # "PLAYING"
      BY <1>1, <2>3, <3>1 DEF Settled
    <3> QED
      BY <2>3, <3>2
  <2> QED
    BY <2>1, <2>2, <2>3
<1> HIDE DEF long, heard
<1>6. LET due == (e.place.begin <= t /\ t <= e.place.end) /\ long
      IN (heard <=> due) /\ (due => v.sound = e.sound /\ v.pos = x)
  BY <1>3, <1>5
<1> QED
  BY <1>6 DEF long, heard

\* When a piece is mixed, what is heard of an entry is what the entry says: its sound, if the
\* piece is between begin and end and the sound is long enough, at the place that belongs to
\* the time, and nothing else; and an edit that comes during the updates waits for the next
\* piece, not longer.  (Where a client moves an entry whose sound has ended this is not so.)
THEOREM SequenceEntriesAreHeard == ~MovesEnded => (Spec => []EntriesAreHeard)
<1> SUFFICES ASSUME ~MovesEnded PROVE Spec => []EntriesAreHeard
  OBVIOUS
<1>1. HeardInv => EntriesAreHeard
  <2> SUFFICES ASSUME HeardInv, at = "mix", NEW i \in DOMAIN m_handles, m_handles[i].entry \notin touched
               PROVE  LET h == m_handles[i]
                          e == entry[h.entry]
                          p == e.place
                          x == m_position - p.begin + p.skip
                          due == /\ p.begin <= m_position /\ m_position <= p.end
                                 /\ e.sound # NoSound /\ x < (IF e.sound = NoSound THEN 0 ELSE Length[e.sound])
                      IN /\ Heard(h.ptr) <=> due
                         /\ due => device[h.ptr].sound = e.sound /\ device[h.ptr].pos = x
    BY DEF EntriesAreHeard
  <2>1. OwnInv /\ i \in 1 .. Len(m_handles) /\ m_position \in Nat
    BY LenProperties DEF HeardInv, OwnInv, HandlesOK, ReadOK
  <2>2. Typed(m_handles[i], device[m_handles[i].ptr])
    BY <2>1, HandleIsTyped
  <2>3. Consistent(m_handles[i], device[m_handles[i].ptr]) /\ Updated(m_handles[i], device[m_handles[i].ptr], m_position)
    BY <2>1 DEF HeardInv, HandleHeard
  <2> QED
    BY <2>1, <2>2, <2>3, UpdatedIsHeard DEF Heard
<1>2. HeardInv /\ [Next]_vars => HeardInv'
  BY NextHears
<1> QED
  BY <1>1, <1>2, InitHears, PTL DEF Spec
------------------------------------------------------------------------------
(* A value that is animated (AnimateableProperty), any number of which a   *)
(* sequence, its entries and effects have.                                 *)

Ranges == [start : Nat, end : Nat]
Inside(f, u) == \E i \in 1 .. Len(u) : u[i].start <= f /\ f <= u[i].end
Ordered(u) ==
    /\ \A i \in 1 .. Len(u) : u[i].start <= u[i].end
    /\ \A i, j \in 1 .. Len(u) : i < j => u[i].end < u[j].start

\* list is what is left of the first k ranges of u when the frames from p to q - 1 go.
Cut(list, u, k, p, q) ==
    /\ list \in Seq(Ranges) /\ Ordered(list)
    /\ \A i \in 1 .. Len(list) : \E m \in 1 .. k :
           /\ u[m].start <= list[i].start /\ list[i].end <= u[m].end
           /\ list[i].start = u[m].start \/ list[i].start = q
    /\ \A f \in Nat : Inside(f, list) <=>
           f \notin p .. q - 1 /\ \E m \in 1 .. k : u[m].start <= f /\ f <= u[m].end

\* The parts of one range.
LEMMA PartsAreCut ==
    ASSUME NEW r \in Ranges, r.start <= r.end, NEW p \in Nat, NEW n \in Nat, n > 0,
           NEW ps, ps = Parts(r, p, n)
    PROVE  Cut(ps, <<r>>, 1, p, p + n)
<1> DEFINE q == p + n
<1>1. r.start \in Nat /\ r.end \in Nat /\ q \in Nat /\ p < q
  BY DEF Ranges
<1>2. CASE r.end < p \/ r.start >= q
  <2>1. ps = <<r>>
    BY <1>2 DEF Parts
  <2>2. ps \in Seq(Ranges) /\ Len(ps) = 1 /\ ps[1] = r
    BY <2>1
  <2>3. \A f \in Nat : r.start <= f /\ f <= r.end => f \notin p .. q - 1
    BY <1>1, <1>2
  <2>4. \A i \in 1 .. 1 : i = 1
    OBVIOUS
  <2> HIDE DEF q
  <2> QED
    BY <1>1, <2>2, <2>3, <2>4 DEF Cut, Ordered, Inside, q
<1>3. CASE ~(r.end < p \/ r.start >= q)
  <2> DEFINE a == [r EXCEPT !.end = p - 1]
             z == [r EXCEPT !.start = q]
             first == IF r.start < p THEN <<a>> ELSE <<>>
             second == IF q <= r.end THEN <<z>> ELSE <<>>
  <2>1. ps = first \o second
    BY <1>3 DEF Parts
  <2>2. /\ r.start < p => a \in Ranges /\ a.start = r.start /\ a.end = p - 1
        /\ z \in Ranges /\ z.start = q /\ z.end = r.end
    BY <1>1 DEF Ranges
  <2> HIDE DEF a, z, q
  <2>3. CASE r.start < p /\ q <= r.end
    <3>0. first = <<a>> /\ second = <<z>>
      BY <2>3
    <3> HIDE DEF first, second
    <3>1. /\ first \in Seq(Ranges) /\ Len(first) = 1 /\ first[1] = a
          /\ second \in Seq(Ranges) /\ Len(second) = 1 /\ second[1] = z
      BY <2>2, <2>3, <3>0
    <3>2. ps \in Seq(Ranges) /\ Len(ps) = 2 /\ ps[1] = a /\ ps[2] = z
      <4>0. first \in Seq(Ranges) /\ second \in Seq(Ranges)
        BY <3>1
      <4>1. /\ first \o second \in Seq(Ranges) /\ Len(first \o second) = Len(first) + Len(second)
            /\ \A i \in 1 .. Len(first) + Len(second) :
                   (first \o second)[i] = IF i <= Len(first) THEN first[i] ELSE second[i - Len(first)]
        BY ONLY <4>0, ConcatProperties
      <4>2. 1 \in 1 .. 1 + 1 /\ 2 \in 1 .. 1 + 1 /\ 2 - 1 = 1 /\ ~(2 <= 1)
        OBVIOUS
      <4> QED
        BY <2>1, <3>1, <4>1, <4>2
    <3>3. \A i \in 1 .. 2 : i = 1 \/ i = 2
      OBVIOUS
    <3>4. \A f \in Nat : (f \notin p .. q - 1 /\ r.start <= f /\ f <= r.end)
                             <=> (a.start <= f /\ f <= a.end) \/ (z.start <= f /\ f <= z.end)
      BY <1>1, <1>3, <2>2, <2>3
    <3>5. Ordered(ps)
      BY <1>1, <2>2, <2>3, <3>2, <3>3 DEF Ordered
    <3>6. \A f \in Nat : Inside(f, ps) <=> (a.start <= f /\ f <= a.end) \/ (z.start <= f /\ f <= z.end)
      BY <3>2, <3>3 DEF Inside
    <3> QED
      BY <1>1, <2>2, <2>3, <3>2, <3>3, <3>4, <3>5, <3>6 DEF Cut, q
  <2>4. CASE r.start < p /\ ~(q <= r.end)
    <3>1. ps = <<a>>
      BY <2>1, <2>4
    <3>2. ps \in Seq(Ranges) /\ Len(ps) = 1 /\ ps[1] = a
      BY <2>2, <2>4, <3>1
    <3>3. \A i \in 1 .. 1 : i = 1
      OBVIOUS
    <3>4. \A f \in Nat : (f \notin p .. q - 1 /\ r.start <= f /\ f <= r.end) <=> (a.start <= f /\ f <= a.end)
      BY <1>1, <1>3, <2>2, <2>4
    <3>5. Ordered(ps)
      BY <1>1, <2>2, <2>4, <3>2, <3>3 DEF Ordered
    <3>6. \A f \in Nat : Inside(f, ps) <=> (a.start <= f /\ f <= a.end)
      BY <3>2, <3>3 DEF Inside
    <3> QED
      BY <1>1, <1>3, <2>2, <2>4, <3>2, <3>3, <3>4, <3>5, <3>6 DEF Cut, q
  <2>5. CASE ~(r.start < p) /\ q <= r.end
    <3>1. ps = <<z>>
      BY <2>1, <2>5
    <3>2. ps \in Seq(Ranges) /\ Len(ps) = 1 /\ ps[1] = z
      BY <2>2, <2>5, <3>1
    <3>3. \A i \in 1 .. 1 : i = 1
      OBVIOUS
    <3>4. \A f \in Nat : (f \notin p .. q - 1 /\ r.start <= f /\ f <= r.end) <=> (z.start <= f /\ f <= z.end)
      BY <1>1, <1>3, <2>2, <2>5
    <3>5. Ordered(ps)
      BY <1>1, <2>2, <2>5, <3>2, <3>3 DEF Ordered
    <3>6. \A f \in Nat : Inside(f, ps) <=> (z.start <= f /\ f <= z.end)
      BY <3>2, <3>3 DEF Inside
    <3> QED
      BY <1>1, <1>3, <2>2, <2>5, <3>2, <3>3, <3>4, <3>5, <3>6 DEF Cut, q
  <2>6. CASE ~(r.start < p) /\ ~(q <= r.end)
    <3>1. ps = <<>>
      BY <2>1, <2>6
    <3>2. ps \in Seq(Ranges) /\ Len(ps) = 0
      BY <3>1
    <3>4. \A f \in Nat : ~(f \notin p .. q - 1 /\ r.start <= f /\ f <= r.end)
      BY <1>1, <1>3, <2>6
    <3>5. Ordered(ps)
      BY <3>2 DEF Ordered
    <3>6. \A f \in Nat : ~Inside(f, ps)
      BY <3>2 DEF Inside
    <3>7. \A m \in 1 .. 1 : <<r>>[m] = r
      OBVIOUS
    <3> QED
      BY <3>2, <3>4, <3>5, <3>6, <3>7 DEF Cut, q
  <2> QED
    BY <2>3, <2>4, <2>5, <2>6
<1> QED
  BY <1>2, <1>3

\* What is left of one range more.
LEMMA CutAppends ==
    ASSUME NEW u \in Seq(Ranges), Ordered(u), NEW p \in Nat, NEW q \in Nat,
           NEW k \in Nat, k < Len(u), NEW list, Cut(list, u, k, p, q),
           NEW ps, Cut(ps, <<u[k + 1]>>, 1, p, q)
    PROVE  Cut(list \o ps, u, k + 1, p, q)
<1> DEFINE r == u[k + 1]
           new == list \o ps
<1>0. Len(u) \in Nat /\ k + 1 \in 1 .. Len(u)
  BY LenProperties
<1>1. r \in Ranges /\ r.start \in Nat /\ r.end \in Nat
  <2>1. r \in Ranges
    BY <1>0, ElementOfSeq
  <2> QED
    BY <2>1 DEF Ranges
<1>2. PICK N \in Nat, M \in Nat : N = Len(list) /\ M = Len(ps)
  BY LenProperties DEF Cut
<1>3. /\ new \in Seq(Ranges) /\ Len(new) = N + M
      /\ \A i \in 1 .. N + M : new[i] = IF i <= N THEN list[i] ELSE ps[i - N]
  BY <1>2, ConcatProperties DEF Cut
<1>4. /\ \A i \in 1 .. N : i \in 1 .. N + M /\ new[i] = list[i]
      /\ \A i \in 1 .. M : N + i \in 1 .. N + M /\ new[N + i] = ps[i]
      /\ \A i \in 1 .. N + M : i \in 1 .. N \/ \E j \in 1 .. M : i = N + j
  <2>1. ASSUME NEW i \in 1 .. N + M PROVE i \in 1 .. N \/ \E j \in 1 .. M : i = N + j
    <3>1. i \in 1 .. N \/ (i - N \in 1 .. M /\ i = N + (i - N))
      OBVIOUS
    <3> QED
      BY <3>1
  <2>2. ASSUME NEW i \in 1 .. N PROVE i \in 1 .. N + M /\ new[i] = list[i]
    <3>1. i \in 1 .. N + M /\ i <= N
      OBVIOUS
    <3> HIDE DEF new
    <3> QED
      BY <1>3, <3>1
  <2>3. ASSUME NEW i \in 1 .. M PROVE N + i \in 1 .. N + M /\ new[N + i] = ps[i]
    <3>1. N + i \in 1 .. N + M /\ ~(N + i <= N) /\ N + i - N = i
      OBVIOUS
    <3> HIDE DEF new
    <3> QED
      BY <1>3, <3>1
  <2> QED
    BY <2>1, <2>2, <2>3
<1>5. <<r>>[1] = r /\ \A m \in 1 .. 1 : m = 1
  OBVIOUS
<1>6. /\ \A i \in 1 .. M : /\ r.start <= ps[i].start /\ ps[i].end <= r.end
                           /\ ps[i].start = r.start \/ ps[i].start = q
      /\ \A f \in Nat : Inside(f, ps) <=> f \notin p .. q - 1 /\ r.start <= f /\ f <= r.end
  BY <1>2, <1>5 DEF Cut
<1>7. \A i \in 1 .. N : list[i].start \in Nat /\ list[i].end \in Nat
  <2>1. \A i \in 1 .. N : list[i] \in Ranges
    BY <1>2, ElementOfSeq DEF Cut
  <2> QED
    BY <2>1 DEF Ranges
<1>8. \A i \in 1 .. M : ps[i].start \in Nat /\ ps[i].end \in Nat
  <2>1. \A i \in 1 .. M : ps[i] \in Ranges
    BY <1>2, ElementOfSeq DEF Cut
  <2> QED
    BY <2>1 DEF Ranges
<1>9. \A m \in 1 .. k : u[m].end \in Nat /\ u[m].end < r.start
  <2>1. \A m \in 1 .. k : m \in 1 .. Len(u) /\ m < k + 1
    BY <1>0
  <2>2. \A m \in 1 .. k : u[m] \in Ranges
    BY <2>1, ElementOfSeq
  <2> QED
    BY <1>0, <2>1, <2>2 DEF Ordered, Ranges
<1>10. \A m : m \in 1 .. k + 1 <=> m \in 1 .. k \/ m = k + 1
  OBVIOUS
<1> HIDE DEF r
<1>11. Ordered(new)
  <2>1. ASSUME NEW i \in 1 .. N + M PROVE new[i].start <= new[i].end
    BY <1>2, <1>4 DEF Cut, Ordered
  <2>2. ASSUME NEW i \in 1 .. N + M, NEW j \in 1 .. N + M, i < j PROVE new[i].end < new[j].start
    <3>1. CASE i \in 1 .. N /\ j \in 1 .. N
      BY <1>2, <1>4, <2>2, <3>1 DEF Cut, Ordered
    <3>2. CASE i \in 1 .. N /\ \E l \in 1 .. M : j = N + l
      <4>1. PICK l \in 1 .. M : j = N + l
        BY <3>2
      <4>2. PICK m \in 1 .. k : list[i].end <= u[m].end
        BY <1>2, <3>2 DEF Cut
      <4>3. new[i] = list[i] /\ new[j] = ps[l]
        BY <1>4, <3>2, <4>1
      <4>4. list[i].end < r.start
        <5>1. list[i].end \in Nat /\ u[m].end \in Nat /\ u[m].end < r.start /\ r.start \in Nat
          BY <1>1, <1>7, <1>9, <3>2 DEF r
        <5> QED
          BY ONLY <4>2, <5>1
      <4>5. list[i].end \in Nat /\ r.start \in Nat /\ ps[l].start \in Nat /\ r.start <= ps[l].start
        BY <1>1, <1>6, <1>7, <1>8, <3>2 DEF r
      <4>6. \A x, y, w \in Nat : x < y /\ y <= w => x < w
        OBVIOUS
      <4>7. list[i].end < ps[l].start
        BY <4>4, <4>5, <4>6
      <4> HIDE DEF new
      <4> QED
        BY <4>3, <4>7
    <3>3. CASE (\E h \in 1 .. M : i = N + h) /\ \E l \in 1 .. M : j = N + l
      <4>1. PICK h \in 1 .. M, l \in 1 .. M : i = N + h /\ j = N + l
        BY <3>3
      <4>2. new[i] = ps[h] /\ new[j] = ps[l]
        BY <1>4, <4>1
      <4>3. h < l
        BY <2>2, <4>1
      <4> QED
        BY <1>2, <4>2, <4>3 DEF Cut, Ordered
    <3>4. CASE (\E h \in 1 .. M : i = N + h) /\ j \in 1 .. N
      BY <2>2, <3>4
    <3> QED
      BY <1>4, <3>1, <3>2, <3>3, <3>4
  <2> HIDE DEF new
  <2> QED
    BY <1>3, <2>1, <2>2 DEF Ordered
<1>12. ASSUME NEW i \in 1 .. N + M
       PROVE  \E m \in 1 .. k + 1 :
                 /\ u[m].start <= new[i].start /\ new[i].end <= u[m].end
                 /\ new[i].start = u[m].start \/ new[i].start = q
  <2>1. CASE i \in 1 .. N
    <3>1. new[i] = list[i]
      BY <1>4, <2>1
    <3>2. PICK m \in 1 .. k : /\ u[m].start <= list[i].start /\ list[i].end <= u[m].end
                              /\ list[i].start = u[m].start \/ list[i].start = q
      BY <1>2, <2>1 DEF Cut
    <3> HIDE DEF new
    <3> QED
      BY <1>10, <3>1, <3>2
  <2>2. CASE \E j \in 1 .. M : i = N + j
    <3>1. PICK j \in 1 .. M : i = N + j
      BY <2>2
    <3>2. new[i] = ps[j]
      BY <1>4, <3>1
    <3>3. k + 1 \in 1 .. k + 1
      BY <1>10
    <3> HIDE DEF new
    <3> QED
      BY <1>6, <3>1, <3>2, <3>3 DEF r
  <2> QED
    BY <1>4, <2>1, <2>2
<1>13. ASSUME NEW f \in Nat
       PROVE  Inside(f, new) <=> f \notin p .. q - 1 /\ \E m \in 1 .. k + 1 : u[m].start <= f /\ f <= u[m].end
  <2>1. Inside(f, new) <=> Inside(f, list) \/ Inside(f, ps)
    <3>1. Inside(f, list) => Inside(f, new)
      BY <1>2, <1>3, <1>4 DEF Inside
    <3>2. Inside(f, ps) => Inside(f, new)
      BY <1>2, <1>3, <1>4 DEF Inside
    <3>3. Inside(f, new) => Inside(f, list) \/ Inside(f, ps)
      BY <1>2, <1>3, <1>4 DEF Inside
    <3> QED
      BY <3>1, <3>2, <3>3
  <2>2. Inside(f, list) <=> f \notin p .. q - 1 /\ \E m \in 1 .. k : u[m].start <= f /\ f <= u[m].end
    BY DEF Cut
  <2>3. (\E m \in 1 .. k + 1 : u[m].start <= f /\ f <= u[m].end)
            <=> (\E m \in 1 .. k : u[m].start <= f /\ f <= u[m].end) \/ (r.start <= f /\ f <= r.end)
    BY <1>10 DEF r
  <2> QED
    BY <1>6, <2>1, <2>2, <2>3
<1> HIDE DEF new
<1> QED
  BY <1>3, <1>11, <1>12, <1>13 DEF Cut, new

\* FlattenSeq terminates.
Flattens(ss, N, g) == g = [i \in 1 .. N |-> IF i = 1 THEN ss[i] ELSE g[i - 1] \o ss[i]]

LEMMA FlattenExists ==
    ASSUME NEW ss, NEW N \in Nat
    PROVE  \E g : Flattens(ss, N, g)
<1> DEFINE A(g, m) == [i \in 1 .. m |-> IF i = 1 THEN ss[i] ELSE g[i - 1] \o ss[i]]
           bad == {m \in Nat : ~(\E g : g = A(g, m))}
<1>1. ASSUME bad # {} PROVE FALSE
  <2>1. PICK m \in bad : \A k \in bad : m <= k
    BY <1>1, LeastNumber
  <2>2. m # 0
    <3>1. ASSUME NEW g, g = [i \in 1 .. 0 |-> 0] PROVE g = A(g, 0)
      <4>1. 1 .. 0 = {}
        OBVIOUS
      <4> QED
        BY <3>1, <4>1
    <3>2. PICK g : g = [i \in 1 .. 0 |-> 0]
      OBVIOUS
    <3> HIDE DEF A
    <3> QED
      BY <2>1, <3>1, <3>2
  <2>3. m \in Nat /\ m - 1 \in Nat /\ m - 1 \notin bad
    <3>1. m \in Nat
      BY <2>1
    <3> HIDE DEF bad
    <3> QED
      BY <2>1, <2>2, <3>1
  <2>4. PICK a : a = A(a, m - 1)
    BY <2>3
  <2> DEFINE a2 == [i \in 1 .. m |-> IF i = m THEN (IF i = 1 THEN ss[i] ELSE a[i - 1] \o ss[i]) ELSE a[i]]
  <2>5. a2 = A(a2, m)
    <3>1. \A i \in 1 .. m - 1 : a[i] = IF i = 1 THEN ss[i] ELSE a[i - 1] \o ss[i]
      BY <2>4
    <3>2. ASSUME NEW i \in 1 .. m PROVE a2[i] = IF i = 1 THEN ss[i] ELSE a2[i - 1] \o ss[i]
      <4>1. i # 1 => i - 1 \in 1 .. m /\ i - 1 # m
        BY <2>3
      <4>2. i # m => i \in 1 .. m - 1
        BY <2>3
      <4> QED
        BY <3>1, <4>1, <4>2
    <3> QED
      BY <3>2
  <2> HIDE DEF A, a2
  <2>6. m \notin bad
    BY <2>5
  <2> QED
    BY <2>1, <2>6
<1> QED
  BY <1>1 DEF Flattens

\* The walk over the ranges.
LEMMA FlattenCuts ==
    ASSUME NEW u \in Seq(Ranges), Ordered(u), NEW p \in Nat, NEW n \in Nat, n > 0,
           NEW list, list = FlattenSeq([i \in DOMAIN u |-> Parts(u[i], p, n)])
    PROVE  Cut(list, u, Len(u), p, p + n)
<1> DEFINE ss == [i \in DOMAIN u |-> Parts(u[i], p, n)]
<1>1. PICK N \in Nat : N = Len(u) /\ DOMAIN u = 1 .. N
  BY LenProperties
<1>2. Len(ss) = N /\ \A i \in 1 .. N : ss[i] = Parts(u[i], p, n)
  BY <1>1
<1>3. p + n \in Nat
  OBVIOUS
<1>4. CASE N = 0
  <2>1. list = ss
    BY <1>2, <1>4 DEF FlattenSeq
  <2>2. ss = <<>>
    BY <1>1, <1>4
  <2>3. list \in Seq(Ranges) /\ Len(list) = 0
    BY <2>1, <2>2
  <2>4. Ordered(list) /\ \A f : ~Inside(f, list)
    BY <2>3 DEF Ordered, Inside
  <2>5. 1 .. N = {}
    BY <1>4
  <2> QED
    BY <1>1, <2>3, <2>4, <2>5 DEF Cut
<1>5. CASE N > 0
  <2> DEFINE flat == CHOOSE g : Flattens(ss, N, g)
  <2>1. list = flat[N]
    BY <1>2, <1>5 DEF FlattenSeq, Flattens
  <2>2. Flattens(ss, N, flat)
    <3>1. \E g : Flattens(ss, N, g)
      BY FlattenExists
    <3> QED
      BY <3>1
  <2> HIDE DEF flat
  <2>3. \A i \in 1 .. N : flat[i] = IF i = 1 THEN ss[i] ELSE flat[i - 1] \o ss[i]
    BY <2>2 DEF Flattens
  <2> HIDE DEF ss
  <2> DEFINE bad == {k \in 1 .. N : ~Cut(flat[k], u, k, p, p + n)}
  <2>4. \A k \in 1 .. N : Cut(ss[k], <<u[k]>>, 1, p, p + n)
    <3>1. ASSUME NEW k \in 1 .. N PROVE Cut(ss[k], <<u[k]>>, 1, p, p + n)
      <4>1. u[k] \in Ranges /\ u[k].start <= u[k].end
        BY <1>1, ElementOfSeq DEF Ordered
      <4> QED
        BY <1>2, <4>1, PartsAreCut
    <3> QED
      BY <3>1
  <2>5. Cut(flat[1], u, 1, p, p + n)
    <3>1. 1 \in 1 .. N /\ <<u[1]>>[1] = u[1] /\ \A m \in 1 .. 1 : m = 1
      BY <1>5
    <3>2. flat[1] = ss[1]
      BY <2>3, <3>1
    <3> QED
      BY <2>4, <3>1, <3>2 DEF Cut
  <2>6. ASSUME NEW k \in 1 .. N, k # 1, Cut(flat[k - 1], u, k - 1, p, p + n) PROVE Cut(flat[k], u, k, p, p + n)
    <3>1. k - 1 \in Nat /\ k - 1 < Len(u) /\ (k - 1) + 1 = k
      BY <1>1, <2>6
    <3>2. Cut(flat[k - 1] \o ss[k], u, k, p, p + n)
      BY <1>3, <2>4, <2>6, <3>1, CutAppends
    <3> QED
      BY <2>3, <2>6, <3>2
  <2>7. ASSUME bad # {} PROVE FALSE
    <3>1. bad \subseteq Nat
      OBVIOUS
    <3>2. PICK m \in bad : \A k \in bad : m <= k
      <4> HIDE DEF bad
      <4> QED
        BY <2>7, <3>1, LeastNumber
    <3>3. m # 1
      BY <2>5, <3>2
    <3>4. m \in 1 .. N /\ m - 1 \in 1 .. N /\ m - 1 \notin bad
      BY <3>2, <3>3
    <3> QED
      BY <2>6, <3>2, <3>3, <3>4
  <2>8. N \in 1 .. N
    BY <1>5
  <2> QED
    BY <1>1, <2>1, <2>7, <2>8
<1> QED
  BY <1>4, <1>5

\* Each of the n frames of b is as it was written, or repeats the one before it; u are the
\* ranges that were not written, and w what was.
Repeats(b, w, d, n) ==
    \A f \in 0 .. n - 1 : b[f] = IF f \in DOMAIN w THEN w[f] ELSE IF f = 0 THEN d ELSE b[f - 1]
Kept(b, u, w, d, n) ==
    /\ DOMAIN w \subseteq 0 .. n - 1 /\ n - 1 \in DOMAIN w
    /\ u \in Seq(Ranges) /\ Ordered(u)
    /\ \A i \in 1 .. Len(u) : u[i].end < n /\ (u[i].start = 0 \/ u[i].start - 1 \in DOMAIN w)
    /\ \A f \in 0 .. n - 1 : Inside(f, u) <=> f \notin DOMAIN w
    /\ Repeats(b, w, d, n)

\* e and w2 are b, w and the data from p to q - 1.
Copied(e, w2, b, data, w, p, q, n, m) ==
    /\ p \in Nat /\ q \in Nat /\ p < q /\ n \in Nat /\ n > 0 /\ m = IF n >= q THEN n ELSE q
    /\ e \in [0 .. m - 1 -> Values]
    /\ \A f \in 0 .. m - 1 : e[f] = IF f \in p .. q - 1 THEN data[f] ELSE IF f < n THEN b[f] ELSE First
    /\ DOMAIN w2 = (p .. q - 1) \cup DOMAIN w
    /\ \A f \in p .. q - 1 : w2[f] = data[f]
    /\ \A f \in DOMAIN w : f \notin p .. q - 1 => w2[f] = w[f]

\* A write behind the end.
LEMMA GapIsKept ==
    ASSUME NEW e, NEW w2, NEW b, NEW data, NEW w, NEW p, NEW q, NEW n, NEW m, NEW u, NEW d,
           Copied(e, w2, b, data, w, p, q, n, m), Kept(b, u, w, d, n), n < p
    PROVE  /\ Cached(e, n, p - 1) \in [0 .. m - 1 -> Values]
           /\ Kept(Cached(e, n, p - 1), Append(u, [start |-> n, end |-> p - 1]), w2, d, m)
<1> SUFFICES ASSUME NEW u2, u2 = Append(u, [start |-> n, end |-> p - 1]), NEW b2, b2 = Cached(e, n, p - 1)
             PROVE  b2 \in [0 .. m - 1 -> Values] /\ Kept(b2, u2, w2, d, m)
  OBVIOUS
<1>1. /\ p \in Nat /\ q \in Nat /\ p < q /\ n \in Nat /\ n > 0 /\ m = q
      /\ e \in [0 .. m - 1 -> Values] /\ DOMAIN e = 0 .. m - 1
      /\ \A f \in 0 .. m - 1 : e[f] = IF f \in p .. q - 1 THEN data[f] ELSE IF f < n THEN b[f] ELSE First
  BY DEF Copied
<1>2. /\ DOMAIN b2 = 0 .. m - 1
      /\ \A f \in 0 .. m - 1 : b2[f] = IF f \in n .. p - 1 THEN e[n - 1] ELSE e[f]
  BY <1>1 DEF Cached
<1>3. n - 1 \in 0 .. m - 1 /\ n - 1 \notin n .. p - 1 /\ n - 1 \notin p .. q - 1
  BY <1>1
<1>4. b2 \in [0 .. m - 1 -> Values]
  <2>1. b2 = [f \in 0 .. m - 1 |-> IF f \in n .. p - 1 THEN e[n - 1] ELSE e[f]]
    BY <1>1 DEF Cached
  <2> QED
    BY <1>1, <1>3, <2>1
<1>5. /\ DOMAIN w \subseteq 0 .. n - 1 /\ n - 1 \in DOMAIN w
      /\ DOMAIN w2 = (p .. q - 1) \cup DOMAIN w
      /\ \A f \in p .. q - 1 : w2[f] = data[f]
      /\ \A f \in DOMAIN w : w2[f] = w[f]
  BY <1>1 DEF Kept, Copied
<1>6. DOMAIN w2 \subseteq 0 .. m - 1 /\ m - 1 \in DOMAIN w2
  BY <1>1, <1>5
<1>7. PICK N \in Nat : N = Len(u)
  BY LenProperties DEF Kept
<1>8. /\ u2 \in Seq(Ranges) /\ Len(u2) = N + 1 /\ u2[N + 1] = [start |-> n, end |-> p - 1]
      /\ \A i \in 1 .. N : u2[i] = u[i]
  <2>1. [start |-> n, end |-> p - 1] \in Ranges
    BY <1>1 DEF Ranges
  <2> QED
    BY <1>7, <2>1, AppendProperties DEF Kept
<1>9. \A i \in 1 .. N + 1 : i \in 1 .. N \/ i = N + 1
  OBVIOUS
<1>10. /\ \A i \in 1 .. N : /\ u[i].start <= u[i].end /\ u[i].start \in Nat /\ u[i].end \in Nat
                            /\ u[i].end < n /\ (u[i].start = 0 \/ u[i].start - 1 \in DOMAIN w)
       /\ \A i, j \in 1 .. N : i < j => u[i].end < u[j].start
  <2>1. \A i \in 1 .. N : u[i] \in Ranges
    BY <1>7, ElementOfSeq DEF Kept
  <2> QED
    BY <1>7, <2>1 DEF Kept, Ordered, Ranges
<1>11. Ordered(u2)
  <2>1. ASSUME NEW i \in 1 .. N + 1, NEW j \in 1 .. N + 1, i < j PROVE u2[i].end < u2[j].start
    <3>1. i \in 1 .. N
      BY <2>1
    <3>2. u2[i] = u[i]
      BY <1>8, <3>1
    <3>3. CASE j \in 1 .. N
      <4>1. u2[j] = u[j]
        BY <1>8, <3>3
      <4> QED
        BY <1>10, <2>1, <3>1, <3>2, <3>3, <4>1
    <3>4. CASE j = N + 1
      BY <1>8, <1>10, <3>1, <3>2, <3>4
    <3> QED
      BY <1>9, <3>3, <3>4
  <2>2. ASSUME NEW i \in 1 .. N + 1 PROVE u2[i].start <= u2[i].end
    BY <1>1, <1>8, <1>9, <1>10
  <2> QED
    BY <1>8, <2>1, <2>2 DEF Ordered
<1>12. \A i \in 1 .. N + 1 : u2[i].end < m /\ (u2[i].start = 0 \/ u2[i].start - 1 \in DOMAIN w2)
  BY <1>1, <1>5, <1>8, <1>9, <1>10
<1>13. ASSUME NEW f \in 0 .. m - 1 PROVE Inside(f, u2) <=> f \notin DOMAIN w2
  <2>1. Inside(f, u2) <=> Inside(f, u) \/ f \in n .. p - 1
    <3>1. Inside(f, u) => Inside(f, u2)
      BY <1>7, <1>8 DEF Inside
    <3>2. f \in n .. p - 1 => Inside(f, u2)
      BY <1>1, <1>7, <1>8 DEF Inside
    <3>3. Inside(f, u2) => Inside(f, u) \/ f \in n .. p - 1
      BY <1>1, <1>7, <1>8, <1>9 DEF Inside
    <3> QED
      BY <3>1, <3>2, <3>3
  <2>2. CASE f \in 0 .. n - 1
    BY <1>1, <1>5, <2>1, <2>2 DEF Kept
  <2>3. CASE f \notin 0 .. n - 1
    <3>1. ~Inside(f, u)
      BY <1>1, <1>7, <1>10, <2>3 DEF Inside
    <3> QED
      BY <1>1, <1>5, <2>1, <2>3, <3>1
  <2> QED
    BY <2>2, <2>3
<1>14. ASSUME NEW f \in 0 .. m - 1
       PROVE  b2[f] = IF f \in DOMAIN w2 THEN w2[f] ELSE IF f = 0 THEN d ELSE b2[f - 1]
  <2>1. CASE f \in 0 .. n - 1
    <3>1. f \notin n .. p - 1 /\ f \notin p .. q - 1 /\ f < n
      BY <1>1, <2>1
    <3>2. b2[f] = b[f]
      BY <1>1, <1>2, <3>1
    <3>3. f # 0 => b2[f - 1] = b[f - 1]
      <4>1. f # 0 => f - 1 \in 0 .. m - 1 /\ f - 1 \notin n .. p - 1 /\ f - 1 \notin p .. q - 1 /\ f - 1 < n
        BY <1>1, <2>1
      <4> QED
        BY <1>1, <1>2, <4>1
    <3>4. b[f] = IF f \in DOMAIN w THEN w[f] ELSE IF f = 0 THEN d ELSE b[f - 1]
      BY <2>1 DEF Kept, Repeats
    <3> QED
      BY <1>5, <3>1, <3>2, <3>3, <3>4
  <2>2. CASE f \in n .. p - 1
    <3>1. f \notin DOMAIN w2 /\ f # 0
      BY <1>1, <1>5, <2>2
    <3>2. b2[f] = e[n - 1]
      BY <1>2, <2>2
    <3>3. b2[f - 1] = e[n - 1]
      <4>1. f - 1 \in 0 .. m - 1 /\ (f - 1 \in n .. p - 1 \/ f - 1 = n - 1)
        BY <1>1, <2>2
      <4> QED
        BY <1>2, <1>3, <4>1
    <3> QED
      BY <3>1, <3>2, <3>3
  <2>3. CASE f \in p .. q - 1
    <3>1. f \notin n .. p - 1
      BY <1>1, <2>3
    <3> QED
      BY <1>1, <1>2, <1>5, <2>3, <3>1
  <2> QED
    BY <1>1, <2>1, <2>2, <2>3
<1> QED
  BY <1>4, <1>6, <1>8, <1>11, <1>12, <1>13, <1>14 DEF Kept, Repeats

\* The first write of frames: those before them repeat the static value.
Lead(p) == <<[start |-> 0, end |-> p - 1]>>

LEMMA FirstIsKept ==
    ASSUME NEW e, NEW w2, NEW b, NEW data, NEW w, NEW p, NEW q, NEW n, NEW m, NEW d,
           Copied(e, w2, b, data, w, p, q, n, m), DOMAIN w = {}, b[0] = d, n <= q
    PROVE  /\ p > 0 => /\ Cached(e, 1, p - 1) \in [0 .. m - 1 -> Values]
                       /\ Kept(Cached(e, 1, p - 1), Lead(p), w2, d, m)
           /\ p = 0 => e \in [0 .. m - 1 -> Values] /\ Kept(e, <<>>, w2, d, m)
<1> SUFFICES ASSUME NEW u2, NEW b2,
                    \/ p > 0 /\ u2 = Lead(p) /\ b2 = Cached(e, 1, p - 1)
                    \/ p = 0 /\ u2 = <<>> /\ b2 = e
             PROVE  b2 \in [0 .. m - 1 -> Values] /\ Kept(b2, u2, w2, d, m)
  OBVIOUS
<1>1. /\ p \in Nat /\ q \in Nat /\ p < q /\ n \in Nat /\ n > 0 /\ m = q
      /\ e \in [0 .. m - 1 -> Values] /\ DOMAIN e = 0 .. m - 1
      /\ \A f \in 0 .. m - 1 : e[f] = IF f \in p .. q - 1 THEN data[f] ELSE IF f < n THEN b[f] ELSE First
  BY DEF Copied
<1>2. DOMAIN w2 = p .. q - 1 /\ \A f \in p .. q - 1 : w2[f] = data[f]
  BY DEF Copied
<1>3. DOMAIN w2 \subseteq 0 .. m - 1 /\ m - 1 \in DOMAIN w2
  BY <1>1, <1>2
<1>4. CASE p = 0
  <2>1. u2 = <<>> /\ b2 = e
    BY <1>4
  <2>2. u2 \in Seq(Ranges) /\ Len(u2) = 0
    BY <2>1
  <2>3. Ordered(u2) /\ \A f : ~Inside(f, u2)
    BY <2>2 DEF Ordered, Inside
  <2>4. \A f \in 0 .. m - 1 : f \in DOMAIN w2 /\ b2[f] = w2[f]
    BY <1>1, <1>2, <1>4, <2>1
  <2> QED
    BY <1>1, <1>3, <2>1, <2>2, <2>3, <2>4 DEF Kept, Repeats
<1>5. CASE p > 0
  <2> DEFINE r == [start |-> 0, end |-> p - 1]
  <2>1. u2 = Lead(p) /\ b2 = Cached(e, 1, p - 1)
    BY <1>5
  <2>2. u2 \in Seq(Ranges) /\ Len(u2) = 1 /\ u2[1].start = 0 /\ u2[1].end = p - 1
    <3>1. r \in Ranges /\ r.start = 0 /\ r.end = p - 1
      BY <1>1, <1>5 DEF Ranges
    <3>2. u2 = <<r>>
      BY <2>1 DEF Lead
    <3> HIDE DEF r
    <3> QED
      BY <3>1, <3>2
  <2>3. \A i \in 1 .. 1 : i = 1
    OBVIOUS
  <2>4. Ordered(u2) /\ \A f \in 0 .. m - 1 : Inside(f, u2) <=> f \notin DOMAIN w2
    <3>1. \A f \in 0 .. m - 1 : Inside(f, u2) <=> 0 <= f /\ f <= p - 1
      BY <2>2, <2>3 DEF Inside
    <3>2. Ordered(u2)
      BY <1>1, <1>5, <2>2, <2>3 DEF Ordered
    <3> QED
      BY <1>1, <1>2, <3>1, <3>2
  <2>5. b2 = [f \in 0 .. m - 1 |-> IF f \in 1 .. p - 1 THEN e[0] ELSE e[f]]
    BY <1>1, <2>1 DEF Cached
  <2>6. 0 \in 0 .. m - 1 /\ 0 \notin p .. q - 1 /\ e[0] = d
    BY <1>1, <1>5
  <2>7. b2 \in [0 .. m - 1 -> Values]
    BY <1>1, <2>5, <2>6
  <2>8. ASSUME NEW f \in 0 .. m - 1
        PROVE  b2[f] = IF f \in DOMAIN w2 THEN w2[f] ELSE IF f = 0 THEN d ELSE b2[f - 1]
    <3>1. CASE f \in p .. q - 1
      <4>1. f \notin 1 .. p - 1
        BY <1>1, <3>1
      <4> QED
        BY <1>1, <1>2, <2>5, <3>1, <4>1
    <3>2. CASE f \in 0 .. p - 1
      <4>1. f \notin DOMAIN w2
        BY <1>1, <1>2, <3>2
      <4>2. \A g \in 0 .. p - 1 : g \in 0 .. m - 1 /\ b2[g] = d
        BY <1>1, <2>5, <2>6
      <4>3. f # 0 => f - 1 \in 0 .. p - 1
        BY <1>1, <3>2
      <4> QED
        BY <3>2, <4>1, <4>2, <4>3
    <3> QED
      BY <1>1, <3>1, <3>2
  <2>9. \A i \in 1 .. 1 : u2[i].end < m /\ u2[i].start = 0
    BY <1>1, <2>2, <2>3
  <2> QED
    BY <1>3, <2>2, <2>4, <2>7, <2>8, <2>9 DEF Kept, Repeats
<1> QED
  BY <1>1, <1>4, <1>5

\* A write that begins in the animation or right behind it: no range begins where it ends.
LEMMA OverwriteIsKept ==
    ASSUME NEW e, NEW w2, NEW b, NEW data, NEW w, NEW p, NEW q, NEW n, NEW m, NEW d,
           Copied(e, w2, b, data, w, p, q, n, m), Kept(b, m_unknown, w, d, n), p <= n,
           \A i \in 1 .. Len(m_unknown) : m_unknown[i].start # q,
           NEW u2, Cut(u2, m_unknown, Len(m_unknown), p, q),
           NEW b2, b2 = Filled(e, p, q - p)
    PROVE  b2 \in [0 .. m - 1 -> Values] /\ Kept(b2, u2, w2, d, m)
<1> DEFINE u == m_unknown
<1>1. /\ p \in Nat /\ q \in Nat /\ m \in Nat /\ p < q /\ n \in Nat /\ n > 0 /\ n <= m /\ q <= m /\ (m = n \/ m = q)
      /\ e \in [0 .. m - 1 -> Values] /\ DOMAIN e = 0 .. m - 1
      /\ \A f \in 0 .. m - 1 : e[f] = IF f \in p .. q - 1 THEN data[f] ELSE IF f < n THEN b[f] ELSE First
  BY DEF Copied
<1>2. /\ DOMAIN w \subseteq 0 .. n - 1 /\ n - 1 \in DOMAIN w
      /\ DOMAIN w2 = (p .. q - 1) \cup DOMAIN w
      /\ \A f \in p .. q - 1 : w2[f] = data[f]
      /\ \A f \in DOMAIN w : f \notin p .. q - 1 => w2[f] = w[f]
  BY DEF Kept, Copied
<1>3. DOMAIN w2 \subseteq 0 .. m - 1 /\ m - 1 \in DOMAIN w2
  BY <1>1, <1>2
<1>4. PICK N \in Nat : N = Len(u) /\ DOMAIN u = 1 .. N
  BY LenProperties DEF Kept
<1>5. /\ \A i \in 1 .. N : /\ u[i].start <= u[i].end /\ u[i].start \in Nat /\ u[i].end \in Nat
                           /\ u[i].end < n /\ (u[i].start = 0 \/ u[i].start - 1 \in DOMAIN w) /\ u[i].start # q
      /\ \A i, j \in 1 .. N : i < j => u[i].end < u[j].start
  <2>1. \A i \in 1 .. N : u[i] \in Ranges
    BY <1>4, ElementOfSeq DEF Kept
  <2> QED
    BY <1>4, <2>1 DEF Kept, Ordered, Ranges
\* What was not written of the frames before n is in a range, and only that.
<1>6. \A f \in 0 .. n - 1 : f \notin DOMAIN w <=> \E i \in 1 .. N : u[i].start <= f /\ f <= u[i].end
  BY <1>4 DEF Kept, Inside
<1>7. \A f \in 0 .. m - 1 : Inside(f, u2) <=> f \notin DOMAIN w2
  <2>1. ASSUME NEW f \in 0 .. m - 1
        PROVE  Inside(f, u2) <=> f \notin p .. q - 1 /\ \E i \in 1 .. N : u[i].start <= f /\ f <= u[i].end
    BY <1>1, <1>4 DEF Cut
  <2>2. ASSUME NEW f \in 0 .. m - 1, f \notin 0 .. n - 1
        PROVE  f \in p .. q - 1
    BY <1>1, <2>2
  <2> QED
    BY <1>2, <1>6, <2>1, <2>2
<1>8. u2 \in Seq(Ranges) /\ Ordered(u2)
  BY DEF Cut
<1>9. ASSUME NEW i \in 1 .. Len(u2) PROVE u2[i].end < m /\ (u2[i].start = 0 \/ u2[i].start - 1 \in DOMAIN w2)
  <2>1. PICK k \in 1 .. N : /\ u[k].start <= u2[i].start /\ u2[i].end <= u[k].end
                            /\ u2[i].start = u[k].start \/ u2[i].start = q
    BY <1>4 DEF Cut
  <2>2. u2[i] \in Ranges
    BY <1>8, ElementOfSeq
  <2>3. u2[i].end < m
    BY <1>1, <1>5, <2>1, <2>2 DEF Ranges
  <2>4. CASE u2[i].start = q
    <3>1. q - 1 \in p .. q - 1
      BY <1>1
    <3> QED
      BY <1>2, <2>3, <2>4, <3>1
  <2>5. CASE u2[i].start = u[k].start
    BY <1>2, <1>5, <2>3, <2>5
  <2> QED
    BY <2>1, <2>4, <2>5
\* The frames from q on that are filled in again, if any, are the rest of a range.
<1>10. PICK t \in Nat : /\ b2 = [f \in 0 .. m - 1 |-> IF f \in q .. t THEN e[q - 1] ELSE e[f]]
                        /\ t >= q => \E i \in 1 .. N : u[i].start < q /\ q <= u[i].end /\ t = u[i].end
                        /\ t < q => \A i \in 1 .. N : ~(u[i].start < q /\ q <= u[i].end)
  <2> DEFINE after == {i \in 1 .. N : u[i].start < q /\ q <= u[i].end}
  <2>1. p + (q - p) = q
    BY <1>1
  <2>2. b2 = IF after = {} THEN e ELSE Cached(e, q, u[CHOOSE i \in after : TRUE].end)
    <3> DEFINE z == {i \in DOMAIN u : u[i].start < p + (q - p) /\ p + (q - p) <= u[i].end}
    <3>1. b2 = IF z = {} THEN e ELSE Cached(e, p + (q - p), u[CHOOSE i \in z : TRUE].end)
      BY DEF Filled
    <3> HIDE DEF u
    <3>2. z = after
      BY <1>4, <2>1
    <3> HIDE DEF z, after
    <3> QED
      BY <2>1, <3>1, <3>2
  <2>3. CASE after = {}
    <3>1. \A f \in 0 .. m - 1 : f \notin q .. 0
      BY <1>1
    <3>2. e = [f \in 0 .. m - 1 |-> IF f \in q .. 0 THEN e[q - 1] ELSE e[f]]
      BY <1>1, <3>1
    <3>3. \A i \in 1 .. N : ~(u[i].start < q /\ q <= u[i].end)
      BY <2>3
    <3>4. 0 < q /\ ~(0 >= q) /\ 0 \in Nat
      BY <1>1
    <3>5. b2 = e
      BY <2>2, <2>3
    <3> HIDE DEF after
    <3> QED
      BY <3>2, <3>3, <3>4, <3>5
  <2>4. CASE after # {}
    <3>1. PICK i \in after : i = CHOOSE k \in after : TRUE
      BY <2>4
    <3>2. b2 = Cached(e, q, u[i].end)
      BY <2>2, <2>4, <3>1
    <3>3. b2 = [f \in 0 .. m - 1 |-> IF f \in q .. u[i].end THEN e[q - 1] ELSE e[f]]
      BY <1>1, <3>2 DEF Cached
    <3>4. i \in 1 .. N /\ u[i].start < q /\ q <= u[i].end /\ u[i].end \in Nat
      BY <1>5
    <3> HIDE DEF after
    <3>5. ~(u[i].end < q)
      BY <1>1, <3>4
    <3> QED
      BY <3>3, <3>4, <3>5
  <2> QED
    BY <2>3, <2>4
<1> HIDE DEF u
<1>11. q - 1 \in 0 .. m - 1 /\ q - 1 \in p .. q - 1 /\ q - 1 \notin q .. t
  BY <1>1
<1>12. b2 \in [0 .. m - 1 -> Values]
  BY <1>1, <1>10, <1>11
<1>13. ASSUME NEW f \in 0 .. m - 1
       PROVE  b2[f] = IF f \in DOMAIN w2 THEN w2[f] ELSE IF f = 0 THEN d ELSE b2[f - 1]
  <2>1. b2[f] = IF f \in q .. t THEN e[q - 1] ELSE e[f]
    BY <1>10
  \* No written frame is filled in.
  <2>2. f \in q .. t => f \notin DOMAIN w2
    <3>1. SUFFICES ASSUME f \in q .. t PROVE f \notin DOMAIN w2
      OBVIOUS
    <3>2. t >= q
      BY <1>1, <3>1
    <3>3. PICK i \in 1 .. N : u[i].start < q /\ q <= u[i].end /\ t = u[i].end
      BY <1>10, <3>2
    <3>4. u[i].start <= f /\ f <= u[i].end /\ f \in 0 .. n - 1 /\ f \notin p .. q - 1
      BY <1>1, <1>5, <3>1, <3>3
    <3> QED
      BY <1>2, <1>6, <3>4
  <2>3. CASE f \in p .. q - 1
    BY <1>1, <1>2, <2>1, <2>2, <2>3
  <2>4. CASE f \notin p .. q - 1
    <3>1. f \in 0 .. n - 1 /\ e[f] = b[f]
      BY <1>1, <2>4
    <3>2. b[f] = IF f \in DOMAIN w THEN w[f] ELSE IF f = 0 THEN d ELSE b[f - 1]
      BY <3>1 DEF Kept, Repeats
    <3>3. CASE f \in DOMAIN w
      BY <1>2, <2>1, <2>2, <2>4, <3>1, <3>2, <3>3
    <3>4. CASE f \notin DOMAIN w
      <4>1. f \notin DOMAIN w2
        BY <1>2, <2>4, <3>4
      <4>2. PICK j \in 1 .. N : u[j].start <= f /\ f <= u[j].end
        BY <1>6, <3>1, <3>4
      <4>3. CASE f = 0
        <5>1. f \notin q .. t
          BY <1>1, <4>3
        <5> QED
          BY <2>1, <3>1, <3>2, <3>4, <4>1, <4>3, <5>1
      <4>4. CASE f # 0 /\ f \in q .. t
        <5>1. f - 1 \in 0 .. m - 1 /\ (f - 1 \in q .. t \/ f - 1 = q - 1)
          BY <1>1, <4>4
        <5>2. b2[f - 1] = e[q - 1]
          BY <1>10, <1>11, <5>1
        <5> QED
          BY <2>1, <4>1, <4>4, <5>2
      <4>5. CASE f # 0 /\ f \notin q .. t
        <5>1. f - 1 \in 0 .. n - 1 /\ f - 1 \in 0 .. m - 1
          BY <1>1, <3>1, <4>5
        \* Else f would begin a range, or belong to the one that is filled in.
        <5>2. f # q
          <6>1. SUFFICES ASSUME f = q PROVE FALSE
            OBVIOUS
          <6>2. u[j].start < q /\ q <= u[j].end
            BY <1>1, <1>5, <4>2, <6>1
          <6>3. t >= q
            BY <1>1, <1>10, <6>2
          <6> QED
            BY <1>1, <4>5, <6>1, <6>3
        <5>3. f - 1 \notin p .. q - 1
          BY <1>1, <2>4, <5>2
        <5>4. f - 1 \notin q .. t
          <6>1. SUFFICES ASSUME f - 1 \in q .. t PROVE FALSE
            OBVIOUS
          <6>2. PICK i \in 1 .. N : u[i].start < q /\ q <= u[i].end /\ t = u[i].end
            BY <1>1, <1>10, <6>1
          <6>3. f = u[i].end + 1
            <7>1. f \in Nat /\ q \in Nat /\ t \in Nat
              BY <1>1
            <7>2. f = t + 1
              BY <4>5, <6>1, <7>1
            <7> QED
              BY <6>2, <7>2
          <6>4. i < j
            <7>0. /\ u[i].start \in Nat /\ u[i].end \in Nat /\ u[j].end \in Nat
                  /\ u[i].start <= u[i].end /\ (j < i => u[j].end < u[i].start)
              BY <1>5
            <7>1. ~(j < i)
              BY <4>2, <6>3, <7>0
            <7>2. i # j
              BY <1>5, <4>2, <6>3
            <7> QED
              BY <7>1, <7>2
          <6>5. u[j].start = f
            BY <1>5, <4>2, <6>3, <6>4
          <6>6. f - 1 \in DOMAIN w
            BY <1>1, <1>5, <4>5, <6>5
          <6>7. f - 1 = u[i].end /\ u[i].start <= u[i].end
            BY <1>5, <6>3
          <6> QED
            BY <1>6, <5>1, <6>6, <6>7
        <5>5. b2[f - 1] = b[f - 1]
          BY <1>1, <1>10, <5>1, <5>3, <5>4
        <5> QED
          BY <2>1, <3>1, <3>2, <3>4, <4>1, <4>5, <5>5
      <4> QED
        BY <4>3, <4>4, <4>5
    <3> QED
      BY <3>3, <3>4
  <2> QED
    BY <2>3, <2>4
<1> QED
  BY <1>3, <1>7, <1>8, <1>9, <1>12, <1>13 DEF Kept, Repeats

\* The inductive invariant: a value that is not animated is the first of the frames.
AnimInv ==
    /\ m_isAnimated \in BOOLEAN
    /\ \E n \in 1 .. MaxFrame + 1 :
          /\ buffer \in [0 .. n - 1 -> Values]
          /\ IF m_isAnimated THEN Kept(buffer, m_unknown, written, default, n)
             ELSE m_unknown = <<>> /\ DOMAIN written = {} /\ buffer[0] = default

\* Counts of frames.
LEMMA IntervalSize ==
    ASSUME NEW a \in Nat, NEW c \in Nat
    PROVE  Cardinality(a .. a + c - 1) = c
  BY FS_Interval

LEMMA SizeIs ==
    ASSUME NEW n \in Nat, n > 0, DOMAIN buffer = 0 .. n - 1
    PROVE  Size = n
<1>1. Cardinality(0 .. 0 + n - 1) = n /\ 0 + n - 1 = n - 1
  BY IntervalSize
<1> QED
  BY <1>1 DEF Size

LEMMA MaxIs ==
    ASSUME NEW a \in Nat, NEW c \in Nat
    PROVE  Max({a, c}) = IF a >= c THEN a ELSE c
<1>1. PICK x : x = IF a >= c THEN a ELSE c
  OBVIOUS
<1>2. x \in {a, c} /\ \A y \in {a, c} : x >= y
  BY <1>1
<1>3. \A z \in {a, c} : (\A y \in {a, c} : z >= y) => z = x
  BY <1>1
<1> QED
  BY <1>1, <1>2, <1>3 DEF Max

\* A write keeps the frames: as b was, but for the data.
LEMMA WriteKeeps ==
    ASSUME AnimInv,
           NEW p \in Nat, NEW q \in Nat, p < q, q <= MaxFrame + 1,
           NEW data \in [p .. q - 1 -> Values],
           NEW b \in [DOMAIN buffer -> Values], NEW d,
           IF m_isAnimated THEN b = buffer /\ d = default ELSE b[0] = d,
           m_isAnimated \/ q >= Size,
           \A i \in DOMAIN m_unknown : m_unknown[i].start # q,
           m_isAnimated' = TRUE, written' = Over(data, written), default' = d,
           UpdateUnknownAfterWrite(Extended(b, data, q), KnownSize, p, q - p)
    PROVE  AnimInv'
<1>0. MaxFrame \in Nat /\ First \in Values
  BY PropertyAssumption
<1>1. PICK n \in 1 .. MaxFrame + 1 :
          /\ buffer \in [0 .. n - 1 -> Values]
          /\ IF m_isAnimated THEN Kept(buffer, m_unknown, written, default, n)
             ELSE m_unknown = <<>> /\ DOMAIN written = {} /\ buffer[0] = default
  BY DEF AnimInv
<1>2. n \in Nat /\ n > 0 /\ DOMAIN buffer = 0 .. n - 1 /\ b \in [0 .. n - 1 -> Values]
  BY <1>0, <1>1
<1>3. Size = n
  BY <1>2, SizeIs
<1>4. PICK m : m = IF n >= q THEN n ELSE q
  OBVIOUS
<1>5. m \in 1 .. MaxFrame + 1 /\ n <= m /\ q <= m
  BY <1>0, <1>2, <1>4
<1>6. PICK e : e = Extended(b, data, q)
  OBVIOUS
<1>7. e = [f \in 0 .. m - 1 |-> IF f \in p .. q - 1 THEN data[f] ELSE IF f < n THEN b[f] ELSE First]
  <2>1. Max({Size, q}) = m
    BY <1>2, <1>3, <1>4, MaxIs
  <2> DEFINE g == [f \in 0 .. m - 1 |-> IF f < n THEN b[f] ELSE First]
  <2>2. e = Over(data, g)
    BY <1>3, <1>6, <2>1 DEF Extended
  <2>3. DOMAIN data = p .. q - 1 /\ DOMAIN g = 0 .. m - 1 /\ DOMAIN data \cup DOMAIN g = 0 .. m - 1
    BY <1>5
  <2>4. e = [f \in 0 .. m - 1 |-> IF f \in p .. q - 1 THEN data[f] ELSE g[f]]
    <3> HIDE DEF g
    <3> QED
      BY <2>2, <2>3 DEF Over
  <2> QED
    BY <2>4
<1>8. Copied(e, written', b, data, written, p, q, n, m)
  <2>1. e \in [0 .. m - 1 -> Values]
    <3>1. ASSUME NEW f \in 0 .. m - 1
          PROVE  (IF f \in p .. q - 1 THEN data[f] ELSE IF f < n THEN b[f] ELSE First) \in Values
      BY <1>0, <1>2, <3>1
    <3> QED
      BY <1>7, <3>1
  <2>2. DOMAIN data = p .. q - 1
    OBVIOUS
  <2>3. /\ DOMAIN written' = (p .. q - 1) \cup DOMAIN written
        /\ \A f \in p .. q - 1 : written'[f] = data[f]
        /\ \A f \in DOMAIN written : f \notin p .. q - 1 => written'[f] = written[f]
    BY <2>2 DEF Over
  <2>4. \A f \in 0 .. m - 1 : e[f] = IF f \in p .. q - 1 THEN data[f] ELSE IF f < n THEN b[f] ELSE First
    BY <1>7
  <2> QED
    BY <1>2, <1>4, <2>1, <2>3, <2>4 DEF Copied
<1>9. KnownSize = IF m_isAnimated THEN n ELSE 0
  BY <1>3 DEF KnownSize
<1>10. \/ /\ KnownSize < p
          /\ m_unknown' = Append(m_unknown, [start |-> KnownSize, end |-> p - 1])
          /\ buffer' = Cached(e, Max({KnownSize, 1}), p - 1)
       \/ /\ ~(KnownSize < p)
          /\ m_unknown' = FlattenSeq([i \in DOMAIN m_unknown |-> Parts(m_unknown[i], p, q - p)])
          /\ buffer' = Filled(e, p, q - p)
  BY <1>6 DEF UpdateUnknownAfterWrite
<1>11. buffer' \in [0 .. m - 1 -> Values] /\ Kept(buffer', m_unknown', written', d, m)
  <2>1. CASE m_isAnimated /\ n < p
    <3>1. Max({n, 1}) = n
      BY <1>2, MaxIs
    <3>2. KnownSize = n
      BY <1>9, <2>1
    <3>3. m_unknown' = Append(m_unknown, [start |-> n, end |-> p - 1]) /\ buffer' = Cached(e, n, p - 1)
      BY <1>10, <2>1, <3>1, <3>2
    <3>4. Kept(b, m_unknown, written, d, n)
      BY <1>1, <2>1
    <3>5. n < p
      BY <2>1
    <3> QED
      BY <1>8, <3>3, <3>4, <3>5, GapIsKept
  <2>2. CASE m_isAnimated /\ ~(n < p)
    <3>1. KnownSize = n
      BY <1>9, <2>2
    <3>2. /\ m_unknown' = FlattenSeq([i \in DOMAIN m_unknown |-> Parts(m_unknown[i], p, q - p)])
          /\ buffer' = Filled(e, p, q - p)
      BY <1>10, <2>2, <3>1
    <3>3. q - p \in Nat /\ q - p > 0 /\ p + (q - p) = q /\ p <= n
      <4>1. ~(n < p)
        BY <2>2
      <4>2. p < q
        OBVIOUS
      <4> QED
        BY ONLY <1>2, <4>1, <4>2, p \in Nat, q \in Nat
    <3>4. Kept(b, m_unknown, written, d, n)
      BY <1>1, <2>2
    <3>5. m_unknown \in Seq(Ranges) /\ Ordered(m_unknown)
      BY <3>4 DEF Kept
    <3>6. Cut(m_unknown', m_unknown, Len(m_unknown), p, q)
      <4>1. Cut(m_unknown', m_unknown, Len(m_unknown), p, p + (q - p))
        BY <3>2, <3>3, <3>5, FlattenCuts
      <4> QED
        BY <3>3, <4>1
    <3>7. \A i \in 1 .. Len(m_unknown) : m_unknown[i].start # q
      BY <3>5, LenProperties
    <3> QED
      BY <1>8, <3>2, <3>3, <3>4, <3>6, <3>7, OverwriteIsKept
  <2>3. CASE ~m_isAnimated
    <3>1. m_unknown = <<>> /\ DOMAIN written = {} /\ b[0] = d /\ KnownSize = 0 /\ n <= q
      BY <1>1, <1>2, <1>3, <1>9, <2>3
    <3>2. CASE p > 0
      <4>1. Max({0, 1}) = 1
        <5>1. 0 \in Nat /\ 1 \in Nat /\ ~(0 >= 1)
          OBVIOUS
        <5>2. Max({0, 1}) = IF 0 >= 1 THEN 0 ELSE 1
          BY <5>1, MaxIs
        <5> QED
          BY <5>1, <5>2
      <4>2. m_unknown' = Lead(p) /\ buffer' = Cached(e, 1, p - 1)
        BY <1>10, <3>1, <3>2, <4>1 DEF Lead
      <4>3. DOMAIN written = {} /\ b[0] = d /\ n <= q
        BY <3>1
      <4>4. /\ Cached(e, 1, p - 1) \in [0 .. m - 1 -> Values]
            /\ Kept(Cached(e, 1, p - 1), Lead(p), written', d, m)
        BY ONLY <1>8, <3>2, <4>3, FirstIsKept
      <4> QED
        BY <4>2, <4>4
    <3>3. CASE p = 0
      <4>1. /\ m_unknown' = FlattenSeq([i \in DOMAIN m_unknown |-> Parts(m_unknown[i], p, q - p)])
            /\ buffer' = Filled(e, p, q - p)
        BY <1>10, <3>1, <3>3
      <4>2. DOMAIN m_unknown = {}
        BY <3>1
      <4>3. buffer' = e
        BY <4>1, <4>2 DEF Filled
      <4>4. m_unknown' = <<>>
        <5>1. [i \in DOMAIN m_unknown |-> Parts(m_unknown[i], p, q - p)] = <<>>
          BY <4>2
        <5>2. FlattenSeq(<<>>) = <<>>
          BY DEF FlattenSeq
        <5> QED
          BY <4>1, <5>1, <5>2
      <4> QED
        BY <1>8, <3>1, <3>3, <4>3, <4>4, FirstIsKept
    <3> QED
      BY <3>2, <3>3
  <2> QED
    BY <1>1, <2>1, <2>2, <2>3 DEF AnimInv
<1> QED
  BY <1>5, <1>11 DEF AnimInv

\* A value that was created is not animated.
LEMMA InitAnim == AnimInit => AnimInv
<1> SUFFICES ASSUME AnimInit PROVE AnimInv
  OBVIOUS
<1>1. MaxFrame \in Nat /\ First \in Values
  BY PropertyAssumption
<1>2. buffer = [f \in {0} |-> First] /\ m_unknown = <<>> /\ m_isAnimated = FALSE /\ default = First
  BY DEF AnimInit
<1>3. DOMAIN written = {}
  BY DEF AnimInit, Nothing
<1>4. 1 \in 1 .. MaxFrame + 1 /\ 0 .. 1 - 1 = {0}
  BY <1>1
<1>5. buffer \in [0 .. 1 - 1 -> Values] /\ buffer[0] = default
  BY <1>1, <1>2, <1>4
<1> QED
  BY <1>2, <1>3, <1>4, <1>5 DEF AnimInv

\* The client leaves the weak points alone.
LEMMA NextAnim ==
    ASSUME ~Rewrites, ~Shortens
    PROVE  AnimInv /\ [AnimNext]_(animVars) => AnimInv'
<1> SUFFICES ASSUME AnimInv, [AnimNext]_(animVars) PROVE AnimInv'
  OBVIOUS
<1>0. MaxFrame \in Nat /\ MaxCount \in Nat /\ First \in Values
  BY PropertyAssumption
<1>1. ASSUME NEW v \in Values, WriteStatic(v) PROVE AnimInv'
  <2>1. PICK n \in 1 .. MaxFrame + 1 : buffer \in [0 .. n - 1 -> Values]
    BY DEF AnimInv
  <2>2. 0 \in 0 .. n - 1
    BY <1>0, <2>1
  <2>3. buffer' = [buffer EXCEPT ![0] = v] /\ m_unknown' = <<>> /\ m_isAnimated' = FALSE /\ default' = v
    BY <1>1 DEF WriteStatic
  <2>4. DOMAIN written' = {}
    BY <1>1 DEF WriteStatic, Nothing
  <2>5. buffer' \in [0 .. n - 1 -> Values] /\ buffer'[0] = default'
    BY <1>1, <2>1, <2>2, <2>3
  <2> QED
    BY <2>3, <2>4, <2>5 DEF AnimInv
<1>2. ASSUME NEW p \in Frames, NEW k \in 1 .. MaxCount, p + k - 1 \in Frames,
             NEW data \in [p .. p + k - 1 -> Values], Write(p, data)
      PROVE  AnimInv'
  <2>1. PICK q : q = p + k
    OBVIOUS
  <2>2. p \in Nat /\ q \in Nat /\ p < q /\ q <= MaxFrame + 1 /\ q - p = k /\ k # 0 /\ p + k = q
    BY <1>0, <1>2, <2>1 DEF Frames
  <2>3. Cardinality(DOMAIN data) = k
    <3>1. Cardinality(p .. p + k - 1) = k
      BY <2>2, IntervalSize
    <3> QED
      BY <3>1
  <2>4. /\ Allowed(p, k) /\ m_isAnimated' = TRUE /\ written' = Over(data, written) /\ default' = default
        /\ UpdateUnknownAfterWrite(Extended(buffer, data, p + k), KnownSize, p, k)
    BY <1>2, <2>3 DEF Write
  <2>5. /\ \A i \in DOMAIN m_unknown : m_unknown[i].start # q
        /\ m_isAnimated \/ q >= Size
    BY <2>2, <2>4 DEF Allowed
  <2>6. data \in [p .. q - 1 -> Values]
    <3>1. p + k - 1 = q - 1
      BY <2>2
    <3> QED
      BY <1>2, <3>1
  <2>7. /\ buffer \in [DOMAIN buffer -> Values]
        /\ IF m_isAnimated THEN buffer = buffer /\ default = default ELSE buffer[0] = default
    BY DEF AnimInv
  <2> QED
    BY <2>2, <2>4, <2>5, <2>6, <2>7, WriteKeeps
<1>3. ASSUME NEW v \in Values, NEW p \in Frames, NEW q \in Frames, p <= q, WriteConstantRange(v, p, q)
      PROVE  AnimInv'
  <2> DEFINE data == [f \in p .. q - 1 |-> v]
             b == IF m_isAnimated THEN buffer ELSE [buffer EXCEPT ![0] = v]
             d == IF m_isAnimated THEN default ELSE v
  <2>1. /\ Allowed(p, q - p) /\ m_isAnimated' = TRUE /\ written' = Over(data, written) /\ default' = d
        /\ UpdateUnknownAfterWrite(Extended(b, data, q), KnownSize, p, q - p)
    BY <1>3 DEF WriteConstantRange
  <2>2. p \in Nat /\ q \in Nat /\ p < q /\ q <= MaxFrame + 1 /\ p + (q - p) = q
    <3>1. p \in Nat /\ q \in Nat /\ p <= q /\ q <= MaxFrame /\ p + (q - p) = q
      BY <1>0, <1>3 DEF Frames
    <3>2. q - p > 0
      BY <2>1 DEF Allowed
    <3> QED
      BY <1>0, <3>1, <3>2
  <2>3. /\ \A i \in DOMAIN m_unknown : m_unknown[i].start # q
        /\ m_isAnimated \/ q >= Size
    BY <2>1, <2>2 DEF Allowed
  <2>4. data \in [p .. q - 1 -> Values]
    OBVIOUS
  <2>5. PICK n \in 1 .. MaxFrame + 1 : buffer \in [0 .. n - 1 -> Values]
    BY DEF AnimInv
  <2>6. 0 \in 0 .. n - 1 /\ DOMAIN buffer = 0 .. n - 1
    BY <1>0, <2>5
  <2>7. b \in [DOMAIN buffer -> Values] /\ IF m_isAnimated THEN b = buffer /\ d = default ELSE b[0] = d
    BY <2>5, <2>6
  <2> HIDE DEF data, b, d
  <2> QED
    BY <2>1, <2>2, <2>3, <2>4, <2>7, WriteKeeps
<1>4. CASE UNCHANGED animVars
  BY <1>4 DEF AnimInv, animVars
<1> QED
  BY <1>1, <1>2, <1>3, <1>4 DEF AnimNext

\* So the invariant holds for such a client.
LEMMA SpecAnim ==
    ASSUME ~Rewrites, ~Shortens
    PROVE  AnimSpec => []AnimInv
  BY InitAnim, NextAnim, PTL DEF AnimSpec

\* Every variable keeps its type: the frames have no gap, and the ranges are among them.
THEOREM AnimTypes == ~Rewrites /\ ~Shortens => (AnimSpec => []AnimTypeOK)
<1> SUFFICES ASSUME ~Rewrites, ~Shortens PROVE AnimSpec => []AnimTypeOK
  OBVIOUS
<1>1. AnimInv => AnimTypeOK
  <2> SUFFICES ASSUME AnimInv PROVE AnimTypeOK
    OBVIOUS
  <2>0. MaxFrame \in Nat
    BY PropertyAssumption
  <2>1. PICK n \in 1 .. MaxFrame + 1 :
            /\ buffer \in [0 .. n - 1 -> Values]
            /\ IF m_isAnimated THEN Kept(buffer, m_unknown, written, default, n)
               ELSE m_unknown = <<>> /\ DOMAIN written = {} /\ buffer[0] = default
    BY DEF AnimInv
  <2>2. DOMAIN buffer = 0 .. n - 1 /\ n \in Nat /\ n > 0
    BY <2>0, <2>1
  <2>3. Size = n
    BY <2>2, SizeIs
  <2>4. ASSUME NEW i \in DOMAIN m_unknown PROVE m_unknown[i] \in [start : Frames, end : Frames]
    <3>1. CASE m_isAnimated
      <4>1. Kept(buffer, m_unknown, written, default, n)
        BY <2>1, <3>1
      <4>2. i \in 1 .. Len(m_unknown)
        BY <4>1, LenProperties DEF Kept
      <4>3. m_unknown[i] \in Ranges /\ m_unknown[i].start <= m_unknown[i].end /\ m_unknown[i].end < n
        BY <4>1, <4>2, ElementOfSeq DEF Kept, Ordered
      <4> QED
        BY <2>0, <2>2, <4>3 DEF Ranges, Frames
    <3>2. CASE ~m_isAnimated
      <4>1. m_unknown = <<>>
        BY <2>1, <3>2
      <4> QED
        BY <4>1
    <3> QED
      BY <3>1, <3>2
  <2> QED
    BY <2>1, <2>2, <2>3, <2>4 DEF AnimInv, AnimTypeOK
<1> QED
  BY <1>1, SpecAnim, PTL

\* The unknown ranges are in order and disjoint, and are exactly the frames up to the end
\* of the animation that were never written, however writes split and cut them.
THEOREM AnimUnknownIsUnwritten ==
    ~Rewrites /\ ~Shortens => (AnimSpec => []UnknownIsUnwritten)
<1> SUFFICES ASSUME ~Rewrites, ~Shortens PROVE AnimSpec => []UnknownIsUnwritten
  OBVIOUS
<1>1. AnimInv => UnknownIsUnwritten
  <2> SUFFICES ASSUME AnimInv, m_isAnimated
               PROVE  /\ \A i, j \in DOMAIN m_unknown : i < j => m_unknown[i].end < m_unknown[j].start
                      /\ UNION {m_unknown[i].start .. m_unknown[i].end : i \in DOMAIN m_unknown}
                             = DOMAIN buffer \ DOMAIN written
    BY DEF UnknownIsUnwritten
  <2>0. MaxFrame \in Nat
    BY PropertyAssumption
  <2>1. PICK n \in 1 .. MaxFrame + 1 :
            buffer \in [0 .. n - 1 -> Values] /\ Kept(buffer, m_unknown, written, default, n)
    BY DEF AnimInv
  <2>2. PICK N \in Nat : N = Len(m_unknown) /\ DOMAIN m_unknown = 1 .. N
    BY <2>1, LenProperties DEF Kept
  <2>3. \A i \in 1 .. N : m_unknown[i].start \in Nat /\ m_unknown[i].end \in Nat /\ m_unknown[i].end < n
    <3>1. \A i \in 1 .. N : m_unknown[i] \in Ranges
      BY <2>1, <2>2, ElementOfSeq DEF Kept
    <3> QED
      BY <2>1, <2>2, <3>1 DEF Kept, Ranges
  <2>4. \A i, j \in 1 .. N : i < j => m_unknown[i].end < m_unknown[j].start
    BY <2>1, <2>2 DEF Kept, Ordered
  <2>5. \A f \in 0 .. n - 1 :
            (\E i \in 1 .. N : m_unknown[i].start <= f /\ f <= m_unknown[i].end) <=> f \notin DOMAIN written
    BY <2>1, <2>2 DEF Kept, Inside
  <2>6. ASSUME NEW f, \E i \in 1 .. N : f \in m_unknown[i].start .. m_unknown[i].end
        PROVE  f \in 0 .. n - 1 /\ f \notin DOMAIN written
    <3>1. PICK i \in 1 .. N : f \in m_unknown[i].start .. m_unknown[i].end
      BY <2>6
    <3>2. f \in 0 .. n - 1 /\ m_unknown[i].start <= f /\ f <= m_unknown[i].end
      BY <2>0, <2>3, <3>1
    <3> QED
      BY <2>5, <3>2
  <2>7. ASSUME NEW f \in 0 .. n - 1, f \notin DOMAIN written
        PROVE  \E i \in 1 .. N : f \in m_unknown[i].start .. m_unknown[i].end
    <3>1. PICK i \in 1 .. N : m_unknown[i].start <= f /\ f <= m_unknown[i].end
      BY <2>5, <2>7
    <3>2. f \in m_unknown[i].start .. m_unknown[i].end
      BY <2>3, <3>1
    <3> QED
      BY <3>2
  <2>8. DOMAIN buffer = 0 .. n - 1
    BY <2>1
  <2> QED
    BY <2>2, <2>4, <2>6, <2>7, <2>8
<1> QED
  BY <1>1, SpecAnim, PTL

\* The last frame written before f, or none.
LEMMA HeldIs ==
    ASSUME NEW f \in Nat, DOMAIN written \subseteq Nat
    PROVE  /\ f \in DOMAIN written => Held(f) = written[f]
           /\ (\A g \in DOMAIN written : ~(g <= f)) => Held(f) = default
           /\ \A h \in Nat : {g \in DOMAIN written : g <= f} = {g \in DOMAIN written : g <= h}
                                 => Held(f) = Held(h)
<1> DEFINE before == {g \in DOMAIN written : g <= f}
<1>1. ASSUME f \in DOMAIN written PROVE Held(f) = written[f]
  <2>1. f \in before /\ \A g \in before : f >= g
    BY <1>1
  <2>2. \A z \in before : (\A g \in before : z >= g) => z = f
    BY <2>1
  <2>3. Max(before) = f
    <3> HIDE DEF before
    <3> QED
      BY <2>1, <2>2 DEF Max
  <2>4. Held(f) = IF before = {} THEN default ELSE written[Max(before)]
    BY DEF Held
  <2> HIDE DEF before
  <2> QED
    BY <2>1, <2>3, <2>4
<1>2. ASSUME \A g \in DOMAIN written : ~(g <= f) PROVE Held(f) = default
  BY <1>2 DEF Held
<1>3. ASSUME NEW h \in Nat, {g \in DOMAIN written : g <= f} = {g \in DOMAIN written : g <= h}
      PROVE  Held(f) = Held(h)
  BY <1>3 DEF Held
<1> QED
  BY <1>1, <1>2, <1>3

\* In whatever order frames were written, split and overwritten, a frame reads as the last
\* one that was written before it, or as the static value (where the application does not
\* end a write just before a range that is unknown, nor animates anew with fewer frames).
THEOREM AnimReadsAreHeld ==
    ~Rewrites /\ ~Shortens => (AnimSpec => []ReadsAreHeld)
<1> SUFFICES ASSUME ~Rewrites, ~Shortens PROVE AnimSpec => []ReadsAreHeld
  OBVIOUS
<1>1. AnimInv => ReadsAreHeld
  <2> SUFFICES ASSUME AnimInv, NEW f \in Frames PROVE Read(f) = Held(f)
    BY DEF ReadsAreHeld
  <2>0. MaxFrame \in Nat /\ f \in Nat
    BY PropertyAssumption DEF Frames
  <2>1. PICK n \in 1 .. MaxFrame + 1 :
            /\ buffer \in [0 .. n - 1 -> Values]
            /\ IF m_isAnimated THEN Kept(buffer, m_unknown, written, default, n)
               ELSE m_unknown = <<>> /\ DOMAIN written = {} /\ buffer[0] = default
    BY DEF AnimInv
  <2>2. CASE ~m_isAnimated
    <3>1. DOMAIN written = {} /\ buffer[0] = default
      BY <2>1, <2>2
    <3>2. DOMAIN written \subseteq Nat /\ \A g \in DOMAIN written : ~(g <= f)
      BY <3>1
    <3>3. Held(f) = default
      BY <2>0, <3>2, HeldIs
    <3>4. Read(f) = buffer[0]
      BY <2>2 DEF Read
    <3> QED
      BY <3>1, <3>3, <3>4
  <2>3. CASE m_isAnimated
    <3>1. /\ n \in Nat /\ n > 0 /\ DOMAIN buffer = 0 .. n - 1
          /\ DOMAIN written \subseteq 0 .. n - 1 /\ DOMAIN written \subseteq Nat
          /\ \A g \in 0 .. n - 1 :
                buffer[g] = IF g \in DOMAIN written THEN written[g] ELSE IF g = 0 THEN default ELSE buffer[g - 1]
      BY <2>0, <2>1, <2>3 DEF Kept, Repeats
    <3> DEFINE bad == {g \in 0 .. n - 1 : buffer[g] # Held(g)}
    <3>2. ASSUME bad # {} PROVE FALSE
      <4>1. bad \subseteq Nat
        OBVIOUS
      <4>2. PICK m \in bad : \A k \in bad : m <= k
        <5> HIDE DEF bad
        <5> QED
          BY <3>2, <4>1, LeastNumber
      <4>3. m \in 0 .. n - 1 /\ m \in Nat /\ buffer[m] # Held(m)
        BY <4>2
      <4>4. m \notin DOMAIN written
        BY <3>1, <4>3, HeldIs
      <4>5. m # 0
        <5>1. m = 0 => \A g \in DOMAIN written : ~(g <= m)
          BY <3>1, <4>4
        <5> QED
          BY <3>1, <4>3, <4>4, <5>1, HeldIs
      <4>6. m - 1 \in 0 .. n - 1 /\ m - 1 \in Nat /\ buffer[m - 1] = Held(m - 1)
        <5>1. m - 1 \in 0 .. n - 1 /\ m - 1 \in Nat /\ ~(m <= m - 1)
          BY <3>1, <4>3, <4>5
        <5>2. m - 1 \notin bad
          BY <4>2, <5>1
        <5> QED
          BY <5>1, <5>2
      <4>7. {g \in DOMAIN written : g <= m} = {g \in DOMAIN written : g <= m - 1}
        <5>1. \A g \in DOMAIN written : g <= m <=> g <= m - 1
          BY <3>1, <4>3, <4>4
        <5> QED
          BY <5>1
      <4>8. Held(m) = Held(m - 1)
        BY <3>1, <4>3, <4>6, <4>7, HeldIs
      <4> QED
        BY <3>1, <4>3, <4>4, <4>5, <4>6, <4>8
    <3>3. \A g \in 0 .. n - 1 : buffer[g] = Held(g)
      BY <3>2
    <3>4. Size = n
      BY <3>1, SizeIs
    <3> DEFINE z == IF f <= n - 1 THEN f ELSE n - 1
    <3>5. Read(f) = buffer[z]
      <4>1. z \in {f, n - 1} /\ \A y \in {f, n - 1} : z <= y
        BY <2>0, <3>1
      <4>2. \A x \in {f, n - 1} : (\A y \in {f, n - 1} : x <= y) => x = z
        BY <2>0, <3>1
      <4> HIDE DEF z
      <4>3. Min({f, n - 1}) = z
        BY <4>1, <4>2 DEF Min
      <4> QED
        BY <2>3, <3>4, <4>3 DEF Read
    <3>6. z \in 0 .. n - 1 /\ z \in Nat
      BY <2>0, <3>1
    <3>7. {g \in DOMAIN written : g <= f} = {g \in DOMAIN written : g <= z}
      <4>1. \A g \in DOMAIN written : g <= f <=> g <= z
        BY <2>0, <3>1
      <4> QED
        BY <4>1
    <3> HIDE DEF z
    <3>8. Held(f) = Held(z)
      BY <2>0, <3>1, <3>6, <3>7, HeldIs
    <3> QED
      BY <3>3, <3>5, <3>6, <3>8
  <2> QED
    BY <2>2, <2>3
<1> QED
  BY <1>1, SpecAnim, PTL
=============================================================================
