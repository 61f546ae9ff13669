---------------------------- MODULE SequenceReader ----------------------------
(***************************************************************************)
(* The sequencer (src/sequence/): a client edits the entries of a sequence *)
(* (SequenceData.cpp, SequenceEntry.cpp) while the reader of the sequence  *)
(* plays it (SequenceReader.cpp), with one SequenceHandle per entry        *)
(* (SequenceHandle.cpp) that starts, places, pauses and stops a sound on   *)
(* the reader's own device.                                                *)
(*                                                                         *)
(* Nothing is sent from the entries to the handles: an edit counts up a    *)
(* revision, and a handle compares it with the one it has seen when it is  *)
(* updated.  The reader holds the lock of the sequence during a read; the  *)
(* lock of an entry is taken and released several times in an update.      *)
(*                                                                         *)
(* Time is counted in animation frames, the pieces a read is made of;      *)
(* POSITION_EPSILON, far less than one, decides that a piece that begins   *)
(* exactly at the end of an entry belongs to it.  The pitch is 1.          *)
(***************************************************************************)
EXTENDS Integers, Sequences, FiniteSets

CONSTANTS
    Device,         \* bound: the handles of the reader's device
    NoHandle,       \* a null pointer
    NoSound,        \* an entry without a sound
    Sounds,         \* the sounds of entries
    Length,         \* the frames of each sound, 0 if it cannot be played
    KeepTime,       \* KEEP_TIME
    Places,         \* the [begin, end, skip] a client gives to entries
    MaxId,          \* bound on the entries ever added
    MaxTime,        \* bound on the position
    MaxEdits,       \* bound on the client's edits
    MovesEnded      \* whether the client moves an entry whose sound has ended

ASSUME SequenceAssumption ==
    /\ NoHandle \notin Device /\ NoSound \notin Sounds
    /\ Length \in [Sounds -> Nat] /\ KeepTime \in Nat
    /\ Places \subseteq [begin : Nat, end : Nat, skip : Nat]
    /\ IsFiniteSet(Device) /\ MaxId <= Cardinality(Device)
    /\ MaxId \in Nat /\ MaxTime \in Nat /\ MaxEdits \in Nat /\ MovesEnded \in BOOLEAN

VARIABLES
    m_entries,      \* the ids of the entries, in order
    entry,          \* every entry ever added
    m_entry_status, \* revision of the list of entries
    m_handles,      \* the reader's handles, in order
    seen,           \* the reader's m_entry_status
    device,         \* the sounds on the reader's device
    m_position,     \* the time of the next piece
    at, cur,        \* where the read is, and at which handle
    edits,          \* edits so far
    touched         \* history: the entries edited since the updates of this piece began

entryVars == <<m_entries, entry, m_entry_status, edits, touched>>
readerVars == <<m_handles, seen, device, m_position, at, cur>>
vars == <<entryVars, readerVars>>

Silent == [status |-> "INVALID", sound |-> NoSound, pos |-> 0]

Init ==
    /\ m_entries = <<>> /\ entry = <<>>
    /\ m_entry_status = 0
    /\ m_handles = <<>> /\ seen = 0
    /\ device = [d \in Device |-> Silent]
    /\ m_position = 0
    /\ at = "idle" /\ cur = 0
    /\ edits = 0 /\ touched = {}
------------------------------------------------------------------------------
(* The client.  Entries are numbered in the order in which they are added.  *)

Edit == edits < MaxEdits /\ edits' = edits + 1

\* add() and remove() hold the lock of the sequence, as the reader does.
SequenceFree == at = "idle"

Add(place, s) ==
    /\ Edit /\ SequenceFree /\ Len(entry) < MaxId
    /\ entry' = Append(entry, [place |-> place, sound |-> s, posRev |-> 1, soundRev |-> 0])
    /\ m_entries' = Append(m_entries, Len(entry) + 1)
    /\ m_entry_status' = m_entry_status + 1
    /\ UNCHANGED <<touched, readerVars>>

RemoveEntry(i) ==
    /\ Edit /\ SequenceFree
    /\ m_entries' = [k \in 1 .. Len(m_entries) - 1 |-> IF k < i THEN m_entries[k] ELSE m_entries[k + 1]]
    /\ m_entry_status' = m_entry_status + 1
    /\ UNCHANGED <<entry, touched, readerVars>>

\* The sound of the entry plays, or has played, to its end.
SoundEnded(e) ==
    \E i \in DOMAIN m_handles :
        LET d == m_handles[i].ptr IN
        m_handles[i].entry = e /\ d # NoHandle /\ device[d].pos >= Length[device[d].sound]

Move(e, place) ==
    /\ Edit /\ (MovesEnded \/ ~SoundEnded(e))
    /\ place # entry[e].place
    /\ entry' = [entry EXCEPT ![e].place = place, ![e].posRev = @ + 1]
    /\ touched' = touched \cup {e}
    /\ UNCHANGED <<m_entries, m_entry_status, readerVars>>

SetSound(e, s) ==
    /\ Edit /\ s # entry[e].sound
    /\ entry' = [entry EXCEPT ![e].sound = s, ![e].soundRev = @ + 1]
    /\ touched' = touched \cup {e}
    /\ UNCHANGED <<m_entries, m_entry_status, readerVars>>

Client ==
    \/ \E p \in Places, s \in Sounds : Add(p, s)
    \/ \E i \in DOMAIN m_entries : LET e == m_entries[i] IN
          \/ RemoveEntry(i)
          \/ \E p \in Places : Move(e, p)
          \/ \E s \in Sounds \cup {NoSound} : SetSound(e, s)
------------------------------------------------------------------------------
(* What a SequenceHandle does to its sound.  An operator takes the handle   *)
(* and the device, as o = [handle, device], and returns them changed; ok    *)
(* is what the function of the code returns.                                *)

Set(o, d, status) == [o EXCEPT !.device[d].status = status]

\* Slip: a paused sound is forgotten, not stopped.
Dropped_Playing(o) ==
    IF o.handle.ptr = NoHandle THEN o
    ELSE IF o.device[o.handle.ptr].status = "PAUSED" THEN [o EXCEPT !.handle.ptr = NoHandle]
    ELSE [Set(o, o.handle.ptr, "INVALID") EXCEPT !.handle.ptr = NoHandle]

\* stop()
Dropped(o) ==
    IF o.handle.ptr = NoHandle THEN o
    ELSE [Set(o, o.handle.ptr, "INVALID") EXCEPT !.handle.ptr = NoHandle]

\* start(): a sound that cannot be played makes the handle invalid.
Started(o) ==
    LET s == entry[o.handle.entry].sound
        clear == Dropped(o)
        d == CHOOSE x \in Device : clear.device[x].status = "INVALID"
    IN IF ~o.handle.valid THEN o
       ELSE IF s = NoSound \/ (s # NoSound /\ Length[s] = 0) THEN [clear EXCEPT !.handle.valid = FALSE]
       ELSE [clear EXCEPT !.handle.ptr = d,
                          !.device[d] = [status |-> "PLAYING", sound |-> s, pos |-> 0]]

\* pause() and resume() of the device's handle.
Paused(o) ==
    IF o.device[o.handle.ptr].status = "PLAYING" THEN Set(o, o.handle.ptr, "PAUSED") ELSE o
Resumed(o) ==
    IF o.device[o.handle.ptr].status = "PAUSED" THEN Set(o, o.handle.ptr, "PLAYING") ELSE o

\* updatePosition(), which returns whether there is a handle afterwards.
Placed(o, t) ==
    LET p == entry[o.handle.entry].place IN
    IF o.handle.ptr # NoHandle
    THEN IF t > p.end THEN IF t >= p.end + KeepTime THEN Dropped(o) ELSE Paused(o)
         ELSE IF t >= p.begin THEN Resumed(o)
         ELSE IF t < p.begin - KeepTime THEN Dropped(o) ELSE Paused(o)
    ELSE IF p.begin <= t /\ t <= p.end THEN Started(o) ELSE o

\* The rest of seek(): where the sound has to be; a seek makes a stopped handle paused.
Sought(o, t) ==
    LET p == entry[o.handle.entry].place
        x == (IF t < p.begin THEN 0 ELSE t - p.begin) + p.skip
        d == o.handle.ptr
    IN IF d = NoHandle THEN o
       ELSE [o EXCEPT !.device[d].pos = x,
                      !.device[d].status = IF @ = "STOPPED" THEN "PAUSED" ELSE @]

\* seek() as a whole.
SeekAll(o, t) == IF o.handle.valid THEN Sought(Placed(o, t), t) ELSE o
------------------------------------------------------------------------------
(* The reader. *)

NewHandle(e) == [entry |-> e, ptr |-> NoHandle, valid |-> TRUE, posRev |-> 0, soundRev |-> 0]

\* One turn of the loop that walks the handles and the entries together, by their numbers:
\* w.i and w.j are where it is, w.list the handles so far.
MergeOnce(hs, es, w) ==
    LET first == w.i > Len(hs) \/ (w.i <= Len(hs) /\ hs[w.i].entry < es[w.j]) IN
    IF w.j > Len(es) THEN w
    ELSE IF first THEN [i |-> w.i, j |-> w.j + 1, list |-> Append(w.list, NewHandle(es[w.j]))]
    ELSE IF hs[w.i].entry = es[w.j] THEN [i |-> w.i + 1, j |-> w.j + 1, list |-> Append(w.list, hs[w.i])]
    ELSE [i |-> w.i + 1, j |-> w.j, list |-> w.list]

\* The handles of the entries es, of which there were the handles hs before.
MergedFrom(hs, es) ==
    LET walk[n \in 0 .. Len(hs) + Len(es)] ==
            IF n = 0 THEN [i |-> 1, j |-> 1, list |-> <<>>] ELSE MergeOnce(hs, es, walk[n - 1])
    IN walk[Len(hs) + Len(es)].list

\* The handles in hs that are not kept stop their sounds.
Released(hs) ==
    [d \in Device |->
        IF \E i \in DOMAIN m_handles : m_handles[i].ptr = d /\ \A j \in DOMAIN hs : hs[j].ptr # d
        THEN [device[d] EXCEPT !.status = "INVALID"] ELSE device[d]]

NextHandle == IF cur < Len(m_handles) THEN at' = "test" /\ cur' = cur + 1 ELSE at' = "mix" /\ cur' = 0

\* Slip: removing an entry goes unnoticed.
ReadBegins_AddOnly ==
    /\ at = "idle" /\ m_position < MaxTime
    /\ LET hs == IF m_entry_status > seen /\ Len(m_entries) >= Len(m_handles)
                 THEN MergedFrom(m_handles, m_entries) ELSE m_handles IN
       /\ m_handles' = hs
       /\ device' = Released(hs)
       /\ IF hs = <<>> THEN at' = "mix" /\ cur' = 0 ELSE at' = "test" /\ cur' = 1
    /\ seen' = m_entry_status /\ touched' = {}
    /\ UNCHANGED <<m_entries, entry, m_entry_status, edits, m_position>>

\* read() takes the lock and follows the list of entries, ...
ReadBegins ==
    /\ at = "idle" /\ m_position < MaxTime
    /\ LET hs == IF m_entry_status # seen THEN MergedFrom(m_handles, m_entries) ELSE m_handles IN
       /\ m_handles' = hs
       /\ device' = Released(hs)
       /\ IF hs = <<>> THEN at' = "mix" /\ cur' = 0 ELSE at' = "test" /\ cur' = 1
    /\ seen' = m_entry_status /\ touched' = {}
    /\ UNCHANGED <<m_entries, entry, m_entry_status, edits, m_position>>

Mine == [handle |-> m_handles[cur], device |-> device]
Store(o) == m_handles' = [m_handles EXCEPT ![cur] = o.handle] /\ device' = o.device

\* ... then update() of each handle: is there another sound?  (no lock is held) ...
UpdateTests ==
    /\ at = "test"
    /\ LET e == entry[Mine.handle.entry] IN
       IF Mine.handle.soundRev # e.soundRev
       THEN /\ Store(Dropped([Mine EXCEPT !.handle.soundRev = e.soundRev, !.handle.valid = TRUE]))
            /\ at' = "place" /\ UNCHANGED cur
       ELSE /\ UNCHANGED <<m_handles, device>>
            /\ IF ~Mine.handle.valid THEN NextHandle
               ELSE /\ at' = IF Mine.handle.ptr # NoHandle THEN "follow" ELSE "place"
                    /\ UNCHANGED cur
    /\ UNCHANGED <<entryVars, seen, m_position>>

\* ... a handle without a sound starts one if it is time, ...
UpdatePlaces ==
    /\ at \in {"place", "follow"}
    /\ LET o == Placed(Mine, m_position) IN
       /\ Store(o)
       /\ IF o.handle.ptr = NoHandle THEN NextHandle
          ELSE at' = (IF at = "place" THEN "seek" ELSE "revise") /\ UNCHANGED cur
    /\ UNCHANGED <<entryVars, seen, m_position>>

\* ... at the right place, ...
UpdateSeeks ==
    /\ at = "seek"
    /\ Store(Sought(Mine, m_position))
    /\ at' = "revise"
    /\ UNCHANGED <<entryVars, seen, m_position, cur>>

\* Slip: the entry's new revision is remembered, but nothing is done about it.
UpdateRevises_NoSeek ==
    /\ at = "revise"
    /\ LET e == entry[Mine.handle.entry] IN
       Store([Mine EXCEPT !.handle.posRev = e.posRev])
    /\ NextHandle
    /\ UNCHANGED <<entryVars, seen, m_position>>

\* ... and one whose entry was moved seeks; from here on the entry stays locked.
UpdateRevises ==
    /\ at = "revise"
    /\ LET e == entry[Mine.handle.entry] IN
       IF Mine.handle.posRev # e.posRev
       THEN Store(SeekAll([Mine EXCEPT !.handle.posRev = e.posRev], m_position))
       ELSE UNCHANGED <<m_handles, device>>
    /\ NextHandle
    /\ UNCHANGED <<entryVars, seen, m_position>>

\* The device mixes the piece; a sound that gives less than a piece has ended.
Mixed(s) ==
    IF s.status # "PLAYING" THEN s
    ELSE IF s.pos < Length[s.sound] THEN [s EXCEPT !.pos = @ + 1] ELSE [s EXCEPT !.status = "STOPPED"]

\* The read goes on with the next piece, or returns and releases the sequence.
MixPiece ==
    /\ at = "mix"
    /\ device' = [d \in Device |-> Mixed(device[d])]
    /\ m_position' = m_position + 1
    /\ IF m_handles # <<>> /\ m_position' < MaxTime
       THEN \/ at' = "test" /\ cur' = 1
            \/ at' = "idle" /\ cur' = 0
       ELSE at' = "idle" /\ cur' = 0
    /\ touched' = {}
    /\ UNCHANGED <<m_entries, entry, m_entry_status, edits, m_handles, seen>>

\* The i-th of the handles seeks.
SeekOnce(a, i, t) ==
    LET o == SeekAll([handle |-> a.handles[i], device |-> a.device], t)
    IN [handles |-> [a.handles EXCEPT ![i] = o.handle], device |-> o.device]

\* seek() of the reader, between two reads: every handle seeks.
Seek(t) ==
    /\ at = "idle" /\ Edit
    /\ m_position' = t
    /\ LET after[i \in 0 .. Len(m_handles)] ==
               IF i = 0 THEN [handles |-> m_handles, device |-> device] ELSE SeekOnce(after[i - 1], i, t)
           end == after[Len(m_handles)]
       IN m_handles' = end.handles /\ device' = end.device
    /\ UNCHANGED <<m_entries, entry, m_entry_status, touched, seen, at, cur>>

Reader ==
    \/ ReadBegins \/ UpdateTests \/ UpdatePlaces \/ UpdateSeeks \/ UpdateRevises \/ MixPiece

Next == Client \/ Reader \/ (\E t \in 0 .. MaxTime - 1 : Seek(t))

Spec == Init /\ [][Next]_vars
------------------------------------------------------------------------------
(* Properties. *)

\* Every variable keeps its type.
TypeOK ==
    /\ \A i \in DOMAIN m_entries : m_entries[i] \in 1 .. Len(entry)
    /\ \A e \in DOMAIN entry : entry[e].place \in Places /\ entry[e].sound \in Sounds \cup {NoSound}
    /\ \A i \in DOMAIN m_handles : /\ m_handles[i].entry \in DOMAIN entry
                                   /\ m_handles[i].ptr \in Device \cup {NoHandle}
    /\ device \in [Device -> [status : {"PLAYING", "PAUSED", "STOPPED", "INVALID"},
                              sound : Sounds \cup {NoSound}, pos : Nat]]
    /\ m_position \in 0 .. MaxTime
    /\ at \in {"idle", "test", "place", "follow", "seek", "revise", "mix"}
    /\ cur \in 0 .. Len(m_handles)

\* The device has no sound but those the handles hold, each of another one: no start
\* and no edit leaves a sound behind that nobody can stop.
NoStraySounds ==
    \A d \in Device : device[d].status # "INVALID" =>
        Cardinality({i \in DOMAIN m_handles : m_handles[i].ptr = d}) = 1

\* When a piece is mixed, every entry of the sequence has one handle and no other has.
EntriesHaveHandles ==
    at = "mix" => [i \in DOMAIN m_handles |-> m_handles[i].entry] = m_entries

Heard(d) == d # NoHandle /\ device[d].status = "PLAYING" /\ device[d].pos < Length[device[d].sound]

\* When a piece is mixed, what is heard of an entry is what the entry says: its sound,
\* if the piece is between begin and end and the sound is long enough, at the place that
\* belongs to the time, and nothing else.  (An edit that comes while the handles are being
\* updated may wait for the next piece, not longer.)
EntriesAreHeard ==
    at = "mix" => \A i \in DOMAIN m_handles :
        LET h == m_handles[i]
            e == entry[h.entry]
            p == e.place
            x == m_position - p.begin + p.skip
            due == /\ p.begin <= m_position /\ m_position <= p.end
                   /\ e.sound # NoSound /\ x < (IF e.sound = NoSound THEN 0 ELSE Length[e.sound])
        IN h.entry \notin touched
               => /\ Heard(h.ptr) <=> due
                  /\ due => device[h.ptr].sound = e.sound /\ device[h.ptr].pos = x
=============================================================================
