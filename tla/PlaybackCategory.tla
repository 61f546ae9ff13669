--------------------------- MODULE PlaybackCategory ---------------------------
(***************************************************************************)
(* Categories of sounds (src/fx/PlaybackCategory.cpp) and the manager that *)
(* names them by keys (src/fx/PlaybackManager.cpp), composed with the      *)
(* mixing pass of the device.                                              *)
(*                                                                         *)
(* A category keeps a table of the handles it gave out.  Its own calls     *)
(* change the table under the device mutex; so does cleanHandleCallback(), *)
(* which the mixing thread runs when a sound has ended.  The fields        *)
(* m_status and m_currentID are written after the mutex was released.      *)
(* cleanHandles() does not lock: the model's clients call it under the     *)
(* device's lock(), as they have to if a sound may end meanwhile.          *)
(***************************************************************************)
EXTENDS MixPass, Functions

CONSTANTS
    Clients,        \* the threads that use the manager
    Mixer,          \* the mixing thread
    NoThread,       \* the owner of a free device mutex
    MaxKey,         \* bound: keys of categories are 0 .. MaxKey
    MaxFailures,    \* bound on the play() calls of the device that give no handle
    Rearming        \* whether users start a kept sound that has ended again

ASSUME CategoryAssumption ==
    /\ NoThread \notin Clients \cup {Mixer} /\ Mixer \notin Clients
    /\ MaxKey \in Nat /\ MaxFailures \in Nat /\ Rearming \in BOOLEAN

VARIABLES
    m_categories,   \* the keys of the manager that name a category
    m_currentKey,
    m_status, m_handles, m_currentID,   \* of each category
    data,           \* what each handle passes to its stop callback
    reported,       \* the sounds of this pass whose callback has run
    lock,           \* owner of the device mutex
    leaked,         \* the clients that returned from play() without unlock()
    call,           \* the call each client is in
    stopped,        \* history: the sounds stopped by their handle
    resumed,        \* history: the sounds resumed by their handle
    dangling        \* history: a callback used memory that was deleted

Keys == 0 .. MaxKey
table == <<m_status, m_handles, m_currentID>>
manager == <<m_categories, m_currentKey>>
history == <<stopped, resumed>>
vars == <<handleVars, manager, table, data, reported, lock, leaked, call, history, dangling>>

Idle == [op |-> "none"]
NoData == [at |-> "none"]
Empty == [i \in {} |-> 0]

Init ==
    /\ AInit /\ PassInit
    /\ m_categories = {} /\ m_currentKey = 0
    /\ m_status = [k \in Keys |-> "PLAYING"]
    /\ m_handles = [k \in Keys |-> Empty]
    /\ m_currentID = [k \in Keys |-> 0]
    /\ data = [h \in Handles |-> NoData]
    /\ reported = {}
    /\ lock = NoThread /\ leaked = {}
    /\ call = [c \in Clients |-> Idle]
    /\ stopped = {} /\ resumed = {}
    /\ dangling = FALSE

Members(k) == Range(m_handles[k])

\* lock() by a client; the mutex is recursive.
CanLock(c) == lock \in {NoThread, c}

\* The owner of the mutex once c has called unlock() for the lock() of this call.
Unlocked(c) == IF c \in leaked THEN c ELSE NoThread

Begin(c) == call[c] = Idle /\ Budget

\* A table with one more entry.
Added(t, id, h) == [i \in DOMAIN t \cup {id} |-> IF i = id THEN h ELSE t[i]]
------------------------------------------------------------------------------
(* play(): an unknown key is a new category; the device is locked, ... *)

PlayBegins(c, k, h) ==
    /\ Begin(c) /\ CanLock(c)
    /\ Start(h)
    /\ lock' = c
    /\ m_categories' = m_categories \cup {k}
    /\ call' = [call EXCEPT ![c] = [op |-> "play", key |-> k, h |-> h]]
    /\ UNCHANGED <<passVars, m_currentKey, table, data, reported, leaked, history, dangling>>

\* ... a device that gives no handle is left locked, ...
PlayFails(c, k) ==
    /\ Begin(c) /\ CanLock(c) /\ leaked = {} /\ MaxFailures > 0
    /\ lock' = c /\ leaked' = {c}
    /\ m_categories' = m_categories \cup {k}
    /\ UNCHANGED <<avars, passVars, m_currentKey, table, data, reported, call, history, dangling>>

\* Slip: a sound that starts in a paused category plays.
PlayRegisters_Unpaused(c) ==
    /\ call[c].op = "play"
    /\ LET k == call[c].key  h == call[c].h  id == m_currentID[k] IN
       /\ m_handles' = [m_handles EXCEPT ![k] = Added(@, id, h)]
       /\ data' = [data EXCEPT ![h] = [at |-> "live", key |-> k, id |-> id]]
    /\ lock' = Unlocked(c)
    /\ call' = [call EXCEPT ![c].op = "count"]
    /\ UNCHANGED <<avars, m_status, passVars, ops, manager, m_currentID, reported, leaked, history, dangling>>

\* ... the handle takes the status of the category and its place in the table, ...
PlayRegisters(c) ==
    /\ call[c].op = "play"
    /\ LET k == call[c].key  h == call[c].h  id == m_currentID[k] IN
       /\ IF m_status[k] = "PAUSED"
          THEN Pause(h) /\ UNCHANGED m_status
          ELSE m_status' = [m_status EXCEPT ![k] = "PLAYING"] /\ UNCHANGED avars
       /\ m_handles' = [m_handles EXCEPT ![k] = Added(@, id, h)]
       /\ data' = [data EXCEPT ![h] = [at |-> "live", key |-> k, id |-> id]]
    /\ lock' = Unlocked(c)
    /\ call' = [call EXCEPT ![c].op = "count"]
    /\ UNCHANGED <<passVars, ops, manager, m_currentID, reported, leaked, history, dangling>>

\* Slip: the number of the entry is used again.
PlayCounts_Reused(c) ==
    /\ call[c].op = "count"
    /\ call' = [call EXCEPT ![c] = Idle]
    /\ UNCHANGED <<handleVars, manager, table, data, reported, lock, leaked, history, dangling>>

\* ... and the next one gets another number.
PlayCounts(c) ==
    /\ call[c].op = "count"
    /\ m_currentID' = [m_currentID EXCEPT ![call[c].key] = @ + 1]
    /\ call' = [call EXCEPT ![c] = Idle]
    /\ UNCHANGED <<handleVars, manager, m_status, m_handles, data, reported, lock, leaked, history,
                   dangling>>
------------------------------------------------------------------------------
(* pause(), resume() and stop() of a category, and what empties its table. *)

\* What the handle's operation makes of its status.
Result(op, s) ==
    CASE op = "pause" /\ s = "PLAYING" -> "PAUSED"
      [] op = "resume" /\ s = "PAUSED" -> "PLAYING"
      [] op = "stop" /\ s \in {"PLAYING", "PAUSED", "STOPPED"} -> "INVALID"
      [] OTHER -> s

StatusAfter == [pause |-> "PAUSED", resume |-> "PLAYING", stop |-> "STOPPED"]

\* The entries of a table whose handle is valid in a state of the handles.
ValidEntries(t, st) == Restrict(t, {i \in DOMAIN t : st[t[i]] # "INVALID"})

\* The operation on every handle of some categories; invalid ones are forgotten.
ApplyTo(ks, op) ==
    /\ state' = [h \in Handles |->
                    IF \E k \in ks : h \in Members(k) THEN Result(op, state[h]) ELSE state[h]]
    /\ active' = (\E h \in Handles : state'[h] = "PLAYING")
    /\ m_handles' = [k \in Keys |->
                        IF k \in ks THEN ValidEntries(m_handles[k], state') ELSE m_handles[k]]
    /\ UNCHANGED passVars

Apply(c, k, op) ==
    /\ Begin(c) /\ CanLock(c) /\ k \in m_categories
    /\ ApplyTo({k}, op)
    /\ resumed' = IF op = "pause" THEN resumed \ Members(k) ELSE resumed
    /\ call' = [call EXCEPT ![c] = [op |-> "status", key |-> k, status |-> StatusAfter[op]]]
    /\ UNCHANGED <<manager, m_status, m_currentID, data, reported, lock, leaked, stopped, dangling>>

\* The category's status is written after the device was unlocked.
StatusWritten(c) ==
    /\ call[c].op = "status"
    /\ m_status' = [m_status EXCEPT ![call[c].key] = call[c].status]
    /\ call' = [call EXCEPT ![c] = Idle]
    /\ UNCHANGED <<handleVars, manager, m_handles, m_currentID, data, reported, lock, leaked, history,
                   dangling>>

\* clean(), of one category or of all.
Clean(c, ks) ==
    /\ Begin(c) /\ CanLock(c)
    /\ ApplyTo(ks, "clean")
    /\ UNCHANGED <<manager, m_status, m_currentID, data, reported, lock, leaked, call, history,
                   dangling>>

\* addCategory(): the first free key from m_currentKey on.
AddCategory(c, k) ==
    /\ Begin(c)
    /\ k \notin m_categories /\ m_currentKey .. k - 1 \subseteq m_categories /\ k >= m_currentKey
    /\ m_categories' = m_categories \cup {k}
    /\ m_currentKey' = k + 1
    /\ UNCHANGED <<avars, passVars, table, data, reported, lock, leaked, call, history, dangling>>

\* Slip: the sounds of a category play on when it is gone.
Destroy_Playing(c) ==
    /\ Begin(c) /\ CanLock(c) /\ \A d \in Clients : call[d] = Idle
    /\ m_categories' = {} /\ m_currentKey' = MaxKey + 1
    /\ UNCHANGED <<avars, passVars, table, data, reported, lock, leaked, call, history, dangling>>

\* The manager is destroyed, and its categories with it, each of which stops its sounds.
Destroy(c) ==
    /\ Begin(c) /\ CanLock(c) /\ \A d \in Clients : call[d] = Idle
    /\ ApplyTo(m_categories, "stop")
    /\ m_categories' = {} /\ m_currentKey' = MaxKey + 1
    /\ UNCHANGED <<m_status, m_currentID, data, reported, lock, leaked, call, history, dangling>>

Alive == m_currentKey <= MaxKey \/ m_categories # {}

Client(c) ==
    \/ \E k \in Keys : /\ Alive
                       /\ \/ \E h \in Handles : PlayBegins(c, k, h)
                          \/ PlayFails(c, k)
                          \/ \E op \in DOMAIN StatusAfter : Apply(c, k, op)
                          \/ k \in m_categories /\ Clean(c, {k})
                          \/ AddCategory(c, k)
    \/ Alive /\ (Clean(c, m_categories) \/ Destroy(c))
    \/ PlayRegisters(c) \/ PlayCounts(c) \/ StatusWritten(c)

\* A user pauses, resumes, stops or starts again a single sound, from any thread.
UseHandle(h) ==
    /\ lock = NoThread /\ Budget
    /\ data[h] # NoData
    /\ \/ Pause(h) /\ UNCHANGED history
       \/ Resume(h) /\ resumed' = resumed \cup {h} /\ UNCHANGED stopped
       \/ Stop(h) /\ stopped' = stopped \cup {h} /\ UNCHANGED resumed
       \/ Rearming /\ Rearm(h) /\ UNCHANGED history
    /\ UNCHANGED <<passVars, manager, table, data, reported, lock, leaked, call, dangling>>
------------------------------------------------------------------------------
(* The mixing thread. *)

MixBegins ==
    /\ lock = NoThread
    /\ lock' = Mixer
    /\ reported' = {}
    /\ MixSounds
    /\ UNCHANGED <<manager, table, data, leaked, call, history, dangling>>

\* cleanHandleCallback() of a sound that has ended erases its entry and its data.
CleanHandleCallback(h) ==
    /\ pass = "callbacks" /\ h \in ending \ reported /\ data[h] # NoData
    /\ reported' = reported \cup {h}
    /\ dangling' = (dangling \/ data[h].at = "deleted" \/ data[h].key \notin m_categories)
    /\ m_handles' = [m_handles EXCEPT ![data[h].key] = Restrict(@, DOMAIN @ \ {data[h].id})]
    /\ data' = [data EXCEPT ![h].at = "deleted"]
    /\ UNCHANGED <<handleVars, manager, m_status, m_currentID, lock, leaked, call, history>>

MixEnds ==
    /\ \/ {h \in ending \ reported : data[h] # NoData} = {} /\ CallbacksDone
       \/ \E h \in Handles : Cleanup(h)
    /\ UNCHANGED <<manager, table, data, reported, lock, leaked, call, history, dangling>>

MixDone ==
    /\ PassDone
    /\ lock' = NoThread
    /\ UNCHANGED <<manager, table, data, reported, leaked, call, history, dangling>>

Next ==
    \/ \E c \in Clients : Client(c)
    \/ \E h \in Handles : UseHandle(h) \/ CleanHandleCallback(h)
    \/ MixBegins \/ MixEnds \/ MixDone

Spec == Init /\ [][Next]_vars
------------------------------------------------------------------------------
(* Properties. *)

Entry == [at : {"live", "deleted"}, key : Keys, id : 0 .. MaxOps]

\* Every variable keeps its type.
TypeOK ==
    /\ PassTypeOK
    /\ m_categories \subseteq Keys /\ m_currentKey \in 0 .. MaxKey + 1
    /\ m_status \in [Keys -> {"PLAYING", "PAUSED", "STOPPED"}]
    /\ \A k \in Keys : DOMAIN m_handles[k] \subseteq 0 .. MaxOps /\ Members(k) \subseteq Handles
    /\ m_currentID \in [Keys -> 0 .. MaxOps]
    /\ data \in [Handles -> Entry \cup {NoData}]
    /\ reported \subseteq Handles /\ stopped \subseteq Handles /\ resumed \subseteq Handles
    /\ lock \in Clients \cup {Mixer, NoThread} /\ leaked \subseteq Clients
    /\ dangling \in BOOLEAN

\* A category reaches every sound it has given out and that has not ended, under the
\* number its callback will erase; and an invalid handle in a table was stopped by its
\* user (PlaybackCategory.h: cleanHandles() is "Only needed if individual sounds are
\* stopped with their handles").
CategoryReachesSounds ==
    /\ \A h \in Handles :
           data[h] # NoData /\ state[h] \in {"PLAYING", "PAUSED"} /\ h \notin reported
               => \A k \in Keys : {i \in DOMAIN m_handles[k] : m_handles[k][i] = h}
                                     = IF k = data[h].key THEN {data[h].id} ELSE {}
    /\ \A k \in Keys : \A h \in Members(k) : state[h] = "INVALID" => h \in stopped

\* A callback never gets data that was deleted, nor a category that is gone.
DataUsedOnce == ~dangling

\* In a paused category nothing plays, except what a user has resumed by its handle:
\* the sounds that were there and those that came since are all paused.
PausedIsSilent ==
    \A k \in m_categories :
        m_status[k] = "PAUSED" /\ (\A c \in Clients : call[c].op \notin {"status", "play"})
            => \A h \in Members(k) : state[h] = "PLAYING" => h \in resumed
=============================================================================
