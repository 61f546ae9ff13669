------------------------ MODULE PlaybackCategory_proofs ------------------------
(***************************************************************************)
(* Theorems about PlaybackCategory, for any number of sounds and keys: for *)
(* one client at a time, and users who leave a sound that has ended alone. *)
(***************************************************************************)
EXTENDS PlaybackCategory, TLAPS

(* What a pass of mix() and the calls of users preserve of the handles.     *)

\* The two variables of the handles.
HandlesTypeOK ==
    /\ state \in [Handles -> {"UNBORN", "PLAYING", "PAUSED", "STOPPED", "INVALID"}]
    /\ active \in BOOLEAN

\* What a user does to a handle keeps the types.
LEMMA OperationType ==
    ASSUME HandlesTypeOK, NEW h \in Handles, Operation(h) \/ Finish(h)
    PROVE  HandlesTypeOK'
<1>1. PICK s \in {"PLAYING", "PAUSED", "STOPPED", "INVALID"} : Becomes(h, s)
  BY DEF Operation, Start, Pause, Resume, Rearm, Stop, Finish
<1> QED
  BY <1>1 DEF HandlesTypeOK, Becomes

\* And the counter of the calls stays within its bound.
LEMMA BudgetType ==
    ASSUME ops \in 0 .. MaxOps, Budget
    PROVE  ops' \in 0 .. MaxOps
BY MaxOpsAssumption DEF Budget

\* The first step of a pass picks the sounds that end.
LEMMA MixSoundsType ==
    ASSUME PassTypeOK, MixSounds
    PROVE  PassTypeOK' /\ pass = "none" /\ pass' = "callbacks" /\ active' = active
BY DEF PassTypeOK, MixSounds, Sounding, avars

\* The end of the callbacks and each step of the cleanup.
LEMMA PassEndsType ==
    ASSUME PassTypeOK, CallbacksDone \/ \E h \in Handles : Cleanup(h)
    PROVE  PassTypeOK' /\ pass # "none" /\ pass' = "cleanup"
<1>1. CASE CallbacksDone
  BY <1>1 DEF CallbacksDone, PassTypeOK, avars
<1>2. ASSUME NEW h \in Handles, Cleanup(h)
      PROVE  PassTypeOK' /\ pass # "none" /\ pass' = "cleanup"
  <2>1. HandlesTypeOK'
    <3>1. CASE UNCHANGED avars
      BY <3>1 DEF PassTypeOK, HandlesTypeOK, avars
    <3>2. CASE Finish(h) \/ Stop(h)
      BY <3>2, OperationType DEF PassTypeOK, HandlesTypeOK, Operation
    <3> QED
      BY <1>2, <3>1, <3>2 DEF Cleanup
  <2> QED
    BY <1>2, <2>1 DEF Cleanup, PassTypeOK, HandlesTypeOK
<1> QED
  BY <1>1, <1>2
------------------------------------------------------------------------------

\* m_currentID++ comes after the unlock: two clients would use one number twice.
OneClient == \A c, d \in Clients : c = d

\* Callback data are deleted with the first end of a sound.
Restrained == OneClient /\ ~Rearming
------------------------------------------------------------------------------
(* The inductive invariant. *)

Tables == UNION {[S -> Handles] : S \in SUBSET Nat}

Calls ==
    {Idle} \cup [op : {"play", "count"}, key : Keys, h : Handles]
           \cup [op : {"status"}, key : Keys, status : {"PLAYING", "PAUSED", "STOPPED"}]

Entries == [at : {"live", "deleted"}, key : Keys, id : Nat]

Types ==
    /\ PassTypeOK
    /\ m_categories \subseteq Keys
    /\ m_status \in [Keys -> {"PLAYING", "PAUSED", "STOPPED"}]
    /\ m_handles \in [Keys -> Tables]
    /\ m_currentID \in [Keys -> Nat]
    /\ data \in [Handles -> Entries \cup {NoData}]
    /\ reported \subseteq Handles
    /\ call \in [Clients -> Calls]
    /\ lock \in Clients \cup {Mixer, NoThread}
    /\ leaked \subseteq Clients

\* The device is locked for a whole pass, and until a new sound is in the table.
LockInv ==
    /\ pass # "none" <=> lock = Mixer
    /\ pass = "none" => ending = {}
    /\ \A c \in Clients : call[c].op = "play" => lock = c

\* The sound of a play() call plays and has no data yet, nor has one that was not started.
PlayInv ==
    /\ \A c \in Clients : call[c].op = "play" =>
          /\ call[c].key \in m_categories
          /\ data[call[c].h] = NoData /\ state[call[c].h] = "PLAYING"
    /\ \A h \in Handles : state[h] = "UNBORN" => data[h] = NoData

\* The numbers in use are below the next one, but for the one that is about to be counted.
NumberInv ==
    \A k \in Keys : \A i \in DOMAIN m_handles[k] :
        \/ i < m_currentID[k]
        \/ i = m_currentID[k] /\ \E c \in Clients : call[c].op = "count" /\ call[c].key = k

\* The data of a sound in a table say where it is.
TableInv ==
    \A k \in Keys : \A i \in DOMAIN m_handles[k] :
        LET h == m_handles[k][i] IN data[h] # NoData /\ data[h].key = k /\ data[h].id = i

\* A sound that has not ended is in its table, and its data and its category are there.
ReachInv ==
    \A h \in Handles :
        data[h] # NoData /\ state[h] \in {"PLAYING", "PAUSED"} /\ h \notin reported =>
            /\ data[h].at = "live" /\ data[h].key \in m_categories
            /\ data[h].id \in DOMAIN m_handles[data[h].key]
            /\ m_handles[data[h].key][data[h].id] = h

\* A sound whose callback has run is in no table and ends in this pass or has ended.
ReportedInv ==
    /\ \A h \in ending : state[h] = "PLAYING"
    /\ \A h \in reported :
          /\ data[h] # NoData
          /\ h \in ending \/ state[h] \in {"STOPPED", "INVALID"}
          /\ \A k \in Keys : h \notin Members(k)
    /\ pass = "cleanup" => \A h \in ending : data[h] # NoData => h \in reported

\* A table has no invalid handle but those that were stopped by themselves.
StoppedInv == \A k \in Keys : \A h \in Members(k) : state[h] = "INVALID" => h \in stopped

\* What the status of a category is, or is about to become.
Settled(k) ==
    IF \E c \in Clients : call[c].op = "status" /\ call[c].key = k
    THEN call[CHOOSE c \in Clients : call[c].op = "status" /\ call[c].key = k].status
    ELSE m_status[k]

SilentInv ==
    \A k \in Keys : Settled(k) = "PAUSED" => \A h \in Members(k) : state[h] = "PLAYING" => h \in resumed

IInv ==
    /\ Types /\ LockInv /\ PlayInv /\ NumberInv /\ TableInv /\ ReachInv
    /\ ReportedInv /\ StoppedInv /\ SilentInv /\ DataUsedOnce
------------------------------------------------------------------------------
(* Tables. *)

\* What is in a table.
LEMMA InTable ==
    ASSUME NEW k, NEW h
    PROVE  h \in Members(k) <=> \E i \in DOMAIN m_handles[k] : m_handles[k][i] = h
BY DEF Members, Range

\* A table with one more entry.
LEMMA AddedTable ==
    ASSUME NEW t \in Tables, NEW id \in Nat, NEW h \in Handles
    PROVE  /\ Added(t, id, h) \in Tables
           /\ DOMAIN Added(t, id, h) = DOMAIN t \cup {id}
           /\ Added(t, id, h)[id] = h
           /\ \A i \in DOMAIN t : i # id => Added(t, id, h)[i] = t[i]
<1>1. PICK S \in SUBSET Nat : t \in [S -> Handles]
  BY DEF Tables
<1>2. Added(t, id, h) \in [S \cup {id} -> Handles]
  BY <1>1 DEF Added
<1>3. S \cup {id} \in SUBSET Nat
  BY <1>1
<1>4. Added(t, id, h) \in Tables
  BY <1>2, <1>3 DEF Tables
<1> QED
  BY <1>1, <1>4 DEF Added

\* A table with fewer entries.
LEMMA RestrictedTable ==
    ASSUME NEW t \in Tables, NEW S \in SUBSET DOMAIN t
    PROVE  /\ Restrict(t, S) \in Tables
           /\ DOMAIN Restrict(t, S) = S
           /\ \A i \in S : Restrict(t, S)[i] = t[i]
<1>1. PICK N \in SUBSET Nat : t \in [N -> Handles]
  BY DEF Tables
<1>2. Restrict(t, S) \in [S -> Handles] /\ S \in SUBSET Nat
  BY <1>1 DEF Restrict
<1> QED
  BY <1>2 DEF Restrict, Tables

\* An entry is a sound.
LEMMA EntriesOfTables ==
    ASSUME NEW t \in Tables, NEW i \in DOMAIN t
    PROVE  t[i] \in Handles /\ i \in Nat
BY DEF Tables

\* Tables have sounds only.
LEMMA SoundsInTables == Types => \A k \in Keys : Members(k) \subseteq Handles
<1> SUFFICES ASSUME Types, NEW k \in Keys, NEW h \in Members(k) PROVE h \in Handles
  OBVIOUS
<1>1. PICK i \in DOMAIN m_handles[k] : m_handles[k][i] = h
  BY InTable
<1>2. m_handles[k] \in Tables
  BY DEF Types
<1> QED
  BY <1>1, <1>2, EntriesOfTables

Ops == {"pause", "resume", "stop", "clean"}

\* The entries of the tables before an operation: they stay or are invalid, and those of the
\* categories it is about have its result.
EntriesApplied(ks, op) ==
    \A k \in Keys : \A i \in DOMAIN m_handles[k] :
       /\ i \in DOMAIN m_handles'[k] \/ state'[m_handles[k][i]] = "INVALID"
       /\ state'[m_handles[k][i]] = IF k \in ks THEN Result(op, state[m_handles[k][i]])
                                                ELSE state[m_handles[k][i]]

\* What an operation on some categories does: sounds that are in none of them keep their
\* status, tables lose only handles that are invalid, and those of the categories all of them.
LEMMA AppliedTo ==
    ASSUME Types, TableInv, NEW ks \in SUBSET Keys, NEW op \in Ops, ApplyTo(ks, op), ops' \in 0 .. MaxOps
    PROVE  /\ PassTypeOK'
           /\ m_handles' \in [Keys -> Tables]
           /\ \A k \in Keys : \A i \in DOMAIN m_handles'[k] :
                 /\ i \in DOMAIN m_handles[k] /\ m_handles'[k][i] = m_handles[k][i]
                 /\ k \in ks => state'[m_handles[k][i]] # "INVALID"
           /\ EntriesApplied(ks, op)
           /\ \A h \in Handles : state'[h] \in {state[h], Result(op, state[h])}
           /\ UNCHANGED passVars
<1> DEFINE st(h) == IF \E k \in ks : h \in Members(k) THEN Result(op, state[h]) ELSE state[h]
<1>1. state' = [h \in Handles |-> st(h)]
  BY DEF ApplyTo
<1>2. \A h \in Handles : st(h) \in {"UNBORN", "PLAYING", "PAUSED", "STOPPED", "INVALID"}
  BY DEF Types, PassTypeOK, Result
<1>3. PassTypeOK'
  BY <1>1, <1>2 DEF ApplyTo, Types, PassTypeOK, passVars
<1>4. ASSUME NEW k \in Keys, k \in ks
      PROVE  /\ m_handles'[k] \in Tables
             /\ DOMAIN m_handles'[k] = {i \in DOMAIN m_handles[k] : state'[m_handles[k][i]] # "INVALID"}
             /\ \A i \in DOMAIN m_handles'[k] : m_handles'[k][i] = m_handles[k][i]
  <2>1. m_handles'[k] = ValidEntries(m_handles[k], state')
    BY <1>4 DEF ApplyTo
  <2>2. m_handles[k] \in Tables
    BY DEF Types
  <2> QED
    BY <2>1, <2>2, RestrictedTable DEF ValidEntries
<1>5. ASSUME NEW k \in Keys, k \notin ks PROVE m_handles'[k] = m_handles[k] /\ m_handles[k] \in Tables
  BY <1>5 DEF ApplyTo, Types
<1>6. m_handles' \in [Keys -> Tables]
  <2>1. m_handles' = [k \in Keys |-> m_handles'[k]]
    BY DEF ApplyTo
  <2> QED
    BY <1>4, <1>5, <2>1
<1>7. ASSUME NEW k \in Keys, NEW i \in DOMAIN m_handles[k]
      PROVE  st(m_handles[k][i]) = IF k \in ks THEN Result(op, state[m_handles[k][i]])
                                               ELSE state[m_handles[k][i]]
  <2>1. \A l \in Keys : m_handles[k][i] \in Members(l) => l = k
    BY InTable DEF TableInv
  <2>2. m_handles[k][i] \in Members(k)
    BY InTable
  <2> QED
    BY <2>1, <2>2
<1>8. \A k \in Keys : \A i \in DOMAIN m_handles[k] : m_handles[k][i] \in Handles
  BY EntriesOfTables DEF Types
<1>9. UNCHANGED passVars
  BY DEF ApplyTo
<1>10. \A h \in Handles : state'[h] \in {state[h], Result(op, state[h])}
  BY <1>1
<1>11. \A k \in Keys : \A i \in DOMAIN m_handles[k] :
           state'[m_handles[k][i]] = IF k \in ks THEN Result(op, state[m_handles[k][i]])
                                                 ELSE state[m_handles[k][i]]
  BY <1>1, <1>7, <1>8
<1> HIDE DEF st
<1>12. \A k \in Keys : \A i \in DOMAIN m_handles'[k] :
                 /\ i \in DOMAIN m_handles[k] /\ m_handles'[k][i] = m_handles[k][i]
                 /\ k \in ks => state'[m_handles[k][i]] # "INVALID"
  BY <1>4, <1>5
<1>13. \A k \in Keys : \A i \in DOMAIN m_handles[k] :
                 i \in DOMAIN m_handles'[k] \/ state'[m_handles[k][i]] = "INVALID"
  BY <1>4, <1>5
<1>14. EntriesApplied(ks, op)
  BY <1>11, <1>13 DEF EntriesApplied
<1> QED
  BY <1>3, <1>6, <1>9, <1>10, <1>12, <1>14
------------------------------------------------------------------------------
(* play(). *)

\* A sound that starts is in no table.
LEMMA PlayBeginsKeepsIInv ==
    ASSUME IInv, OneClient, NEW c \in Clients, NEW k \in Keys, NEW h \in Handles, PlayBegins(c, k, h)
    PROVE  IInv'
<1> USE CategoryAssumption DEF IInv
<1>1. /\ state' = [state EXCEPT ![h] = "PLAYING"] /\ state[h] = "UNBORN" /\ data[h] = NoData
      /\ call' = [call EXCEPT ![c] = [op |-> "play", key |-> k, h |-> h]] /\ call[c] = Idle
      /\ lock' = c /\ pass = "none" /\ m_categories' = m_categories \cup {k}
      /\ UNCHANGED <<passVars, m_currentKey, table, data, reported, leaked, history, dangling>>
  BY DEF PlayBegins, Begin, CanLock, Start, Becomes, PlayInv, LockInv, Types
<1>2. Types'
  <2>1. PassTypeOK'
    BY <1>1, OperationType, BudgetType
       DEF PlayBegins, Begin, Types, PassTypeOK, HandlesTypeOK, Operation, passVars
  <2> QED
    BY <1>1, <2>1 DEF Types, Calls, table
<1>3. LockInv'
  BY <1>1 DEF LockInv, OneClient, passVars, Types
<1>4. PlayInv'
  BY <1>1 DEF PlayInv, OneClient, Types, PassTypeOK
<1>5. \A l \in Keys : \A i \in DOMAIN m_handles[l] : m_handles[l][i] # h
  BY <1>1 DEF TableInv
<1>6. NumberInv'
  BY <1>1 DEF NumberInv, OneClient, Types, table, Idle
<1>7. TableInv' /\ ReachInv' /\ DataUsedOnce'
  BY <1>1 DEF TableInv, ReachInv, DataUsedOnce, Types, PassTypeOK, table
<1>8. ReportedInv'
  BY <1>1 DEF ReportedInv, Types, PassTypeOK, table, passVars, Members
<1>9. StoppedInv'
  BY <1>1 DEF StoppedInv, Types, PassTypeOK, table, history, Members
<1>10. SilentInv'
  <2>1. \A l \in Keys : Settled(l) = m_status[l] /\ Settled(l)' = m_status[l]
    BY <1>1 DEF Settled, OneClient, Idle, table, Types
  <2>2. \A l \in Keys : Members(l)' = Members(l) /\ h \notin Members(l)
    BY <1>1, <1>5, InTable DEF table, Members
  <2> QED
    BY <1>1, <2>1, <2>2 DEF SilentInv, Types, PassTypeOK, history
<1> QED
  BY <1>2, <1>3, <1>4, <1>6, <1>7, <1>8, <1>9, <1>10

\* A device that stays locked stops everything but the client.
LEMMA PlayFailsKeepsIInv ==
    ASSUME IInv, OneClient, NEW c \in Clients, NEW k \in Keys, PlayFails(c, k)
    PROVE  IInv'
<1> USE CategoryAssumption DEF IInv
<1>1. /\ call[c] = Idle /\ lock' = c /\ leaked' = {c} /\ pass = "none"
      /\ m_categories' = m_categories \cup {k}
      /\ UNCHANGED <<avars, passVars, m_currentKey, table, data, reported, call, history, dangling>>
  BY DEF PlayFails, Begin, CanLock, LockInv, Types
<1>2. Types'
  BY <1>1, BudgetType DEF PlayFails, Begin, Types, PassTypeOK, avars, passVars, table
<1>3. LockInv' /\ PlayInv' /\ NumberInv' /\ TableInv'
  BY <1>1 DEF LockInv, PlayInv, NumberInv, TableInv, OneClient, Idle, avars, passVars, table
<1>4. ReachInv' /\ ReportedInv' /\ StoppedInv' /\ DataUsedOnce'
  BY <1>1 DEF ReachInv, ReportedInv, StoppedInv, DataUsedOnce, Members, avars, passVars, table, history
<1>5. SilentInv'
  BY <1>1 DEF SilentInv, Settled, Members, avars, table, history
<1> QED
  BY <1>2, <1>3, <1>4, <1>5

\* The new entry gets a number that is free, and the sound the status of its category.
LEMMA PlayRegistersKeepsIInv ==
    ASSUME IInv, OneClient, NEW c \in Clients, PlayRegisters(c)
    PROVE  IInv'
<1> USE CategoryAssumption DEF IInv
<1> DEFINE k == call[c].key
           h == call[c].h
           id == m_currentID[k]
<1>1. /\ call[c].op = "play" /\ k \in m_categories /\ k \in Keys /\ h \in Handles /\ id \in Nat
      /\ data[h] = NoData /\ state[h] = "PLAYING" /\ lock = c /\ pass = "none" /\ ending = {}
      /\ call[c] \in Calls
  <2>1. call[c] \in Calls /\ call[c].op = "play"
    BY DEF PlayRegisters, Types
  <2>2. k \in Keys /\ h \in Handles
    BY <2>1 DEF Calls, Idle
  <2> QED
    BY <2>1, <2>2 DEF PlayInv, LockInv, Types
<1>2. /\ m_handles' = [m_handles EXCEPT ![k] = Added(@, id, h)]
      /\ data' = [data EXCEPT ![h] = [at |-> "live", key |-> k, id |-> id]]
      /\ call' = [call EXCEPT ![c].op = "count"]
      /\ lock' \in {c, NoThread}
      /\ UNCHANGED <<passVars, ops, manager, m_currentID, reported, leaked, history, dangling>>
  BY DEF PlayRegisters, Unlocked
<1>3. \/ m_status[k] = "PAUSED" /\ state[h] = "PLAYING" /\ state' = [state EXCEPT ![h] = "PAUSED"] /\ m_status' = m_status
      \/ m_status[k] # "PAUSED" /\ m_status' = [m_status EXCEPT ![k] = "PLAYING"] /\ state' = state
  BY DEF PlayRegisters, Pause, Becomes, avars
<1>4. HandlesTypeOK'
  <2>1. Pause(h) \/ UNCHANGED avars
    BY DEF PlayRegisters
  <2> QED
    BY <1>1, <2>1, OperationType DEF Types, PassTypeOK, HandlesTypeOK, Operation, avars
<1>5. call'[c] = [call[c] EXCEPT !.op = "count"] /\ call'[c] \in Calls
      /\ call'[c].op = "count" /\ call'[c].key = k
  BY <1>1, <1>2 DEF Types, Calls, Idle
<1>6. /\ \A l \in Keys : l # k => m_handles'[l] = m_handles[l]
      /\ m_handles'[k] = Added(m_handles[k], id, h) /\ m_handles' \in [Keys -> Tables]
  BY <1>1, <1>2, AddedTable DEF Types
<1>7. (\A l \in Keys : \A i \in DOMAIN m_handles[l] : i < m_currentID[l]) /\ id \notin DOMAIN m_handles[k]
  <2>1. \A d \in Clients : call[d].op # "count"
    BY <1>1 DEF OneClient
  <2>2. \A l \in Keys : \A i \in DOMAIN m_handles[l] : i < m_currentID[l]
    BY <2>1 DEF NumberInv
  <2>3. id \in DOMAIN m_handles[k] => id < id
    BY <1>1, <2>2
  <2>4. ~(id < id)
    BY <1>1
  <2> QED
    BY <2>2, <2>3, <2>4
<1>8. /\ DOMAIN m_handles'[k] = DOMAIN m_handles[k] \cup {id}
      /\ m_handles'[k][id] = h
      /\ \A i \in DOMAIN m_handles[k] : m_handles'[k][i] = m_handles[k][i]
  <2>1. m_handles[k] \in Tables
    BY <1>1 DEF Types
  <2> HIDE DEF k, h, id
  <2>2. /\ DOMAIN Added(m_handles[k], id, h) = DOMAIN m_handles[k] \cup {id}
        /\ Added(m_handles[k], id, h)[id] = h
        /\ \A i \in DOMAIN m_handles[k] : i # id => Added(m_handles[k], id, h)[i] = m_handles[k][i]
    BY <1>1, <2>1, AddedTable
  <2> QED
    BY <1>6, <1>7, <2>2
<1>9. /\ \A l \in Keys : \A i \in DOMAIN m_handles[l] : m_handles[l][i] # h
      /\ h \notin reported
  BY <1>1 DEF TableInv, ReportedInv
<1>10. \A l \in Keys : \A g : g \in Members(l)' <=> g \in Members(l) \/ (l = k /\ g = h)
  <2>1. \A l \in Keys : \A g : g \in Members(l)' <=> \E i \in DOMAIN m_handles'[l] : m_handles'[l][i] = g
    BY DEF Members, Range
  <2> QED
    BY <1>1, <1>6, <1>8, <2>1, InTable
<1>11. /\ data'[h] = [at |-> "live", key |-> k, id |-> id] /\ data'[h] # NoData
       /\ \A g \in Handles : g # h => data'[g] = data[g] /\ state'[g] = state[g]
  BY <1>1, <1>2, <1>3 DEF Types, PassTypeOK, NoData
<1>12. Types'
  <2>1. data' \in [Handles -> Entries \cup {NoData}]
    BY <1>1, <1>2 DEF Types, Entries
  <2>2. PassTypeOK'
    BY <1>2, <1>4 DEF HandlesTypeOK, Types, PassTypeOK, passVars
  <2>3. m_status' \in [Keys -> {"PLAYING", "PAUSED", "STOPPED"}]
    BY <1>1, <1>3 DEF Types
  <2>4. call' \in [Clients -> Calls]
    BY <1>2, <1>5 DEF Types
  <2> QED
    BY <1>2, <1>6, <2>1, <2>2, <2>3, <2>4 DEF Types, manager
<1> HIDE DEF k, h, id
<1>13. LockInv'
  BY <1>1, <1>2, <1>5 DEF LockInv, OneClient, passVars
<1>14. PlayInv'
  <2>1. \A g \in Handles : state'[g] = "UNBORN" => g # h /\ state[g] = "UNBORN"
    BY <1>1, <1>3 DEF Types, PassTypeOK
  <2> QED
    BY <1>5, <1>11, <2>1 DEF PlayInv, OneClient
<1>15. NumberInv'
  <2>1. m_currentID' = m_currentID /\ call'[c].op = "count" /\ call'[c].key = k /\ id = m_currentID[k]
    BY <1>2, <1>5 DEF id
  <2> QED
    BY <1>6, <1>7, <1>8, <2>1 DEF NumberInv
<1>16. TableInv'
  <2>1. \A l \in Keys : \A i \in DOMAIN m_handles[l] : m_handles[l][i] \in Handles
    BY EntriesOfTables DEF Types
  <2> QED
    BY <1>6, <1>8, <1>9, <1>11, <2>1 DEF TableInv
<1>17. ReachInv'
  <2> SUFFICES ASSUME NEW g \in Handles, data'[g] # NoData, state'[g] \in {"PLAYING", "PAUSED"}, g \notin reported
               PROVE  /\ data'[g].at = "live" /\ data'[g].key \in m_categories
                      /\ data'[g].id \in DOMAIN m_handles'[data'[g].key]
                      /\ m_handles'[data'[g].key][data'[g].id] = g
    BY <1>2 DEF ReachInv, manager
  <2>1. CASE g = h
    BY <1>1, <1>8, <1>11, <2>1
  <2>2. CASE g # h
    BY <1>6, <1>8, <1>11, <2>2 DEF ReachInv, Types
  <2> QED
    BY <2>1, <2>2
<1>18. ReportedInv'
  BY <1>1, <1>2, <1>9, <1>10, <1>11 DEF ReportedInv, Types, passVars
<1>19. StoppedInv'
  <2>1. \A g \in Handles : state'[g] = "INVALID" => state[g] = "INVALID" /\ g # h
    BY <1>1, <1>3 DEF Types, PassTypeOK
  <2>2. \A l \in Keys : Members(l)' \subseteq Handles
    BY <1>1, <1>10, InTable, EntriesOfTables DEF Types
  <2> QED
    BY <1>2, <1>10, <2>1, <2>2 DEF StoppedInv, history
<1>20. SilentInv'
  <2>1. \A l \in Keys : Settled(l) = m_status[l] /\ Settled(l)' = m_status'[l]
    BY <1>1, <1>5 DEF Settled, OneClient
  <2>2. \A g \in Handles : state'[g] = "PLAYING" => state[g] = "PLAYING" /\ (g = h => m_status'[k] # "PAUSED")
    BY <1>1, <1>3 DEF Types, PassTypeOK
  <2>3. \A l \in Keys : m_status'[l] = "PAUSED" => m_status[l] = "PAUSED"
    BY <1>1, <1>3 DEF Types
  <2>4. \A l \in Keys : Members(l)' \subseteq Handles
    BY <1>1, <1>10, InTable, EntriesOfTables DEF Types
  <2> QED
    BY <1>2, <1>10, <2>1, <2>2, <2>3, <2>4 DEF SilentInv, history
<1>21. DataUsedOnce'
  BY <1>2 DEF DataUsedOnce
<1> QED
  BY <1>12, <1>13, <1>14, <1>15, <1>16, <1>17, <1>18, <1>19, <1>20, <1>21

\* The next entry gets another number.
LEMMA PlayCountsKeepsIInv ==
    ASSUME IInv, OneClient, NEW c \in Clients, PlayCounts(c)
    PROVE  IInv'
<1> USE CategoryAssumption DEF IInv
<1> DEFINE k == call[c].key
<1>1. /\ call[c].op = "count" /\ k \in Keys /\ m_currentID[k] \in Nat
  BY DEF PlayCounts, Types, Calls, Idle
<1>2. /\ m_currentID' = [m_currentID EXCEPT ![k] = @ + 1]
      /\ call' = [call EXCEPT ![c] = Idle]
      /\ UNCHANGED <<handleVars, manager, m_status, m_handles, data, reported, lock, leaked, history, dangling>>
  BY DEF PlayCounts
<1> HIDE DEF k
<1>3. Types'
  BY <1>1, <1>2 DEF Types, Calls, PassTypeOK, handleVars, avars, passVars, manager
<1>4. LockInv' /\ PlayInv'
  BY <1>1, <1>2 DEF LockInv, PlayInv, OneClient, Idle, handleVars, avars, passVars, manager, Types
<1>5. NumberInv'
  <2>1. \A l \in Keys : \A i \in DOMAIN m_handles[l] : i < m_currentID[l] \/ (i = m_currentID[l] /\ l = k)
    BY <1>1 DEF NumberInv, OneClient, k
  <2>2. \A l \in Keys : m_currentID[l] \in Nat /\ m_currentID'[l] = IF l = k THEN m_currentID[l] + 1 ELSE m_currentID[l]
    BY <1>1, <1>2 DEF Types
  <2>3. \A l \in Keys : \A i \in DOMAIN m_handles[l] : i \in Nat
    BY EntriesOfTables DEF Types
  <2> QED
    BY <1>2, <2>1, <2>2, <2>3 DEF NumberInv
<1>6. TableInv' /\ ReachInv' /\ ReportedInv' /\ StoppedInv' /\ DataUsedOnce'
  BY <1>2 DEF TableInv, ReachInv, ReportedInv, StoppedInv, DataUsedOnce, Members, handleVars, avars, passVars,
              manager, history
<1>7. SilentInv'
  <2>1. \A l \in Keys : Settled(l) = m_status[l] /\ Settled(l)' = m_status[l]
    BY <1>1, <1>2 DEF Settled, OneClient, Idle, Types
  <2> QED
    BY <1>2, <2>1 DEF SilentInv, Members, handleVars, avars, history
<1> QED
  BY <1>3, <1>4, <1>5, <1>6, <1>7
------------------------------------------------------------------------------
(* The operations on categories. *)

\* What every one of them leaves in order.
LEMMA AppliedKeepsInv ==
    ASSUME IInv, NEW ks \in SUBSET Keys, NEW op \in Ops, ApplyTo(ks, op), ops' \in 0 .. MaxOps,
           pass = "none", NEW c \in Clients, OneClient, call[c] = Idle,
           UNCHANGED <<m_currentID, data, reported, leaked, stopped, dangling>>,
           lock' \in {c, lock}, lock \in {c, NoThread}, call'[c].op # "play"
    PROVE  /\ PassTypeOK' /\ m_handles' \in [Keys -> Tables]
           /\ LockInv' /\ PlayInv' /\ NumberInv' /\ TableInv' /\ ReportedInv' /\ StoppedInv' /\ DataUsedOnce'
           /\ \A h \in Handles :
                 data[h] # NoData /\ state'[h] \in {"PLAYING", "PAUSED"} /\ h \notin reported =>
                     /\ data[h].at = "live" /\ data[h].key \in m_categories
                     /\ data[h].id \in DOMAIN m_handles'[data[h].key]
                     /\ m_handles'[data[h].key][data[h].id] = h
                     /\ ~(op = "stop" /\ data[h].key \in ks)
<1> USE CategoryAssumption DEF IInv
<1>1. /\ PassTypeOK' /\ m_handles' \in [Keys -> Tables]
      /\ UNCHANGED passVars
  BY AppliedTo
<1>2. \A k \in Keys : \A i \in DOMAIN m_handles'[k] :
         /\ i \in DOMAIN m_handles[k] /\ m_handles'[k][i] = m_handles[k][i]
         /\ k \in ks => state'[m_handles[k][i]] # "INVALID"
  BY AppliedTo
<1>2a. EntriesApplied(ks, op)
  BY AppliedTo
<1>3. \A k \in Keys : \A i \in DOMAIN m_handles[k] :
         /\ i \in DOMAIN m_handles'[k] \/ state'[m_handles[k][i]] = "INVALID"
         /\ state'[m_handles[k][i]] = IF k \in ks THEN Result(op, state[m_handles[k][i]])
                                                  ELSE state[m_handles[k][i]]
  BY <1>2a DEF EntriesApplied
<1>4. \A h \in Handles : state'[h] \in {state[h], Result(op, state[h])}
  BY AppliedTo
<1>5. \A k \in Keys : \A h : h \in Members(k)' => h \in Members(k)
  <2>1. \A k \in Keys : \A h : h \in Members(k)' => \E i \in DOMAIN m_handles'[k] : m_handles'[k][i] = h
    BY DEF Members, Range
  <2> QED
    BY <1>2, <2>1, InTable
<1>6. /\ \A h \in Handles : state'[h] \in {"PLAYING", "PAUSED"} => state[h] \in {"PLAYING", "PAUSED"}
      /\ \A h \in Handles : state'[h] = "UNBORN" => state[h] = "UNBORN"
      /\ \A h \in Handles : state[h] \in {"STOPPED", "INVALID"} => state'[h] \in {"STOPPED", "INVALID"}
  BY <1>4 DEF Result, Types, PassTypeOK
<1>7. ending = {}
  BY DEF LockInv
<1>8. LockInv'
  BY <1>1, <1>7 DEF LockInv, OneClient, passVars
<1>9. PlayInv'
  BY <1>6 DEF PlayInv, OneClient
<1>10. NumberInv'
  <2>1. \A d \in Clients : call[d].op # "count"
    BY DEF OneClient, Idle
  <2> QED
    BY <1>2, <2>1 DEF NumberInv
<1>11. TableInv'
  BY <1>2 DEF TableInv
<1>12. ReportedInv'
  BY <1>1, <1>5, <1>6, <1>7 DEF ReportedInv, passVars, Types
<1>13. StoppedInv'
  <2> SUFFICES ASSUME NEW k \in Keys, NEW i \in DOMAIN m_handles'[k], state'[m_handles'[k][i]] = "INVALID"
               PROVE  m_handles'[k][i] \in stopped
    BY DEF StoppedInv, Members, Range
  <2>1. i \in DOMAIN m_handles[k] /\ m_handles'[k][i] = m_handles[k][i] /\ k \notin ks
    BY <1>2
  <2>2. state[m_handles[k][i]] = "INVALID"
    BY <1>3, <2>1
  <2> QED
    BY <2>1, <2>2, InTable DEF StoppedInv
<1>14. DataUsedOnce'
  BY DEF DataUsedOnce
<1>15. ASSUME NEW h \in Handles, data[h] # NoData, state'[h] \in {"PLAYING", "PAUSED"}, h \notin reported
       PROVE  /\ data[h].at = "live" /\ data[h].key \in m_categories
              /\ data[h].id \in DOMAIN m_handles'[data[h].key]
              /\ m_handles'[data[h].key][data[h].id] = h
              /\ ~(op = "stop" /\ data[h].key \in ks)
  <2> DEFINE k == data[h].key
             i == data[h].id
  <2>1. /\ data[h].at = "live" /\ k \in m_categories /\ k \in Keys
        /\ i \in DOMAIN m_handles[k] /\ m_handles[k][i] = h
    BY <1>6, <1>15 DEF ReachInv, Types
  <2>2. i \in DOMAIN m_handles'[k] /\ m_handles'[k][i] = h
    BY <1>2, <1>3, <1>15, <2>1
  <2>3. op = "stop" /\ k \in ks => state'[h] = Result("stop", state[h])
    BY <1>3, <2>1
  <2>4. state[h] \in {"PLAYING", "PAUSED"} => Result("stop", state[h]) = "INVALID"
    BY DEF Result
  <2> QED
    BY <1>6, <1>15, <2>1, <2>2, <2>3, <2>4
<1> QED
  BY <1>1, <1>8, <1>9, <1>10, <1>11, <1>12, <1>13, <1>14, <1>15

\* The members of a table afterwards.
LEMMA AppliedMembers ==
    ASSUME IInv, NEW ks \in SUBSET Keys, NEW op \in Ops, ApplyTo(ks, op), ops' \in 0 .. MaxOps
    PROVE  \A k \in Keys : \A h \in Members(k)' :
              /\ h \in Members(k)
              /\ state'[h] = IF k \in ks THEN Result(op, state[h]) ELSE state[h]
<1>1. Types /\ TableInv
  BY DEF IInv
<1>2. \A k \in Keys : \A i \in DOMAIN m_handles'[k] :
         /\ i \in DOMAIN m_handles[k] /\ m_handles'[k][i] = m_handles[k][i]
         /\ k \in ks => state'[m_handles[k][i]] # "INVALID"
  BY <1>1, AppliedTo
<1>2a. EntriesApplied(ks, op)
  BY <1>1, AppliedTo
<1>3. \A k \in Keys : \A i \in DOMAIN m_handles[k] :
         /\ i \in DOMAIN m_handles'[k] \/ state'[m_handles[k][i]] = "INVALID"
         /\ state'[m_handles[k][i]] = IF k \in ks THEN Result(op, state[m_handles[k][i]])
                                                  ELSE state[m_handles[k][i]]
  BY <1>2a DEF EntriesApplied
<1>4. \A k \in Keys : \A h \in Members(k)' : \E i \in DOMAIN m_handles'[k] : m_handles'[k][i] = h
  BY DEF Members, Range
<1> QED
  BY <1>2, <1>3, <1>4, InTable

\* pause(), resume() and stop().
LEMMA ApplyKeepsIInv ==
    ASSUME IInv, OneClient, NEW c \in Clients, NEW k \in Keys, NEW op \in {"pause", "resume", "stop"}, Apply(c, k, op)
    PROVE  IInv'
<1> USE CategoryAssumption
<1>1. /\ call[c] = Idle /\ lock \in {c, NoThread} /\ pass = "none" /\ ops' \in 0 .. MaxOps
      /\ k \in m_categories /\ ApplyTo({k}, op) /\ {k} \in SUBSET Keys /\ op \in Ops
      /\ resumed' = IF op = "pause" THEN resumed \ Members(k) ELSE resumed
      /\ call' = [call EXCEPT ![c] = [op |-> "status", key |-> k, status |-> StatusAfter[op]]]
      /\ StatusAfter[op] \in {"PLAYING", "PAUSED", "STOPPED"}
      /\ UNCHANGED <<manager, m_status, m_currentID, data, reported, lock, leaked, stopped, dangling>>
  BY BudgetType DEF Apply, Begin, CanLock, IInv, LockInv, Types, PassTypeOK, Ops, StatusAfter
<1>2. call'[c] = [op |-> "status", key |-> k, status |-> StatusAfter[op]]
      /\ call' \in [Clients -> Calls]
  BY <1>1 DEF IInv, Types, Calls
<1>3. /\ PassTypeOK' /\ m_handles' \in [Keys -> Tables]
      /\ LockInv' /\ PlayInv' /\ NumberInv' /\ TableInv' /\ ReportedInv' /\ StoppedInv' /\ DataUsedOnce'
  BY <1>1, <1>2, AppliedKeepsInv
<1>4. ReachInv'
  <2>1. \A h \in Handles :
                 data[h] # NoData /\ state'[h] \in {"PLAYING", "PAUSED"} /\ h \notin reported =>
                     /\ data[h].at = "live" /\ data[h].key \in m_categories
                     /\ data[h].id \in DOMAIN m_handles'[data[h].key]
                     /\ m_handles'[data[h].key][data[h].id] = h
    BY <1>1, <1>2, AppliedKeepsInv
  <2> QED
    BY <1>1, <2>1 DEF ReachInv, manager
<1>5. Types'
  BY <1>1, <1>2, <1>3 DEF IInv, Types, manager
<1>6. SilentInv'
  <2> SUFFICES ASSUME NEW l \in Keys, Settled(l)' = "PAUSED", NEW h \in Members(l)', state'[h] = "PLAYING"
               PROVE  h \in resumed'
    BY DEF SilentInv
  <2>1. h \in Members(l) /\ state'[h] = IF l = k THEN Result(op, state[h]) ELSE state[h]
    <3>1. \A m \in Keys : \A g \in Members(m)' :
              g \in Members(m) /\ state'[g] = IF m \in {k} THEN Result(op, state[g]) ELSE state[g]
      BY <1>1, AppliedMembers
    <3> QED
      BY <3>1
  <2>2. CASE l = k
    <3>1. \A d \in Clients : call'[d] = [op |-> "status", key |-> k, status |-> StatusAfter[op]]
      BY <1>2 DEF OneClient
    <3>2. Settled(k)' = StatusAfter[op]
      BY <3>1 DEF Settled
    <3>3. op = "pause"
      BY <2>2, <3>2 DEF StatusAfter
    <3>4. Result("pause", state[h]) # "PLAYING"
      BY DEF Result
    <3> QED
      BY <2>1, <2>2, <3>3, <3>4
  <2>3. CASE l # k
    <3>1. Settled(l)' = m_status[l] /\ Settled(l) = m_status[l]
      BY <1>1, <1>2, <2>3 DEF Settled, OneClient, Idle
    <3>2. h \in resumed
      BY <2>1, <2>3, <3>1 DEF IInv, SilentInv
    <3>3. h \notin Members(k)
      BY <2>1, <2>3, InTable DEF IInv, TableInv
    <3> QED
      BY <1>1, <3>2, <3>3
  <2> QED
    BY <2>2, <2>3
<1> QED
  BY <1>3, <1>4, <1>5, <1>6 DEF IInv

\* The status of the category becomes what it was about to be.
LEMMA StatusWrittenKeepsIInv ==
    ASSUME IInv, OneClient, NEW c \in Clients, StatusWritten(c)
    PROVE  IInv'
<1> USE DEF IInv
<1> DEFINE k == call[c].key
<1>1. call[c].op = "status" /\ k \in Keys /\ call[c].status \in {"PLAYING", "PAUSED", "STOPPED"}
  BY DEF StatusWritten, Types, Calls, Idle
<1>2. /\ m_status' = [m_status EXCEPT ![k] = call[c].status]
      /\ call' = [call EXCEPT ![c] = Idle]
      /\ UNCHANGED <<handleVars, manager, m_handles, m_currentID, data, reported, lock, leaked, history, dangling>>
  BY DEF StatusWritten
<1> HIDE DEF k
<1>3. Types'
  BY <1>1, <1>2 DEF Types, Calls, PassTypeOK, handleVars, avars, passVars, manager
<1>4. LockInv' /\ PlayInv'
  BY <1>1, <1>2 DEF LockInv, PlayInv, OneClient, Idle, handleVars, avars, passVars, manager, Types
<1>5. NumberInv'
  <2>1. \A d \in Clients : call[d].op # "count"
    BY <1>1 DEF OneClient
  <2> QED
    BY <1>2, <2>1 DEF NumberInv
<1>6. TableInv' /\ ReachInv' /\ ReportedInv' /\ StoppedInv' /\ DataUsedOnce'
  BY <1>2 DEF TableInv, ReachInv, ReportedInv, StoppedInv, DataUsedOnce, Members, handleVars, avars, passVars,
              manager, history
<1>7. SilentInv'
  <2>1. \A l \in Keys : Settled(l)' = m_status'[l]
    BY <1>2 DEF Settled, OneClient, Idle, Types
  <2>2. \A l \in Keys : m_status'[l] = IF l = k THEN call[c].status ELSE m_status[l]
    BY <1>1, <1>2 DEF Types
  <2>3. Settled(k) = call[c].status /\ \A l \in Keys : l # k => Settled(l) = m_status[l]
    BY <1>1 DEF Settled, OneClient, k
  <2> QED
    BY <1>2, <2>1, <2>2, <2>3 DEF SilentInv, Members, handleVars, avars, history
<1> QED
  BY <1>3, <1>4, <1>5, <1>6, <1>7

\* clean().
LEMMA CleanKeepsIInv ==
    ASSUME IInv, OneClient, NEW c \in Clients, NEW ks \in SUBSET Keys, Clean(c, ks)
    PROVE  IInv'
<1> USE CategoryAssumption
<1>1. /\ call[c] = Idle /\ lock \in {c, NoThread} /\ pass = "none" /\ ops' \in 0 .. MaxOps
      /\ ApplyTo(ks, "clean") /\ "clean" \in Ops
      /\ UNCHANGED <<manager, m_status, m_currentID, data, reported, lock, leaked, call, history, dangling>>
  BY BudgetType DEF Clean, Begin, CanLock, IInv, LockInv, Types, PassTypeOK, Ops
<1>2. call'[c].op # "play" /\ stopped' = stopped
  BY <1>1 DEF Idle, history
<1>3. /\ PassTypeOK' /\ m_handles' \in [Keys -> Tables]
      /\ LockInv' /\ PlayInv' /\ NumberInv' /\ TableInv' /\ ReportedInv' /\ StoppedInv' /\ DataUsedOnce'
  BY <1>1, <1>2, AppliedKeepsInv
<1>4. ReachInv'
  <2>1. \A h \in Handles :
                 data[h] # NoData /\ state'[h] \in {"PLAYING", "PAUSED"} /\ h \notin reported =>
                     /\ data[h].at = "live" /\ data[h].key \in m_categories
                     /\ data[h].id \in DOMAIN m_handles'[data[h].key]
                     /\ m_handles'[data[h].key][data[h].id] = h
    BY <1>1, <1>2, AppliedKeepsInv
  <2> QED
    BY <1>1, <2>1 DEF ReachInv, manager
<1>5. Types'
  BY <1>1, <1>3 DEF IInv, Types, manager
<1>6. SilentInv'
  <2>1. \A l \in Keys : \A h \in Members(l)' :
            h \in Members(l) /\ state'[h] = IF l \in ks THEN Result("clean", state[h]) ELSE state[h]
    BY <1>1, AppliedMembers
  <2>2. \A s : Result("clean", s) = s
    BY DEF Result
  <2>3. \A l \in Keys : Settled(l)' = Settled(l)
    BY <1>1 DEF Settled
  <2> QED
    BY <1>1, <2>1, <2>2, <2>3 DEF IInv, SilentInv, history
<1> QED
  BY <1>3, <1>4, <1>5, <1>6 DEF IInv

\* A new category.
LEMMA AddCategoryKeepsIInv ==
    ASSUME IInv, NEW c \in Clients, NEW k \in Keys, AddCategory(c, k)
    PROVE  IInv'
<1> USE DEF IInv
<1>1. /\ m_categories' = m_categories \cup {k} /\ ops' \in 0 .. MaxOps
      /\ UNCHANGED <<avars, passVars, table, data, reported, lock, leaked, call, history, dangling>>
  BY BudgetType DEF AddCategory, Begin, Types, PassTypeOK
<1>2. Types'
  BY <1>1 DEF Types, PassTypeOK, avars, passVars, table
<1>3. LockInv' /\ PlayInv' /\ NumberInv' /\ TableInv' /\ ReachInv'
  BY <1>1 DEF LockInv, PlayInv, NumberInv, TableInv, ReachInv, avars, passVars, table
<1>4. ReportedInv' /\ StoppedInv' /\ SilentInv' /\ DataUsedOnce'
  BY <1>1 DEF ReportedInv, StoppedInv, SilentInv, Settled, DataUsedOnce, Members, avars, passVars, table, history
<1> QED
  BY <1>2, <1>3, <1>4

\* No sound that could end is left when the manager is gone.
LEMMA DestroyKeepsIInv ==
    ASSUME IInv, OneClient, NEW c \in Clients, Destroy(c)
    PROVE  IInv'
<1> USE CategoryAssumption
<1>1. /\ call[c] = Idle /\ lock \in {c, NoThread} /\ pass = "none" /\ ops' \in 0 .. MaxOps
      /\ ApplyTo(m_categories, "stop") /\ "stop" \in Ops /\ m_categories \in SUBSET Keys /\ m_categories' = {}
      /\ UNCHANGED <<m_status, m_currentID, data, reported, lock, leaked, call, history, dangling>>
  BY BudgetType DEF Destroy, Begin, CanLock, IInv, LockInv, Types, PassTypeOK, Ops
<1>2. call'[c].op # "play" /\ stopped' = stopped
  BY <1>1 DEF Idle, history
<1>3. /\ PassTypeOK' /\ m_handles' \in [Keys -> Tables]
      /\ LockInv' /\ PlayInv' /\ NumberInv' /\ TableInv' /\ ReportedInv' /\ StoppedInv' /\ DataUsedOnce'
  BY <1>1, <1>2, AppliedKeepsInv
<1>4. ReachInv'
  <2>1. \A h \in Handles :
                 data[h] # NoData /\ state'[h] \in {"PLAYING", "PAUSED"} /\ h \notin reported =>
                     data[h].key \in m_categories /\ ~("stop" = "stop" /\ data[h].key \in m_categories)
    BY <1>1, <1>2, AppliedKeepsInv
  <2> QED
    BY <1>1, <2>1 DEF ReachInv
<1>5. Types'
  BY <1>1, <1>3 DEF IInv, Types
<1>6. SilentInv'
  <2>1. \A l \in Keys : \A h \in Members(l)' :
            h \in Members(l) /\ state'[h] = IF l \in m_categories THEN Result("stop", state[h]) ELSE state[h]
    BY <1>1, AppliedMembers
  <2>2. \A s : Result("stop", s) = "PLAYING" => s = "PLAYING"
    BY DEF Result
  <2>3. \A l \in Keys : Settled(l)' = Settled(l)
    BY <1>1 DEF Settled
  <2> QED
    BY <1>1, <2>1, <2>2, <2>3 DEF IInv, SilentInv, history
<1> QED
  BY <1>3, <1>4, <1>5, <1>6 DEF IInv
------------------------------------------------------------------------------
(* Users of single handles, and the mixing thread. *)

\* What happens to a single sound that has data.
LEMMA UseHandleKeepsIInv ==
    ASSUME IInv, ~Rearming, NEW h \in Handles, UseHandle(h)
    PROVE  IInv'
<1> USE CategoryAssumption DEF IInv
<1>1. /\ lock = NoThread /\ pass = "none" /\ ending = {} /\ data[h] # NoData /\ ops' \in 0 .. MaxOps
      /\ state[h] # "UNBORN" /\ \A c \in Clients : call[c].op # "play"
      /\ UNCHANGED <<passVars, manager, table, data, reported, lock, leaked, call, dangling>>
  BY BudgetType DEF UseHandle, LockInv, PlayInv, Types, PassTypeOK
<1>2. \/ state[h] = "PLAYING" /\ state' = [state EXCEPT ![h] = "PAUSED"] /\ UNCHANGED history
      \/ /\ state[h] = "PAUSED" /\ state' = [state EXCEPT ![h] = "PLAYING"]
         /\ resumed' = resumed \cup {h} /\ stopped' = stopped
      \/ /\ state' = [state EXCEPT ![h] = "INVALID"]
         /\ stopped' = stopped \cup {h} /\ resumed' = resumed
  BY DEF UseHandle, Pause, Resume, Stop, Becomes
<1>3. HandlesTypeOK'
  BY OperationType DEF UseHandle, Operation, Types, PassTypeOK, HandlesTypeOK
<1>4. Types'
  BY <1>1, <1>3 DEF Types, PassTypeOK, HandlesTypeOK, passVars, manager, table
<1>5. \A l \in Keys : Members(l)' = Members(l) /\ Members(l) \subseteq Handles
  BY <1>1, SoundsInTables DEF table, Members
<1>6. /\ \A g \in Handles : g # h => state'[g] = state[g]
      /\ state'[h] \in {"PLAYING", "PAUSED", "INVALID"}
      /\ state'[h] \in {"PLAYING", "PAUSED"} => state[h] \in {"PLAYING", "PAUSED"}
      /\ state'[h] = "PLAYING" => h \in resumed'
      /\ state'[h] = "INVALID" => h \in stopped'
      /\ resumed \subseteq resumed' /\ stopped \subseteq stopped'
  BY <1>2 DEF history, Types, PassTypeOK
<1>7. LockInv' /\ NumberInv' /\ TableInv' /\ DataUsedOnce'
  BY <1>1 DEF LockInv, NumberInv, TableInv, DataUsedOnce, passVars, table
<1>8. PlayInv'
  BY <1>1, <1>6 DEF PlayInv
<1>9. ReachInv'
  BY <1>1, <1>6 DEF ReachInv, manager, table
<1>10. ReportedInv'
  <2>1. \A g \in reported : state'[g] \in {"STOPPED", "INVALID"}
    BY <1>1, <1>6 DEF ReportedInv, Types
  <2> QED
    BY <1>1, <1>5, <2>1 DEF ReportedInv, passVars
<1>11. StoppedInv'
  BY <1>5, <1>6 DEF StoppedInv
<1>12. SilentInv'
  <2>1. \A l \in Keys : Settled(l)' = Settled(l)
    BY <1>1 DEF Settled, table
  <2> QED
    BY <1>5, <1>6, <2>1 DEF SilentInv
<1> QED
  BY <1>4, <1>7, <1>8, <1>9, <1>10, <1>11, <1>12

\* A pass begins with nothing reported.
LEMMA MixBeginsKeepsIInv ==
    ASSUME IInv, MixBegins
    PROVE  IInv'
<1> USE CategoryAssumption DEF IInv
<1>1. /\ lock = NoThread /\ lock' = Mixer /\ reported' = {} /\ pass = "none" /\ pass' = "callbacks"
      /\ ending' \in SUBSET Sounding
      /\ UNCHANGED <<avars, ops, manager, table, data, leaked, call, history, dangling>>
  BY DEF MixBegins, MixSounds
<1>2. Types'
  BY <1>1, MixSoundsType DEF Types, MixBegins, manager, table
<1>3. \A c \in Clients : call[c].op # "play"
  BY <1>1 DEF LockInv
<1>4. LockInv' /\ PlayInv' /\ NumberInv' /\ TableInv' /\ DataUsedOnce'
  BY <1>1, <1>3 DEF LockInv, PlayInv, NumberInv, TableInv, DataUsedOnce, avars, manager, table
<1>5. ending = {}
  BY <1>1 DEF LockInv
<1>6. ReachInv'
  <2>1. \A h \in reported : state[h] \notin {"PLAYING", "PAUSED"}
    BY <1>5 DEF ReportedInv
  <2> QED
    BY <1>1, <2>1 DEF ReachInv, avars, manager, table
<1>7. ReportedInv'
  BY <1>1 DEF ReportedInv, Sounding, avars
<1>8. StoppedInv' /\ SilentInv'
  BY <1>1 DEF StoppedInv, SilentInv, Settled, Members, avars, table, history
<1> QED
  BY <1>2, <1>4, <1>6, <1>7, <1>8

\* The callback finds its data and its category, and erases the entry of its own sound.
LEMMA CleanHandleCallbackKeepsIInv ==
    ASSUME IInv, NEW h \in Handles, CleanHandleCallback(h)
    PROVE  IInv'
<1> USE CategoryAssumption DEF IInv
<1> DEFINE k == data[h].key
           id == data[h].id
<1>1. /\ pass = "callbacks" /\ h \in ending /\ h \notin reported /\ data[h] # NoData
      /\ state[h] = "PLAYING"
  BY DEF CleanHandleCallback, ReportedInv
<1>2. /\ data[h].at = "live" /\ k \in m_categories /\ k \in Keys /\ id \in DOMAIN m_handles[k]
      /\ m_handles[k][id] = h /\ m_handles[k] \in Tables
  BY <1>1 DEF ReachInv, Types
<1>3. /\ reported' = reported \cup {h} /\ ~dangling'
      /\ m_handles' = [m_handles EXCEPT ![k] = Restrict(@, DOMAIN @ \ {id})]
      /\ data' = [data EXCEPT ![h].at = "deleted"]
      /\ UNCHANGED <<handleVars, manager, m_status, m_currentID, lock, leaked, call, history>>
  BY <1>2 DEF CleanHandleCallback, DataUsedOnce
<1>4. data[h] \in Entries
  BY <1>1 DEF Types
<1>5. /\ data'[h].key = k /\ data'[h].id = id /\ data'[h] \in Entries /\ data'[h] # NoData
      /\ \A g \in Handles : g # h => data'[g] = data[g]
  BY <1>3, <1>4 DEF Types, Entries, NoData
<1>6. /\ m_handles'[k] = Restrict(m_handles[k], DOMAIN m_handles[k] \ {id})
      /\ \A l \in Keys : l # k => m_handles'[l] = m_handles[l]
  BY <1>2, <1>3 DEF Types
<1>7. /\ m_handles'[k] \in Tables /\ DOMAIN m_handles'[k] = DOMAIN m_handles[k] \ {id}
      /\ \A i \in DOMAIN m_handles'[k] : m_handles'[k][i] = m_handles[k][i]
  BY <1>2, <1>6, RestrictedTable
<1>8. m_handles' \in [Keys -> Tables]
  <2>1. m_handles' = [l \in Keys |-> m_handles'[l]]
    BY <1>3 DEF Types
  <2> QED
    BY <1>6, <1>7, <2>1 DEF Types
<1> HIDE DEF k, id
<1>9. \A l \in Keys : \A i \in DOMAIN m_handles'[l] :
          i \in DOMAIN m_handles[l] /\ m_handles'[l][i] = m_handles[l][i] /\ m_handles[l][i] # h
  <2>1. \A l \in Keys : \A i \in DOMAIN m_handles[l] : m_handles[l][i] = h => l = k /\ i = id
    BY DEF TableInv, k, id
  <2> QED
    BY <1>6, <1>7, <2>1
<1>10. \A l \in Keys : \A g \in Members(l)' : g \in Members(l) /\ g # h
  <2>1. \A l \in Keys : \A g \in Members(l)' : \E i \in DOMAIN m_handles'[l] : m_handles'[l][i] = g
    BY DEF Members, Range
  <2> QED
    BY <1>9, <2>1, InTable
<1>11. Types'
  <2>1. data' \in [Handles -> Entries \cup {NoData}]
    BY <1>3, <1>4, <1>5 DEF Types
  <2> QED
    BY <1>3, <1>8, <2>1 DEF Types, PassTypeOK, handleVars, avars, passVars, manager
<1>12. LockInv' /\ NumberInv' /\ DataUsedOnce'
  BY <1>3, <1>9 DEF LockInv, NumberInv, DataUsedOnce, handleVars, passVars
<1>13. PlayInv'
  BY <1>1, <1>3, <1>5 DEF PlayInv, LockInv, handleVars, avars, manager
<1>14. TableInv'
  <2>1. \A l \in Keys : \A i \in DOMAIN m_handles[l] : m_handles[l][i] \in Handles
    BY EntriesOfTables DEF Types
  <2> QED
    BY <1>5, <1>9, <2>1 DEF TableInv
<1>15. ReachInv'
  <2> SUFFICES ASSUME NEW g \in Handles, data[g] # NoData, state[g] \in {"PLAYING", "PAUSED"}, g \notin reported, g # h
               PROVE  /\ data[g].at = "live" /\ data[g].key \in m_categories
                      /\ data[g].id \in DOMAIN m_handles'[data[g].key]
                      /\ m_handles'[data[g].key][data[g].id] = g
    <3>1. \A g \in Handles : g \notin reported' => g \notin reported /\ g # h /\ data'[g] = data[g]
      BY <1>3, <1>5
    <3>2. state' = state /\ m_categories' = m_categories
      BY <1>3 DEF handleVars, avars, manager
    <3> QED
      BY <3>1, <3>2 DEF ReachInv
  <2>1. /\ data[g].at = "live" /\ data[g].key \in m_categories /\ data[g].key \in Keys
        /\ data[g].id \in DOMAIN m_handles[data[g].key]
        /\ m_handles[data[g].key][data[g].id] = g
    BY DEF ReachInv, Types
  <2>2. data[g].key = k => data[g].id # id
    BY <1>2, <2>1 DEF k, id
  <2> QED
    BY <1>6, <1>7, <2>1, <2>2
<1>16. ReportedInv'
  BY <1>1, <1>3, <1>5, <1>10 DEF ReportedInv, Types, PassTypeOK, handleVars, avars, passVars
<1>17. StoppedInv'
  BY <1>3, <1>10 DEF StoppedInv, handleVars, avars, history
<1>18. SilentInv'
  <2>1. \A l \in Keys : Settled(l)' = Settled(l)
    BY <1>3 DEF Settled
  <2> QED
    BY <1>3, <1>10, <2>1 DEF SilentInv, handleVars, avars, history
<1> QED
  BY <1>11, <1>12, <1>13, <1>14, <1>15, <1>16, <1>17, <1>18

\* The cleanup ends sounds that are in no table any more.
LEMMA MixEndsKeepsIInv ==
    ASSUME IInv, MixEnds
    PROVE  IInv'
<1> USE CategoryAssumption DEF IInv
<1>1. /\ UNCHANGED <<manager, table, data, reported, lock, leaked, call, history, dangling>>
      /\ PassTypeOK' /\ pass # "none" /\ pass' = "cleanup"
  BY PassEndsType DEF MixEnds, Types
<1>2. Types'
  BY <1>1 DEF Types, manager, table
<1>3. \A c \in Clients : call[c].op # "play"
  BY <1>1 DEF LockInv
<1>4. LockInv' /\ NumberInv' /\ TableInv' /\ DataUsedOnce'
  BY <1>1, <1>3 DEF LockInv, NumberInv, TableInv, DataUsedOnce, table
<1>5. \A l \in Keys : Settled(l)' = Settled(l) /\ Members(l)' = Members(l) /\ Members(l) \subseteq Handles
  BY <1>1, SoundsInTables DEF Settled, Members, table
<1>6. CASE {h \in ending \ reported : data[h] # NoData} = {} /\ CallbacksDone
  <2>1. state' = state /\ ending' = ending /\ \A h \in ending : data[h] # NoData => h \in reported
    BY <1>6 DEF CallbacksDone, avars
  <2>2. PlayInv' /\ ReachInv'
    BY <1>1, <1>3, <2>1 DEF PlayInv, ReachInv, manager, table
  <2>3. ReportedInv' /\ StoppedInv' /\ SilentInv'
    BY <1>1, <1>5, <2>1 DEF ReportedInv, StoppedInv, SilentInv, history
  <2> QED
    BY <1>2, <1>4, <2>2, <2>3
<1>7. ASSUME NEW h \in Handles, Cleanup(h) PROVE IInv'
  <2>1. /\ pass = "cleanup" /\ h \in ending /\ ending' = ending \ {h} /\ state[h] = "PLAYING"
        /\ data[h] # NoData => h \in reported
    BY <1>7 DEF Cleanup, ReportedInv
  <2>2. state' = [state EXCEPT ![h] = "STOPPED"] \/ state' = [state EXCEPT ![h] = "INVALID"]
    BY <1>7, <2>1 DEF Cleanup, Finish, Stop, Becomes, Valid
  <2>3. state'[h] \in {"STOPPED", "INVALID"} /\ \A g \in Handles : g # h => state'[g] = state[g]
    BY <2>2 DEF Types, PassTypeOK
  <2>4. \A l \in Keys : h \notin Members(l)
    BY <2>1, InTable DEF ReportedInv, TableInv
  <2>5. PlayInv' /\ ReachInv'
    BY <1>1, <1>3, <2>3 DEF PlayInv, ReachInv, manager, table
  <2>6. ReportedInv'
    BY <1>1, <1>5, <2>1, <2>3 DEF ReportedInv, Types, PassTypeOK
  <2>7. StoppedInv' /\ SilentInv'
    BY <1>1, <1>5, <2>3, <2>4 DEF StoppedInv, SilentInv, history
  <2> QED
    BY <1>2, <1>4, <2>5, <2>6, <2>7
<1> QED
  BY <1>6, <1>7 DEF MixEnds

\* The end of a pass.
LEMMA MixDoneKeepsIInv ==
    ASSUME IInv, MixDone
    PROVE  IInv'
<1> USE CategoryAssumption DEF IInv
<1>1. /\ pass = "cleanup" /\ ending = {} /\ pass' = "none" /\ lock' = NoThread
      /\ UNCHANGED <<avars, ending, ops, manager, table, data, reported, leaked, call, history, dangling>>
  BY DEF MixDone, PassDone
<1>2. Types'
  BY <1>1 DEF Types, PassTypeOK, avars, manager, table
<1>3. LockInv' /\ PlayInv' /\ NumberInv' /\ TableInv' /\ ReachInv'
  BY <1>1 DEF LockInv, PlayInv, NumberInv, TableInv, ReachInv, avars, manager, table
<1>4. ReportedInv' /\ StoppedInv' /\ SilentInv' /\ DataUsedOnce'
  BY <1>1 DEF ReportedInv, StoppedInv, SilentInv, Settled, DataUsedOnce, Members, avars, table, history
<1> QED
  BY <1>2, <1>3, <1>4
------------------------------------------------------------------------------
(* The theorems. *)

\* The initial state satisfies the invariant.
LEMMA InitIInv == Init => IInv
<1> SUFFICES ASSUME Init PROVE IInv
  OBVIOUS
<1> USE CategoryAssumption, MaxOpsAssumption DEF Init
<1>1. Empty \in Tables /\ DOMAIN Empty = {}
  <2>1. Empty \in [{} -> Handles] /\ {} \in SUBSET Nat
    BY DEF Empty
  <2> QED
    BY <2>1 DEF Tables, Empty
<1>2. \A k \in Keys : Members(k) = {} /\ DOMAIN m_handles[k] = {}
  BY <1>1 DEF Members, Range
<1>3. Types
  <2>1. PassTypeOK
    <3>1. active \in BOOLEAN
      BY DEF AInit
    <3> QED
      BY <3>1 DEF PassTypeOK, AInit, PassInit
  <2>2. m_handles \in [Keys -> Tables] /\ m_currentID \in [Keys -> Nat]
        /\ m_status \in [Keys -> {"PLAYING", "PAUSED", "STOPPED"}]
    BY <1>1
  <2>3. data \in [Handles -> Entries \cup {NoData}] /\ call \in [Clients -> Calls]
    BY DEF Calls
  <2> QED
    BY <2>1, <2>2, <2>3 DEF Types
<1>4. LockInv /\ PlayInv /\ NumberInv /\ TableInv /\ ReachInv
  BY <1>2 DEF LockInv, PlayInv, NumberInv, TableInv, ReachInv, Idle, PassInit
<1>5. ReportedInv /\ StoppedInv /\ SilentInv /\ DataUsedOnce
  BY <1>2 DEF ReportedInv, StoppedInv, SilentInv, DataUsedOnce, PassInit
<1> QED
  BY <1>3, <1>4, <1>5 DEF IInv

\* Every step keeps it.
LEMMA NextKeepsIInv == Restrained /\ IInv /\ [Next]_vars => IInv'
<1> SUFFICES ASSUME OneClient, ~Rearming, IInv, [Next]_vars PROVE IInv'
  BY DEF Restrained
<1>1. ASSUME NEW c \in Clients, Client(c) PROVE IInv'
  <2>1. ASSUME NEW k \in Keys, NEW h \in Handles, PlayBegins(c, k, h) PROVE IInv'
    BY <2>1, PlayBeginsKeepsIInv
  <2>2. ASSUME NEW k \in Keys, PlayFails(c, k) PROVE IInv'
    BY <2>2, PlayFailsKeepsIInv
  <2>3. ASSUME NEW k \in Keys, NEW op \in DOMAIN StatusAfter, Apply(c, k, op) PROVE IInv'
    <3>1. op \in {"pause", "resume", "stop"}
      BY DEF StatusAfter
    <3> QED
      BY <2>3, <3>1, ApplyKeepsIInv
  <2>4. ASSUME NEW k \in Keys, Clean(c, {k}) PROVE IInv'
    <3>1. {k} \in SUBSET Keys
      OBVIOUS
    <3> QED
      BY <2>4, <3>1, CleanKeepsIInv
  <2>5. ASSUME NEW k \in Keys, AddCategory(c, k) PROVE IInv'
    BY <2>5, AddCategoryKeepsIInv
  <2>6. CASE Clean(c, m_categories)
    <3>1. m_categories \in SUBSET Keys
      BY DEF IInv, Types
    <3> QED
      BY <2>6, <3>1, CleanKeepsIInv
  <2>7. CASE Destroy(c)
    BY <2>7, DestroyKeepsIInv
  <2>8. CASE PlayRegisters(c)
    BY <2>8, PlayRegistersKeepsIInv
  <2>9. CASE PlayCounts(c)
    BY <2>9, PlayCountsKeepsIInv
  <2>10. CASE StatusWritten(c)
    BY <2>10, StatusWrittenKeepsIInv
  <2> QED
    BY <1>1, <2>1, <2>2, <2>3, <2>4, <2>5, <2>6, <2>7, <2>8, <2>9, <2>10 DEF Client
<1>2. ASSUME NEW h \in Handles, UseHandle(h) PROVE IInv'
  BY <1>2, UseHandleKeepsIInv
<1>3. ASSUME NEW h \in Handles, CleanHandleCallback(h) PROVE IInv'
  BY <1>3, CleanHandleCallbackKeepsIInv
<1>4. CASE MixBegins
  BY <1>4, MixBeginsKeepsIInv
<1>5. CASE MixEnds
  BY <1>5, MixEndsKeepsIInv
<1>6. CASE MixDone
  BY <1>6, MixDoneKeepsIInv
<1>7. CASE UNCHANGED vars
  <2>1. /\ UNCHANGED <<avars, passVars, ops, manager, table, data, reported, lock, leaked, call, history, dangling>>
    BY <1>7 DEF vars, handleVars
  <2>2. Types' /\ LockInv' /\ PlayInv' /\ NumberInv' /\ TableInv' /\ ReachInv'
    BY <2>1 DEF IInv, Types, PassTypeOK, LockInv, PlayInv, NumberInv, TableInv, ReachInv,
                avars, passVars, manager, table
  <2>3. ReportedInv' /\ StoppedInv' /\ SilentInv' /\ DataUsedOnce'
    BY <2>1 DEF IInv, ReportedInv, StoppedInv, SilentInv, Settled, DataUsedOnce, Members,
                avars, passVars, table, history
  <2> QED
    BY <2>2, <2>3 DEF IInv
<1> QED
  BY <1>1, <1>2, <1>3, <1>4, <1>5, <1>6, <1>7 DEF Next

\* The invariant holds at any time, for restrained clients and users.
THEOREM Invariance == Restrained => (Spec => []IInv)
<1> SUFFICES ASSUME Restrained PROVE Spec => []IInv
  OBVIOUS
<1>1. IInv /\ [Next]_vars => IInv'
  BY NextKeepsIInv
<1> QED
  BY <1>1, InitIInv, PTL DEF Spec

\* cleanHandleCallback() gets data that are still there, and a category that is.
THEOREM CallbackDataUsedOnce == Restrained => (Spec => []DataUsedOnce)
<1>1. IInv => DataUsedOnce
  BY DEF IInv
<1> QED
  BY <1>1, Invariance, PTL

\* A category can pause, resume and stop every sound it gave out, whatever ends meanwhile.
THEOREM CategoriesReachTheirSounds == Restrained => (Spec => []CategoryReachesSounds)
<1>1. IInv => CategoryReachesSounds
  <2> SUFFICES ASSUME IInv PROVE CategoryReachesSounds
    OBVIOUS
  <2>1. ASSUME NEW h \in Handles, data[h] # NoData, state[h] \in {"PLAYING", "PAUSED"}, h \notin reported,
               NEW k \in Keys
        PROVE  {i \in DOMAIN m_handles[k] : m_handles[k][i] = h} = IF k = data[h].key THEN {data[h].id} ELSE {}
    <3>1. /\ data[h].id \in DOMAIN m_handles[data[h].key]
          /\ m_handles[data[h].key][data[h].id] = h
      BY <2>1 DEF IInv, ReachInv
    <3>2. \A i \in DOMAIN m_handles[k] : m_handles[k][i] = h => data[h].key = k /\ data[h].id = i
      BY DEF IInv, TableInv
    <3> QED
      BY <3>1, <3>2
  <2>2. \A k \in Keys : \A h \in Members(k) : state[h] = "INVALID" => h \in stopped
    BY DEF IInv, StoppedInv
  <2> QED
    BY <2>1, <2>2 DEF CategoryReachesSounds
<1> QED
  BY <1>1, Invariance, PTL

\* A category that is paused is silent but for what users have resumed themselves.
THEOREM PausedCategoriesAreSilent == Restrained => (Spec => []PausedIsSilent)
<1>1. IInv => PausedIsSilent
  <2> SUFFICES ASSUME IInv, NEW k \in m_categories, m_status[k] = "PAUSED",
                      \A c \in Clients : call[c].op \notin {"status", "play"}
               PROVE  \A h \in Members(k) : state[h] = "PLAYING" => h \in resumed
    BY DEF PausedIsSilent
  <2>1. k \in Keys /\ Settled(k) = m_status[k]
    BY DEF IInv, Types, Settled
  <2> QED
    BY <2>1 DEF IInv, SilentInv
<1> QED
  BY <1>1, Invariance, PTL
=============================================================================
