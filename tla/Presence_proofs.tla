---------------------------- MODULE Presence_proofs ----------------------------
(***************************************************************************)
(* Proofs about Presence: its type invariant, that the hub's entry always    *)
(* has a session to remove it and never moves under a push that waits, and   *)
(* that the row implements DeviceRow.                                        *)
(***************************************************************************)
EXTENDS Presence, TLAPS

PcTypes == {"idle", "mark", "stamp", "register", "replay", "select", "unregister", "clear", "done"}
LinkTypes == {"none", "up", "half", "closed"}
TaskTypes == {"none", "run", "done"}

\* The type invariant by groups of variables.
RowOK ==
    /\ online \in BOOLEAN /\ stale \in BOOLEAN /\ expired \in BOOLEAN
    /\ connectedAt \in Nat /\ beat \in Nat
SessOK ==
    /\ pc \in [Sessions -> PcTypes] /\ link \in [Sessions -> LinkTypes]
    /\ stamp \in [Sessions -> Nat]
    /\ sender \in [Sessions -> TaskTypes] /\ reader \in [Sessions -> TaskTypes]
TodoOK == todo \in [Sessions -> 0..Workloads]
HubOK ==
    /\ chan \in [Sessions -> 0..Capacity]
    /\ subs \in Sessions \cup {NoSession}
    /\ wait \in [Callers -> Sessions \cup {NoSession}]
    /\ kick \in SUBSET Pushers
    /\ parked \in SUBSET Callers
    /\ pushes \in 0..MaxPushes
    /\ faults \in 0..MaxFaults

\* A session that waits in a push of its replay still owes that workload.
ReplayOwes == \A s \in Sessions : wait[s] # NoSession => todo[s] > 0 /\ pc[s] = "replay"

LEMMA Groups == TypeOK <=> RowOK /\ SessOK /\ TodoOK /\ HubOK
BY DEF TypeOK, RowOK, SessOK, TodoOK, HubOK, PcTypes, LinkTypes, TaskTypes

LEMMA Names == /\ NoSession \notin Sessions
               /\ Sessions \subseteq Callers /\ Pushers \subseteq Callers
               /\ Pushers \cap Sessions = {}
               /\ Workloads \in Nat /\ Capacity \in Nat \ {0} /\ MaxPushes \in Nat /\ MaxFaults \in Nat
BY PresenceAssumption DEF Sessions, NoSession, Callers

-------------------------------------------------------------------------------
(* Which action changes what: the rest of the step leaves it alone.          *)

RowActs == Age \/ Sweep \/ \E s \in Sessions : MarkConnected(s) \/ Heartbeat(s) \/ ClearPresence(s)

LEMMA RowFrame ==
    ASSUME [Next]_vars
    PROVE  RowActs \/ (\E p \in Pushers : Expire(p)) \/ UNCHANGED rowVars
<1>1. CASE Age \/ Sweep \/ \E s \in Sessions : MarkConnected(s) \/ Heartbeat(s) \/ ClearPresence(s)
    BY <1>1 DEF RowActs
<1>2. CASE Crash
    BY <1>2 DEF Crash
<1>3. CASE \E s \in Sessions : Connect(s) \/ ReadStamp(s) \/ Register(s) \/ Replay(s) \/ SpawnTasks(s)
                               \/ TaskEnded(s) \/ Unregister(s)
    BY <1>3 DEF Connect, ReadStamp, Register, Replay, SpawnTasks, TaskEnded, Unregister
<1>4. CASE \E s \in Sessions : SenderEnds(s) \/ SendOne(s) \/ ReaderEnds(s) \/ Lose(s) \/ TcpTimeout(s)
    BY <1>4 DEF SenderEnds, SendOne, ReaderEnds, Lose, TcpTimeout
<1>5. CASE \E x \in Callers : Deliver(x) \/ Refused(x)
    BY <1>5 DEF Deliver, Refused
<1>6. CASE \E p \in Pushers : Push(p) \/ RemoveEntry(p)
    BY <1>6 DEF Push, RemoveEntry
<1>7. CASE \E x \in Callers : Park(x)
    BY <1>7 DEF Park
<1>8. CASE UNCHANGED vars
    BY <1>8 DEF vars
<1>9. QED
    BY Names, <1>1, <1>2, <1>3, <1>4, <1>5, <1>6, <1>7, <1>8 DEF Next, Step, Tasks

\* What a write to the row does to it.
RowWrite ==
    \/ /\ online' = TRUE /\ beat' = beat + 1 /\ connectedAt' \in {connectedAt, beat + 1}
    \/ /\ online = TRUE /\ online' = FALSE /\ UNCHANGED <<connectedAt, beat>>
    \/ UNCHANGED <<online, connectedAt, beat>>

LEMMA RowStep ==
    ASSUME RowOK, [Next]_vars
    PROVE  RowWrite /\ stale' \in BOOLEAN /\ expired' \in BOOLEAN
<1>1. ASSUME NEW c \in BOOLEAN, Refresh(c)
      PROVE  RowWrite /\ stale' \in BOOLEAN /\ expired' \in BOOLEAN
    <2>1. CASE expired
        BY <1>1, <2>1 DEF Refresh, rowVars, RowWrite, RowOK
    <2>2. CASE ~expired /\ (c \/ ~online)
        BY <1>1, <2>2 DEF Refresh, RowWrite, RowOK
    <2>3. CASE ~expired /\ ~c /\ online
        BY <1>1, <2>3 DEF Refresh, RowWrite, RowOK
    <2>4. QED
        BY <2>1, <2>2, <2>3
<1>2. CASE Age
    BY <1>2 DEF Age, RowWrite, RowOK
<1>3. CASE Sweep
    BY <1>3 DEF Sweep, RowWrite, RowOK
<1>4. ASSUME NEW s \in Sessions, MarkConnected(s) \/ Heartbeat(s) \/ ClearPresence(s)
      PROVE  RowWrite /\ stale' \in BOOLEAN /\ expired' \in BOOLEAN
    <2>1. Refresh(TRUE) \/ Refresh(FALSE) \/ UNCHANGED rowVars
          \/ (online /\ online' = FALSE /\ UNCHANGED <<connectedAt, beat, stale, expired>>)
        BY <1>4 DEF MarkConnected, Heartbeat, ClearPresence
    <2>2. CASE UNCHANGED rowVars
        BY <2>2 DEF rowVars, RowWrite, RowOK
    <2>3. CASE online /\ online' = FALSE /\ UNCHANGED <<connectedAt, beat, stale, expired>>
        BY <2>3 DEF RowWrite, RowOK
    <2>4. QED
        BY <1>1, <2>1, <2>2, <2>3
<1>5. ASSUME NEW p \in Pushers, Expire(p)
      PROVE  RowWrite /\ stale' \in BOOLEAN /\ expired' \in BOOLEAN
    <2>1. online' = FALSE /\ expired' = TRUE /\ UNCHANGED <<connectedAt, beat, stale>>
        BY <1>5 DEF Expire
    <2>2. QED
        BY <2>1 DEF RowWrite, RowOK
<1>6. CASE UNCHANGED rowVars
    BY <1>6 DEF rowVars, RowWrite, RowOK
<1>7. QED
    BY <1>2, <1>3, <1>4, <1>5, <1>6, RowFrame DEF RowActs

LEMMA RowTypes ==
    ASSUME RowOK, [Next]_vars
    PROVE  RowOK'
<1>1. RowWrite /\ stale' \in BOOLEAN /\ expired' \in BOOLEAN
    BY RowStep
<1>2. online' \in BOOLEAN
    BY <1>1, Zenon DEF RowWrite, RowOK
<1>3. connectedAt' \in Nat /\ beat' \in Nat
    BY <1>1 DEF RowWrite, RowOK
<1>4. QED
    BY <1>1, <1>2, <1>3 DEF RowOK

-------------------------------------------------------------------------------
(* The sessions *)

LEMMA SessTypes ==
    ASSUME RowOK, SessOK, [Next]_vars
    PROVE  SessOK'
<1> USE DEF SessOK, PcTypes, LinkTypes, TaskTypes
<1>1. CASE Age \/ Sweep
    BY <1>1 DEF Age, Sweep, sessVars
<1>2. CASE Crash
    BY <1>2 DEF Crash
<1>3. ASSUME NEW s \in Sessions,
             Connect(s) \/ MarkConnected(s) \/ Register(s) \/ TaskEnded(s) \/ Unregister(s)
      PROVE  SessOK'
    BY <1>3 DEF Connect, MarkConnected, Register, TaskEnded, Unregister, To
<1>4. ASSUME NEW s \in Sessions, ReadStamp(s) \/ ClearPresence(s) \/ SpawnTasks(s)
      PROVE  SessOK'
    BY <1>4 DEF ReadStamp, ClearPresence, SpawnTasks, To, RowOK
<1>5. ASSUME NEW s \in Sessions, Replay(s) \/ Heartbeat(s)
      PROVE  SessOK'
    BY <1>5 DEF Replay, Heartbeat, sessVars
<1>6. ASSUME NEW s \in Sessions, SenderEnds(s) \/ SendOne(s) \/ ReaderEnds(s)
      PROVE  SessOK'
    BY <1>6 DEF SenderEnds, SendOne, ReaderEnds, Closing
<1>7. ASSUME NEW s \in Sessions, Lose(s) \/ TcpTimeout(s)
      PROVE  SessOK'
    BY <1>7 DEF Lose, TcpTimeout
<1>8. CASE \E x \in Callers : Deliver(x) \/ Refused(x)
    BY <1>8 DEF Deliver, Refused
<1>9. CASE \E p \in Pushers : Push(p) \/ Expire(p) \/ RemoveEntry(p)
    BY <1>9 DEF Push, Expire, RemoveEntry, sessVars
<1>10. CASE \E x \in Callers : Park(x)
    BY <1>10 DEF Park, sessVars
<1>11. CASE UNCHANGED vars
    BY <1>11 DEF vars, sessVars
<1>12. QED
    BY Names, <1>1, <1>2, <1>3, <1>4, <1>5, <1>6, <1>7, <1>8, <1>9, <1>10, <1>11
       DEF Next, Step, Tasks

\* The replay's count, and who waits in a push of it.
LEMMA TodoStep ==
    ASSUME HubOK, SessOK, TodoOK, ReplayOwes, EntryHasOwner, [Next]_vars
    PROVE  TodoOK' /\ ReplayOwes'
<1> USE Names DEF TodoOK
<1>1. CASE Age \/ Sweep
    BY <1>1 DEF Age, Sweep, sessVars, hubVars, ReplayOwes
<1>2. CASE Crash
    BY <1>2 DEF Crash, ReplayOwes
<1>3. ASSUME NEW s \in Sessions,
             \/ Connect(s) \/ MarkConnected(s) \/ ReadStamp(s) \/ TaskEnded(s) \/ ClearPresence(s)
             \/ Unregister(s)
      PROVE  TodoOK' /\ ReplayOwes'
    <2>1. UNCHANGED <<todo, wait>> /\ pc[s] # "replay" /\ \A t \in Sessions \ {s} : pc'[t] = pc[t]
        BY <1>3 DEF Connect, MarkConnected, ReadStamp, TaskEnded, ClearPresence, Unregister, To,
                    hubVars, SessOK
    <2>2. QED
        BY <2>1 DEF ReplayOwes
<1>4. ASSUME NEW s \in Sessions, Register(s)
      PROVE  TodoOK' /\ ReplayOwes'
    BY <1>4 DEF Register, Writes, Unlocked, ReplayOwes
<1>5. ASSUME NEW s \in Sessions, Replay(s)
      PROVE  TodoOK' /\ ReplayOwes'
    <2>1. CASE Begin(s) /\ UNCHANGED <<todo, pc>>
        BY <1>5, <2>1 DEF Replay, Begin, ReplayOwes, HubOK
    <2>2. CASE subs = NoSession /\ todo' = [todo EXCEPT ![s] = @ - 1] /\ UNCHANGED <<wait, pc>>
        BY <1>5, <2>2 DEF Replay, ReplayOwes, EntryHasOwner
    <2>3. QED
        BY <1>5, <2>1, <2>2 DEF Replay
<1>6. ASSUME NEW s \in Sessions, SpawnTasks(s)
      PROVE  TodoOK' /\ ReplayOwes'
    BY <1>6 DEF SpawnTasks, hubVars, To, ReplayOwes, SessOK
<1>7. ASSUME NEW s \in Sessions,
             Heartbeat(s) \/ SenderEnds(s) \/ SendOne(s) \/ ReaderEnds(s) \/ Lose(s) \/ TcpTimeout(s)
      PROVE  TodoOK' /\ ReplayOwes'
    <2>1. UNCHANGED <<todo, wait, pc>>
        BY <1>7 DEF Heartbeat, SenderEnds, SendOne, ReaderEnds, Lose, TcpTimeout, hubVars, sessVars
    <2>2. QED
        BY <2>1 DEF ReplayOwes
<1>8. ASSUME NEW x \in Callers, Deliver(x) \/ Refused(x)
      PROVE  TodoOK' /\ ReplayOwes'
    <2>1. Returned(x) /\ wait[x] # NoSession /\ pc' = pc
        BY <1>8 DEF Deliver, Refused
    <2>2. CASE x \in Sessions
        BY <2>1, <2>2 DEF Returned, ReplayOwes, HubOK
    <2>3. CASE x \notin Sessions
        BY <2>1, <2>3 DEF Returned, ReplayOwes, HubOK
    <2>4. QED
        BY <2>2, <2>3
<1>9. ASSUME NEW p \in Pushers, Push(p) \/ Expire(p) \/ RemoveEntry(p)
      PROVE  TodoOK' /\ ReplayOwes'
    <2>1. UNCHANGED <<todo, pc>> /\ (wait' = wait \/ wait' = [wait EXCEPT ![p] = subs])
        BY <1>9 DEF Push, Expire, RemoveEntry, Begin, sessVars
    <2>2. \A s \in Sessions : wait'[s] = wait[s]
        BY <2>1 DEF HubOK
    <2>3. QED
        BY <2>1, <2>2 DEF ReplayOwes
<1>10. CASE \E x \in Callers : Park(x)
    BY <1>10 DEF Park, sessVars, ReplayOwes
<1>11. CASE UNCHANGED vars
    BY <1>11 DEF vars, sessVars, hubVars, ReplayOwes
<1>12. QED
    BY <1>1, <1>2, <1>3, <1>4, <1>5, <1>6, <1>7, <1>8, <1>9, <1>10, <1>11
       DEF Next, Step, Tasks

-------------------------------------------------------------------------------
(* The hub *)

LEMMA HubTypes ==
    ASSUME HubOK, [Next]_vars
    PROVE  HubOK'
<1> USE Names DEF HubOK
<1>1. CASE Age \/ Sweep
    BY <1>1 DEF Age, Sweep, hubVars
<1>2. CASE Crash
    BY <1>2 DEF Crash, Fault
<1>3. ASSUME NEW s \in Sessions,
             Connect(s) \/ SpawnTasks(s) \/ TaskEnded(s) \/ SenderEnds(s) \/ Heartbeat(s)
             \/ ReaderEnds(s) \/ TcpTimeout(s)
      PROVE  HubOK'
    BY <1>3 DEF Connect, SpawnTasks, TaskEnded, SenderEnds, Heartbeat, ReaderEnds, TcpTimeout, hubVars
<1>4. ASSUME NEW s \in Sessions, MarkConnected(s) \/ ReadStamp(s) \/ ClearPresence(s) \/ Lose(s)
      PROVE  HubOK'
    <2>1. UNCHANGED hubVars
        BY <1>4 DEF MarkConnected, ReadStamp, ClearPresence, Lose
    <2>2. faults' = faults \/ (faults < MaxFaults /\ faults' = faults + 1)
        BY <1>4, Zenon DEF MarkConnected, ReadStamp, ClearPresence, Lose, Fault
    <2>3. faults' \in 0..MaxFaults
        BY <2>2
    <2>4. QED
        BY <2>1, <2>3 DEF hubVars
<1>5. ASSUME NEW s \in Sessions, Register(s) \/ Unregister(s) \/ Replay(s)
      PROVE  HubOK'
    BY <1>5 DEF Register, Unregister, Replay, Begin, Writes
<1>6. ASSUME NEW s \in Sessions, SendOne(s)
      PROVE  HubOK'
    BY <1>6 DEF SendOne
<1>7. ASSUME NEW x \in Callers, Deliver(x) \/ Refused(x)
      PROVE  HubOK'
    BY <1>7 DEF Deliver, Refused, Returned
<1>8. ASSUME NEW p \in Pushers, Push(p) \/ Expire(p) \/ RemoveEntry(p)
      PROVE  HubOK'
    BY <1>8 DEF Push, Expire, RemoveEntry, Begin, Fault, Writes
<1>9. ASSUME NEW x \in Callers, Park(x)
      PROVE  HubOK'
    BY <1>9 DEF Park
<1>10. CASE UNCHANGED vars
    BY <1>10 DEF vars, hubVars
<1>11. QED
    BY <1>1, <1>2, <1>3, <1>4, <1>5, <1>6, <1>7, <1>8, <1>9, <1>10 DEF Next, Step, Tasks

LEMMA OwnerStep ==
    ASSUME HubOK, SessOK, EntryHasOwner, [Next]_vars
    PROVE  EntryHasOwner'
<1> USE Names
<1>1. CASE Age \/ Sweep
    BY <1>1 DEF Age, Sweep, sessVars, hubVars, EntryHasOwner
<1>2. CASE Crash
    BY <1>2 DEF Crash, EntryHasOwner
<1>3. ASSUME NEW s \in Sessions,
             Connect(s) \/ MarkConnected(s) \/ ReadStamp(s) \/ ClearPresence(s)
      PROVE  EntryHasOwner'
    <2>1. UNCHANGED <<subs, wait>> /\ pc[s] \notin {"replay", "select", "unregister"}
          /\ \A t \in Sessions \ {s} : pc'[t] = pc[t]
        BY <1>3 DEF Connect, MarkConnected, ReadStamp, ClearPresence, To, hubVars, SessOK
    <2>2. QED
        BY <2>1 DEF EntryHasOwner, HubOK
<1>4. ASSUME NEW s \in Sessions, SpawnTasks(s) \/ TaskEnded(s)
      PROVE  EntryHasOwner'
    <2>1. UNCHANGED <<subs, wait>> /\ pc'[s] \in {"select", "unregister"}
          /\ \A t \in Sessions \ {s} : pc'[t] = pc[t]
        BY <1>4 DEF SpawnTasks, TaskEnded, To, hubVars, SessOK
    <2>2. QED
        BY <2>1 DEF EntryHasOwner, HubOK
<1>5. ASSUME NEW s \in Sessions, Register(s)
      PROVE  EntryHasOwner'
    BY <1>5 DEF Register, Writes, Unlocked, To, EntryHasOwner, SessOK
<1>6. ASSUME NEW s \in Sessions, Unregister(s)
      PROVE  EntryHasOwner'
    BY <1>6 DEF Unregister, Writes, Unlocked, EntryHasOwner
<1>7. ASSUME NEW s \in Sessions,
             Heartbeat(s) \/ SenderEnds(s) \/ SendOne(s) \/ ReaderEnds(s) \/ Lose(s) \/ TcpTimeout(s)
      PROVE  EntryHasOwner'
    <2>1. UNCHANGED <<subs, wait, pc>>
        BY <1>7 DEF Heartbeat, SenderEnds, SendOne, ReaderEnds, Lose, TcpTimeout, hubVars, sessVars
    <2>2. QED
        BY <2>1 DEF EntryHasOwner
<1>8. ASSUME NEW x \in Callers, wait' = wait \/ wait' = [wait EXCEPT ![x] = subs]
                                \/ wait' = [wait EXCEPT ![x] = NoSession],
             UNCHANGED <<subs, pc>>
      PROVE  EntryHasOwner'
    BY <1>8 DEF EntryHasOwner, HubOK
<1>9. ASSUME NEW s \in Sessions, Replay(s)
      PROVE  EntryHasOwner'
    BY <1>8, <1>9 DEF Replay, Begin
<1>10. ASSUME NEW x \in Callers, Deliver(x) \/ Refused(x)
       PROVE  EntryHasOwner'
    BY <1>8, <1>10 DEF Deliver, Refused, Returned
<1>11. ASSUME NEW p \in Pushers, Push(p) \/ Expire(p)
       PROVE  EntryHasOwner'
    BY <1>8, <1>11 DEF Push, Expire, Begin, sessVars
<1>12. ASSUME NEW p \in Pushers, RemoveEntry(p)
       PROVE  EntryHasOwner'
    BY <1>12 DEF RemoveEntry, Writes, Unlocked, sessVars, EntryHasOwner
<1>13. CASE \E x \in Callers : Park(x)
    BY <1>13 DEF Park, sessVars, EntryHasOwner
<1>14. CASE UNCHANGED vars
    BY <1>14 DEF vars, sessVars, hubVars, EntryHasOwner
<1>15. QED
    BY <1>1, <1>2, <1>3, <1>4, <1>5, <1>6, <1>7, <1>9, <1>10, <1>11, <1>12, <1>13, <1>14
       DEF Next, Step, Tasks

-------------------------------------------------------------------------------

\* The inductive invariant: types, the hub's entry, and what a replay owes.
IInv == RowOK /\ SessOK /\ TodoOK /\ HubOK /\ ReplayOwes /\ EntryHasOwner

LEMMA InitInv == Init => IInv
<1> SUFFICES ASSUME Init PROVE IInv
    OBVIOUS
<1> USE Names DEF Init
<1>1. RowOK
    BY DEF RowOK
<1>2. SessOK
    BY DEF SessOK, PcTypes, LinkTypes, TaskTypes
<1>3. TodoOK /\ HubOK
    BY DEF TodoOK, HubOK
<1>4. ReplayOwes /\ EntryHasOwner
    BY DEF ReplayOwes, EntryHasOwner
<1>5. QED
    BY <1>1, <1>2, <1>3, <1>4 DEF IInv

LEMMA Inductive == Spec => []IInv
<1>1. IInv /\ [Next]_vars => IInv'
    BY RowTypes, SessTypes, TodoStep, HubTypes, OwnerStep DEF IInv
<1>2. QED
    BY InitInv, <1>1, PTL DEF Spec

\* Every variable keeps its type: no channel holds more than its slots, no replay
\* pushes more than it owes.
THEOREM PresenceTypes == Spec => []TypeOK
<1>1. IInv => TypeOK
    BY Groups DEF IInv
<1>2. QED
    BY Inductive, <1>1, PTL

\* The hub's entry always belongs to a session that is still to remove it, and no
\* push waits on any other.
THEOREM PresenceEntries == Spec => []EntryHasOwner
<1>1. IInv => EntryHasOwner
    BY DEF IInv
<1>2. QED
    BY Inductive, <1>1, PTL

\* The sessions, heartbeats, the sweep and the expiry together implement DeviceRow.
THEOREM PresenceImplementsRow == Spec => RowPromise
<1>1. Init => Row!RowInit
    BY DEF Init, Row!RowInit
<1>2. IInv /\ [Next]_vars => [Row!GoOnline \/ Row!GoOffline]_(Row!row)
    <2> SUFFICES ASSUME IInv, [Next]_vars
                 PROVE  [Row!GoOnline \/ Row!GoOffline]_(Row!row)
        OBVIOUS
    <2>1. RowWrite
        BY RowStep DEF IInv
    <2>2. CASE online' = TRUE /\ beat' = beat + 1 /\ connectedAt' \in {connectedAt, beat + 1}
        BY <2>2 DEF Row!GoOnline
    <2>3. CASE online = TRUE /\ online' = FALSE /\ UNCHANGED <<connectedAt, beat>>
        BY <2>3 DEF Row!GoOffline
    <2>4. CASE UNCHANGED <<online, connectedAt, beat>>
        BY <2>4 DEF Row!row
    <2>5. QED
        BY <2>1, <2>2, <2>3, <2>4 DEF RowWrite
<1>3. QED
    BY Inductive, <1>1, <1>2, PTL DEF Spec, RowPromise, Row!RowSpec
================================================================================
