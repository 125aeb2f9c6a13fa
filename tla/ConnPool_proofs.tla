--------------------------- MODULE ConnPool_proofs ---------------------------
(* Proofs about ConnPool, for every set of callers, every bound, both gates *)
(* and both kinds of slot.                                                  *)
EXTENDS ConnPool, TLAPS

\* A task record of the helpers is a task record.
LEMMA TaskTypes ==
    ASSUME task \in [Tasks -> TaskRecords]
    PROVE  /\ \A p \in {"idle", "lock", "held", "wait"} \cup DialPcs : At(p) \in TaskRecords
           /\ \A t \in Tasks : Published(t) \in [Tasks -> TaskRecords]
           /\ \A ts \in [Tasks -> TaskRecords] : Abandoned(ts) \in [Tasks -> TaskRecords]
           /\ \A ts \in [Tasks -> TaskRecords] : FreshDeadline(ts) \in [Tasks -> TaskRecords]
<1>1. \A p \in {"idle", "lock", "held", "wait"} \cup DialPcs : At(p) \in TaskRecords
  BY DEF At, Task, TaskRecords
<1>2. At("idle") \in TaskRecords /\ At("lock") \in TaskRecords
  BY <1>1
<1>3. \A t \in Tasks : Published(t) \in [Tasks -> TaskRecords]
  BY <1>2 DEF Published
<1>4. \A ts \in [Tasks -> TaskRecords] : Abandoned(ts) \in [Tasks -> TaskRecords]
  BY <1>2 DEF Abandoned
<1>5. ASSUME NEW ts \in [Tasks -> TaskRecords]
      PROVE  FreshDeadline(ts) \in [Tasks -> TaskRecords]
  BY DEF FreshDeadline, TaskRecords
<1>6. QED
  BY <1>1, <1>3, <1>4, <1>5

\* The type invariant is inductive on its own.
THEOREM TypeCorrect == Spec => []TypeOK
<1>1. Init => TypeOK
  <2> SUFFICES ASSUME Init PROVE TypeOK
    OBVIOUS
  <2>1. At("idle") \in TaskRecords
    BY DEF At, Task, TaskRecords
  <2>2. task \in [Tasks -> TaskRecords]
    BY <2>1 DEF Init
  <2>3. member \in BOOLEAN
    BY PoolAssumption, Zenon DEF Init
  <2>4. conn \in Conns /\ state \in PeerConnStates
    BY DEF Init, NoConn, Conns, Idle, Mk, PeerConnStates
  <2>5. /\ waiters \in BOOLEAN /\ wakeup \in BOOLEAN /\ accepting \in BOOLEAN
        /\ recDue \in BOOLEAN /\ reconciling \in BOOLEAN
    BY Zenon DEF Init
  <2>6. /\ buffer \in 0..MaxBuffer /\ generation \in Nat /\ recGen \in Nat
        /\ bumps \in Nat /\ rebuild \in {"none", "allow", "deny"}
    BY PoolAssumption DEF Init
  <2>7. QED
    BY <2>2, <2>3, <2>4, <2>5, <2>6 DEF TypeOK
<1>2. TypeOK /\ [Next]_vars => TypeOK'
  <2> SUFFICES ASSUME TypeOK, [Next]_vars PROVE TypeOK'
    OBVIOUS
  <2> USE PoolAssumption DEF TypeOK
  <2>a. /\ \A t \in Tasks : Published(t) \in [Tasks -> TaskRecords]
        /\ \A ts \in [Tasks -> TaskRecords] : Abandoned(ts) \in [Tasks -> TaskRecords]
        /\ \A ts \in [Tasks -> TaskRecords] : FreshDeadline(ts) \in [Tasks -> TaskRecords]
    BY TaskTypes
  <2>b. \A p \in {"idle", "lock", "held", "wait"} \cup DialPcs : At(p) \in TaskRecords
    BY TaskTypes
  <2>c. /\ At("idle") \in TaskRecords /\ At("lock") \in TaskRecords /\ At("wait") \in TaskRecords
        /\ At("hook") \in TaskRecords /\ At("connect") \in TaskRecords
        /\ At("denied") \in TaskRecords /\ At("gate") \in TaskRecords
        /\ At("gen") \in TaskRecords /\ At("revoked") \in TaskRecords
    BY <2>b DEF DialPcs
  <2>d. NoConn \in Conns /\ Idle \in PeerConnStates /\ Dialing \in PeerConnStates
        /\ Backoff \in PeerConnStates
        /\ \A g \in Nat : /\ Connected(g) \in PeerConnStates
                          /\ Blocked(g) \in PeerConnStates
                          /\ Rejected(g) \in PeerConnStates
    BY DEF NoConn, Conns, Idle, Dialing, Backoff, Connected, Blocked, Rejected, Mk, PeerConnStates
  <2>e. \A t \in Tasks : task[t].gen \in Nat
    BY DEF TaskRecords
  <2>1. CASE Gate
    <3>1. CASE AuthCacheSet
      <4>1. member' \in BOOLEAN BY <3>1, Zenon DEF AuthCacheSet
      <4>2. QED BY <3>1, <4>1 DEF AuthCacheSet, slotVars, recVars
    <3>2. CASE AuthCacheBump
      <4>1. recDue' \in BOOLEAN BY <3>2, Zenon DEF AuthCacheBump
      <4>2. QED BY <3>2, <4>1 DEF AuthCacheBump, slotVars, recVars
    <3>3. CASE AuthCacheOther
      <4>1. recDue' \in BOOLEAN BY <3>3, Zenon DEF AuthCacheOther
      <4>2. QED BY <3>3, <4>1 DEF AuthCacheOther, slotVars, recVars
    <3>6. CASE RebuildBump
      BY <3>6 DEF RebuildBump, slotVars, recVars
    <3>4. CASE RebuildStore
      <4>1. member' \in BOOLEAN BY <3>4, Zenon DEF RebuildStore
      <4>2. QED BY <3>4, <4>1 DEF RebuildStore, slotVars, recVars
    <3>5. QED BY <2>1, <3>1, <3>2, <3>3, <3>4, <3>6 DEF Gate
  <2>2. CASE Reconcile
    <3>1. CASE ReconcileStart
      BY <3>1 DEF ReconcileStart, gateVars, slotVars
    <3>2. CASE ReconcileAdmit
      BY <3>2, <2>d DEF ReconcileAdmit, gateVars
    <3>3. CASE ReconcileRevoke
      <4>1. waiters' \in BOOLEAN BY <3>3, Zenon DEF ReconcileRevoke
      <4>2. task' \in [Tasks -> TaskRecords] BY <3>3, <2>a DEF ReconcileRevoke
      <4>3. reconciling' \in BOOLEAN BY <3>3, Zenon DEF ReconcileRevoke
      <4>4. state' \in PeerConnStates /\ conn' \in Conns
        BY <3>3, <2>d DEF ReconcileRevoke
      <4>5. QED
        BY <3>3, <4>1, <4>2, <4>3, <4>4 DEF ReconcileRevoke, gateVars
    <3>4. QED BY <2>2, <3>1, <3>2, <3>3 DEF Reconcile
  <2>3. ASSUME NEW t \in Tasks, CallGet(t) \/ CallSend(t) \/ LockSlot(t) PROVE TypeOK'
    <3>1. \A o \in {"get", "send"} : Task("lock", o, Now(state), 0) \in TaskRecords
      BY DEF Task, Now, TaskRecords
    <3>2. CASE CallGet(t) \/ CallSend(t)
      BY <3>1, <3>2 DEF CallGet, CallSend, Call, gateVars, slotVars, recVars
    <3>3. CASE LockSlot(t)
      BY <3>3 DEF LockSlot, TaskRecords, gateVars, slotVars, recVars
    <3>4. QED BY <2>3, <3>2, <3>3
  <2>4. ASSUME NEW t \in Tasks, Locked(t) PROVE TypeOK'
    <3> USE <2>c, <2>d, <2>e DEF Return, Goto, gateVars, recVars
    <3>1. CASE UseLive(t) BY <3>1 DEF UseLive
    <3>2. CASE RevokeAtUse(t) BY <3>2 DEF RevokeAtUse
    <3>3. CASE NoteDeadConn(t) BY <3>3, <2>a DEF NoteDeadConn
    <3>4. CASE ReadinessDeny(t) BY <3>4 DEF ReadinessDeny
    <3>5. CASE ReadinessWait(t) BY <3>5 DEF ReadinessWait
    <3>6. CASE Subscribe(t) BY <3>6 DEF Subscribe, ReadyState
    <3>7. CASE ElectDialer(t) BY <3>7 DEF ElectDialer
    <3>8. CASE SendQueue(t)
      <4>1. Task("lock", "flush", Now(state'), 0) \in TaskRecords
        BY DEF Task, Now, TaskRecords
      <4>2. QED BY <3>8, <4>1 DEF SendQueue, ReadyState
    <3>9. QED BY <2>4, <3>1, <3>2, <3>3, <3>4, <3>5, <3>6, <3>7, <3>8 DEF Locked
  <2>5. ASSUME NEW t \in Tasks, Dial(t) PROVE TypeOK'
    <3> USE <2>a, <2>c, <2>d, <2>e DEF Goto, gateVars, slotVars, recVars
    <3>1. CASE BeforeConnect(t) BY <3>1 DEF BeforeConnect
    <3>2. CASE DialDenied(t)
      <4>1. waiters' \in BOOLEAN BY <3>2, Zenon DEF DialDenied
      <4>2. task' \in [Tasks -> TaskRecords] BY <3>2 DEF DialDenied
      <4>3. QED BY <3>2, <4>1, <4>2 DEF DialDenied
    <3>3. CASE DialRejected(t)
      <4>1. waiters' \in BOOLEAN BY <3>3, Zenon DEF DialRejected
      <4>2. task' \in [Tasks -> TaskRecords] BY <3>3 DEF DialRejected
      <4>3. QED BY <3>3, <4>1, <4>2 DEF DialRejected
    <3>4. CASE DialTransient(t)
      <4>1. wakeup' \in BOOLEAN BY <3>4, Zenon DEF DialTransient
      <4>2. waiters' \in BOOLEAN BY <3>4, Zenon DEF DialTransient
      <4>3. task' \in [Tasks -> TaskRecords] BY <3>4 DEF DialTransient
      <4>4. QED BY <3>4, <4>1, <4>2, <4>3 DEF DialTransient
    <3>5. CASE DialOk(t) BY <3>5 DEF DialOk
    <3>6. CASE GateAfterDial(t) BY <3>6 DEF GateAfterDial
    <3>7. CASE GenAfterDial(t)
      <4>1. Task("install", "get", "before", generation) \in TaskRecords
        BY DEF Task, TaskRecords, DialPcs
      <4>2. QED BY <3>7, <4>1 DEF GenAfterDial
    <3>8. CASE DialRevoked(t)
      <4>1. waiters' \in BOOLEAN BY <3>8, Zenon DEF DialRevoked
      <4>2. task' \in [Tasks -> TaskRecords] BY <3>8 DEF DialRevoked
      <4>3. QED BY <3>8, <4>1, <4>2 DEF DialRevoked
    <3>9. CASE Install(t)
      <4>1. [by |-> "us", life |-> "live"] \in Conns BY DEF Conns
      <4>2. waiters' \in BOOLEAN BY <3>9, Zenon DEF Install, InstallDialed, InstallExtra
      <4>3. task' \in [Tasks -> TaskRecords] BY <3>9 DEF Install, InstallDialed, InstallExtra
      <4>4. QED BY <3>9, <4>1, <4>2, <4>3 DEF Install, InstallDialed, InstallExtra
    <3>10. QED
      BY <2>5, <3>1, <3>2, <3>3, <3>4, <3>5, <3>6, <3>7, <3>8, <3>9 DEF Dial
  <2>6. CASE Expire
    BY <2>6 DEF Expire, PeerConnStates, gateVars, recVars
  <2>7. CASE Wakeup
    <3>1. Task("lock", "get", "after", 0) \in TaskRecords
      BY DEF Task, TaskRecords
    <3>2. QED BY <2>7, <3>1 DEF Wakeup, Tasks, gateVars, slotVars, recVars
  <2>8. CASE AdoptCheck \/ Adopt \/ TouchPeer
    <3>1. \A life \in {"live", "dead"} : [by |-> "peer", life |-> life] \in Conns
      BY DEF Conns
    <3>2. QED
      BY <2>8, <2>d, <3>1 DEF AdoptCheck, Adopt, TouchPeer, gateVars, slotVars, recVars
  <2>9. CASE CloseAll \/ IdleSweep
    BY <2>9, <2>d DEF CloseAll, IdleSweep, gateVars, recVars
  <2>10. CASE RemoteClose
    BY <2>10 DEF RemoteClose, Conns, gateVars, recVars
  <2>11. CASE UNCHANGED vars
    BY <2>11 DEF vars, gateVars, slotVars, recVars
  <2>12. QED
    BY <2>1, <2>2, <2>3, <2>4, <2>5, <2>6, <2>7, <2>8, <2>9, <2>10, <2>11 DEF Next, TaskStep
<1>3. QED
  BY <1>1, <1>2, PTL DEF Spec

\* A membership write touches nothing but the gate and the reconcile it owes.
LEMMA GateFrame == Gate => UNCHANGED <<slotVars, wakeup, task, accepting, reconciling, recGen>>
<1>1. AuthCacheSet => UNCHANGED <<slotVars, wakeup, task, accepting, reconciling, recGen>>
  BY DEF AuthCacheSet, recVars
<1>2. AuthCacheBump => UNCHANGED <<slotVars, wakeup, task, accepting, reconciling, recGen>>
  BY DEF AuthCacheBump
<1>3. AuthCacheOther => UNCHANGED <<slotVars, wakeup, task, accepting, reconciling, recGen>>
  BY DEF AuthCacheOther, recVars
<1>4. RebuildBump => UNCHANGED <<slotVars, wakeup, task, accepting, reconciling, recGen>>
  BY DEF RebuildBump, recVars
<1>5. RebuildStore => UNCHANGED <<slotVars, wakeup, task, accepting, reconciling, recGen>>
  BY DEF RebuildStore
<1>6. QED BY <1>1, <1>2, <1>3, <1>4, <1>5 DEF Gate

\* The two slot invariants that every action keeps together: what a blocked and
\* what an idle slot may hold.
SlotInv == TypeOK /\ BlockedHoldsNothing /\ IdleHasNoLiveConn

LEMMA SlotInvStep == SlotInv /\ TypeOK' /\ [Next]_vars => SlotInv'
<1> SUFFICES ASSUME SlotInv, TypeOK', [Next]_vars
             PROVE  BlockedHoldsNothing' /\ IdleHasNoLiveConn'
  BY DEF SlotInv
<1> USE DEF SlotInv, BlockedHoldsNothing, IdleHasNoLiveConn, Live, NoConn, Mk,
        Connected, Dialing, Idle, Backoff, Blocked, Rejected
<1>1. CASE Gate
  BY <1>1 DEF Gate, AuthCacheSet, AuthCacheBump, AuthCacheOther, RebuildBump, RebuildStore, slotVars
<1>2. CASE Reconcile
  BY <1>2 DEF Reconcile, ReconcileStart, ReconcileAdmit, ReconcileRevoke, slotVars
<1>3. ASSUME NEW t \in Tasks, CallGet(t) \/ CallSend(t) \/ LockSlot(t)
      PROVE  BlockedHoldsNothing' /\ IdleHasNoLiveConn'
  BY <1>3 DEF CallGet, CallSend, Call, LockSlot, slotVars
<1>4. ASSUME NEW t \in Tasks, Locked(t)
      PROVE  BlockedHoldsNothing' /\ IdleHasNoLiveConn'
  <2>1. CASE UseLive(t) BY <2>1 DEF UseLive
  <2>2. CASE RevokeAtUse(t) BY <2>2 DEF RevokeAtUse
  <2>3. CASE NoteDeadConn(t) BY <2>3 DEF NoteDeadConn
  <2>4. CASE ReadinessDeny(t) BY <2>4 DEF ReadinessDeny
  <2>5. CASE ReadinessWait(t) BY <2>5 DEF ReadinessWait, Holding
  <2>6. CASE Subscribe(t) BY <2>6 DEF Subscribe, ReadyState
  <2>7. CASE ElectDialer(t) BY <2>7 DEF ElectDialer
  <2>8. CASE SendQueue(t) BY <2>8 DEF SendQueue, ReadyState
  <2>9. QED BY <1>4, <2>1, <2>2, <2>3, <2>4, <2>5, <2>6, <2>7, <2>8 DEF Locked
<1>5. ASSUME NEW t \in Tasks, Dial(t)
      PROVE  BlockedHoldsNothing' /\ IdleHasNoLiveConn'
  <2>1. CASE BeforeConnect(t) \/ DialOk(t) \/ GateAfterDial(t) \/ GenAfterDial(t)
    BY <2>1 DEF BeforeConnect, DialOk, GateAfterDial, GenAfterDial, slotVars
  <2>2. CASE DialDenied(t) \/ DialRevoked(t) BY <2>2 DEF DialDenied, DialRevoked
  <2>3. CASE DialRejected(t) \/ DialTransient(t) BY <2>3 DEF DialRejected, DialTransient
  <2>4. CASE Install(t) BY <2>4 DEF Install, InstallDialed, InstallExtra
  <2>5. QED BY <1>5, <2>1, <2>2, <2>3, <2>4 DEF Dial
<1>6. CASE Expire
  BY <1>6 DEF Expire, TypeOK, PeerConnStates
<1>7. CASE Wakeup \/ AdoptCheck
  BY <1>7 DEF Wakeup, AdoptCheck, slotVars
<1>8. CASE Adopt \/ TouchPeer
  BY <1>8 DEF Adopt, TouchPeer
<1>9. CASE CloseAll \/ IdleSweep \/ RemoteClose
  BY <1>9 DEF CloseAll, IdleSweep, RemoteClose, TypeOK, Conns
<1>10. CASE UNCHANGED vars
  BY <1>10 DEF vars, slotVars
<1>11. QED
  BY <1>1, <1>2, <1>3, <1>4, <1>5, <1>6, <1>7, <1>8, <1>9, <1>10 DEF Next, TaskStep

LEMMA SlotInvariant == Spec => []SlotInv
<1>1. Init => BlockedHoldsNothing /\ IdleHasNoLiveConn
  BY DEF Init, BlockedHoldsNothing, IdleHasNoLiveConn, Live, NoConn, Idle, Mk
<1>2. QED
  BY <1>1, SlotInvStep, TypeCorrect, PTL DEF Spec, SlotInv

\* Whichever path blocks a slot, the blocked slot holds no connection and no
\* queued packet: nothing of a locally denied peer survives its denial.
THEOREM BlockedSlotsAreEmpty == Spec => []BlockedHoldsNothing
<1>1. SlotInv => BlockedHoldsNothing
  BY DEF SlotInv
<1>2. QED
  BY <1>1, SlotInvariant, PTL

\* touch_peer never finds an idle slot with a live connection to stamp.
THEOREM IdleSlotsAreDisconnected == Spec => []IdleHasNoLiveConn
<1>1. SlotInv => IdleHasNoLiveConn
  BY DEF SlotInv
<1>2. QED
  BY <1>1, SlotInvariant, PTL

\* No stamp is ahead of the gate: the slot's, the one a task carries from its
\* generation load to the slot, and the one reconcile carries.
StampsBounded ==
    /\ state.gen <= generation /\ recGen <= generation
    /\ \A t \in Tasks : task[t].gen <= generation

LEMMA StampsStep == TypeOK /\ StampsBounded /\ [Next]_vars => StampsBounded'
<1> SUFFICES ASSUME TypeOK, StampsBounded, [Next]_vars PROVE StampsBounded'
  OBVIOUS
<1> USE DEF StampsBounded
<1>a. /\ task \in [Tasks -> TaskRecords] /\ generation \in Nat /\ recGen \in Nat
      /\ state.gen \in Nat /\ 0 <= generation
  BY DEF TypeOK, PeerConnStates
<1>b. /\ Idle.gen = 0 /\ Dialing.gen = 0 /\ Backoff.gen = 0
      /\ \A g : Connected(g).gen = g /\ Blocked(g).gen = g /\ Rejected(g).gen = g
  BY DEF Idle, Dialing, Backoff, Connected, Blocked, Rejected, Mk
<1>c. \A p : At(p).gen = 0
  BY DEF At, Task
<1>d. \A t \in Tasks : \A u \in Tasks : Published(t)[u].gen <= generation
  BY <1>a, <1>c DEF Published
<1>e. /\ \A t \in Tasks : Published(t) \in [Tasks -> TaskRecords]
      /\ At("idle") \in TaskRecords
  BY <1>a, TaskTypes
<1>f. \A ts \in [Tasks -> TaskRecords] : \A u \in Tasks : FreshDeadline(ts)[u].gen = ts[u].gen
  BY DEF FreshDeadline, TaskRecords
<1>1. CASE Gate
  <2>1. UNCHANGED <<state, recGen, task>>
    BY <1>1, GateFrame DEF slotVars
  <2>2. generation' \in Nat /\ generation <= generation'
    <3>1. generation' = generation \/ generation' = generation + 1
      BY <1>1, Zenon DEF Gate, AuthCacheSet, AuthCacheBump, AuthCacheOther, RebuildBump, RebuildStore
    <3>2. QED BY <1>a, <3>1
  <2>3. \A t \in Tasks : task[t].gen \in Nat
    BY <1>a DEF TaskRecords
  <2>4. QED BY <1>a, <2>1, <2>2, <2>3
<1>2. CASE Reconcile
  BY <1>a, <1>b, <1>c, <1>2 DEF Reconcile, ReconcileStart, ReconcileAdmit, ReconcileRevoke,
      Abandoned, gateVars, slotVars
<1>3. ASSUME NEW t \in Tasks, CallGet(t) \/ CallSend(t) \/ LockSlot(t) PROVE StampsBounded'
  BY <1>a, <1>3 DEF CallGet, CallSend, Call, LockSlot, Task, TaskRecords, gateVars, slotVars, recVars
<1>4. ASSUME NEW t \in Tasks, Locked(t) PROVE StampsBounded'
  <2> USE <1>a, <1>b, <1>c DEF Return, Goto, gateVars, recVars
  <2>1. CASE UseLive(t) BY <2>1 DEF UseLive
  <2>2. CASE RevokeAtUse(t) BY <2>2 DEF RevokeAtUse
  <2>3. CASE NoteDeadConn(t)
    <3>1. [task EXCEPT ![t] = At("idle")] \in [Tasks -> TaskRecords]
      BY <1>e
    <3>2. \A u \in Tasks : [task EXCEPT ![t] = At("idle")][u].gen <= generation
      OBVIOUS
    <3>3. \A u \in Tasks : FreshDeadline([task EXCEPT ![t] = At("idle")])[u].gen <= generation
      BY <1>f, <3>1, <3>2
    <3>4. \/ task' = [task EXCEPT ![t] = At("idle")] /\ state' = state
          \/ /\ task' = FreshDeadline([task EXCEPT ![t] = At("idle")])
             /\ state' = Rejected(generation)
      BY <2>3 DEF NoteDeadConn
    <3>5. generation' = generation /\ recGen' = recGen
      BY <2>3 DEF NoteDeadConn
    <3>6. QED BY <3>2, <3>3, <3>4, <3>5
  <2>4. CASE ReadinessDeny(t) BY <2>4 DEF ReadinessDeny
  <2>5. CASE ReadinessWait(t) BY <2>5 DEF ReadinessWait
  <2>6. CASE Subscribe(t) BY <2>6 DEF Subscribe, ReadyState
  <2>7. CASE ElectDialer(t) BY <2>7 DEF ElectDialer
  <2>8. CASE SendQueue(t) BY <2>8 DEF SendQueue, ReadyState, Task
  <2>9. QED BY <1>4, <2>1, <2>2, <2>3, <2>4, <2>5, <2>6, <2>7, <2>8 DEF Locked
<1>5. ASSUME NEW t \in Tasks, Dial(t) PROVE StampsBounded'
  <2> USE <1>a, <1>b, <1>c DEF Goto, gateVars, slotVars, recVars
  <2>1. CASE BeforeConnect(t) \/ DialOk(t) \/ GateAfterDial(t) \/ GenAfterDial(t)
    BY <2>1 DEF BeforeConnect, DialOk, GateAfterDial, GenAfterDial, Task
  <2>2. CASE DialDenied(t) BY <2>2, <1>d DEF DialDenied
  <2>3. CASE DialRejected(t) \/ DialTransient(t)
    BY <2>3, <1>d, <1>e, <1>f DEF DialRejected, DialTransient
  <2>4. CASE DialRevoked(t) BY <2>4 DEF DialRevoked, Abandoned
  <2>5. CASE Install(t) BY <2>5, <1>d DEF Install, InstallDialed, InstallExtra
  <2>6. QED BY <1>5, <2>1, <2>2, <2>3, <2>4, <2>5 DEF Dial
<1>6. CASE Expire
  BY <1>6 DEF Expire, TypeOK, PeerConnStates, gateVars, recVars
<1>7. CASE Wakeup
  BY <1>a, <1>7 DEF Wakeup, Task, gateVars, slotVars, recVars
<1>8. CASE AdoptCheck \/ Adopt \/ TouchPeer
  BY <1>a, <1>b, <1>8 DEF AdoptCheck, Adopt, TouchPeer, gateVars, slotVars, recVars
<1>9. CASE CloseAll \/ IdleSweep \/ RemoteClose
  BY <1>a, <1>b, <1>9 DEF CloseAll, IdleSweep, RemoteClose, gateVars, recVars
<1>10. CASE UNCHANGED vars
  BY <1>10 DEF vars, gateVars, slotVars, recVars
<1>11. QED
  BY <1>1, <1>2, <1>3, <1>4, <1>5, <1>6, <1>7, <1>8, <1>9, <1>10 DEF Next, TaskStep

LEMMA StampsInvariant == Spec => []StampsBounded
<1>1. Init => StampsBounded
  BY DEF Init, StampsBounded, Idle, Mk, At, Task
<1>2. QED
  BY <1>1, StampsStep, TypeCorrect, PTL DEF Spec

\* Every step keeps enforcement except the two that install a connection and the
\* second half of a routing table's rebuild.
LEMMA EnforcementStep ==
    ASSUME SlotInv, StampsBounded, Enforced, [Next]_vars
    PROVE  Enforced' \/ RebuildStore \/ Adopt \/ \E t \in Tasks : Install(t)
<1> USE DEF Enforced, Live
<1>a. generation \in Nat /\ state.gen \in Nat /\ state.gen <= generation
  BY DEF SlotInv, TypeOK, PeerConnStates, StampsBounded
<1>b. \A g : Connected(g).gen = g
  BY DEF Connected, Mk
<1>1. CASE Gate
  <2>1. CASE AuthCacheSet
    BY <2>1 DEF AuthCacheSet, SlotInv, TypeOK
  <2>2. CASE AuthCacheBump \/ AuthCacheOther
    <3>1. state' = state /\ generation' = generation + 1
      BY <2>2 DEF AuthCacheBump, AuthCacheOther, slotVars
    <3>2. state' # Connected(generation')
      BY <1>a, <1>b, <3>1
    <3>3. QED BY <3>2
  <2>3. CASE RebuildBump BY <2>3 DEF RebuildBump
  <2>4. QED BY <1>1, <2>1, <2>2, <2>3 DEF Gate
<1>2. CASE Reconcile
  BY <1>2 DEF Reconcile, ReconcileStart, ReconcileAdmit, ReconcileRevoke, NoConn,
      gateVars, slotVars
<1>3. ASSUME NEW t \in Tasks, CallGet(t) \/ CallSend(t) \/ LockSlot(t) PROVE Enforced'
  BY <1>3 DEF CallGet, CallSend, Call, LockSlot, gateVars, slotVars
<1>4. ASSUME NEW t \in Tasks, Locked(t) PROVE Enforced'
  <2> USE DEF gateVars, NoConn
  <2>1. CASE UseLive(t) BY <2>1 DEF UseLive
  <2>2. CASE RevokeAtUse(t) BY <2>2 DEF RevokeAtUse
  <2>3. CASE NoteDeadConn(t) BY <2>3 DEF NoteDeadConn
  <2>4. CASE ReadinessDeny(t) \/ ReadinessWait(t) BY <2>4 DEF ReadinessDeny, ReadinessWait
  <2>5. CASE Subscribe(t) \/ ElectDialer(t) \/ SendQueue(t)
    BY <2>5 DEF Subscribe, ElectDialer, SendQueue
  <2>6. QED BY <1>4, <2>1, <2>2, <2>3, <2>4, <2>5 DEF Locked
<1>5. ASSUME NEW t \in Tasks, Dial(t), ~Install(t) PROVE Enforced'
  <2>1. CASE BeforeConnect(t) \/ DialOk(t) \/ GateAfterDial(t) \/ GenAfterDial(t)
    BY <2>1 DEF BeforeConnect, DialOk, GateAfterDial, GenAfterDial, gateVars, slotVars
  <2>2. CASE DialDenied(t) \/ DialRevoked(t)
    BY <2>2 DEF DialDenied, DialRevoked, NoConn
  <2>3. CASE DialRejected(t) \/ DialTransient(t)
    BY <2>3 DEF DialRejected, DialTransient, Rejected, Backoff, Connected, Mk
  <2>4. QED BY <1>5, <2>1, <2>2, <2>3 DEF Dial
<1>6. CASE Expire
  <2>1. state'.timer = "due"
    BY <1>6 DEF Expire, SlotInv, TypeOK, PeerConnStates
  <2>2. QED BY <2>1 DEF Connected, Mk
<1>7. CASE Wakeup \/ AdoptCheck
  BY <1>7 DEF Wakeup, AdoptCheck, gateVars, slotVars
<1>8. CASE TouchPeer
  BY <1>8 DEF TouchPeer, gateVars, SlotInv, IdleHasNoLiveConn
<1>9. CASE CloseAll \/ IdleSweep
  BY <1>9 DEF CloseAll, IdleSweep, NoConn
<1>10. CASE RemoteClose
  <2>1. conn'.life # "live"
    BY <1>10 DEF RemoteClose, SlotInv, TypeOK, Conns
  <2>2. QED BY <2>1
<1>11. CASE UNCHANGED vars
  BY <1>11 DEF vars, gateVars, slotVars
<1>12. QED
  BY <1>1, <1>2, <1>3, <1>4, <1>5, <1>6, <1>7, <1>8, <1>9, <1>10, <1>11 DEF Next, TaskStep

\* With an AuthCache as its gate, a slot that enforces the membership goes on
\* enforcing it through revalidation at the point of use, reconcile, inbound
\* traffic and both halves of every membership write; only a connection that is
\* being installed can slip past.
THEOREM DirectEnforcement ==
    GateMode = "direct" => (Spec => OnlyInstallsBreakEnforcement)
<1> SUFFICES ASSUME GateMode = "direct" PROVE Spec => OnlyInstallsBreakEnforcement
  OBVIOUS
<1>1. ~RebuildStore
  BY DEF RebuildStore
<1>2. SlotInv /\ StampsBounded /\ [Next]_vars
        => [Enforced => Enforced' \/ Adopt \/ \E t \in Tasks : Install(t)]_vars
  BY <1>1, EnforcementStep
<1>3. QED
  BY <1>2, StampsInvariant, SlotInvariant, PTL DEF Spec, OnlyInstallsBreakEnforcement

\* Whoever owes a reconcile() or runs one is done only when the slot was visited.
LEMMA ReconcileVisits ==
    ASSUME recDue \/ reconciling, [Next]_vars
    PROVE  recDue' \/ reconciling' \/ ReconcileAdmit \/ ReconcileRevoke
<1>1. CASE Gate
  <2>1. reconciling' = reconciling
    BY <1>1, GateFrame
  <2>2. recDue => recDue'
    BY <1>1, Zenon DEF Gate, AuthCacheSet, AuthCacheBump, AuthCacheOther, RebuildBump,
        RebuildStore, recVars
  <2>3. QED BY <2>1, <2>2
<1>2. CASE Reconcile
  BY <1>2 DEF Reconcile, ReconcileStart
<1>3. ASSUME NEW t \in Tasks, CallGet(t) \/ CallSend(t) \/ LockSlot(t)
      PROVE  UNCHANGED recVars
  BY <1>3 DEF CallGet, CallSend, Call, LockSlot
<1>4. ASSUME NEW t \in Tasks, Locked(t) PROVE UNCHANGED recVars
  BY <1>4 DEF Locked, UseLive, RevokeAtUse, NoteDeadConn, ReadinessDeny, ReadinessWait,
      Subscribe, ElectDialer, SendQueue
<1>5. ASSUME NEW t \in Tasks, Dial(t) PROVE UNCHANGED recVars
  BY <1>5 DEF Dial, BeforeConnect, DialDenied, DialRejected, DialTransient, DialOk,
      GateAfterDial, GenAfterDial, DialRevoked, Install, InstallDialed, InstallExtra
<1>6. CASE Expire \/ Wakeup \/ AdoptCheck \/ Adopt \/ TouchPeer \/ CloseAll \/ IdleSweep
           \/ RemoteClose
  BY <1>6 DEF Expire, Wakeup, AdoptCheck, Adopt, TouchPeer, CloseAll, IdleSweep, RemoteClose,
      recVars
<1>7. CASE UNCHANGED vars
  BY <1>7 DEF vars, recVars
<1>8. QED
  BY <1>1, <1>2, <1>3, <1>4, <1>5, <1>6, <1>7 DEF Next, TaskStep, recVars

\* Under either gate, a slot that reconcile() has visited since the last
\* membership write enforces the membership, and only a connection that is being
\* installed can undo that: what a rebuild of the routing table lets through
\* between its two halves is gone when its reconcile() has ended.
THEOREM ReconciledEnforcement == Spec => OnlyInstallsOutliveReconcile
<1>1. ASSUME SlotInv, StampsBounded, RevocationEnforced, [Next]_vars
      PROVE  RevocationEnforced' \/ Adopt \/ \E t \in Tasks : Install(t)
  <2> SUFFICES ASSUME ~recDue', ~reconciling', ~Adopt, ~\E t \in Tasks : Install(t)
               PROVE  Enforced'
    BY DEF RevocationEnforced
  <2>1. CASE recDue \/ reconciling
    <3>1. ReconcileAdmit \/ ReconcileRevoke
      BY <1>1, <2>1, ReconcileVisits
    <3>2. CASE ReconcileAdmit
      BY <3>2 DEF ReconcileAdmit, Enforced, gateVars
    <3>3. CASE ReconcileRevoke
      BY <3>3 DEF ReconcileRevoke, Enforced, Live, NoConn
    <3>4. QED BY <3>1, <3>2, <3>3
  <2>2. CASE ~recDue /\ ~reconciling
    <3>1. Enforced
      BY <1>1, <2>2 DEF RevocationEnforced
    <3>2. ~RebuildStore
      BY DEF RebuildStore
    <3>3. QED BY <1>1, <3>1, <3>2, EnforcementStep
  <2>3. QED BY <2>1, <2>2
<1>2. SlotInv /\ StampsBounded /\ [Next]_vars
        => [RevocationEnforced =>
               RevocationEnforced' \/ Adopt \/ \E t \in Tasks : Install(t)]_vars
  BY <1>1
<1>3. QED
  BY <1>2, StampsInvariant, SlotInvariant, PTL DEF Spec, OnlyInstallsOutliveReconcile

\* A task that dials, or that is on its way to: it holds a packet it has queued.
Dials(t) == pc(t) \in DialPcs
Comes(t) == pc(t) \in {"lock", "held"} /\ task[t].op = "flush"

\* A slot that dials holds no connection that a finished dial could leave in
\* place of its own, and its channel is never an orphan: a sender that comes
\* back to it dials or finds somebody who does.
DialInv ==
    state.tag = "dialing" =>
        /\ conn = NoConn
        /\ waiters => \E t \in Tasks : Dials(t)
        /\ \E t \in Tasks : Dials(t) \/ Comes(t)

\* A step that ends no dial and takes no sender from its way keeps both.
LEMMA OwnersKept ==
    ASSUME DialInv, state' = state, conn' = conn, waiters' = waiters,
           \A t \in Tasks : (Dials(t) => Dials(t)') /\ (Comes(t) => Comes(t)')
    PROVE  DialInv'
BY DEF DialInv

LEMMA DialInvStep == TypeOK /\ DialInv /\ [Next]_vars => DialInv'
<1> SUFFICES ASSUME TypeOK, DialInv, [Next]_vars PROVE DialInv'
  OBVIOUS
<1>a. task \in [Tasks -> TaskRecords]
  BY DEF TypeOK
<1>b. /\ Idle.tag = "idle" /\ Dialing.tag = "dialing" /\ Backoff.tag = "backoff"
      /\ \A g : /\ Connected(g).tag = "connected" /\ Blocked(g).tag = "blocked"
                /\ Rejected(g).tag = "rejected"
  BY DEF Idle, Dialing, Backoff, Connected, Blocked, Rejected, Mk
<1>1. CASE Gate
  <2>1. state' = state /\ conn' = conn /\ waiters' = waiters /\ task' = task
    BY <1>1, GateFrame DEF slotVars
  <2>2. QED BY <2>1, OwnersKept DEF Dials, Comes, pc
<1>2. CASE Reconcile
  <2>1. CASE ReconcileStart
    BY <2>1, OwnersKept DEF ReconcileStart, slotVars, Dials, Comes, pc
  <2>2. CASE ReconcileAdmit
    <3>1. state'.tag = "dialing" => state' = state
      BY <2>2, <1>b DEF ReconcileAdmit
    <3>2. QED BY <2>2, <3>1 DEF ReconcileAdmit, DialInv, Dials, Comes, pc
  <2>3. CASE ReconcileRevoke
    BY <2>3, <1>b DEF ReconcileRevoke, DialInv
  <2>4. QED BY <1>2, <2>1, <2>2, <2>3 DEF Reconcile
<1>3. ASSUME NEW t \in Tasks, CallGet(t) \/ CallSend(t) \/ LockSlot(t) PROVE DialInv'
  <2>1. \A u \in Tasks : (Dials(u) => Dials(u)') /\ (Comes(u) => Comes(u)')
    BY <1>a, <1>3 DEF CallGet, CallSend, Call, LockSlot, Dials, Comes, pc, Task, DialPcs,
        TaskRecords
  <2>2. QED
    BY <1>3, <2>1, OwnersKept DEF CallGet, CallSend, Call, LockSlot, slotVars
<1>4. ASSUME NEW t \in Tasks, Locked(t) PROVE DialInv'
  <2> USE DEF Return, Goto
  <2>1. CASE UseLive(t)
    <3>1. conn # NoConn
      BY <2>1 DEF UseLive, Live, NoConn
    <3>2. state'.tag # "dialing"
      BY <2>1, <3>1, <1>b DEF UseLive, DialInv
    <3>3. QED BY <3>2 DEF DialInv
  <2>2. CASE RevokeAtUse(t) BY <2>2, <1>b DEF RevokeAtUse, DialInv
  <2>3. CASE NoteDeadConn(t)
    <3>1. conn # NoConn
      BY <2>3 DEF NoteDeadConn, NoConn
    <3>2. state'.tag # "dialing"
      BY <2>3, <3>1, <1>b DEF NoteDeadConn, DialInv
    <3>3. QED BY <3>2 DEF DialInv
  <2>4. CASE ReadinessDeny(t) BY <2>4, <1>b DEF ReadinessDeny, DialInv
  <2>5. CASE ReadinessWait(t) BY <2>5, <1>b DEF ReadinessWait, Holding, DialInv
  <2>6. CASE Subscribe(t)
    <3>1. state'.tag = "dialing" => state' = state
      BY <2>6, <1>b DEF Subscribe, ReadyState
    <3>2. waiters /\ waiters' /\ conn' = NoConn /\ pc(t) = "held"
      BY <2>6 DEF Subscribe, Ready, Absent
    <3>3. \A u \in Tasks : Dials(u) => Dials(u)'
      BY <2>6, <3>2, <1>a DEF Subscribe, Dials, DialPcs, pc, At, Task
    <3>4. QED BY <3>1, <3>2, <3>3 DEF DialInv
  <2>7. CASE ElectDialer(t)
    <3>1. conn' = NoConn /\ Dials(t)'
      BY <2>7, <1>a DEF ElectDialer, Dials, DialPcs, pc, At, Task
    <3>2. QED BY <3>1 DEF DialInv
  <2>8. CASE SendQueue(t)
    <3>1. conn' = NoConn /\ waiters' = waiters /\ pc(t) = "held" /\ task[t].op = "send"
      BY <2>8 DEF SendQueue, Ready, Absent
    <3>2. ReadyState.tag = "dialing" => ReadyState = state
      BY <1>b DEF ReadyState
    <3>3. \A u \in Tasks \ {t} : task'[u] = task[u]
      BY <2>8, <1>a DEF SendQueue
    <3>4. \A u \in Tasks : (Dials(u) => Dials(u)') /\ (Comes(u) => Comes(u)')
      BY <3>1, <3>3 DEF Dials, Comes, DialPcs, pc
    <3>5. CASE state' = ReadyState /\ task' = [task EXCEPT ![t] = At("idle")]
      BY <3>1, <3>2, <3>4, <3>5 DEF DialInv
    <3>6. CASE ~waiters /\ task' = [task EXCEPT ![t] = Task("lock", "flush", Now(state'), 0)]
      <4>1. Comes(t)'
        BY <3>6, <1>a DEF Comes, pc, Task
      <4>2. QED BY <3>1, <3>6, <4>1 DEF DialInv
    <3>7. QED BY <2>8, <3>5, <3>6 DEF SendQueue
  <2>9. QED BY <1>4, <2>1, <2>2, <2>3, <2>4, <2>5, <2>6, <2>7, <2>8 DEF Locked
<1>5. ASSUME NEW t \in Tasks, Dial(t) PROVE DialInv'
  <2>1. CASE BeforeConnect(t) \/ DialOk(t) \/ GateAfterDial(t) \/ GenAfterDial(t)
    <3>1. /\ pc(t) \in DialPcs /\ pc(t)' \in DialPcs
          /\ \A u \in Tasks \ {t} : task'[u] = task[u]
      BY <2>1, <1>a DEF BeforeConnect, DialOk, GateAfterDial, GenAfterDial, Goto, At, Task, pc,
          DialPcs
    <3>2. \A u \in Tasks : (Dials(u) => Dials(u)') /\ (Comes(u) => Comes(u)')
      BY <3>1 DEF Dials, Comes, DialPcs, pc
    <3>3. QED
      BY <2>1, <3>2, OwnersKept DEF BeforeConnect, DialOk, GateAfterDial, GenAfterDial, slotVars
  <2>2. CASE DialDenied(t) \/ DialRevoked(t)
    BY <2>2, <1>b DEF DialDenied, DialRevoked, DialInv
  <2>3. CASE DialRejected(t) \/ DialTransient(t)
    BY <2>3, <1>b DEF DialRejected, DialTransient, DialInv
  <2>4. CASE Install(t)
    <3>1. state'.tag # "dialing"
      BY <2>4, <1>b DEF Install, InstallDialed, InstallExtra, DialInv, Live, NoConn
    <3>2. QED BY <3>1 DEF DialInv
  <2>5. QED BY <1>5, <2>1, <2>2, <2>3, <2>4 DEF Dial
<1>6. CASE Expire
  <2>1. state'.tag = state.tag
    BY <1>6 DEF Expire, TypeOK, PeerConnStates
  <2>2. QED BY <1>6, <2>1 DEF Expire, DialInv, Dials, Comes, pc
<1>7. CASE Wakeup
  <2>1. \A u \in Tasks : (Dials(u) => Dials(u)') /\ (Comes(u) => Comes(u)')
    BY <1>a, <1>7 DEF Wakeup, Dials, Comes, DialPcs, pc, Tasks
  <2>2. QED BY <1>7, <2>1, OwnersKept DEF Wakeup, slotVars
<1>8. CASE AdoptCheck
  BY <1>8, OwnersKept DEF AdoptCheck, slotVars, Dials, Comes, pc
<1>9. CASE Adopt
  <2>1. state'.tag # "dialing"
    BY <1>9, <1>b DEF Adopt, DialInv, Live, NoConn
  <2>2. QED BY <2>1 DEF DialInv
<1>10. CASE TouchPeer
  <2>1. state'.tag = "dialing" => state' = state
    BY <1>10, <1>b DEF TouchPeer
  <2>2. QED BY <1>10, <2>1 DEF TouchPeer, DialInv, Dials, Comes, pc
<1>11. CASE CloseAll \/ IdleSweep
  BY <1>11, <1>b DEF CloseAll, IdleSweep, DialInv
<1>12. CASE RemoteClose
  <2>1. state.tag # "dialing" /\ state' = state
    BY <1>12 DEF RemoteClose, DialInv, Live, NoConn
  <2>2. QED BY <2>1 DEF DialInv
<1>13. CASE UNCHANGED vars
  BY <1>13, OwnersKept DEF vars, slotVars, Dials, Comes, pc
<1>14. QED
  BY <1>1, <1>2, <1>3, <1>4, <1>5, <1>6, <1>7, <1>8, <1>9, <1>10, <1>11, <1>12, <1>13
     DEF Next, TaskStep

\* No path, no race between a sender that queues and a dial that ends, and no
\* revocation leaves a slot in Dialing with nobody to take it out.
THEOREM DialingIsOwned == Spec => []DialingHasOwner
<1>1. Init => DialInv
  BY DEF Init, DialInv, Idle, Mk
<1>2. DialInv => DialingHasOwner
  BY DEF DialInv, DialingHasOwner, Dials, Comes
<1>3. QED
  BY <1>1, <1>2, DialInvStep, TypeCorrect, PTL DEF Spec

-----------------------------------------------------------------------------
(* Orphaned channels *)

\* A dial goes on from its election until the step that ends it, and no other
\* task's step takes a dialer away.
LEMMA DialersKept ==
    ASSUME TypeOK, [Next]_vars, NEW u \in Tasks, Dials(u), ~Dials(u)'
    PROVE  waiters' = FALSE \/ DialRevoked(u)
<1>a. task \in [Tasks -> TaskRecords]
  BY DEF TypeOK
<1>b. pc(u) \in DialPcs /\ task'[u] # task[u]
  BY DEF Dials, pc
<1>c. pc(u) \notin {"idle", "lock", "held", "wait"}
  BY <1>b DEF DialPcs
<1>1. CASE Gate
  BY <1>1, <1>b, GateFrame
<1>2. CASE Reconcile
  BY <1>2, <1>b DEF Reconcile, ReconcileStart, ReconcileAdmit, ReconcileRevoke
<1>3. ASSUME NEW t \in Tasks, CallGet(t) \/ CallSend(t) \/ LockSlot(t) PROVE FALSE
  <2>1. t = u
    BY <1>3, <1>a, <1>b DEF CallGet, CallSend, Call, LockSlot
  <2>2. QED BY <1>3, <2>1, <1>c DEF CallGet, CallSend, Call, LockSlot
<1>4. ASSUME NEW t \in Tasks, Locked(t) PROVE FALSE
  <2>1. pc(t) = "held"
    BY <1>4 DEF Locked, UseLive, RevokeAtUse, NoteDeadConn, ReadinessDeny, ReadinessWait,
        Subscribe, ElectDialer, SendQueue, Ready, Absent
  <2>2. t # u
    BY <2>1, <1>c
  <2>3. pc(u)' = pc(u)
    <3>1. CASE NoteDeadConn(t)
      <4> DEFINE ended == [task EXCEPT ![t] = At("idle")]
      <4>1. ended[u] = task[u]
        BY <2>2, <1>a
      <4>2. task[u] \in TaskRecords
        BY <1>a
      <4>3. [ended[u] EXCEPT !.now = "before"].pc = task[u].pc
        BY <4>1, <4>2 DEF TaskRecords
      <4>4. task' = ended \/ task' = FreshDeadline(ended)
        BY <3>1, Zenon DEF NoteDeadConn, Return, Goto
      <4> HIDE DEF ended
      <4>5. FreshDeadline(ended)[u].pc = task[u].pc
        BY <4>3 DEF FreshDeadline
      <4>6. QED BY <4>1, <4>4, <4>5 DEF pc
    <3>2. CASE ~NoteDeadConn(t)
      <4>1. task'[u] = task[u]
        BY <1>4, <3>2, <2>2, <1>a DEF Locked, UseLive, RevokeAtUse, ReadinessDeny, ReadinessWait,
           Subscribe, ElectDialer, SendQueue, Return, Goto
      <4>2. QED BY <4>1 DEF pc
    <3>3. QED BY <3>1, <3>2
  <2>4. QED BY <2>3 DEF Dials
<1>5. ASSUME NEW t \in Tasks, Dial(t) PROVE waiters' = FALSE \/ DialRevoked(u)
  <2>1. CASE BeforeConnect(t) \/ DialOk(t) \/ GateAfterDial(t) \/ GenAfterDial(t)
    <3>1. /\ pc(t)' \in DialPcs
          /\ \A v \in Tasks \ {t} : task'[v] = task[v]
      BY <2>1, <1>a DEF BeforeConnect, DialOk, GateAfterDial, GenAfterDial, Goto, At, Task, pc,
          DialPcs
    <3>2. QED BY <3>1, <1>b DEF Dials
  <2>2. CASE DialDenied(t) \/ DialRejected(t) \/ DialTransient(t) \/ Install(t)
    BY <2>2 DEF DialDenied, DialRejected, DialTransient, Install, InstallDialed, InstallExtra
  <2>3. CASE DialRevoked(t)
    <3>1. CASE state = Blocked(generation)
      BY <2>3, <3>1, <1>a, <1>b DEF DialRevoked
    <3>2. CASE state # Blocked(generation)
      BY <2>3, <3>2 DEF DialRevoked
    <3>3. QED BY <3>1, <3>2
  <2>4. QED BY <1>5, <2>1, <2>2, <2>3 DEF Dial
<1>6. CASE Expire \/ AdoptCheck \/ Adopt \/ TouchPeer \/ CloseAll \/ IdleSweep \/ RemoteClose
  BY <1>6, <1>b DEF Expire, AdoptCheck, Adopt, TouchPeer, CloseAll, IdleSweep, RemoteClose
<1>7. CASE Wakeup
  BY <1>7, <1>a, <1>b, <1>c DEF Wakeup
<1>8. CASE UNCHANGED vars
  BY <1>8, <1>b DEF vars
<1>9. QED
  BY <1>1, <1>2, <1>3, <1>4, <1>5, <1>6, <1>7, <1>8 DEF Next, TaskStep

\* A channel is put into the slot only by the dialer that serves it.
LEMMA ChannelsOpened ==
    ASSUME TypeOK, [Next]_vars, ~waiters, waiters'
    PROVE  \E t \in Tasks : Dials(t)'
<1>a. task \in [Tasks -> TaskRecords] /\ waiters \in BOOLEAN
  BY DEF TypeOK
<1>1. ASSUME NEW t \in Tasks, ElectDialer(t) PROVE Dials(t)'
  BY <1>1, <1>a DEF ElectDialer, Goto, Dials, DialPcs, pc, At, Task
<1>2. ASSUME \A t \in Tasks : ~ElectDialer(t) PROVE waiters' = waiters \/ waiters' = FALSE
  <2>1. CASE Gate
    BY <2>1, GateFrame DEF slotVars
  <2>2. CASE Reconcile
    BY <2>2 DEF Reconcile, ReconcileStart, ReconcileAdmit, ReconcileRevoke, slotVars
  <2>3. ASSUME NEW t \in Tasks, CallGet(t) \/ CallSend(t) \/ LockSlot(t)
        PROVE  waiters' = waiters
    BY <2>3 DEF CallGet, CallSend, Call, LockSlot, slotVars
  <2>4. ASSUME NEW t \in Tasks, Locked(t) PROVE waiters' = waiters
    BY <1>2, <2>4 DEF Locked, UseLive, RevokeAtUse, NoteDeadConn, ReadinessDeny, ReadinessWait,
        Subscribe, SendQueue, slotVars
  <2>5. ASSUME NEW t \in Tasks, Dial(t) PROVE waiters' = waiters \/ waiters' = FALSE
    BY <2>5 DEF Dial, BeforeConnect, DialDenied, DialRejected, DialTransient, DialOk,
        GateAfterDial, GenAfterDial, DialRevoked, Install, InstallDialed, InstallExtra, slotVars
  <2>6. CASE \/ Expire \/ Wakeup \/ AdoptCheck \/ Adopt \/ TouchPeer
             \/ CloseAll \/ IdleSweep \/ RemoteClose
    BY <2>6 DEF Expire, Wakeup, AdoptCheck, Adopt, TouchPeer, CloseAll, IdleSweep, RemoteClose,
        slotVars
  <2>7. CASE UNCHANGED vars
    BY <2>7 DEF vars, slotVars
  <2>8. QED
    BY <2>1, <2>2, <2>3, <2>4, <2>5, <2>6, <2>7 DEF Next, TaskStep
<1>3. QED BY <1>1, <1>2

\* The hang of a channel that nobody serves has one cause: a dial that the gate
\* refuses after the slot was blocked at the same generation.
THEOREM OneWayToOrphan == Spec => OnlyRefusedDialOrphans
<1>1. ASSUME TypeOK, [Next]_vars, ChannelServed, ~ChannelServed'
      PROVE  \E t \in Tasks : DialRevoked(t) /\ state = Blocked(generation)
  <2>1. waiters' /\ \A t \in Tasks : ~Dials(t)'
    BY <1>1 DEF ChannelServed, Dials
  <2>2. waiters
    BY <1>1, <2>1, ChannelsOpened
  <2>3. PICK t \in Tasks : Dials(t)
    BY <1>1, <2>2 DEF ChannelServed, Dials
  <2>4. waiters' # FALSE
    BY <2>1
  <2>5. DialRevoked(t)
    BY <1>1, <2>1, <2>3, <2>4, DialersKept
  <2>6. state = Blocked(generation)
    BY <2>4, <2>5 DEF DialRevoked
  <2>7. QED BY <2>5, <2>6
<1>2. TypeOK /\ [Next]_vars =>
        [ChannelServed =>
            \/ ChannelServed'
            \/ \E t \in Tasks : DialRevoked(t) /\ state = Blocked(generation)]_vars
  BY <1>1
<1>3. QED
  BY <1>2, TypeCorrect, PTL DEF Spec, OnlyRefusedDialOrphans

\* Whoever read the clock after the slot's deadline finds the deadline passed: a
\* clock that was read before a new deadline was set counts as before it.
ClockInv ==
    \A t \in Tasks :
        task[t].now = "after" /\ state.tag \in {"backoff", "rejected"} => state.timer = "due"

\* A step that keeps the state, or leaves no hold, and moves a clock only to where
\* the slot's timer is.
LEMMA ClocksKept ==
    ASSUME ClockInv,
           \/ state' = state
           \/ state'.tag \notin {"backoff", "rejected"},
           \A t \in Tasks : \/ task'[t].now = task[t].now
                            \/ task'[t].now = "before"
                            \/ task'[t].now = Now(state')
    PROVE  ClockInv'
BY DEF ClockInv, Now

LEMMA ClockInvStep == TypeOK /\ ClockInv /\ [Next]_vars => ClockInv'
<1> SUFFICES ASSUME TypeOK, ClockInv, [Next]_vars PROVE ClockInv'
  OBVIOUS
<1>a. task \in [Tasks -> TaskRecords]
  BY DEF TypeOK
<1>b. /\ Idle.tag = "idle" /\ Dialing.tag = "dialing"
      /\ \A g : Connected(g).tag = "connected" /\ Blocked(g).tag = "blocked"
  BY DEF Idle, Dialing, Connected, Blocked, Mk
<1>c. \A p : At(p).now = "before"
  BY DEF At, Task
<1>d. \A t \in Tasks, u \in Tasks : Published(t)[u].now \in {task[u].now, "before"}
  BY <1>a, <1>c DEF Published
<1>e. \A ts \in [Tasks -> TaskRecords] : \A u \in Tasks : FreshDeadline(ts)[u].now = "before"
  BY DEF FreshDeadline, TaskRecords
<1>f. /\ \A t \in Tasks : Published(t) \in [Tasks -> TaskRecords]
      /\ At("idle") \in TaskRecords
  BY <1>a, TaskTypes
<1>1. CASE Gate
  <2>1. state' = state /\ task' = task
    BY <1>1, GateFrame DEF slotVars
  <2>2. QED BY <2>1, ClocksKept
<1>2. CASE Reconcile
  <2>1. CASE ReconcileStart
    BY <2>1, ClocksKept DEF ReconcileStart, slotVars
  <2>2. CASE ReconcileAdmit
    <3>1. task' = task /\ (state' = state \/ state'.tag \notin {"backoff", "rejected"})
      BY <2>2, <1>b DEF ReconcileAdmit
    <3>2. QED BY <3>1, ClocksKept
  <2>3. CASE ReconcileRevoke
    <3>1. state'.tag \notin {"backoff", "rejected"}
      BY <2>3, <1>b DEF ReconcileRevoke
    <3>2. QED BY <3>1 DEF ClockInv
  <2>4. QED BY <1>2, <2>1, <2>2, <2>3 DEF Reconcile
<1>3. ASSUME NEW t \in Tasks, CallGet(t) \/ CallSend(t) \/ LockSlot(t) PROVE ClockInv'
  <2>1. state' = state
    BY <1>3 DEF CallGet, CallSend, Call, LockSlot, slotVars
  <2>2. \A u \in Tasks : task'[u].now = task[u].now \/ task'[u].now = Now(state)
    BY <1>a, <1>3 DEF CallGet, CallSend, Call, LockSlot, Task, TaskRecords
  <2>3. QED BY <2>1, <2>2, ClocksKept
<1>4. ASSUME NEW t \in Tasks, Locked(t) PROVE ClockInv'
  <2>a. \A p : \A u \in Tasks : [task EXCEPT ![t] = At(p)][u].now \in {task[u].now, "before"}
    BY <1>a, <1>c
  <2>1. CASE UseLive(t)
    <3>1. state' = state \/ state'.tag \notin {"backoff", "rejected"}
      BY <2>1, <1>b DEF UseLive
    <3>2. QED BY <2>1, <2>a, <3>1, ClocksKept DEF UseLive, Return, Goto
  <2>2. CASE RevokeAtUse(t) \/ ReadinessDeny(t) \/ ElectDialer(t)
    <3>1. state'.tag \notin {"backoff", "rejected"}
      BY <2>2, <1>b DEF RevokeAtUse, ReadinessDeny, ElectDialer
    <3>2. QED BY <3>1 DEF ClockInv
  <2>3. CASE NoteDeadConn(t)
    <3>1. CASE state' = state /\ task' = [task EXCEPT ![t] = At("idle")]
      BY <2>a, <3>1, ClocksKept
    <3>2. CASE task' = FreshDeadline([task EXCEPT ![t] = At("idle")])
      <4>1. [task EXCEPT ![t] = At("idle")] \in [Tasks -> TaskRecords]
        BY <1>a, <1>f
      <4>2. \A u \in Tasks : task'[u].now = "before"
        BY <1>e, <3>2, <4>1
      <4>3. QED BY <4>2 DEF ClockInv
    <3>3. QED BY <2>3, <3>1, <3>2 DEF NoteDeadConn, Return, Goto
  <2>4. CASE ReadinessWait(t)
    BY <2>4, <2>a, ClocksKept DEF ReadinessWait, Return, Goto
  <2>5. CASE Subscribe(t)
    <3>1. state' = state \/ state'.tag \notin {"backoff", "rejected"}
      BY <2>5, <1>b DEF Subscribe, ReadyState
    <3>2. QED BY <2>5, <2>a, <3>1, ClocksKept DEF Subscribe, Goto
  <2>6. CASE SendQueue(t)
    <3>1. state' = state \/ state'.tag \notin {"backoff", "rejected"}
      BY <2>6, <1>b DEF SendQueue, ReadyState
    <3>2. \/ task' = [task EXCEPT ![t] = At("idle")]
          \/ task' = [task EXCEPT ![t] = Task("lock", "flush", Now(state'), 0)]
      BY <2>6 DEF SendQueue, Return, Goto
    <3>3. Task("lock", "flush", Now(state'), 0).now = Now(state')
      BY DEF Task
    <3>4. \A u \in Tasks : \/ task'[u].now \in {task[u].now, "before"}
                           \/ task'[u].now = Now(state')
      BY <1>a, <2>a, <3>2, <3>3
    <3>5. QED BY <3>1, <3>4, ClocksKept
  <2>7. QED BY <1>4, <2>1, <2>2, <2>3, <2>4, <2>5, <2>6 DEF Locked
<1>5. ASSUME NEW t \in Tasks, Dial(t) PROVE ClockInv'
  <2>1. CASE BeforeConnect(t) \/ DialOk(t) \/ GateAfterDial(t) \/ GenAfterDial(t)
    <3>1. \A u \in Tasks : task'[u].now \in {task[u].now, "before"}
      BY <1>a, <1>c, <2>1 DEF BeforeConnect, DialOk, GateAfterDial, GenAfterDial, Goto, Task
    <3>2. state' = state
      BY <2>1 DEF BeforeConnect, DialOk, GateAfterDial, GenAfterDial, slotVars
    <3>3. QED BY <3>1, <3>2, ClocksKept
  <2>2. CASE DialDenied(t) \/ DialRevoked(t)
    <3>1. state'.tag \notin {"backoff", "rejected"}
      BY <2>2, <1>b DEF DialDenied, DialRevoked
    <3>2. QED BY <3>1 DEF ClockInv
  <2>3. CASE DialRejected(t) \/ DialTransient(t)
    <3>1. task' = FreshDeadline(Published(t))
      BY <2>3 DEF DialRejected, DialTransient
    <3>2. \A u \in Tasks : task'[u].now = "before"
      BY <1>e, <1>f, <3>1
    <3>3. QED BY <3>2 DEF ClockInv
  <2>4. CASE Install(t)
    <3>1. state' = state \/ state'.tag \notin {"backoff", "rejected"}
      BY <2>4, <1>b DEF Install, InstallDialed, InstallExtra
    <3>2. task' = Published(t)
      BY <2>4 DEF Install, InstallDialed, InstallExtra
    <3>3. QED BY <1>d, <3>1, <3>2, ClocksKept
  <2>5. QED BY <1>5, <2>1, <2>2, <2>3, <2>4 DEF Dial
<1>6. CASE Expire
  <2>1. state'.timer = "due"
    BY <1>6 DEF Expire, TypeOK, PeerConnStates
  <2>2. QED BY <2>1 DEF ClockInv
<1>7. CASE Wakeup
  <2>1. state' = state
    BY <1>7 DEF Wakeup, slotVars
  <2>2. CASE UNCHANGED task
    BY <2>1, <2>2, ClocksKept
  <2>3. CASE state.tag = "backoff" /\ state.timer = "due"
    BY <2>1, <2>3 DEF ClockInv
  <2>4. QED BY <1>7, <2>2, <2>3 DEF Wakeup
<1>8. CASE AdoptCheck
  BY <1>8, ClocksKept DEF AdoptCheck, slotVars
<1>9. CASE Adopt \/ TouchPeer \/ CloseAll \/ IdleSweep \/ RemoteClose
  <2>1. state' = state \/ state'.tag \notin {"backoff", "rejected"}
    BY <1>9, <1>b DEF Adopt, TouchPeer, CloseAll, IdleSweep, RemoteClose
  <2>2. task' = task
    BY <1>9 DEF Adopt, TouchPeer, CloseAll, IdleSweep, RemoteClose
  <2>3. QED BY <2>1, <2>2, ClocksKept
<1>10. CASE UNCHANGED vars
  BY <1>10, ClocksKept DEF vars, slotVars
<1>11. QED
  BY <1>1, <1>2, <1>3, <1>4, <1>5, <1>6, <1>7, <1>8, <1>9, <1>10 DEF Next, TaskStep

\* Readiness, under the lock, is the only way to a dial.
LEMMA OnlyElected ==
    ASSUME TypeOK, [Next]_vars, NEW t \in Tasks, pc(t) = "held", pc(t)' = "hook"
    PROVE  ElectDialer(t)
<1> USE DEF pc
<1>a. task \in [Tasks -> TaskRecords]
  BY DEF TypeOK
<1>b. \A p : At(p).pc = p
  BY DEF At, Task
<1>c. \A u \in Tasks : Published(u)[t].pc \in {"held", "idle"}
  BY <1>a, <1>b DEF Published
<1>d. \A ts \in [Tasks -> TaskRecords] : FreshDeadline(ts)[t].pc = ts[t].pc
  BY DEF FreshDeadline, TaskRecords
<1>e. /\ \A u \in Tasks : Published(u) \in [Tasks -> TaskRecords]
      /\ At("idle") \in TaskRecords
  BY <1>a, TaskTypes
<1>1. CASE Gate
  <2>1. task' = task
    BY <1>1, GateFrame
  <2>2. QED BY <2>1
<1>2. CASE Reconcile
  BY <1>2, <1>a, <1>b DEF Reconcile, ReconcileStart, ReconcileAdmit, ReconcileRevoke, Abandoned
<1>3. ASSUME NEW u \in Tasks, CallGet(u) \/ CallSend(u) \/ LockSlot(u) PROVE FALSE
  BY <1>3, <1>a DEF CallGet, CallSend, Call, LockSlot, Task, TaskRecords
<1>4. ASSUME NEW u \in Tasks, Locked(u), ~ElectDialer(u) PROVE FALSE
  <2>1. CASE NoteDeadConn(u)
    <3>1. [task EXCEPT ![u] = At("idle")] \in [Tasks -> TaskRecords]
      BY <1>a, <1>e
    <3>2. [task EXCEPT ![u] = At("idle")][t].pc \in {"held", "idle"}
      BY <1>a, <1>b
    <3>3. FreshDeadline([task EXCEPT ![u] = At("idle")])[t].pc \in {"held", "idle"}
      BY <1>d, <3>1, <3>2
    <3>4. QED BY <2>1, <3>2, <3>3 DEF NoteDeadConn, Return, Goto
  <2>2. CASE ~NoteDeadConn(u)
    BY <1>4, <2>2, <1>a, <1>b DEF Locked, UseLive, RevokeAtUse, ReadinessDeny, ReadinessWait,
        Subscribe, SendQueue, Return, Goto, Task
  <2>3. QED BY <2>1, <2>2
<1>5. ASSUME NEW u \in Tasks, ElectDialer(u) PROVE u = t
  BY <1>5, <1>a DEF ElectDialer, Goto
<1>6. ASSUME NEW u \in Tasks, Dial(u) PROVE FALSE
  <2>1. CASE BeforeConnect(u) \/ DialOk(u) \/ GateAfterDial(u) \/ GenAfterDial(u)
    BY <2>1, <1>a, <1>b DEF BeforeConnect, DialOk, GateAfterDial, GenAfterDial, Goto, Task
  <2>2. CASE DialDenied(u) \/ Install(u)
    BY <2>2, <1>c DEF DialDenied, Install, InstallDialed, InstallExtra
  <2>3. CASE DialRejected(u) \/ DialTransient(u)
    BY <2>3, <1>c, <1>d, <1>e DEF DialRejected, DialTransient
  <2>4. CASE DialRevoked(u)
    BY <2>4, <1>a, <1>b DEF DialRevoked, Abandoned
  <2>5. QED BY <1>6, <2>1, <2>2, <2>3, <2>4 DEF Dial
<1>7. CASE Wakeup
  BY <1>7, <1>a DEF Wakeup, Task
<1>8. CASE Expire \/ AdoptCheck \/ Adopt \/ TouchPeer \/ CloseAll \/ IdleSweep \/ RemoteClose
  BY <1>8 DEF Expire, AdoptCheck, Adopt, TouchPeer, CloseAll, IdleSweep, RemoteClose
<1>9. CASE UNCHANGED vars
  BY <1>9 DEF vars
<1>10. QED
  BY <1>1, <1>2, <1>3, <1>4, <1>5, <1>6, <1>7, <1>8, <1>9 DEF Next, TaskStep

\* Nobody dials a peer the gate denies, beside another dial, or inside a backoff
\* or a cooldown that is still in force, although a caller judges the hold by a
\* clock that it read before it queued for the slot.
THEOREM HoldsAreKept == Spec => NoDialInHold
<1>1. Init => ClockInv
  BY DEF Init, ClockInv, Idle, Mk
<1>2. ASSUME TypeOK, ClockInv, [Next]_vars, NEW t \in Tasks, pc(t) = "held", pc(t)' = "hook"
      PROVE  /\ member /\ ~waiters
             /\ state.tag \in {"backoff", "rejected"} =>
                   state.timer = "due" \/ (state.tag = "rejected" /\ state.gen # generation)
  <2>1. Ready(t) /\ ~waiters
    BY <1>2, OnlyElected DEF ElectDialer
  <2>2. task[t].now \in {"before", "after"}
    BY <1>2 DEF TypeOK, TaskRecords
  <2>3. QED BY <1>2, <2>1, <2>2 DEF Ready, Holding, ClockInv
<1>3. TypeOK /\ ClockInv /\ [Next]_vars
        => [\A t \in Tasks : pc(t) = "held" /\ pc(t)' = "hook" =>
              /\ member /\ ~waiters
              /\ state.tag \in {"backoff", "rejected"} =>
                    state.timer = "due" \/ (state.tag = "rejected" /\ state.gen # generation)]_vars
  BY <1>2
<1>4. QED
  BY <1>1, <1>3, ClockInvStep, TypeCorrect, PTL DEF Spec, NoDialInHold
==============================================================================
