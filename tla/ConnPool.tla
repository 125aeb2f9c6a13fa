------------------------------ MODULE ConnPool ------------------------------
(***************************************************************************)
(* The connection pool of tunnet-core (iroh_pool.rs), seen from ONE slot:  *)
(* the connection a node keeps to one peer under one ALPN.  Slots share    *)
(* nothing but the membership gate, so one slot and the gate are the whole *)
(* state a slot's correctness depends on.                                  *)
(*                                                                         *)
(* A slot is guarded by an async mutex; the gate is not.  Tasks therefore  *)
(* interleave between critical sections, and the gate moves at any time,   *)
(* in the middle of a critical section too.  The gate itself is two words  *)
(* (the member set and a generation counter) that its writers do not       *)
(* update together.                                                        *)
(*                                                                         *)
(* Abstractions.  A packet is a unit of the buffer; a connection is who    *)
(* opened it and whether it still lives; a deadline is a timer that runs   *)
(* and comes due, and the Instant a caller captured before it queued for   *)
(* the lock is "before" or "after" that deadline.                          *)
(* Retry delays (backoff step, start of a rejection episode) only choose   *)
(* how long a hold lasts and are left out, as are metrics and logging.     *)
(***************************************************************************)
EXTENDS Naturals, FiniteSets

CONSTANTS
    Callers,     \* tasks that call get / send_or_buffer
    Waker,       \* the task spawn_backoff_wakeup leaves behind
    DefaultAlpn, \* TRUE: a PeerSlot of the pool's ALPN; FALSE: an ExtraSlot
    LocalFirst,  \* local EndpointId < peer EndpointId (prefer_incoming)
    GateMode,    \* "direct": AuthCache; "managed": RoutingTable
    InitMember,  \* is the peer a member when the pool starts?
    Events,      \* what the environment may do in this instance
    MaxGen,      \* bound: membership writes in one behaviour
    MaxBuffer    \* MAX_BUFFER_PACKETS

\* The constants of every instance of the module.
ASSUME PoolAssumption ==
    /\ Waker \notin Callers
    /\ DefaultAlpn \in BOOLEAN
    /\ LocalFirst \in BOOLEAN
    /\ GateMode \in {"direct", "managed"}
    /\ InitMember \in BOOLEAN
    /\ MaxGen \in Nat
    /\ MaxBuffer \in Nat \ {0}

VARIABLES
    member,      \* gate: TransportAuth::allows(peer)
    generation,  \* gate: TransportAuth::generation()
    bumps,       \* gate: AuthCache writes that have yet to move the version
    rebuild,     \* gate: what a rebuild between its two halves will decide
    conn,        \* slot: conn and opened_by_us
    state,       \* slot: PeerConnState
    waiters,     \* slot: dial_waiters.is_some()
    buffer,      \* slot: buffer.len()
    wakeup,      \* a spawn_backoff_wakeup task still sleeps
    task,        \* per task: where it is and its live locals
    accepting,   \* adopt: admitted by the gate, not yet at the lock
    recDue,      \* reconcile() is still to be called for a finished write
    reconciling, \* reconcile() is between its generation load and the slot
    recGen       \* reconcile: the generation read before the first slot

gateVars == <<member, generation, bumps, rebuild>>
slotVars == <<conn, state, waiters, buffer>>
recVars  == <<recDue, reconciling, recGen>>
vars == <<gateVars, slotVars, wakeup, task, accepting, recVars>>

Tasks == Callers \cup {Waker}

----------------------------------------------------------------------------
(* Connections and slot states *)

NoConn == [by |-> "peer", life |-> "none"]
Conns  == [by : {"us", "peer"}, life : {"none", "live", "dead", "auth"}]
Live   == conn.life = "live"

PeerConnStates ==
    [tag : {"connected", "dialing", "idle", "backoff", "blocked", "rejected"},
     gen : Nat, timer : {"off", "running", "due"}]

Mk(tag, g, timer) == [tag |-> tag, gen |-> g, timer |-> timer]
Connected(g) == Mk("connected", g, "off")
Dialing      == Mk("dialing", 0, "off")
Idle         == Mk("idle", 0, "off")
Backoff      == Mk("backoff", 0, "running")
Blocked(g)   == Mk("blocked", g, "off")
Rejected(g)  == Mk("rejected", g, "running")

\* Local EndpointId is the canonical initiator when local < peer.
prefer_incoming(existing_by, incoming_by) ==
    LET want == IF LocalFirst THEN "us" ELSE "peer"
    IN  existing_by # want /\ incoming_by = want

\* A task between calls, or at p in call o, with its live locals: now (is
\* it "before" or "after" the slot's deadline?) and gen (the generation it read).
Task(p, o, n, g) == [pc |-> p, op |-> o, now |-> n, gen |-> g]
At(p)     == Task(p, "get", "before", 0)
Now(st)   == IF st.timer = "due" THEN "after" ELSE "before"
pc(t)     == task[t].pc
Goto(t, p) == task' = [task EXCEPT ![t] = At(p)]

LockFree == \A t \in Tasks : pc(t) # "held"

DialPcs == {"hook", "denied", "connect", "gate", "gen", "install", "revoked"}

TaskRecords ==
    [pc : {"idle", "lock", "held", "wait"} \cup DialPcs,
     op : {"get", "send", "flush"}, now : {"before", "after"}, gen : Nat]

Init ==
    /\ member = InitMember /\ generation = 0 /\ bumps = 0 /\ rebuild = "none"
    /\ conn = NoConn /\ state = Idle /\ waiters = FALSE /\ buffer = 0
    /\ wakeup = FALSE
    /\ task = [t \in Tasks |-> At("idle")]
    /\ accepting = FALSE
    /\ recDue = FALSE /\ reconciling = FALSE /\ recGen = 0

----------------------------------------------------------------------------
(* The membership gate.  A write ends with the caller's reconcile() due.   *)

\* AuthCache::insert / remove / remove_network: the set changes under its
\* lock ...
AuthCacheSet ==
    /\ GateMode = "direct" /\ generation + bumps < MaxGen
    /\ member' = ~member /\ bumps' = bumps + 1
    /\ UNCHANGED <<generation, rebuild, slotVars, wakeup, task, accepting, recVars>>

\* ... and the version moves after the lock is dropped.  An eviction is always
\* followed by reconcile(); an insert by an AUTH handshake is not.
AuthCacheBump ==
    /\ bumps > 0
    /\ generation' = generation + 1 /\ bumps' = bumps - 1
    /\ recDue' \in {recDue \/ ~member, TRUE}
    /\ UNCHANGED <<member, rebuild, slotVars, wakeup, task, accepting, reconciling, recGen>>

\* A write for another peer, or for a second network of this one, moves the
\* shared version alone; the reconcile() that may follow visits every slot.
AuthCacheOther ==
    /\ GateMode = "direct" /\ generation + bumps < MaxGen
    /\ generation' = generation + 1
    /\ recDue' \in {recDue, TRUE}
    /\ UNCHANGED <<member, bumps, rebuild, slotVars, wakeup, task, accepting, reconciling, recGen>>

\* RoutingTable::rebuild: change_seq moves first ...
RebuildBump ==
    /\ GateMode = "managed" /\ rebuild = "none" /\ generation < MaxGen
    /\ generation' = generation + 1
    /\ rebuild' \in {"allow", "deny"}
    /\ UNCHANGED <<member, bumps, slotVars, wakeup, task, accepting, recVars>>

\* Mutant: the rebuild is not followed by a reconcile().
RebuildStore_NoReconcile ==
    /\ GateMode = "managed" /\ rebuild \in {"allow", "deny"}
    /\ member' = (rebuild = "allow") /\ rebuild' = "none"
    /\ UNCHANGED <<generation, bumps, slotVars, wakeup, task, accepting, recVars>>

\* ... and the tables built from the slices are stored later.
RebuildStore ==
    /\ GateMode = "managed" /\ rebuild \in {"allow", "deny"}
    /\ member' = (rebuild = "allow") /\ rebuild' = "none"
    /\ recDue' = TRUE
    /\ UNCHANGED <<generation, bumps, slotVars, wakeup, task, accepting, reconciling, recGen>>

----------------------------------------------------------------------------
(* Calls.  `now` is captured before the slot's lock is requested.          *)

Call(t, o) ==
    /\ pc(t) = "idle"
    /\ task' = [task EXCEPT ![t] = Task("lock", o, Now(state), 0)]
    /\ UNCHANGED <<gateVars, slotVars, wakeup, accepting, recVars>>

CallGet(t)  == t \in Callers /\ Call(t, "get")
CallSend(t) == t \in Callers /\ DefaultAlpn /\ Call(t, "send")

\* The lock is taken and locked_live loads the generation.
LockSlot(t) ==
    /\ pc(t) = "lock" /\ LockFree
    /\ task' = [task EXCEPT ![t].pc = "held", ![t].gen = generation]
    /\ UNCHANGED <<gateVars, slotVars, wakeup, accepting, recVars>>

\* The call ends (with a connection, Ok or an error) and the lock is dropped.
Return(t) == Goto(t, "idle")

\* Mutant: a moved generation restamps the slot without asking the gate.
UseLive_Unchecked(t) ==
    /\ pc(t) = "held" /\ Live
    /\ state' = Connected(task[t].gen)
    /\ Return(t)
    /\ UNCHANGED <<gateVars, conn, waiters, buffer, wakeup, accepting, recVars>>

\* locked_live: LiveUse::Use.  The gate is asked only if the generation moved.
UseLive(t) ==
    /\ pc(t) = "held" /\ Live
    /\ \/ state = Connected(task[t].gen) /\ UNCHANGED state
       \/ state # Connected(task[t].gen) /\ member /\ state' = Connected(task[t].gen)
    /\ Return(t)
    /\ UNCHANGED <<gateVars, conn, waiters, buffer, wakeup, accepting, recVars>>

\* Mutant: the queue survives the revocation.
RevokeAtUse_KeepsQueue(t) ==
    /\ pc(t) = "held" /\ Live /\ state # Connected(task[t].gen) /\ ~member
    /\ conn' = NoConn /\ state' = Blocked(task[t].gen)
    /\ Return(t)
    /\ UNCHANGED <<gateVars, waiters, buffer, wakeup, accepting, recVars>>

\* locked_live: LiveUse::Revoked.  The connection and the queue go.
RevokeAtUse(t) ==
    /\ pc(t) = "held" /\ Live /\ state # Connected(task[t].gen) /\ ~member
    /\ conn' = NoConn /\ buffer' = 0 /\ state' = Blocked(task[t].gen)
    /\ Return(t)
    /\ UNCHANGED <<gateVars, waiters, wakeup, accepting, recVars>>

\* Every `now` captured so far is earlier than a deadline set from here on.
FreshDeadline(ts) == [u \in Tasks |-> [ts[u] EXCEPT !.now = "before"]]

\* LiveUse::Absent with a dead connection in the slot that note_dead_conn
\* classifies as a remote authorization close: fail fast.
NoteDeadConn(t) ==
    /\ pc(t) = "held" /\ conn.life \in {"dead", "auth"}
    /\ \/ /\ state.tag = "rejected" /\ state.gen = generation
          /\ Return(t) /\ UNCHANGED state
       \/ /\ ~(state.tag = "rejected" /\ state.gen = generation)
          /\ conn.life = "auth"
          /\ state' = Rejected(generation)
          /\ task' = FreshDeadline([task EXCEPT ![t] = At("idle")])
    /\ conn' = NoConn
    /\ UNCHANGED <<gateVars, waiters, buffer, wakeup, accepting, recVars>>

\* LiveUse::Absent and nothing to classify: the caller goes on to readiness.
Absent(t) ==
    /\ pc(t) = "held" /\ ~Live
    /\ conn.life # "none" =>
          conn.life = "dead" /\ ~(state.tag = "rejected" /\ state.gen = generation)

\* readiness: Deny.  The queue is shed once per episode.  allows() and
\* generation() are two loads in the code and one step here: a gate that moves
\* between them stamps the block with a generation it was not judged by, as it
\* does in DialRevoked, and the block is judged afresh at every use.
ReadinessDeny(t) ==
    /\ Absent(t) /\ ~member
    /\ buffer' = IF state = Blocked(generation) THEN buffer ELSE 0
    /\ state' = Blocked(generation)
    /\ conn' = NoConn
    /\ Return(t)
    /\ UNCHANGED <<gateVars, waiters, wakeup, accepting, recVars>>

\* Mutant: a remote rejection holds nobody.
Holding_BackoffOnly(t) == task[t].now = "before" /\ state.tag = "backoff"

\* readiness: is a backoff or a cooldown still in force for this caller?
Holding(t) ==
    /\ task[t].now = "before"
    /\ \/ state.tag = "backoff"
       \/ state.tag = "rejected" /\ state.gen = generation

\* Mutant: packets are absorbed without a bound.
ReadinessWait_Unbounded(t) ==
    /\ Absent(t) /\ member /\ Holding(t)
    /\ buffer' = IF task[t].op = "send" THEN buffer + 1 ELSE buffer
    /\ conn' = NoConn
    /\ Return(t)
    /\ UNCHANGED <<gateVars, state, waiters, wakeup, accepting, recVars>>

\* readiness: Wait.  A packet is absorbed (or dropped if the buffer is full);
\* an explicit dial request fails fast.
ReadinessWait(t) ==
    /\ Absent(t) /\ member /\ Holding(t)
    /\ buffer' = IF task[t].op = "send" /\ buffer < MaxBuffer THEN buffer + 1 ELSE buffer
    /\ conn' = NoConn
    /\ Return(t)
    /\ UNCHANGED <<gateVars, state, waiters, wakeup, accepting, recVars>>

\* readiness: Dial, with the state it leaves: a block and a rejection of an
\* older generation are cleared.
ReadyState ==
    IF state.tag = "blocked" \/ (state.tag = "rejected" /\ state.gen # generation)
    THEN Idle ELSE state

Ready(t) == Absent(t) /\ member /\ ~Holding(t)

\* get: a dial is in flight, so subscribe to its result.
Subscribe(t) ==
    /\ Ready(t) /\ task[t].op # "send" /\ waiters
    /\ state' = ReadyState /\ conn' = NoConn
    /\ Goto(t, "wait")
    /\ UNCHANGED <<gateVars, waiters, buffer, wakeup, accepting, recVars>>

\* get: the first caller dials.
ElectDialer(t) ==
    /\ Ready(t) /\ task[t].op # "send" /\ ~waiters
    /\ state' = Dialing /\ conn' = NoConn /\ waiters' = TRUE
    /\ Goto(t, "hook")
    /\ UNCHANGED <<gateVars, buffer, wakeup, accepting, recVars>>

\* send_or_buffer with Readiness::Dial: the packet is dropped if the buffer is
\* full, left to the dial in flight if there is one, and otherwise the sender
\* goes on to get() with a new `now`, leaving a hold's state to the dialer.
SendQueue(t) ==
    /\ Ready(t) /\ task[t].op = "send"
    /\ conn' = NoConn
    /\ \/ /\ buffer >= MaxBuffer
          /\ state' = ReadyState /\ Return(t) /\ UNCHANGED buffer
       \/ /\ buffer < MaxBuffer /\ waiters
          /\ state' = ReadyState /\ Return(t) /\ buffer' = buffer + 1
       \/ /\ buffer < MaxBuffer /\ ~waiters
          /\ state' = IF ReadyState.tag \in {"rejected", "backoff"}
                      THEN ReadyState ELSE Dialing
          /\ buffer' = buffer + 1
          /\ task' = [task EXCEPT ![t] = Task("lock", "flush", Now(state'), 0)]
    /\ UNCHANGED <<gateVars, waiters, wakeup, accepting, recVars>>

----------------------------------------------------------------------------
(* The dial.  dial_waiters is taken with a result: every subscriber gets   *)
(* it and returns.  dial_waiters is dropped: every subscriber reruns get.  *)

Subscribers == {t \in Tasks : pc(t) = "wait"}

\* The tasks once t has ended and the subscribers have received its result.
Published(t) ==
    [u \in Tasks |-> IF u = t \/ u \in Subscribers THEN At("idle") ELSE task[u]]

\* The tasks once the channel is closed and its subscribers have started over
\* (with a new `now`; the slot is blocked, so no deadline is in force).
Abandoned(ts) ==
    [u \in Tasks |-> IF u \in Subscribers THEN At("lock") ELSE ts[u]]

\* EndpointHooks::before_connect, reading the same gate.
BeforeConnect(t) ==
    /\ pc(t) = "hook"
    /\ Goto(t, IF member THEN "connect" ELSE "denied")
    /\ UNCHANGED <<gateVars, slotVars, wakeup, accepting, recVars>>

\* DialFailure::LocalDenied: mark_local_denied.
DialDenied(t) ==
    /\ pc(t) = "denied" /\ LockFree
    /\ conn' = NoConn /\ buffer' = 0 /\ state' = Blocked(generation)
    /\ waiters' = FALSE /\ task' = Published(t)
    /\ UNCHANGED <<gateVars, wakeup, accepting, recVars>>

\* Mutant: a rejected dial leaves its channel in the slot.
DialRejected_KeepsChannel(t) ==
    /\ "reject" \in Events /\ pc(t) = "connect" /\ LockFree
    /\ buffer' = 0 /\ state' = Rejected(generation)
    /\ task' = FreshDeadline([task EXCEPT ![t] = At("idle")])
    /\ UNCHANGED <<gateVars, conn, waiters, wakeup, accepting, recVars>>

\* DialFailure::RemoteRejected: mark_remote_rejected.
DialRejected(t) ==
    /\ "reject" \in Events /\ pc(t) = "connect" /\ LockFree
    /\ buffer' = 0 /\ state' = Rejected(generation) /\ waiters' = FALSE
    /\ task' = FreshDeadline(Published(t))
    /\ UNCHANGED <<gateVars, conn, wakeup, accepting, recVars>>

\* Mutant: a failed dial is published but not recorded in the slot.
DialTransient_Unrecorded(t) ==
    /\ "transient" \in Events /\ pc(t) = "connect" /\ LockFree
    /\ buffer' = 0 /\ waiters' = FALSE
    /\ wakeup' = (wakeup \/ DefaultAlpn)
    /\ task' = FreshDeadline(Published(t))
    /\ UNCHANGED <<gateVars, conn, state, accepting, recVars>>

\* DialFailure::Transient (RECONNECT_TIMEOUT included): mark_backoff, and for
\* the default ALPN spawn_backoff_wakeup.
DialTransient(t) ==
    /\ "transient" \in Events /\ pc(t) = "connect" /\ LockFree
    /\ buffer' = 0 /\ state' = Backoff /\ waiters' = FALSE
    /\ wakeup' = (wakeup \/ DefaultAlpn)
    /\ task' = FreshDeadline(Published(t))
    /\ UNCHANGED <<gateVars, conn, accepting, recVars>>

\* dial_once returns a live connection.
DialOk(t) ==
    /\ pc(t) = "connect"
    /\ Goto(t, "gate")
    /\ UNCHANGED <<gateVars, slotVars, wakeup, accepting, recVars>>

\* The gate is asked again before the lock ...
GateAfterDial(t) ==
    /\ pc(t) = "gate"
    /\ Goto(t, IF member THEN "gen" ELSE "revoked")
    /\ UNCHANGED <<gateVars, slotVars, wakeup, accepting, recVars>>

\* ... then the generation, by a PeerSlot's dialer also before the lock.
GenAfterDial(t) ==
    /\ DefaultAlpn /\ pc(t) = "gen"
    /\ task' = [task EXCEPT ![t] = Task("install", "get", "before", generation)]
    /\ UNCHANGED <<gateVars, slotVars, wakeup, accepting, recVars>>

\* Peer revoked while dialing: mark_local_blocked, and the channel is dropped
\* only if that was a new episode.
DialRevoked(t) ==
    /\ pc(t) = "revoked" /\ LockFree
    /\ conn' = NoConn /\ buffer' = 0 /\ state' = Blocked(generation)
    /\ LET done == [task EXCEPT ![t] = At("idle")]
       IN  IF state = Blocked(generation)
           THEN task' = done /\ UNCHANGED waiters
           ELSE task' = Abandoned(done) /\ waiters' = FALSE
    /\ UNCHANGED <<gateVars, wakeup, accepting, recVars>>

\* PeerSlot: the dialed connection is installed unless a live accepted one
\* wins the tie-break; the queue is taken and flushed to the winner.
InstallDialed(t) ==
    /\ DefaultAlpn /\ pc(t) = "install" /\ LockFree
    /\ \/ /\ Live /\ ~prefer_incoming(conn.by, "us")
          /\ UNCHANGED <<conn, state>>
       \/ /\ Live => prefer_incoming(conn.by, "us")
          /\ conn' = [by |-> "us", life |-> "live"]
          /\ state' = Connected(task[t].gen)
    /\ buffer' = 0
    /\ waiters' = FALSE /\ task' = Published(t)
    /\ UNCHANGED <<gateVars, wakeup, accepting, recVars>>

\* ExtraSlot: installed as it is, stamped under the lock.
InstallExtra(t) ==
    /\ ~DefaultAlpn /\ pc(t) = "gen" /\ LockFree
    /\ conn' = [by |-> "us", life |-> "live"]
    /\ state' = Connected(generation)
    /\ waiters' = FALSE /\ task' = Published(t)
    /\ UNCHANGED <<gateVars, buffer, wakeup, accepting, recVars>>

Install(t) == InstallDialed(t) \/ InstallExtra(t)

----------------------------------------------------------------------------
(* Backoff wakeup, accepted connections, reconcile and the sweepers        *)

\* Time reaches the deadline of a backoff or of a rejection cooldown.
Expire ==
    /\ state.timer = "running"
    /\ state' = [state EXCEPT !.timer = "due"]
    /\ UNCHANGED <<gateVars, conn, waiters, buffer, wakeup, task, accepting, recVars>>

\* spawn_backoff_wakeup's task wakes: it calls get() only if its episode is
\* still in force and packets wait.
Wakeup ==
    /\ wakeup /\ LockFree /\ (state.tag = "backoff" => state.timer = "due")
    /\ pc(Waker) = "idle"
    /\ wakeup' = FALSE
    /\ IF state.tag = "backoff" /\ buffer > 0
       THEN task' = [task EXCEPT ![Waker] = Task("lock", "get", "after", 0)]
       ELSE UNCHANGED task
    /\ UNCHANGED <<gateVars, slotVars, accepting, recVars>>

\* adopt: the gate admits an accepted connection before the lock is requested.
AdoptCheck ==
    /\ "accept" \in Events /\ DefaultAlpn /\ ~accepting /\ member
    /\ accepting' = TRUE
    /\ UNCHANGED <<gateVars, slotVars, wakeup, task, recVars>>

\* adopt under the lock: the live connection in the slot is kept if it is this
\* one or wins the tie-break.  A reader adopts the connection it serves once
\* more, which may have died meanwhile.
Adopt ==
    /\ accepting /\ LockFree
    /\ \/ Live /\ UNCHANGED <<conn, state>>
       \/ /\ Live => prefer_incoming(conn.by, "peer")
          /\ \E life \in {"live", "dead"} : conn' = [by |-> "peer", life |-> life]
          /\ state' = Connected(generation)
    /\ accepting' = FALSE
    /\ UNCHANGED <<gateVars, waiters, buffer, wakeup, task, recVars>>

\* touch_peer on inbound traffic promotes an idle slot only.
TouchPeer ==
    /\ "accept" \in Events /\ DefaultAlpn /\ LockFree
    /\ state' = IF state.tag = "idle" /\ Live THEN Connected(generation) ELSE state
    /\ UNCHANGED <<gateVars, conn, waiters, buffer, wakeup, task, accepting, recVars>>

\* reconcile reads the generation once, before it visits the slots ...
ReconcileStart ==
    /\ recDue /\ ~reconciling
    /\ recDue' = FALSE /\ reconciling' = TRUE /\ recGen' = generation
    /\ UNCHANGED <<gateVars, slotVars, wakeup, task, accepting>>

\* Mutant: a cleared slot is idle, whatever connection it holds.
ReconcileAdmit_AlwaysIdle ==
    /\ reconciling /\ LockFree /\ member
    /\ state' = IF state.tag \notin {"blocked", "rejected"} THEN state ELSE Idle
    /\ reconciling' = FALSE /\ recGen' = 0
    /\ UNCHANGED <<gateVars, conn, waiters, buffer, wakeup, task, accepting, recDue>>

\* ... and asks the gate under each slot's lock.
ReconcileAdmit ==
    /\ reconciling /\ LockFree /\ member
    /\ state' = IF state.tag \notin {"blocked", "rejected"} THEN state
                ELSE IF Live /\ DefaultAlpn THEN Connected(recGen) ELSE Idle
    /\ reconciling' = FALSE /\ recGen' = 0
    /\ UNCHANGED <<gateVars, conn, waiters, buffer, wakeup, task, accepting, recDue>>

ReconcileRevoke ==
    /\ reconciling /\ LockFree /\ ~member
    /\ conn' = NoConn /\ buffer' = 0 /\ state' = Blocked(recGen)
    /\ IF state = Blocked(recGen)
       THEN UNCHANGED <<waiters, task>>
       ELSE waiters' = FALSE /\ task' = Abandoned(task)
    /\ reconciling' = FALSE /\ recGen' = 0
    /\ UNCHANGED <<gateVars, wakeup, accepting, recDue>>

\* close_all (data plane down, membership lost).
CloseAll ==
    /\ "close_all" \in Events /\ LockFree
    /\ conn' = NoConn /\ state' = Idle /\ buffer' = 0
    /\ UNCHANGED <<gateVars, waiters, wakeup, task, accepting, recVars>>

\* The idle sweeper of the default ALPN.
IdleSweep ==
    /\ "idle" \in Events /\ DefaultAlpn /\ LockFree /\ state.tag = "connected"
    /\ conn' = NoConn /\ state' = Idle
    /\ UNCHANGED <<gateVars, waiters, buffer, wakeup, task, accepting, recVars>>

\* The connection dies: closed by the peer or lost ("dead"), or closed by the
\* peer's authorization ("auth").
RemoteClose ==
    /\ "close" \in Events /\ Live
    /\ \E why \in {"dead"} \cup ({"auth"} \cap Events) :
          conn' = [conn EXCEPT !.life = why]
    /\ UNCHANGED <<gateVars, state, waiters, buffer, wakeup, task, accepting, recVars>>

----------------------------------------------------------------------------

Gate == AuthCacheSet \/ AuthCacheBump \/ AuthCacheOther \/ RebuildBump \/ RebuildStore

Locked(t) ==
    \/ UseLive(t) \/ RevokeAtUse(t) \/ NoteDeadConn(t) \/ ReadinessDeny(t)
    \/ ReadinessWait(t) \/ Subscribe(t) \/ ElectDialer(t) \/ SendQueue(t)

Dial(t) ==
    \/ BeforeConnect(t) \/ DialDenied(t) \/ DialRejected(t) \/ DialTransient(t)
    \/ DialOk(t) \/ GateAfterDial(t) \/ GenAfterDial(t) \/ DialRevoked(t)
    \/ Install(t)

Reconcile == ReconcileStart \/ ReconcileAdmit \/ ReconcileRevoke

TaskStep(t) == LockSlot(t) \/ Locked(t) \/ Dial(t)

Next ==
    \/ Gate \/ Reconcile
    \/ \E t \in Tasks : CallGet(t) \/ CallSend(t) \/ TaskStep(t)
    \/ Expire \/ Wakeup \/ AdoptCheck \/ Adopt \/ TouchPeer
    \/ CloseAll \/ IdleSweep \/ RemoteClose

Spec == Init /\ [][Next]_vars

\* The tokio mutex is FIFO, so a task that queues for the slot gets it; a dial
\* ends within RECONNECT_TIMEOUT; sleeping timers fire; a membership write ends
\* and its reconcile() is awaited.
Fairness ==
    /\ \A t \in Tasks : SF_vars(TaskStep(t))
    /\ WF_vars(Expire) /\ SF_vars(Wakeup) /\ SF_vars(Adopt)
    /\ WF_vars(AuthCacheBump) /\ WF_vars(RebuildStore)
    /\ SF_vars(Reconcile)

FairSpec == Spec /\ Fairness
----------------------------------------------------------------------------
(* Properties *)

\* The type of every variable.
TypeOK ==
    /\ member \in BOOLEAN /\ generation \in Nat
    /\ bumps \in Nat /\ rebuild \in {"none", "allow", "deny"}
    /\ conn \in Conns /\ state \in PeerConnStates
    /\ waiters \in BOOLEAN /\ buffer \in 0..MaxBuffer /\ wakeup \in BOOLEAN
    /\ task \in [Tasks -> TaskRecords]
    /\ accepting \in BOOLEAN
    /\ recDue \in BOOLEAN /\ reconciling \in BOOLEAN /\ recGen \in Nat

\* A locally blocked slot holds nothing of the peer: whichever path blocked it
\* (readiness, point of use, endpoint hook, reconcile, the end of a dial), its
\* connection is gone and its queue was shed, and nothing is queued while the
\* block lasts.
BlockedHoldsNothing ==
    state.tag = "blocked" => conn = NoConn /\ buffer = 0

\* An idle PeerSlot never holds a live connection, whatever raced: inbound
\* traffic (touch_peer) therefore never stamps a connection unchecked.
IdleHasNoLiveConn ==
    DefaultAlpn /\ state.tag = "idle" => ~Live

\* A slot shown as dialing has a task that dials or is on its way to: no path
\* leaves a slot in Dialing for ever.
DialingHasOwner ==
    state.tag = "dialing" =>
        \E t \in Tasks :
            \/ pc(t) \in DialPcs
            \/ pc(t) \in {"lock", "held"} /\ task[t].op = "flush"

\* The channel in the slot is that of a dial under way.
ChannelServed == waiters => \E t \in Tasks : pc(t) \in DialPcs

\* "Shared dial in flight": the one step that can leave a channel in the slot with
\* nobody dialling is a dial refused by the gate that finds the slot blocked at
\* the same generation.  Failures, rejections, refusals of the hook, close_all,
\* the sweep, reconcile and other dialers of the same slot never do.
OnlyRefusedDialOrphans ==
    [][ChannelServed =>
          \/ ChannelServed'
          \/ \E t \in Tasks : DialRevoked(t) /\ state = Blocked(generation)]_vars

\* "Expired backoffs and due remote re-probes proceed; steady holds fail fast
\* without dialing": a task becomes the dialer only for an admitted peer, and
\* never inside a hold, although it judges the hold by a clock it read before
\* it queued for the lock.
NoDialInHold ==
    [][\A t \in Tasks : pc(t) = "held" /\ pc(t)' = "hook" =>
          /\ member /\ ~waiters
          /\ state.tag \in {"backoff", "rejected"} =>
                state.timer = "due" \/ (state.tag = "rejected" /\ state.gen # generation)]_vars

\* "... never enforcement": once the gate has settled on denying the peer, no
\* live connection carries the stamp of the current generation, the stamp with
\* which locked_live skips the gate.
Enforced ==
    bumps = 0 /\ rebuild = "none" /\ ~member /\ Live => state # Connected(generation)

\* The same once reconcile() has answered every finished membership write.
RevocationEnforced ==
    ~recDue /\ ~reconciling => Enforced

\* Only a connection that is installed (by a dial or by adopt, which ask the
\* gate before they queue for the lock) can break enforcement: revalidation at
\* the point of use, reconcile, touch_peer and both halves of an AuthCache
\* write keep it.
OnlyInstallsBreakEnforcement ==
    [][Enforced => Enforced' \/ Adopt \/ \E t \in Tasks : Install(t)]_vars

\* The same of a slot that reconcile() has visited since the last membership
\* write, under either gate: a routing table that is rebuilt lets a stale stamp
\* through between its two halves, and the reconcile() that follows takes it back.
OnlyInstallsOutliveReconcile ==
    [][RevocationEnforced => RevocationEnforced' \/ Adopt \/ \E t \in Tasks : Install(t)]_vars

\* "Shared dial in flight: first waiter dials, others subscribe and await the
\* result": whoever subscribes to the slot's channel is answered, or told to
\* start over.
WaitersAnswered == \A t \in Tasks : pc(t) = "wait" ~> pc(t) # "wait"

\* "Queued datagrams must never strand silently."
QueueDrains == buffer > 0 ~> buffer = 0

\* A dial the gate refuses after it has connected, in a slot that was blocked
\* meanwhile: the step OnlyRefusedDialOrphans singles out is about to happen.
RefusedWhileBlocked ==
    waiters /\ state = Blocked(generation) /\ \E t \in Tasks : pc(t) = "revoked"

\* But for that, every call ends: through refusals, rejections, lost connections
\* and a second admission, no caller is left at the lock, sent round for ever, or
\* on a channel nobody resolves.
CallsReturn ==
    []~RefusedWhileBlocked => \A t \in Tasks : pc(t) # "idle" ~> pc(t) = "idle"
=============================================================================
