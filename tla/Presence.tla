------------------------------- MODULE Presence -------------------------------
(***************************************************************************)
(* The websocket sessions of one machine on the control plane: run_ws from  *)
(* the upgrade to its clean-up, the entry of the machine in the hub and the *)
(* shard lock a push holds while it waits for room in the session's         *)
(* channel, and the presence columns of the machine's row with the          *)
(* heartbeats, the sweep and the expiry that write them.                    *)
(***************************************************************************)
EXTENDS Naturals, FiniteSets

CONSTANTS
    MaxSessions, \* bound of the connections the agent makes, one after the other
    Pushers,     \* callers of push_to: the NOTIFY listener, the admin handlers
    Workloads,   \* the serves and tunnels a session replays when it starts
    Workers,     \* threads of the tokio runtime, one for each CPU
    Capacity,    \* slots of a session's channel (64 in the code)
    MaxPushes,   \* bound of the pushes made
    Faults,      \* "half", "crash", "db", "expiry"
    MaxFaults    \* bound of the faults

ASSUME PresenceAssumption ==
    /\ MaxSessions \in Nat
    /\ Pushers \cap (0..MaxSessions) = {}
    /\ Workloads \in Nat
    /\ Workers \in Nat \ {0}
    /\ Capacity \in Nat \ {0}
    /\ MaxPushes \in Nat
    /\ Faults \subseteq {"half", "crash", "db", "expiry"}
    /\ MaxFaults \in Nat

\* The connections in the order they are made.
Sessions == 1..MaxSessions
NoSession == 0

Callers == Pushers \cup Sessions

VARIABLES
    online, connectedAt, beat,   \* the row's presence columns, as in DeviceRow
    stale,      \* no heartbeat was written for HEARTBEAT_STALE_SECS
    expired,    \* expired_at is set
    pc,         \* where run_ws of each session is
    link,       \* each socket: not opened, up, half open, closed
    stamp,      \* the connected_at each session read for its clean-up, 0 for None
    todo,       \* workloads the session has yet to push
    sender,     \* the task that drains the channel into the socket
    reader,     \* the task that reads the socket
    chan,       \* messages in each session's channel
    subs,       \* whose sender the hub holds for the machine
    wait,       \* the session whose channel each caller of push_to waits for
    kick,       \* the pushers in disconnect(), which removes the entry after its push
    parked,     \* the writers of the hub whose thread waits for the shard
    pushes,     \* pushes made
    faults      \* faults that have happened

rowVars == <<online, connectedAt, beat, stale, expired>>
hubVars == <<chan, subs, wait, kick, parked, pushes>>
sessVars == <<pc, link, stamp, todo, sender, reader>>
vars == <<rowVars, hubVars, sessVars, faults>>

Row == INSTANCE DeviceRow

Init ==
    /\ online = FALSE /\ connectedAt = 0 /\ beat = 0 /\ stale = FALSE /\ expired = FALSE
    /\ pc = [s \in Sessions |-> "idle"]
    /\ link = [s \in Sessions |-> "none"]
    /\ stamp = [s \in Sessions |-> 0]
    /\ todo = [s \in Sessions |-> 0]
    /\ sender = [s \in Sessions |-> "none"]
    /\ reader = [s \in Sessions |-> "none"]
    /\ chan = [s \in Sessions |-> 0]
    /\ subs = NoSession
    /\ wait = [x \in Callers |-> NoSession]
    /\ kick = {} /\ parked = {}
    /\ pushes = 0
    /\ faults = 0

-------------------------------------------------------------------------------
(* The row *)

Fault(f) == f \in Faults /\ faults < MaxFaults /\ faults' = faults + 1

\* A statement that raises agent_connected and sets last_heartbeat_at to now();
\* it spares an expired row.  A heartbeat that finds the flag up only puts off
\* the sweep: its stamp is not told apart from the last one.
Refresh(connects) ==
    IF expired THEN UNCHANGED rowVars
    ELSE /\ online' = TRUE
         /\ stale' = FALSE
         /\ beat' = IF connects \/ ~online THEN beat + 1 ELSE beat
         /\ connectedAt' = IF connects THEN beat + 1 ELSE connectedAt
         /\ UNCHANGED expired

\* A task runs only on a thread that is not parked.
FreeWorker == Cardinality(parked) < Workers

\* The session is read from, so that a heartbeat arrives within the limit.
Heard(s) == FreeWorker /\ reader[s] = "run" /\ link[s] = "up" /\ ~expired

\* Ninety seconds pass without a heartbeat.
Age ==
    /\ online /\ ~stale
    /\ \A s \in Sessions : ~Heard(s)
    /\ stale' = TRUE
    /\ UNCHANGED <<online, connectedAt, beat, expired, hubVars, sessVars, faults>>

\* Mutant: the sweep compares the heartbeat with connected_at and not with now().
Sweep_AgainstConnect ==
    /\ FreeWorker /\ online /\ beat < connectedAt
    /\ online' = FALSE
    /\ UNCHANGED <<connectedAt, beat, stale, expired, hubVars, sessVars, faults>>

\* sweep_stale_connections, every 30 s.
Sweep ==
    /\ FreeWorker /\ online /\ stale
    /\ online' = FALSE
    /\ UNCHANGED <<connectedAt, beat, stale, expired, hubVars, sessVars, faults>>

-------------------------------------------------------------------------------
(* The hub.  Every entry of the shard is behind one lock: push_to keeps it   *)
(* shared while it waits, which suspends its task, and a writer needs it     *)
(* alone, which stops the thread its task runs on.                           *)

Unlocked == \A x \in Callers : wait[x] = NoSession

\* The insert or the remove of a writer that has the shard to itself.
Writes(x) ==
    /\ x \in parked \/ FreeWorker
    /\ Unlocked
    /\ parked' = parked \ {x}

\* ... and of one that has not.
Park(x) ==
    /\ FreeWorker /\ ~Unlocked
    /\ x \notin parked
    /\ IF x \in Sessions THEN pc[x] \in {"register", "unregister"}
                         ELSE x \in kick /\ wait[x] = NoSession
    /\ parked' = parked \cup {x}
    /\ UNCHANGED <<rowVars, sessVars, chan, subs, wait, kick, pushes, faults>>

\* push_to finds an entry and starts to wait for a slot.  A send that finds one is
\* suspended too when its task has used up what tokio lets it do in one go.
Begin(x) ==
    /\ FreeWorker
    /\ wait[x] = NoSession
    /\ subs # NoSession
    /\ wait' = [wait EXCEPT ![x] = subs]

\* What the caller does once its push has returned.
Returned(x) ==
    /\ FreeWorker
    /\ wait' = [wait EXCEPT ![x] = NoSession]
    /\ todo' = IF x \in Sessions THEN [todo EXCEPT ![x] = @ - 1] ELSE todo

\* A snapshot, a delta or a command for the machine.
Push(p) ==
    /\ pushes < MaxPushes
    /\ p \notin kick
    /\ Begin(p)
    /\ pushes' = pushes + 1
    /\ UNCHANGED <<rowVars, sessVars, chan, subs, kick, parked, faults>>

\* Mutant: the channel takes a message more than it has slots.
Deliver_PastCapacity(x) ==
    /\ wait[x] # NoSession
    /\ sender[wait[x]] # "done"
    /\ chan[wait[x]] <= Capacity
    /\ Returned(x)
    /\ chan' = [chan EXCEPT ![wait[x]] = @ + 1]
    /\ UNCHANGED <<rowVars, pc, link, stamp, sender, reader, subs, kick, parked, pushes, faults>>

\* tx.send(msg).await gets a slot.
Deliver(x) ==
    /\ wait[x] # NoSession
    /\ sender[wait[x]] # "done"
    /\ chan[wait[x]] < Capacity
    /\ Returned(x)
    /\ chan' = [chan EXCEPT ![wait[x]] = @ + 1]
    /\ UNCHANGED <<rowVars, pc, link, stamp, sender, reader, subs, kick, parked, pushes, faults>>

\* The task that drained the channel has ended and dropped the receiver.
Refused(x) ==
    /\ wait[x] # NoSession
    /\ sender[wait[x]] = "done"
    /\ Returned(x)
    /\ UNCHANGED <<rowVars, pc, link, stamp, sender, reader, chan, subs, kick, parked, pushes,
                   faults>>

\* soft_expire_device: the row is expired and offline, then the revocations and
\* disconnect()'s ForceReenroll are pushed, here as one message (nothing to wait
\* for when the machine has no entry).
Expire(p) ==
    /\ Fault("expiry")
    /\ FreeWorker /\ ~expired /\ p \notin kick /\ wait[p] = NoSession
    /\ expired' = TRUE /\ online' = FALSE
    /\ kick' = kick \cup {p}
    /\ \/ Begin(p)
       \/ subs = NoSession /\ UNCHANGED wait
    /\ UNCHANGED <<connectedAt, beat, stale, chan, subs, parked, pushes, sessVars>>

\* ... and removes the entry, whoever put it there.
RemoveEntry(p) ==
    /\ p \in kick /\ wait[p] = NoSession
    /\ Writes(p)
    /\ subs' = NoSession
    /\ kick' = kick \ {p}
    /\ UNCHANGED <<rowVars, sessVars, chan, wait, pushes, faults>>

-------------------------------------------------------------------------------
(* run_ws *)

To(s, next) == pc' = [pc EXCEPT ![s] = next]

\* The agent connects when it has lost its last connection; the upgrade is
\* refused to an expired machine.
Connect(s) ==
    /\ FreeWorker /\ pc[s] = "idle"
    /\ \A t \in Sessions : link[t] # "up" /\ (t < s => pc[t] # "idle")
    /\ ~expired
    /\ link' = [link EXCEPT ![s] = "up"]
    /\ To(s, "mark")
    /\ UNCHANGED <<rowVars, hubVars, stamp, todo, sender, reader, faults>>

\* mark_agent_connected.
MarkConnected(s) ==
    /\ pc[s] = "mark"
    /\ \/ Refresh(TRUE) /\ UNCHANGED faults
       \/ Fault("db") /\ UNCHANGED rowVars
    /\ To(s, "stamp")
    /\ UNCHANGED <<hubVars, link, stamp, todo, sender, reader>>

\* The SELECT of connected_at, a statement of its own.
ReadStamp(s) ==
    /\ pc[s] = "stamp"
    /\ \/ stamp' = [stamp EXCEPT ![s] = connectedAt] /\ UNCHANGED faults
       \/ Fault("db") /\ UNCHANGED stamp
    /\ To(s, "register")
    /\ UNCHANGED <<rowVars, hubVars, link, todo, sender, reader>>

\* Mutant: the hub's map gives up its entry to a writer while a push waits on it.
Register_IgnoresLock(s) ==
    /\ pc[s] = "register"
    /\ subs' = s
    /\ todo' = [todo EXCEPT ![s] = Workloads]
    /\ To(s, "replay")
    /\ UNCHANGED <<rowVars, link, stamp, sender, reader, chan, wait, kick, parked, pushes,
                   faults>>

\* WsHub::register: a new channel takes the machine's entry over.
Register(s) ==
    /\ pc[s] = "register"
    /\ Writes(s)
    /\ subs' = s
    /\ todo' = [todo EXCEPT ![s] = Workloads]
    /\ To(s, "replay")
    /\ UNCHANGED <<rowVars, link, stamp, sender, reader, chan, wait, kick, pushes, faults>>

\* replay_endpoint_workloads pushes to the machine, not to this session: a newer
\* session gets the message, and without an entry it is dropped.
Replay(s) ==
    /\ pc[s] = "replay"
    /\ todo[s] > 0
    /\ \/ /\ Begin(s)
          /\ UNCHANGED todo
       \/ /\ subs = NoSession
          /\ todo' = [todo EXCEPT ![s] = @ - 1]
          /\ UNCHANGED wait
    /\ UNCHANGED <<rowVars, pc, link, stamp, sender, reader, chan, subs, kick, parked, pushes,
                   faults>>

\* Only then are the two tasks spawned.
SpawnTasks(s) ==
    /\ pc[s] = "replay"
    /\ todo[s] = 0
    /\ sender' = [sender EXCEPT ![s] = "run"]
    /\ reader' = [reader EXCEPT ![s] = "run"]
    /\ To(s, "select")
    /\ UNCHANGED <<rowVars, hubVars, link, stamp, todo, faults>>

\* A socket whose two halves are dropped is closed.
Closing(s, other) == link' = IF other = "done" THEN [link EXCEPT ![s] = "closed"] ELSE link

\* Mutant: a task whose write failed takes the session out of the hub before it ends.
SendOne_Unregisters(s) ==
    /\ sender[s] = "run" /\ chan[s] > 0
    /\ IF link[s] = "closed"
       THEN /\ Writes(s) /\ subs' = NoSession
            /\ sender' = [sender EXCEPT ![s] = "done"] /\ chan' = [chan EXCEPT ![s] = 0]
       ELSE chan' = [chan EXCEPT ![s] = @ - 1] /\ UNCHANGED <<sender, subs, parked>>
    /\ UNCHANGED <<rowVars, pc, link, stamp, todo, reader, wait, kick, pushes, faults>>

\* send_task: a write to a closed socket fails and ends the task.
SendOne(s) ==
    /\ sender[s] = "run" /\ chan[s] > 0
    /\ IF link[s] = "closed"
       THEN sender' = [sender EXCEPT ![s] = "done"] /\ chan' = [chan EXCEPT ![s] = 0]
       ELSE chan' = [chan EXCEPT ![s] = @ - 1] /\ UNCHANGED sender
    /\ UNCHANGED <<rowVars, pc, link, stamp, todo, reader, subs, wait, kick, parked, pushes,
                   faults>>

\* ... and so does the end of the channel, once the hub's sender is dropped.
SenderEnds(s) ==
    /\ sender[s] = "run" /\ chan[s] = 0 /\ subs # s
    /\ sender' = [sender EXCEPT ![s] = "done"]
    /\ Closing(s, reader[s])
    /\ UNCHANGED <<rowVars, hubVars, pc, stamp, todo, reader, faults>>

\* Mutant: the heartbeat writes its time and leaves agent_connected alone.
Heartbeat_KeepsFlag(s) ==
    /\ Heard(s)
    /\ stale' = FALSE
    /\ UNCHANGED <<online, connectedAt, beat, expired, hubVars, sessVars, faults>>

\* Mutant: the heartbeat raises the flag without a new last_heartbeat_at.
Heartbeat_KeepsTime(s) ==
    /\ Heard(s)
    /\ online' = TRUE
    /\ stale' = FALSE
    /\ UNCHANGED <<connectedAt, beat, expired, hubVars, sessVars, faults>>

\* recv_task: ClientMsg::Heartbeat.
Heartbeat(s) ==
    /\ Heard(s)
    /\ Refresh(FALSE)
    /\ UNCHANGED <<hubVars, sessVars, faults>>

\* ... and its end: the socket is closed, or the idle limit passes on one that
\* is half open.
ReaderEnds(s) ==
    /\ FreeWorker /\ reader[s] = "run"
    /\ link[s] # "up"
    /\ reader' = [reader EXCEPT ![s] = "done"]
    /\ Closing(s, sender[s])
    /\ UNCHANGED <<rowVars, hubVars, pc, stamp, todo, sender, faults>>

\* The select! returns with the first task that ends; the other one goes on.
TaskEnded(s) ==
    /\ pc[s] = "select"
    /\ sender[s] = "done" \/ reader[s] = "done"
    /\ To(s, "unregister")
    /\ UNCHANGED <<rowVars, hubVars, link, stamp, todo, sender, reader, faults>>

\* WsHub::unregister removes the entry of the machine, not that of the session.
Unregister(s) ==
    /\ pc[s] = "unregister"
    /\ Writes(s)
    /\ subs' = NoSession
    /\ To(s, "clear")
    /\ UNCHANGED <<rowVars, link, stamp, todo, sender, reader, chan, wait, kick, pushes, faults>>

\* mark_agent_disconnected: nothing for a machine without an active membership,
\* else the row is cleared unless a newer connect has stamped it.
ClearPresence(s) ==
    /\ pc[s] = "clear"
    /\ \/ /\ IF online /\ ~expired /\ stamp[s] \in {0, connectedAt}
             THEN online' = FALSE /\ UNCHANGED <<connectedAt, beat, stale, expired>>
             ELSE UNCHANGED rowVars
          /\ UNCHANGED faults
       \/ Fault("db") /\ UNCHANGED rowVars
    /\ To(s, "done")
    /\ stamp' = [stamp EXCEPT ![s] = 0]
    /\ UNCHANGED <<hubVars, link, todo, sender, reader>>

-------------------------------------------------------------------------------
(* The agent, the network and the control plane's host *)

\* The agent closes its connection, or the network cuts it without a word.
Lose(s) ==
    /\ link[s] = "up"
    /\ \/ link' = [link EXCEPT ![s] = "closed"] /\ UNCHANGED faults
       \/ Fault("half") /\ link' = [link EXCEPT ![s] = "half"]
    /\ UNCHANGED <<rowVars, hubVars, pc, stamp, todo, sender, reader>>

\* The control plane's host gives up on a connection whose writes go unanswered.
TcpTimeout(s) ==
    /\ link[s] = "half"
    /\ link' = [link EXCEPT ![s] = "closed"]
    /\ UNCHANGED <<rowVars, hubVars, pc, stamp, todo, sender, reader, faults>>

\* The control plane dies and starts again: only the row is left.
Crash ==
    /\ Fault("crash")
    /\ \E s \in Sessions : pc[s] \notin {"idle", "done"}
    /\ pc' = [s \in Sessions |-> IF pc[s] = "idle" THEN "idle" ELSE "done"]
    /\ link' = [s \in Sessions |-> IF pc[s] = "idle" THEN "none" ELSE "closed"]
    /\ sender' = [s \in Sessions |-> IF pc[s] = "idle" THEN "none" ELSE "done"]
    /\ reader' = sender'
    /\ todo' = [s \in Sessions |-> 0]
    /\ chan' = [s \in Sessions |-> 0]
    /\ subs' = NoSession
    /\ wait' = [x \in Callers |-> NoSession]
    /\ kick' = {} /\ parked' = {}
    /\ stamp' = [s \in Sessions |-> 0]
    /\ UNCHANGED <<rowVars, pushes>>

\* The steps the control plane takes by itself.
Step(s) ==
    \/ /\ FreeWorker
       /\ \/ MarkConnected(s) \/ ReadStamp(s) \/ Replay(s) \/ SpawnTasks(s)
          \/ TaskEnded(s) \/ ClearPresence(s)
    \/ Register(s) \/ Unregister(s) \/ Park(s)

Tasks(s) == FreeWorker /\ (SenderEnds(s) \/ SendOne(s))

Next ==
    \/ Age \/ Sweep \/ Crash
    \/ \E s \in Sessions : Connect(s) \/ Step(s) \/ Tasks(s) \/ Heartbeat(s) \/ ReaderEnds(s)
                           \/ Lose(s) \/ TcpTimeout(s)
    \/ \E x \in Callers : Deliver(x) \/ Refused(x)
    \/ \E p \in Pushers : Push(p) \/ Expire(p) \/ RemoveEntry(p) \/ Park(p)

Spec == Init /\ [][Next]_vars

\* As long as a thread is left the runtime runs every task that can run; agents
\* send heartbeats, timers fire and a connection that answers nothing is given up.
FairSpec ==
    /\ Spec
    /\ WF_vars(Age) /\ WF_vars(Sweep)
    /\ \A s \in Sessions :
        /\ WF_vars(Step(s)) /\ WF_vars(Tasks(s)) /\ WF_vars(Heartbeat(s))
        /\ WF_vars(ReaderEnds(s)) /\ WF_vars(TcpTimeout(s))
    /\ \A x \in Callers : WF_vars(Deliver(x) \/ Refused(x))
    /\ \A p \in Pushers : WF_vars(RemoveEntry(p) \/ Park(p))

-------------------------------------------------------------------------------
(* Properties *)

\* Every variable keeps its type, and a session's channel its capacity.
TypeOK ==
    /\ online \in BOOLEAN /\ stale \in BOOLEAN /\ expired \in BOOLEAN
    /\ connectedAt \in Nat /\ beat \in Nat
    /\ pc \in [Sessions -> {"idle", "mark", "stamp", "register", "replay", "select",
                            "unregister", "clear", "done"}]
    /\ link \in [Sessions -> {"none", "up", "half", "closed"}]
    /\ stamp \in [Sessions -> Nat]
    /\ todo \in [Sessions -> 0..Workloads]
    /\ sender \in [Sessions -> {"none", "run", "done"}]
    /\ reader \in [Sessions -> {"none", "run", "done"}]
    /\ chan \in [Sessions -> 0..Capacity]
    /\ subs \in Sessions \cup {NoSession}
    /\ wait \in [Callers -> Sessions \cup {NoSession}]
    /\ kick \in SUBSET Pushers
    /\ parked \in SUBSET Callers
    /\ pushes \in 0..MaxPushes
    /\ faults \in 0..MaxFaults

\* The hub's entry is that of a session whose run_ws has yet to remove it, and it
\* stays where it is as long as a push waits on it: no entry is left behind by a
\* session that is gone, and no message goes into a channel that was replaced.
EntryHasOwner ==
    /\ subs # NoSession => pc[subs] \in {"replay", "select", "unregister"}
    /\ \A x \in Callers : wait[x] # NoSession => wait[x] = subs

\* The row keeps the promise DeviceRow makes to its readers: whatever sessions,
\* heartbeats, the sweep and the expiry do at once, the flag never goes up without
\* a newer heartbeat stamp.
RowPromise == Row!RowSpec

\* A machine that is gone does not stay online: when no connection of the agent is
\* up (its session may be half open, its clean-up may have failed or found another
\* stamp, the control plane may have died before it), the row goes offline, the
\* agent comes back, or the hub has every thread parked and nothing runs at all.
GoneGoesOffline ==
    (\A s \in Sessions : link[s] # "up")
        ~> (~online \/ ~FreeWorker \/ \E s \in Sessions : link[s] = "up")

\* Whoever pushes holds the shard, and with it every registration and clean-up, for
\* a while only: its push ends with the session it waits for, however that one ends.
\* The two exceptions are those of the code: a replay that fills the channel of its
\* own session, which is drained after the replay, and writers that have parked
\* every thread the drain could run on.
ShardIsFreed ==
    []<>(\/ Unlocked
         \/ ~FreeWorker
         \/ \E s \in Sessions : wait[s] = s /\ chan[s] = Capacity)

\* A machine that is heard stays online: once a session is read from for good, the
\* row is online for good, even if the clean-up of an older session cleared it.
HeardGoesOnline == \A s \in Sessions : <>[]Heard(s) => <>[]online

\* "Stamp this session so cleanup does not clear a newer reconnect": a session that
\* has come up and stays up ends up, and stays, reachable through the hub.
ReconnectReachable ==
    \A s \in Sessions : <>[]Heard(s) => <>[](subs = s)

\* "re-push OpenTunnel / StartServe so the agent ... actually (re)start workloads":
\* a session that replays its workloads gets through with it.
ReplayEnds == \A s \in Sessions : pc[s] = "replay" ~> pc[s] # "replay"
================================================================================
