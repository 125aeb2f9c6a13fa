-------------------------------- MODULE Serves --------------------------------
(***************************************************************************)
(* Serves of one machine, end to end: the management API's requests on the *)
(* rows, the control plane's pushes and its replay when the agent          *)
(* reconnects, the tasks the agent spawns for each message, its            *)
(* ServeManager and the proxies that hold the listening sockets, and the   *)
(* reports that come back and settle the rows.                             *)
(***************************************************************************)
EXTENDS Naturals, Sequences, FiniteSets

CONSTANTS
    Ids,          \* the ids rows may get; a row's id is never used again
    NoId,
    Ports,        \* local ports
    NoPort,
    Port,         \* the port each serve asks for
    Requests,     \* management requests under way at once
    Ops,          \* the requests that occur: "create", "patch", "delete"
    Slots,        \* agent tasks, and the generation of the proxy each one starts
    NoSlot,
    Faults,       \* the faults that occur, of FaultKinds
    MaxRequests,  \* bound of the requests made
    MaxFaults     \* bound of the faults

FaultKinds ==
    {"drop", "crash", "unreachable", "bind", "accept",  \* connection, agent, push, sockets
     "api", "db",                    \* a request ends with an error, a report is not written
     "replay", "skip", "forgotten"}  \* no replay, a row left out, the hub entry removed

ASSUME ServesAssumption ==
    /\ NoId \notin Ids
    /\ NoSlot \notin Slots
    /\ NoPort \notin Ports
    /\ Port \in [Ids -> Ports]
    /\ Ops \subseteq {"create", "patch", "delete"}
    /\ Faults \subseteq FaultKinds
    /\ MaxRequests \in Nat
    /\ MaxFaults \in Nat

\* The status of a row, with "none" before and "gone" after it exists.  The table
\* also allows "stopped", which no code writes: a stopped serve is deleted.
Status == {"none", "starting", "active", "error", "gone"}
Live == {"active", "starting"}

\* What an access list is: the one of the creation, or the one of a PATCH.
Acls == {"created", "patched"}

Messages ==
    [kind : {"StartServe"}, id : Ids, acl : Acls]
    \cup [kind : {"StopServe"}, id : Ids]
    \cup [kind : {"ReconcileServes"}, keep : SUBSET Ids]

Reports == [kind : {"ServeReady", "ServeFailed", "ServeStopped"}, id : Ids]

IdleRequest == [op |-> "none", id |-> NoId, live |-> FALSE, pc |-> "idle"]
NoReplay == [reconcile |-> FALSE, rows |-> {}]
IdleTask == [kind |-> "none", id |-> NoId, acl |-> "created", keep |-> {}, ports |-> {},
             pc |-> "idle", wait |-> NoSlot]
NoProxy == [st |-> "none", port |-> NoPort, stop |-> FALSE]
NoServe == [id |-> NoId, acl |-> "created", gen |-> NoSlot]

VARIABLES
    row,       \* status and access list of each row of the table serves
    req,       \* the management requests under way
    made,      \* how many requests were made
    link,      \* the agent's session: down, registered in the hub, replaying, running
    hub,       \* the hub has this session's channel
    replay,    \* the rows the session has read and not pushed yet
    chan,      \* the session's channel to the agent
    lost,      \* history: the rows given up since a session last read the rows
    task,      \* the agent's tasks, one per message received
    serves,    \* the ServeManager's map, by port
    proxy,     \* the proxy task of each generation
    client,    \* the agent's channel of reports
    faults

vars == <<row, req, made, link, hub, replay, chan, lost, task, serves, proxy, client, faults>>

db == <<row, req, made>>
session == <<link, hub, replay, chan, lost>>
agent == <<task, serves, proxy, client>>

\* Every variable keeps its type, and a row has only the statuses the code knows.
TypeOK ==
    /\ row \in [Ids -> [st : Status, acl : Acls]]
    /\ req \in [Requests -> [op : {"none"} \cup Ops, id : Ids \cup {NoId}, live : BOOLEAN,
                             pc : {"idle", "update", "push", "error", "delete"}]]
    /\ made \in Nat
    /\ link \in {"down", "registered", "replaying", "running"}
    /\ hub \in BOOLEAN
    /\ replay \in [reconcile : BOOLEAN, rows : SUBSET (Ids \X Acls)]
    /\ chan \in Seq(Messages)
    /\ lost \subseteq Ids
    /\ task \in [Slots -> [kind : {"none", "StartServe", "StopServe", "ReconcileServes"},
                           id : Ids \cup {NoId}, acl : Acls, keep : SUBSET Ids,
                           ports : SUBSET Ports,
                           pc : {"idle", "look", "evict", "wait", "bind", "insert", "stop",
                                 "done"},
                           wait : Slots \cup {NoSlot}]]
    /\ serves \in [Ports -> [id : Ids \cup {NoId}, acl : Acls, gen : Slots \cup {NoSlot}]]
    /\ proxy \in [Slots -> [st : {"none", "listening", "closed"}, port : Ports \cup {NoPort},
                            stop : BOOLEAN]]
    /\ client \in Seq(Reports)
    /\ faults \in Nat

Init ==
    /\ row = [i \in Ids |-> [st |-> "none", acl |-> "created"]]
    /\ req = [r \in Requests |-> IdleRequest]
    /\ made = 0
    /\ link = "down" /\ hub = FALSE /\ replay = NoReplay /\ chan = <<>> /\ lost = {}
    /\ task = [k \in Slots |-> IdleTask]
    /\ serves = [p \in Ports |-> NoServe]
    /\ proxy = [k \in Slots |-> NoProxy]
    /\ client = <<>>
    /\ faults = 0

Fault(f) == f \in Faults /\ faults < MaxFaults /\ faults' = faults + 1

-----------------------------------------------------------------------------
\* Management API.

\* ws_hub.push_to: what the hub has no channel for is dropped, and the caller is
\* not told.  A start dropped beside a session that still runs is given up.
PushTo(m) ==
    /\ chan' = IF hub THEN Append(chan, m) ELSE chan
    /\ lost' = IF ~hub /\ link # "down" /\ m.kind = "StartServe" THEN lost \cup {m.id}
               ELSE lost

StartMsg(i, a) == [kind |-> "StartServe", id |-> i, acl |-> a]

\* A request is taken up; which idle worker has it makes no difference.
Begin(r) ==
    /\ req[r] = IdleRequest /\ r = CHOOSE q \in Requests : req[q] = IdleRequest
    /\ made < MaxRequests
    /\ made' = made + 1

\* POST: the row is inserted, unless the port has one.
CreateServe(r, i) ==
    /\ "create" \in Ops /\ Begin(r)
    /\ row[i].st = "none"
    /\ \A j \in Ids : Port[j] = Port[i] => row[j].st \in {"none", "gone"}
    /\ row' = [row EXCEPT ![i].st = "starting"]
    /\ req' = [req EXCEPT ![r] = [op |-> "create", id |-> i, live |-> TRUE, pc |-> "push"]]
    /\ UNCHANGED <<session, agent, faults>>

\* PATCH and DELETE: the row is looked up.
FindServe(r, i, op) ==
    /\ op \in Ops /\ op # "create" /\ Begin(r)
    /\ row[i].st \notin {"none", "gone"}
    /\ req' = [req EXCEPT ![r] = [op |-> op, id |-> i, live |-> row[i].st \in Live,
                                  pc |-> IF op = "patch" THEN "update" ELSE "push"]]
    /\ UNCHANGED <<row, session, agent, faults>>

\* PATCH: the access list is written, and pushed when the row looked live.
PatchServe(r) ==
    LET i == req[r].id IN
    /\ req[r].pc = "update"
    /\ row' = IF row[i].st = "gone" THEN row ELSE [row EXCEPT ![i].acl = "patched"]
    /\ req' = [req EXCEPT ![r] = IF req[r].live /\ row[i].st # "gone"
                                 THEN [req[r] EXCEPT !.pc = "push"]
                                 ELSE IdleRequest]
    /\ UNCHANGED <<made, session, agent, faults>>

\* The push of a request reaches the control plane.  The POST pushes what it
\* inserted, the PATCH what it wrote, whatever the row holds by now.
Push(r) ==
    LET i == req[r].id IN
    /\ req[r].pc = "push"
    /\ CASE req[r].op = "create" -> PushTo(StartMsg(i, "created"))
         [] req[r].op = "patch" -> PushTo(StartMsg(i, "patched"))
         [] OTHER -> PushTo([kind |-> "StopServe", id |-> i])
    /\ req' = [req EXCEPT ![r] = IF req[r].op = "delete" THEN [req[r] EXCEPT !.pc = "delete"]
                                 ELSE IdleRequest]
    /\ UNCHANGED <<row, made, link, hub, replay, agent, faults>>

\* The control plane cannot be reached: a start is recorded as an error, a stop
\* is only logged.
PushFails(r) ==
    /\ req[r].pc = "push" /\ Fault("unreachable")
    /\ req' = [req EXCEPT ![r].pc = IF req[r].op = "delete" THEN "delete" ELSE "error"]
    /\ UNCHANGED <<row, made, session, agent>>

RecordError(r) ==
    LET i == req[r].id IN
    /\ req[r].pc = "error"
    /\ row' = IF row[i].st = "gone" THEN row ELSE [row EXCEPT ![i].st = "error"]
    /\ req' = [req EXCEPT ![r] = IdleRequest]
    /\ UNCHANGED <<made, session, agent, faults>>

\* The request ends with an error, of the database or because the process stops,
\* and what it had left to do is not done.
RequestDies(r) ==
    /\ req[r].pc # "idle" /\ Fault("api")
    /\ lost' = IF req[r].op = "create" THEN lost \cup {req[r].id} ELSE lost
    /\ req' = [req EXCEPT ![r] = IdleRequest]
    /\ UNCHANGED <<row, made, link, hub, replay, chan, agent>>

DeleteServe(r) ==
    /\ req[r].pc = "delete"
    /\ row' = [row EXCEPT ![req[r].id].st = "gone"]
    /\ req' = [req EXCEPT ![r] = IdleRequest]
    /\ UNCHANGED <<made, session, agent, faults>>

-----------------------------------------------------------------------------
\* Control plane: the session of the agent.

\* run_ws: the session is registered in the hub and the snapshot sent.
Connect ==
    /\ link = "down"
    /\ link' = "registered" /\ hub' = TRUE /\ chan' = <<>>
    /\ UNCHANGED <<db, replay, lost, agent, faults>>

\* An older session of the same agent ends, and its clean-up removes the entry
\* this session has in the hub; this session reads on.
Forgotten ==
    /\ hub /\ Fault("forgotten")
    /\ hub' = FALSE
    /\ UNCHANGED <<db, link, replay, chan, lost, agent>>

\* Mutant: only the rows that are active are replayed.
ReadRows_OnlyActive ==
    /\ link = "registered"
    /\ link' = "replaying"
    /\ replay' = [reconcile |-> TRUE,
                  rows |-> {<<i, row[i].acl>> : i \in {j \in Ids : row[j].st = "active"}}]
    /\ lost' = {}
    /\ UNCHANGED <<db, hub, chan, agent, faults>>

\* replay_serves: the live rows are read ...
ReadRows ==
    /\ link = "registered"
    /\ link' = "replaying"
    /\ replay' = [reconcile |-> TRUE,
                  rows |-> {<<i, row[i].acl>> : i \in {j \in Ids : row[j].st \in Live}}]
    /\ lost' = {}
    /\ UNCHANGED <<db, hub, chan, agent, faults>>

\* The key of the certificates is not to be had, or the rows cannot be read: the
\* session goes on without a replay of the serves.
ReplayFails ==
    /\ link = "registered" /\ Fault("replay")
    /\ link' = "running"
    /\ lost' = lost \cup {i \in Ids : row[i].st = "starting"}
    /\ UNCHANGED <<db, hub, replay, chan, agent>>

\* ... the ids are pushed, then each row; pushes of others come in between.
ReplayReconcile ==
    /\ link = "replaying" /\ replay.reconcile
    /\ PushTo([kind |-> "ReconcileServes", keep |-> {x[1] : x \in replay.rows}])
    /\ replay' = [replay EXCEPT !.reconcile = FALSE]
    /\ UNCHANGED <<db, link, hub, agent, faults>>

ReplayStart ==
    /\ link = "replaying" /\ ~replay.reconcile
    /\ \E x \in replay.rows :
          /\ PushTo(StartMsg(x[1], x[2]))
          /\ replay' = [replay EXCEPT !.rows = @ \ {x}]
    /\ UNCHANGED <<db, link, hub, agent, faults>>

\* A row with a port out of range, a key that cannot be decrypted or no
\* certificate is passed over with a line in the log.
ReplaySkips ==
    /\ link = "replaying" /\ ~replay.reconcile /\ Fault("skip")
    /\ \E x \in replay.rows :
          /\ lost' = lost \cup {x[1]}
          /\ replay' = [replay EXCEPT !.rows = @ \ {x}]
    /\ UNCHANGED <<db, link, hub, chan, agent>>

\* The send and receive tasks are spawned: only now is the channel drained.
Run ==
    /\ link = "replaying" /\ replay = NoReplay
    /\ link' = "running"
    /\ UNCHANGED <<db, hub, replay, chan, lost, agent, faults>>

\* The connection breaks: what is in the channel is lost, and so may be the
\* first reports, which the agent had already written to the socket.
Drop ==
    /\ link # "down" /\ Fault("drop")
    /\ link' = "down" /\ hub' = FALSE /\ replay' = NoReplay /\ chan' = <<>>
    /\ \E n \in 0..Len(client) : client' = SubSeq(client, n + 1, Len(client))
    /\ UNCHANGED <<db, lost, task, serves, proxy>>

\* Mutant: a stopped serve is kept as a row in "stopped".
Report_KeepsStopped ==
    /\ link = "running" /\ client # <<>>
    /\ LET i == Head(client).id
           st == IF Head(client).kind = "ServeReady" THEN "active"
                 ELSE IF Head(client).kind = "ServeFailed" THEN "error" ELSE "stopped" IN
       row' = IF row[i].st = "gone" THEN row ELSE [row EXCEPT ![i].st = st]
    /\ client' = Tail(client)
    /\ UNCHANGED <<req, made, session, task, serves, proxy, faults>>

\* ServeReady, ServeStopped, ServeFailed: whatever the row holds is overwritten.
Report ==
    /\ link = "running" /\ client # <<>>
    /\ LET i == Head(client).id
           st == IF Head(client).kind = "ServeReady" THEN "active"
                 ELSE IF Head(client).kind = "ServeFailed" THEN "error" ELSE "gone" IN
       row' = IF row[i].st = "gone" THEN row ELSE [row EXCEPT ![i].st = st]
    /\ client' = Tail(client)
    /\ UNCHANGED <<req, made, session, task, serves, proxy, faults>>

\* The row cannot be written: the report is logged and gone.
ReportFails ==
    /\ link = "running" /\ client # <<>> /\ Fault("db")
    /\ lost' = lost \cup {Head(client).id}
    /\ client' = Tail(client)
    /\ UNCHANGED <<db, link, hub, replay, chan, task, serves, proxy>>

-----------------------------------------------------------------------------
\* Agent.

\* A slot stands for a task and for the generation of the proxy it starts.
Free(k) == /\ task[k] = IdleTask /\ proxy[k] = NoProxy
           /\ \A p \in Ports : serves[p].gen # k
           /\ \A j \in Slots : task[j].wait # k

\* One task is spawned per message; which free slot it gets makes no difference.
Receive(k) ==
    /\ link = "running" /\ chan # <<>>
    /\ Free(k) /\ k = CHOOSE j \in Slots : Free(j)
    /\ task' = [task EXCEPT ![k] =
          LET m == Head(chan) IN
          [IdleTask EXCEPT !.kind = m.kind, !.pc = "look",
                           !.id = IF m.kind = "ReconcileServes" THEN NoId ELSE m.id,
                           !.acl = IF m.kind = "StartServe" THEN m.acl ELSE "created",
                           !.keep = IF m.kind = "ReconcileServes" THEN m.keep ELSE {}]]
    /\ chan' = Tail(chan)
    /\ UNCHANGED <<db, link, hub, replay, lost, serves, proxy, client, faults>>

\* The task ends with a report.
Finish(k, kind) ==
    /\ task' = [task EXCEPT ![k] = IdleTask]
    /\ client' = Append(client, [kind |-> kind, id |-> task[k].id])

\* start: an entry with the same id takes the access list in place.
StartInPlace(k) ==
    LET p == Port[task[k].id] IN
    /\ task[k].kind = "StartServe" /\ task[k].pc = "look"
    /\ serves[p].id = task[k].id
    /\ serves' = [serves EXCEPT ![p].acl = task[k].acl]
    /\ Finish(k, "ServeReady")
    /\ UNCHANGED <<db, session, proxy, faults>>

StartLook(k) ==
    /\ task[k].kind = "StartServe" /\ task[k].pc = "look"
    /\ serves[Port[task[k].id]].id # task[k].id
    /\ task' = [task EXCEPT ![k].pc = "evict"]
    /\ UNCHANGED <<db, session, serves, proxy, client, faults>>

\* stop: the entry is taken out of the map and its proxy told to stop.
TakeOut(p) ==
    /\ serves' = [serves EXCEPT ![p] = NoServe]
    /\ proxy' = IF serves[p].gen = NoSlot THEN proxy
                ELSE [proxy EXCEPT ![serves[p].gen].stop = TRUE]

\* Another serve on the port, or the same one started meanwhile, is stopped.
StartEvict(k) ==
    LET p == Port[task[k].id] IN
    /\ task[k].pc = "evict"
    /\ TakeOut(p)
    /\ task' = [task EXCEPT ![k].pc = "wait", ![k].wait = serves[p].gen]
    /\ UNCHANGED <<db, session, client, faults>>

\* The evicted proxy has ended: its finished channel answers.
StartWaited(k) ==
    /\ task[k].pc = "wait"
    /\ task[k].wait # NoSlot => proxy[task[k].wait] = NoProxy
    /\ task' = [task EXCEPT ![k].pc = "bind", ![k].wait = NoSlot]
    /\ UNCHANGED <<db, session, serves, proxy, client, faults>>

Bound(p) == \E g \in Slots : proxy[g].st = "listening" /\ proxy[g].port = p

\* The proxy task binds the mesh address: the operating system gives a port to
\* one listener at a time.
StartBind(k) ==
    LET p == Port[task[k].id] IN
    /\ task[k].pc = "bind" /\ ~Bound(p)
    /\ proxy' = [proxy EXCEPT ![k] = [st |-> "listening", port |-> p, stop |-> FALSE]]
    /\ task' = [task EXCEPT ![k].pc = "insert"]
    /\ UNCHANGED <<db, session, serves, client, faults>>

\* The port is taken, or the certificate or the address is not usable.
StartFails(k) ==
    /\ task[k].pc = "bind"
    /\ \/ Bound(Port[task[k].id]) /\ UNCHANGED faults
       \/ Fault("bind")
    /\ Finish(k, "ServeFailed")
    /\ UNCHANGED <<db, session, serves, proxy>>

\* The serve is published.  An entry that is overwritten drops its sender, which
\* stops its proxy.
StartInsert(k) ==
    LET p == Port[task[k].id] IN
    /\ task[k].pc = "insert"
    /\ serves' = [serves EXCEPT ![p] = [id |-> task[k].id, acl |-> task[k].acl, gen |-> k]]
    /\ proxy' = IF serves[p].gen \in Slots THEN [proxy EXCEPT ![serves[p].gen].stop = TRUE]
                ELSE proxy
    /\ Finish(k, "ServeReady")
    /\ UNCHANGED <<db, session, faults>>

\* stop_by_id finds the port; when there is none the serve is reported all the same.
StopLook(k) ==
    /\ task[k].kind = "StopServe" /\ task[k].pc = "look"
    /\ IF serves[Port[task[k].id]].id = task[k].id
       THEN task' = [task EXCEPT ![k].pc = "stop"] /\ UNCHANGED client
       ELSE Finish(k, "ServeStopped")
    /\ UNCHANGED <<db, session, serves, proxy, faults>>

\* stop: whichever serve the port has by now is taken out, and waited for.
StopTake(k) ==
    LET p == Port[task[k].id] IN
    /\ task[k].kind = "StopServe" /\ task[k].pc = "stop"
    /\ TakeOut(p)
    /\ task' = [task EXCEPT ![k].pc = "done", ![k].wait = serves[p].gen]
    /\ UNCHANGED <<db, session, client, faults>>

StopDone(k) ==
    /\ task[k].kind = "StopServe" /\ task[k].pc = "done"
    /\ task[k].wait # NoSlot => proxy[task[k].wait] = NoProxy
    /\ Finish(k, "ServeStopped")
    /\ UNCHANGED <<db, session, serves, proxy, faults>>

\* reconcile_managed: the entries that are not wanted are listed under the lock,
\* then their ports are stopped one by one.  Nothing is reported.
ReconcileLook(k) ==
    /\ task[k].kind = "ReconcileServes" /\ task[k].pc = "look"
    /\ LET unwanted == {p \in Ports : serves[p].id \notin task[k].keep \cup {NoId}} IN
       task' = [task EXCEPT ![k] = IF unwanted = {} THEN IdleTask
                                   ELSE [task[k] EXCEPT !.ports = unwanted, !.pc = "stop"]]
    /\ UNCHANGED <<db, session, serves, proxy, client, faults>>

ReconcileTake(k) ==
    /\ task[k].kind = "ReconcileServes" /\ task[k].pc = "stop"
    /\ \E p \in task[k].ports :
          /\ TakeOut(p)
          /\ task' = [task EXCEPT ![k].pc = "done", ![k].wait = serves[p].gen,
                                  ![k].ports = @ \ {p}]
    /\ UNCHANGED <<db, session, client, faults>>

ReconcileDone(k) ==
    /\ task[k].kind = "ReconcileServes" /\ task[k].pc = "done"
    /\ task[k].wait # NoSlot => proxy[task[k].wait] = NoProxy
    /\ task' = [task EXCEPT ![k] = IF task[k].ports = {} THEN IdleTask
                                   ELSE [task[k] EXCEPT !.pc = "stop", !.wait = NoSlot]]
    /\ UNCHANGED <<db, session, serves, proxy, client, faults>>

\* A proxy that is told to stop, or whose accept fails, closes its listener ...
ProxyCloses(g) ==
    /\ proxy[g].st = "listening"
    /\ \/ proxy[g].stop /\ UNCHANGED faults
       \/ Fault("accept")
    /\ proxy' = [proxy EXCEPT ![g].st = "closed"]
    /\ UNCHANGED <<db, session, task, serves, client>>

\* Mutant: the entry of the port is removed, whichever generation it has.
ProxyEnds_AnyGeneration(g) ==
    /\ proxy[g].st = "closed"
    /\ serves' = [serves EXCEPT ![proxy[g].port] = NoServe]
    /\ proxy' = [proxy EXCEPT ![g] = NoProxy]
    /\ UNCHANGED <<db, session, task, client, faults>>

\* ... and then removes its own entry, if it is still there, and answers finished.
ProxyEnds(g) ==
    /\ proxy[g].st = "closed"
    /\ serves' = [serves EXCEPT ![proxy[g].port] = IF @.gen = g THEN NoServe ELSE @]
    /\ proxy' = [proxy EXCEPT ![g] = NoProxy]
    /\ UNCHANGED <<db, session, task, client, faults>>

\* The agent restarts: sockets, map, tasks and reports are gone.
AgentRestarts ==
    /\ Fault("crash")
    /\ link' = "down" /\ hub' = FALSE /\ replay' = NoReplay /\ chan' = <<>>
    /\ task' = [k \in Slots |-> IdleTask]
    /\ serves' = [p \in Ports |-> NoServe]
    /\ proxy' = [k \in Slots |-> NoProxy]
    /\ client' = <<>>
    /\ UNCHANGED <<db, lost>>

-----------------------------------------------------------------------------
RequestStep(r) == PatchServe(r) \/ Push(r) \/ PushFails(r) \/ RecordError(r) \/ DeleteServe(r)

Replay == ReadRows \/ ReplayReconcile \/ ReplayStart \/ Run

TaskStep(k) ==
    \/ StartInPlace(k) \/ StartLook(k) \/ StartEvict(k) \/ StartWaited(k) \/ StartBind(k)
    \/ StartFails(k) \/ StartInsert(k)
    \/ StopLook(k) \/ StopTake(k) \/ StopDone(k)
    \/ ReconcileLook(k) \/ ReconcileTake(k) \/ ReconcileDone(k)

Next ==
    \/ \E r \in Requests : \/ RequestStep(r) \/ RequestDies(r)
                           \/ \E i \in Ids : CreateServe(r, i)
                           \/ \E i \in Ids, op \in Ops : FindServe(r, i, op)
    \/ Connect \/ Replay \/ ReplayFails \/ ReplaySkips \/ Forgotten \/ Drop
    \/ Report \/ ReportFails
    \/ \E k \in Slots : Receive(k) \/ TaskStep(k) \/ ProxyCloses(k) \/ ProxyEnds(k)
    \/ AgentRestarts

Spec == Init /\ [][Next]_vars

\* A request that was begun is carried through, the agent reconnects, and its
\* tasks and proxies do not all stop.  Nothing obliges a request to be made or a
\* fault to happen.
AgentStep ==
    \E k \in Slots : TaskStep(k) \/ ProxyEnds(k) \/ (proxy[k].stop /\ ProxyCloses(k))

FairSpec ==
    /\ Spec
    /\ WF_vars(\E r \in Requests : RequestStep(r))
    /\ WF_vars(Connect \/ Replay) /\ WF_vars(Report)
    /\ WF_vars(\E k \in Slots : Receive(k)) /\ WF_vars(AgentStep)

-----------------------------------------------------------------------------
\* No listener is lost sight of: a proxy that accepts connections and has not
\* been told to stop is in the ServeManager's map under its own generation, or
\* its start is about to put it there.  Otherwise nothing could ever stop it.
ListenerTracked ==
    \A g \in Slots : proxy[g].st = "listening" /\ ~proxy[g].stop =>
        \/ serves[proxy[g].port].gen = g
        \/ task[g].pc = "insert" /\ Port[task[g].id] = proxy[g].port

\* A row in "starting" is never forgotten without a trace: its creation has yet to
\* push it or to record the failure, the agent's next session has yet to read the
\* rows, the replay or the channel holds its start, a task of the agent works on
\* it, a report about it is on its way back, or one of the steps that the code
\* only logs has given it up since the rows were last read.
StartingTracked ==
    \A i \in Ids : row[i].st = "starting" =>
        \/ \E r \in Requests : req[r].op = "create" /\ req[r].id = i
        \/ link \in {"down", "registered"}
        \/ \E a \in Acls : <<i, a>> \in replay.rows
        \/ \E n \in DOMAIN chan : chan[n].kind = "StartServe" /\ chan[n].id = i
        \/ \E k \in Slots : task[k].kind = "StartServe" /\ task[k].id = i
        \/ \E n \in DOMAIN client : client[n].id = i
        \/ i \in lost


\* serves.ts, DELETE: "Stop the agent listener before deleting the row. If the
\* agent is offline, reconnect reconcile will clear orphans once it returns."
OrphansCleared ==
    \A i \in Ids : row[i].st = "gone" ~> \A p \in Ports : serves[p].id # i
===============================================================================
