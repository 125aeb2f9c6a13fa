---------------------------- MODULE Serves_proofs ----------------------------
(***************************************************************************)
(* The types of the serve model and the facts that no listener is lost     *)
(* sight of and that a row in "starting" has something under way that      *)
(* settles it, for any number of ids, ports, requests and tasks.           *)
(***************************************************************************)
EXTENDS Serves, TLAPS

USE ServesAssumption

TaskTypes == [kind : {"none", "StartServe", "StopServe", "ReconcileServes"},
              id : Ids \cup {NoId}, acl : Acls, keep : SUBSET Ids, ports : SUBSET Ports,
              pc : {"idle", "look", "evict", "wait", "bind", "insert", "stop", "done"},
              wait : Slots \cup {NoSlot}]

ProxyTypes == [st : {"none", "listening", "closed"}, port : Ports \cup {NoPort},
               stop : BOOLEAN]

RequestTypes == [op : {"none"} \cup Ops, id : Ids \cup {NoId}, live : BOOLEAN,
                 pc : {"idle", "update", "push", "error", "delete"}]

\* The records the model starts from have their types.
LEMMA Blank ==
    /\ IdleTask \in TaskTypes
    /\ NoProxy \in ProxyTypes
    /\ IdleRequest \in RequestTypes
    /\ NoServe \in [id : Ids \cup {NoId}, acl : Acls, gen : Slots \cup {NoSlot}]
    /\ NoReplay \in [reconcile : BOOLEAN, rows : SUBSET (Ids \X Acls)]
  BY DEF IdleTask, NoProxy, IdleRequest, NoServe, NoReplay, TaskTypes, ProxyTypes,
         RequestTypes, Acls

\* The inductive invariant, variable by variable: besides the types, a task that
\* starts or stops a serve knows which, and so does a request; a proxy has a port.
TasksOK ==
    /\ task \in [Slots -> TaskTypes]
    /\ \A k \in Slots : task[k].kind \in {"StartServe", "StopServe"} => task[k].id \in Ids
    /\ \A k \in Slots : task[k].pc \in {"evict", "wait", "bind", "insert"} =>
                            task[k].kind = "StartServe"

MapOK == serves \in [Ports -> [id : Ids \cup {NoId}, acl : Acls, gen : Slots \cup {NoSlot}]]

ProxiesOK ==
    /\ proxy \in [Slots -> ProxyTypes]
    /\ \A g \in Slots : proxy[g].st # "none" => proxy[g].port \in Ports

RowsOK == row \in [Ids -> [st : Status, acl : Acls]]

RequestsOK ==
    /\ req \in [Requests -> RequestTypes]
    /\ \A r \in Requests : req[r].pc # "idle" => req[r].id \in Ids

SessionOK ==
    /\ link \in {"down", "registered", "replaying", "running"}
    /\ hub \in BOOLEAN
    /\ lost \subseteq Ids
    /\ replay \in [reconcile : BOOLEAN, rows : SUBSET (Ids \X Acls)]
    /\ chan \in Seq(Messages)

ServesInv ==
    /\ TasksOK /\ MapOK /\ ProxiesOK /\ RowsOK /\ RequestsOK /\ SessionOK
    /\ client \in Seq(Reports) /\ faults \in Nat /\ made \in Nat

LEMMA InvTyped == ServesInv => TypeOK
  BY DEF ServesInv, TypeOK, TasksOK, MapOK, ProxiesOK, RowsOK, RequestsOK, SessionOK,
         TaskTypes, ProxyTypes, RequestTypes

LEMMA InitTyped == Init => ServesInv
<1> SUFFICES ASSUME Init PROVE ServesInv
  OBVIOUS
<1>1. TasksOK
  BY Blank DEF Init, TasksOK, IdleTask
<1>2. MapOK /\ RowsOK
  BY Blank DEF Init, MapOK, RowsOK, Status, Acls
<1>3. ProxiesOK
  BY Blank DEF Init, ProxiesOK, NoProxy
<1>4. RequestsOK
  BY Blank DEF Init, RequestsOK, IdleRequest
<1>5. SessionOK
  <2>1. hub \in BOOLEAN
    BY Zenon DEF Init
  <2>2. link = "down" /\ replay = NoReplay /\ chan = <<>> /\ lost = {}
    BY Zenon DEF Init
  <2> QED BY <2>1, <2>2, Blank DEF SessionOK
<1> QED BY <1>1, <1>2, <1>3, <1>4, <1>5 DEF Init, ServesInv

\* A step that leaves a group of variables alone keeps its part.
LEMMA AgentKept ==
    ASSUME ServesInv, UNCHANGED agent
    PROVE  TasksOK' /\ MapOK' /\ ProxiesOK' /\ client' \in Seq(Reports)
  BY DEF ServesInv, agent, TasksOK, MapOK, ProxiesOK

LEMMA DbKept ==
    ASSUME ServesInv, UNCHANGED db
    PROVE  RowsOK' /\ RequestsOK' /\ made' \in Nat
  BY DEF ServesInv, db, RowsOK, RequestsOK

LEMMA SessionKept ==
    ASSUME ServesInv, UNCHANGED session
    PROVE  SessionOK'
  BY DEF ServesInv, session, SessionOK

\* The parts the requests and the reports write.
LEMMA RowSet ==
    ASSUME RowsOK, NEW i \in Ids, NEW s \in Status, NEW a \in Acls,
           \/ row' = row
           \/ row' = [row EXCEPT ![i].st = s]
           \/ row' = [row EXCEPT ![i].acl = a]
    PROVE  RowsOK'
  BY DEF RowsOK

LEMMA RequestSet ==
    ASSUME RequestsOK, NEW r \in Requests, NEW q \in RequestTypes,
           q.pc # "idle" => q.id \in Ids, req' = [req EXCEPT ![r] = q]
    PROVE  RequestsOK'
  BY DEF RequestsOK

LEMMA RequestEnds ==
    ASSUME RequestsOK, NEW r \in Requests, req' = [req EXCEPT ![r] = IdleRequest]
    PROVE  RequestsOK'
<1>1. IdleRequest.pc = "idle"
  BY DEF IdleRequest
<1> QED BY <1>1, Blank, RequestSet

LEMMA RequestPc ==
    ASSUME RequestsOK, NEW r \in Requests, req[r].pc # "idle",
           NEW pc \in {"idle", "update", "push", "error", "delete"},
           req' = [req EXCEPT ![r] = [req[r] EXCEPT !.pc = pc]]
    PROVE  RequestsOK'
<1> DEFINE q == [req[r] EXCEPT !.pc = pc]
<1>1. req[r] \in RequestTypes /\ req[r].id \in Ids
  BY DEF RequestsOK
<1>2. q \in RequestTypes /\ q.id = req[r].id
  BY <1>1 DEF RequestTypes
<1> HIDE DEF q
<1>3. req' = [req EXCEPT ![r] = q]
  BY DEF q
<1> QED BY <1>1, <1>2, <1>3, RequestSet

LEMMA Pushed ==
    ASSUME SessionOK, NEW m \in Messages, PushTo(m), UNCHANGED <<link, hub, replay>>
    PROVE  SessionOK'
<1>1. chan' \in Seq(Messages)
  BY DEF SessionOK, PushTo
<1>2. lost' \subseteq Ids
  BY DEF SessionOK, PushTo, Messages
<1> QED BY <1>1, <1>2 DEF SessionOK

\* Requests.
LEMMA RequestTyped ==
    ASSUME ServesInv, NEW r \in Requests,
           \/ RequestStep(r) \/ (\E i \in Ids : CreateServe(r, i))
           \/ (\E i \in Ids, op \in Ops : FindServe(r, i, op))
    PROVE  ServesInv'
<1>a. RowsOK /\ RequestsOK /\ SessionOK /\ faults \in Nat /\ made \in Nat
  BY DEF ServesInv
<1>b. req[r] \in RequestTypes /\ (req[r].pc # "idle" => req[r].id \in Ids)
  BY <1>a DEF RequestsOK
<1>c. {"starting", "error", "gone"} \subseteq Status /\ {"created", "patched"} \subseteq Acls
  BY DEF Status, Acls
<1>1. ASSUME NEW i \in Ids, CreateServe(r, i) PROVE ServesInv'
  <2> DEFINE q == [op |-> "create", id |-> i, live |-> TRUE, pc |-> "push"]
  <2>1. q \in RequestTypes /\ q.id \in Ids /\ req' = [req EXCEPT ![r] = q]
    BY <1>1 DEF CreateServe, RequestTypes
  <2> HIDE DEF q
  <2>2. RequestsOK'
    BY <1>a, <2>1, RequestSet
  <2>3. RowsOK'
    BY <1>1, <1>a, <1>c, RowSet DEF CreateServe
  <2>4. made' \in Nat /\ faults' \in Nat
    BY <1>1, <1>a DEF CreateServe, Begin
  <2>5. UNCHANGED agent /\ UNCHANGED session
    BY <1>1 DEF CreateServe
  <2> QED BY <2>2, <2>3, <2>4, <2>5, AgentKept, SessionKept DEF ServesInv
<1>2. ASSUME NEW i \in Ids, NEW op \in Ops, FindServe(r, i, op) PROVE ServesInv'
  <2> DEFINE q == [op |-> op, id |-> i, live |-> row[i].st \in Live,
                   pc |-> IF op = "patch" THEN "update" ELSE "push"]
  <2>1. q \in RequestTypes /\ q.id \in Ids
    BY DEF RequestTypes
  <2>2. req' = [req EXCEPT ![r] = q]
    BY <1>2 DEF FindServe
  <2> HIDE DEF q
  <2>3. RequestsOK'
    BY <1>a, <2>1, <2>2, RequestSet
  <2>4. made' \in Nat /\ faults' \in Nat /\ RowsOK'
    BY <1>2, <1>a DEF FindServe, Begin, RowsOK
  <2>5. UNCHANGED agent /\ UNCHANGED session
    BY <1>2 DEF FindServe
  <2> QED BY <2>3, <2>4, <2>5, AgentKept, SessionKept DEF ServesInv
<1>3. CASE PatchServe(r)
  <2> DEFINE i == req[r].id
  <2>1. i \in Ids /\ req[r].pc # "idle"
    BY <1>3, <1>b DEF PatchServe
  <2>2. \/ req' = [req EXCEPT ![r] = [req[r] EXCEPT !.pc = "push"]]
        \/ req' = [req EXCEPT ![r] = IdleRequest]
    BY <1>3 DEF PatchServe
  <2>3. RequestsOK'
    BY <1>a, <2>1, <2>2, RequestPc, RequestEnds
  <2>4. row' = row \/ row' = [row EXCEPT ![i].acl = "patched"]
    BY <1>3 DEF PatchServe
  <2>5. RowsOK'
    BY <1>a, <1>c, <2>1, <2>4, RowSet
  <2>6. UNCHANGED agent /\ UNCHANGED session /\ made' = made /\ faults' = faults
    BY <1>3 DEF PatchServe
  <2> QED BY <1>a, <2>3, <2>5, <2>6, AgentKept, SessionKept DEF ServesInv
<1>4. CASE Push(r)
  <2> DEFINE i == req[r].id
  <2>1. i \in Ids /\ req[r].pc # "idle"
    BY <1>4, <1>b DEF Push
  <2>2. \/ req' = [req EXCEPT ![r] = [req[r] EXCEPT !.pc = "delete"]]
        \/ req' = [req EXCEPT ![r] = IdleRequest]
    BY <1>4 DEF Push
  <2>3. RequestsOK'
    BY <1>a, <2>1, <2>2, RequestPc, RequestEnds
  <2>4. \E m \in Messages : PushTo(m)
    <3>1. /\ StartMsg(i, "created") \in Messages /\ StartMsg(i, "patched") \in Messages
          /\ [kind |-> "StopServe", id |-> i] \in Messages
      BY <2>1 DEF StartMsg, Messages, Acls
    <3>2. \/ PushTo(StartMsg(i, "created")) \/ PushTo(StartMsg(i, "patched"))
          \/ PushTo([kind |-> "StopServe", id |-> i])
      BY <1>4 DEF Push
    <3> QED BY <3>1, <3>2
  <2>5. /\ UNCHANGED agent /\ UNCHANGED <<link, hub, replay>>
        /\ row' = row /\ made' = made /\ faults' = faults
    BY <1>4 DEF Push
  <2>6. SessionOK' /\ RowsOK'
    BY <1>a, <2>4, <2>5, Pushed DEF RowsOK
  <2> QED BY <1>a, <2>3, <2>5, <2>6, AgentKept DEF ServesInv
<1>5. CASE PushFails(r)
  <2> DEFINE pc == IF req[r].op = "delete" THEN "delete" ELSE "error"
  <2>1. /\ req[r].pc # "idle" /\ pc \in {"idle", "update", "push", "error", "delete"}
        /\ req' = [req EXCEPT ![r] = [req[r] EXCEPT !.pc = pc]]
    BY <1>5 DEF PushFails
  <2> HIDE DEF pc
  <2>2. RequestsOK'
    BY <1>a, <2>1, RequestPc
  <2>3. /\ UNCHANGED agent /\ UNCHANGED session /\ row' = row /\ made' = made
        /\ faults' \in Nat
    BY <1>5, <1>a DEF PushFails, Fault
  <2> QED BY <1>a, <2>2, <2>3, AgentKept, SessionKept DEF ServesInv, RowsOK
<1>6. CASE RecordError(r)
  <2> DEFINE i == req[r].id
  <2>1. i \in Ids
    BY <1>6, <1>b DEF RecordError
  <2>2. /\ req' = [req EXCEPT ![r] = IdleRequest]
        /\ row' = row \/ row' = [row EXCEPT ![i].st = "error"]
        /\ UNCHANGED agent /\ UNCHANGED session /\ made' = made /\ faults' = faults
    BY <1>6 DEF RecordError
  <2>3. RequestsOK' /\ RowsOK'
    BY <1>a, <1>c, <2>1, <2>2, RequestEnds, RowSet
  <2> QED BY <1>a, <2>2, <2>3, AgentKept, SessionKept DEF ServesInv
<1>7. CASE DeleteServe(r)
  <2> DEFINE i == req[r].id
  <2>1. i \in Ids
    BY <1>7, <1>b DEF DeleteServe
  <2>2. /\ req' = [req EXCEPT ![r] = IdleRequest]
        /\ row' = [row EXCEPT ![i].st = "gone"]
        /\ UNCHANGED agent /\ UNCHANGED session /\ made' = made /\ faults' = faults
    BY <1>7 DEF DeleteServe
  <2>3. RequestsOK' /\ RowsOK'
    BY <1>a, <1>c, <2>1, <2>2, RequestEnds, RowSet
  <2> QED BY <1>a, <2>2, <2>3, AgentKept, SessionKept DEF ServesInv
<1> QED BY <1>1, <1>2, <1>3, <1>4, <1>5, <1>6, <1>7 DEF RequestStep

\* The session.
LEMMA SessionTyped ==
    ASSUME ServesInv, Connect \/ Replay \/ Drop \/ Report \/ AgentRestarts
    PROVE  ServesInv'
<1>a. /\ RowsOK /\ SessionOK /\ client \in Seq(Reports)
      /\ faults \in Nat /\ made \in Nat
  BY DEF ServesInv
<1>b. ASSUME SessionOK', UNCHANGED db, UNCHANGED agent, faults' = faults PROVE ServesInv'
  BY <1>a, <1>b, AgentKept, DbKept DEF ServesInv
<1>1. CASE Connect
  <2>1. hub' \in BOOLEAN
    BY <1>1, Zenon DEF Connect
  <2>2. link' = "registered" /\ chan' = <<>> /\ UNCHANGED <<db, replay, lost, agent, faults>>
    BY <1>1, Zenon DEF Connect
  <2> QED BY <1>a, <1>b, <2>1, <2>2 DEF SessionOK
<1>2. CASE ReadRows
  <2>1. SessionOK'
    BY <1>2, <1>a DEF ReadRows, SessionOK, RowsOK
  <2> QED BY <1>2, <1>b, <2>1 DEF ReadRows
<1>3. CASE ReplayReconcile
  <2>1. [kind |-> "ReconcileServes", keep |-> {x[1] : x \in replay.rows}] \in Messages
    BY <1>a DEF SessionOK, Messages
  <2> DEFINE m == [kind |-> "ReconcileServes", keep |-> {x[1] : x \in replay.rows}]
  <2>2. /\ PushTo(m) /\ replay' = [replay EXCEPT !.reconcile = FALSE]
        /\ UNCHANGED <<link, hub>> /\ m.kind # "StartServe"
    BY <1>3 DEF ReplayReconcile
  <2> HIDE DEF m
  <2>3. chan' \in Seq(Messages) /\ lost' = lost
    BY <1>a, <2>1, <2>2 DEF PushTo, SessionOK, m
  <2>4. replay' \in [reconcile : BOOLEAN, rows : SUBSET (Ids \X Acls)]
    BY <1>a, <2>2 DEF SessionOK
  <2>5. SessionOK'
    BY <1>a, <2>2, <2>3, <2>4 DEF SessionOK
  <2> QED BY <1>3, <1>b, <2>5 DEF ReplayReconcile
<1>4. CASE ReplayStart
  <2>1. PICK x \in replay.rows :
          PushTo(StartMsg(x[1], x[2])) /\ replay' = [replay EXCEPT !.rows = @ \ {x}]
    BY <1>4 DEF ReplayStart
  <2>2. StartMsg(x[1], x[2]) \in Messages /\ StartMsg(x[1], x[2]).id \in Ids
    BY <1>a DEF SessionOK, StartMsg, Messages
  <2>3. SessionOK'
    <3>1. chan' \in Seq(Messages) /\ lost' \subseteq Ids
      BY <1>a, <2>1, <2>2 DEF PushTo, SessionOK
    <3> QED BY <1>4, <1>a, <2>1, <3>1 DEF ReplayStart, SessionOK
  <2> QED BY <1>4, <1>b, <2>3 DEF ReplayStart
<1>5. CASE Run
  BY <1>5, <1>a, <1>b DEF Run, SessionOK
<1>6. CASE Drop
  <2>0. hub' \in BOOLEAN /\ lost' = lost
    BY <1>6, Zenon DEF Drop
  <2>1. SessionOK' /\ client' \in Seq(Reports) /\ faults' \in Nat
    <3>1. link' = "down" /\ replay' = NoReplay /\ chan' = <<>> /\ faults' = faults + 1
      BY <1>6, Zenon DEF Drop, Fault
    <3>2. \E n \in 0..Len(client) : client' = SubSeq(client, n + 1, Len(client))
      BY <1>6, Zenon DEF Drop
    <3>3. client' \in Seq(Reports)
      BY <1>a, <3>2
    <3> QED BY <1>a, <2>0, <3>1, <3>3, Blank DEF SessionOK
  <2>2. TasksOK' /\ MapOK' /\ ProxiesOK'
    BY <1>6 DEF Drop, ServesInv, TasksOK, MapOK, ProxiesOK
  <2>3. UNCHANGED db
    BY <1>6 DEF Drop
  <2> QED BY <2>1, <2>2, <2>3, DbKept DEF ServesInv
<1>7. CASE Report
  <2> DEFINE i == Head(client).id
             st == IF Head(client).kind = "ServeReady" THEN "active"
                   ELSE IF Head(client).kind = "ServeFailed" THEN "error" ELSE "gone"
  <2>1. Head(client) \in Reports /\ client' \in Seq(Reports)
    BY <1>7, <1>a DEF Report
  <2>2. i \in Ids /\ st \in Status
    BY <2>1 DEF Reports, Status
  <2>3. row' = row \/ row' = [row EXCEPT ![i].st = st]
    BY <1>7 DEF Report
  <2> HIDE DEF i, st
  <2>4. RowsOK'
    BY <1>a, <2>2, <2>3, RowSet DEF Acls
  <2>5. UNCHANGED session /\ faults' = faults /\ made' = made
    BY <1>7 DEF Report
  <2>6. RequestsOK' /\ TasksOK' /\ MapOK' /\ ProxiesOK'
    BY <1>7 DEF Report, ServesInv, RequestsOK, TasksOK, MapOK, ProxiesOK
  <2> QED BY <1>a, <2>1, <2>4, <2>5, <2>6, SessionKept DEF ServesInv
<1>8. CASE AgentRestarts
  <2>0. hub' \in BOOLEAN /\ lost' = lost /\ UNCHANGED db
    BY <1>8, Zenon DEF AgentRestarts
  <2>1. SessionOK' /\ client' \in Seq(Reports) /\ faults' \in Nat /\ UNCHANGED db
    <3>1. link' = "down" /\ replay' = NoReplay /\ chan' = <<>> /\ faults' = faults + 1
          /\ client' = <<>>
      BY <1>8, Zenon DEF AgentRestarts, Fault
    <3> QED BY <1>a, <2>0, <3>1, Blank DEF SessionOK
  <2>2. TasksOK'
    BY <1>8, Blank DEF AgentRestarts, TasksOK, IdleTask
  <2>3. MapOK' /\ ProxiesOK'
    BY <1>8, Blank DEF AgentRestarts, MapOK, ProxiesOK, NoProxy
  <2> QED BY <2>1, <2>2, <2>3, DbKept DEF ServesInv
<1> QED BY <1>1, <1>2, <1>3, <1>4, <1>5, <1>6, <1>7, <1>8 DEF Replay

\* The steps that give a row up.
GivesUp == ReplayFails \/ ReplaySkips \/ Forgotten \/ ReportFails

LEMMA GivingUpTyped ==
    ASSUME ServesInv, GivesUp \/ \E r \in Requests : RequestDies(r)
    PROVE  ServesInv'
<1>a. /\ RequestsOK /\ SessionOK /\ client \in Seq(Reports)
      /\ faults \in Nat /\ made \in Nat
  BY DEF ServesInv
<1>b. ASSUME SessionOK', UNCHANGED db, UNCHANGED agent, faults' = faults + 1
      PROVE  ServesInv'
  BY <1>a, <1>b, AgentKept, DbKept DEF ServesInv
<1>1. CASE ReplayFails
  BY <1>1, <1>a, <1>b DEF ReplayFails, Fault, SessionOK
<1>2. CASE ReplaySkips
  <2>1. PICK x \in replay.rows :
          lost' = lost \cup {x[1]} /\ replay' = [replay EXCEPT !.rows = @ \ {x}]
    BY <1>2 DEF ReplaySkips
  <2>2. x[1] \in Ids
    BY <1>a DEF SessionOK
  <2>3. SessionOK'
    BY <1>2, <1>a, <2>1, <2>2 DEF ReplaySkips, SessionOK
  <2> QED BY <1>2, <1>b, <2>3 DEF ReplaySkips, Fault
<1>3. CASE Forgotten
  <2>1. hub' \in BOOLEAN
    BY <1>3, Zenon DEF Forgotten
  <2>2. UNCHANGED <<db, link, replay, chan, lost, agent>> /\ faults' = faults + 1
    BY <1>3, Zenon DEF Forgotten, Fault
  <2> QED BY <1>a, <1>b, <2>1, <2>2 DEF SessionOK
<1>4. CASE ReportFails
  <2>1. Head(client) \in Reports /\ client' \in Seq(Reports)
    BY <1>4, <1>a DEF ReportFails
  <2>2. \A r \in Reports : r.id \in Ids
    BY DEF Reports
  <2>3. SessionOK'
    BY <1>4, <1>a, <2>1, <2>2 DEF ReportFails, SessionOK
  <2>4. TasksOK' /\ MapOK' /\ ProxiesOK'
    BY <1>4 DEF ReportFails, ServesInv, TasksOK, MapOK, ProxiesOK
  <2> QED BY <1>4, <1>a, <2>1, <2>3, <2>4, DbKept DEF ServesInv, ReportFails, Fault
<1>5. ASSUME NEW r \in Requests, RequestDies(r) PROVE ServesInv'
  <2>1. req[r].id \in Ids
    BY <1>5, <1>a DEF RequestDies, RequestsOK
  <2>2. SessionOK'
    BY <1>5, <1>a, <2>1 DEF RequestDies, SessionOK
  <2>3. RequestsOK'
    BY <1>5, <1>a, RequestEnds DEF RequestDies
  <2>4. RowsOK' /\ made' = made /\ faults' = faults + 1 /\ UNCHANGED agent
    BY <1>5 DEF RequestDies, ServesInv, RowsOK, Fault
  <2> QED BY <1>a, <2>2, <2>3, <2>4, AgentKept DEF ServesInv
<1> QED BY <1>1, <1>2, <1>3, <1>4, <1>5 DEF GivesUp

\* A task is replaced by one that is well formed.
LEMMA TaskReplaced ==
    ASSUME TasksOK, NEW k \in Slots, NEW t \in TaskTypes,
           t.kind \in {"StartServe", "StopServe"} => t.id \in Ids,
           t.pc \in {"evict", "wait", "bind", "insert"} => t.kind = "StartServe",
           task' = [task EXCEPT ![k] = t]
    PROVE  TasksOK'
  BY DEF TasksOK

LEMMA TaskEnds ==
    ASSUME TasksOK, NEW k \in Slots, task' = [task EXCEPT ![k] = IdleTask]
    PROVE  TasksOK'
<1>1. /\ IdleTask.kind \notin {"StartServe", "StopServe"}
      /\ IdleTask.pc \notin {"evict", "wait", "bind", "insert"}
  BY DEF IdleTask
<1> QED BY <1>1, Blank, TaskReplaced

LEMMA FinishTyped ==
    ASSUME ServesInv, NEW k \in Slots, task[k].id \in Ids,
           NEW kind \in {"ServeReady", "ServeFailed", "ServeStopped"}, Finish(k, kind)
    PROVE  TasksOK' /\ client' \in Seq(Reports)
<1>1. [kind |-> kind, id |-> task[k].id] \in Reports
  BY DEF Reports
<1>2. TasksOK'
  BY TaskEnds DEF Finish, ServesInv
<1>3. client' = Append(client, [kind |-> kind, id |-> task[k].id]) /\ client \in Seq(Reports)
  BY DEF Finish, ServesInv
<1> QED BY <1>1, <1>2, <1>3

LEMMA ProxyStops ==
    ASSUME ProxiesOK, NEW g \in Slots, proxy' = [proxy EXCEPT ![g].stop = TRUE]
    PROVE  ProxiesOK'
  BY DEF ProxiesOK, ProxyTypes

LEMMA TakeOutTyped ==
    ASSUME ServesInv, NEW p \in Ports, TakeOut(p)
    PROVE  MapOK' /\ ProxiesOK' /\ serves[p].gen \in Slots \cup {NoSlot}
  BY Blank DEF ServesInv, TakeOut, MapOK, ProxiesOK, ProxyTypes

LEMMA RestKept ==
    ASSUME ServesInv, UNCHANGED <<db, session>>
    PROVE  RowsOK' /\ RequestsOK' /\ SessionOK' /\ made' \in Nat
  BY DbKept, SessionKept

\* The agent's tasks and proxies.
LEMMA AgentTyped ==
    ASSUME ServesInv, NEW k \in Slots,
           Receive(k) \/ TaskStep(k) \/ ProxyCloses(k) \/ ProxyEnds(k)
    PROVE  ServesInv'
<1>0. PICK t : t = task[k]
  OBVIOUS
<1> USE <1>0
<1>a. /\ TasksOK /\ MapOK /\ ProxiesOK /\ SessionOK
      /\ client \in Seq(Reports) /\ faults \in Nat
  BY DEF ServesInv
<1>b. t \in TaskTypes
  BY <1>a DEF TasksOK
<1>c. t.kind \in {"StartServe", "StopServe"} => t.id \in Ids /\ Port[t.id] \in Ports
  BY <1>a DEF TasksOK
<1>d. t.pc \in {"evict", "wait", "bind", "insert"} => t.kind = "StartServe"
  BY <1>a DEF TasksOK
<1>1. CASE Receive(k)
  <2> DEFINE m == Head(chan)
             n == [IdleTask EXCEPT !.kind = m.kind, !.pc = "look",
                           !.id = IF m.kind = "ReconcileServes" THEN NoId ELSE m.id,
                           !.acl = IF m.kind = "StartServe" THEN m.acl ELSE "created",
                           !.keep = IF m.kind = "ReconcileServes" THEN m.keep ELSE {}]
  <2>1. m \in Messages /\ chan' \in Seq(Messages)
    BY <1>1, <1>a DEF Receive, SessionOK
  <2>2. task' = [task EXCEPT ![k] = n]
    BY <1>1 DEF Receive
  <2>3. /\ n \in TaskTypes /\ n.pc = "look"
        /\ n.kind \in {"StartServe", "StopServe"} => n.id \in Ids
    BY <2>1 DEF Messages, TaskTypes, IdleTask, Acls
  <2> HIDE DEF n
  <2>4. TasksOK'
    BY <1>a, <2>2, <2>3, TaskReplaced
  <2>5. SessionOK' /\ UNCHANGED db
    BY <1>1, <1>a, <2>1 DEF Receive, SessionOK
  <2> QED BY <1>1, <1>a, <2>4, <2>5, DbKept DEF ServesInv, Receive, MapOK, ProxiesOK
<1>2. CASE StartInPlace(k)
  <2>1. TasksOK' /\ client' \in Seq(Reports)
    BY <1>2, <1>c, FinishTyped DEF StartInPlace
  <2>2. MapOK'
    BY <1>2, <1>a, <1>b, <1>c DEF StartInPlace, MapOK, TaskTypes
  <2> QED BY <1>2, <1>a, <2>1, <2>2, RestKept DEF ServesInv, StartInPlace, ProxiesOK
<1>3. CASE StartLook(k)
  <2> DEFINE n == [t EXCEPT !.pc = "evict"]
  <2>1. n \in TaskTypes /\ n.kind = t.kind /\ n.id = t.id
    BY <1>b DEF TaskTypes
  <2>2. task' = [task EXCEPT ![k] = n] /\ t.kind = "StartServe"
    BY <1>3 DEF StartLook
  <2> HIDE DEF n
  <2>3. TasksOK'
    BY <1>a, <1>c, <2>1, <2>2, TaskReplaced
  <2> QED BY <1>3, <1>a, <2>3, RestKept DEF ServesInv, StartLook, MapOK, ProxiesOK
<1>4. CASE StartEvict(k)
  <2> DEFINE n == [t EXCEPT !.pc = "wait", !.wait = serves[Port[t.id]].gen]
  <2>1. MapOK' /\ ProxiesOK' /\ serves[Port[t.id]].gen \in Slots \cup {NoSlot}
    BY <1>4, <1>c, <1>d, TakeOutTyped DEF StartEvict
  <2>2. n \in TaskTypes /\ n.kind = t.kind /\ n.id = t.id
    BY <1>b, <2>1 DEF TaskTypes
  <2>3. task' = [task EXCEPT ![k] = n] /\ t.kind = "StartServe"
    BY <1>4, <1>d DEF StartEvict
  <2> HIDE DEF n
  <2>4. TasksOK'
    BY <1>a, <1>c, <2>2, <2>3, TaskReplaced
  <2> QED BY <1>4, <1>a, <2>1, <2>4, RestKept DEF ServesInv, StartEvict
<1>5. CASE StartWaited(k)
  <2> DEFINE n == [t EXCEPT !.pc = "bind", !.wait = NoSlot]
  <2>1. n \in TaskTypes /\ n.kind = t.kind /\ n.id = t.id
    BY <1>b DEF TaskTypes
  <2>2. task' = [task EXCEPT ![k] = n] /\ t.kind = "StartServe"
    BY <1>5, <1>d DEF StartWaited
  <2> HIDE DEF n
  <2>3. TasksOK'
    BY <1>a, <1>c, <2>1, <2>2, TaskReplaced
  <2> QED BY <1>5, <1>a, <2>3, RestKept DEF ServesInv, StartWaited, MapOK, ProxiesOK
<1>6. CASE StartBind(k)
  <2> DEFINE n == [t EXCEPT !.pc = "insert"]
  <2>1. n \in TaskTypes /\ n.kind = t.kind /\ n.id = t.id
    BY <1>b DEF TaskTypes
  <2>2. task' = [task EXCEPT ![k] = n] /\ t.kind = "StartServe"
    BY <1>6, <1>d DEF StartBind
  <2> HIDE DEF n
  <2>3. TasksOK'
    BY <1>a, <1>c, <2>1, <2>2, TaskReplaced
  <2>4. ProxiesOK'
    BY <1>6, <1>a, <1>c, <2>2 DEF StartBind, ProxiesOK, ProxyTypes
  <2> QED BY <1>6, <1>a, <2>3, <2>4, RestKept DEF ServesInv, StartBind, MapOK
<1>7. CASE StartFails(k)
  <2>1. TasksOK' /\ client' \in Seq(Reports)
    BY <1>7, <1>c, <1>d, FinishTyped DEF StartFails
  <2>2. faults' \in Nat
    BY <1>7, <1>a DEF StartFails, Fault
  <2> QED BY <1>7, <1>a, <2>1, <2>2, RestKept DEF ServesInv, StartFails, MapOK, ProxiesOK
<1>8. CASE StartInsert(k)
  <2>1. TasksOK' /\ client' \in Seq(Reports)
    BY <1>8, <1>c, <1>d, FinishTyped DEF StartInsert
  <2>2. MapOK'
    BY <1>8, <1>a, <1>b, <1>c, <1>d DEF StartInsert, MapOK, TaskTypes
  <2>3. ProxiesOK'
    <3>1. proxy' = proxy \/ \E g \in Slots : proxy' = [proxy EXCEPT ![g].stop = TRUE]
      BY <1>8 DEF StartInsert
    <3> QED BY <1>a, <3>1, ProxyStops DEF ProxiesOK
  <2> QED BY <1>8, <1>a, <2>1, <2>2, <2>3, RestKept DEF ServesInv, StartInsert
<1>9. CASE StopLook(k)
  <2>1. TasksOK' /\ client' \in Seq(Reports)
    <3>1. CASE serves[Port[t.id]].id = t.id
      <4> DEFINE n == [t EXCEPT !.pc = "stop"]
      <4>1. n \in TaskTypes /\ n.kind = t.kind /\ n.id = t.id /\ n.pc = "stop"
        BY <1>b DEF TaskTypes
      <4>2. task' = [task EXCEPT ![k] = n] /\ client' = client
        BY <1>9, <3>1 DEF StopLook
      <4> HIDE DEF n
      <4> QED BY <1>a, <1>c, <4>1, <4>2, TaskReplaced
    <3>2. CASE serves[Port[t.id]].id # t.id
      BY <1>9, <1>c, <3>2, FinishTyped DEF StopLook
    <3> QED BY <3>1, <3>2
  <2> QED BY <1>9, <1>a, <2>1, RestKept DEF ServesInv, StopLook, MapOK, ProxiesOK
<1>10. CASE StopTake(k)
  <2> DEFINE n == [t EXCEPT !.pc = "done", !.wait = serves[Port[t.id]].gen]
  <2>1. MapOK' /\ ProxiesOK' /\ serves[Port[t.id]].gen \in Slots \cup {NoSlot}
    BY <1>10, <1>c, TakeOutTyped DEF StopTake
  <2>2. n \in TaskTypes /\ n.kind = t.kind /\ n.id = t.id /\ n.pc = "done"
    BY <1>b, <2>1 DEF TaskTypes
  <2>3. task' = [task EXCEPT ![k] = n]
    BY <1>10 DEF StopTake
  <2> HIDE DEF n
  <2>4. TasksOK'
    BY <1>a, <1>c, <2>2, <2>3, TaskReplaced
  <2> QED BY <1>10, <1>a, <2>1, <2>4, RestKept DEF ServesInv, StopTake
<1>11. CASE StopDone(k)
  <2>1. TasksOK' /\ client' \in Seq(Reports)
    BY <1>11, <1>c, FinishTyped DEF StopDone
  <2> QED BY <1>11, <1>a, <2>1, RestKept DEF ServesInv, StopDone, MapOK, ProxiesOK
<1>12. CASE ReconcileLook(k)
  <2> DEFINE ps == {p \in Ports : serves[p].id \notin t.keep \cup {NoId}}
             n == [t EXCEPT !.ports = ps, !.pc = "stop"]
  <2>1. n \in TaskTypes /\ n.kind = t.kind /\ n.pc = "stop"
    BY <1>b DEF TaskTypes
  <2>2. /\ t.kind = "ReconcileServes"
        /\ task' = [task EXCEPT ![k] = IF ps = {} THEN IdleTask ELSE n]
    BY <1>12 DEF ReconcileLook
  <2> HIDE DEF n, ps
  <2>3. TasksOK'
    <3>1. CASE ps = {}
      BY <1>a, <2>2, <3>1, TaskEnds
    <3>2. CASE ps # {}
      BY <1>a, <2>1, <2>2, <3>2, TaskReplaced
    <3> QED BY <3>1, <3>2
  <2> QED BY <1>12, <1>a, <2>3, RestKept DEF ServesInv, ReconcileLook, MapOK, ProxiesOK
<1>13. CASE ReconcileTake(k)
  <2>1. PICK p \in t.ports :
          /\ TakeOut(p)
          /\ task' = [task EXCEPT ![k].pc = "done", ![k].wait = serves[p].gen,
                                  ![k].ports = @ \ {p}]
    BY <1>13 DEF ReconcileTake
  <2> DEFINE n == [t EXCEPT !.pc = "done", !.wait = serves[p].gen, !.ports = t.ports \ {p}]
  <2>2. p \in Ports /\ t.ports \ {p} \in SUBSET Ports
    BY <1>b DEF TaskTypes
  <2>3. MapOK' /\ ProxiesOK' /\ serves[p].gen \in Slots \cup {NoSlot}
    BY <2>1, <2>2, TakeOutTyped
  <2>4. n \in TaskTypes /\ n.kind = t.kind /\ n.pc = "done"
    BY <1>b, <2>2, <2>3 DEF TaskTypes
  <2>5. task' = [task EXCEPT ![k] = n] /\ t.kind = "ReconcileServes"
    BY <1>13, <2>1 DEF ReconcileTake
  <2> HIDE DEF n
  <2>6. TasksOK'
    BY <1>a, <2>4, <2>5, TaskReplaced
  <2> QED BY <1>13, <1>a, <2>3, <2>6, RestKept DEF ServesInv, ReconcileTake
<1>14. CASE ReconcileDone(k)
  <2> DEFINE n == [t EXCEPT !.pc = "stop", !.wait = NoSlot]
  <2>1. n \in TaskTypes /\ n.kind = t.kind /\ n.pc = "stop"
    BY <1>b DEF TaskTypes
  <2>2. /\ t.kind = "ReconcileServes"
        /\ task' = [task EXCEPT ![k] = IF t.ports = {} THEN IdleTask ELSE n]
    BY <1>14 DEF ReconcileDone
  <2> HIDE DEF n
  <2>3. TasksOK'
    <3>1. CASE t.ports = {}
      BY <1>a, <2>2, <3>1, TaskEnds
    <3>2. CASE t.ports # {}
      BY <1>a, <2>1, <2>2, <3>2, TaskReplaced
    <3> QED BY <3>1, <3>2
  <2> QED BY <1>14, <1>a, <2>3, RestKept DEF ServesInv, ReconcileDone, MapOK, ProxiesOK
<1>15. CASE ProxyCloses(k)
  <2>1. ProxiesOK'
    BY <1>15, <1>a DEF ProxyCloses, ProxiesOK, ProxyTypes
  <2>2. faults' \in Nat
    BY <1>15, <1>a DEF ProxyCloses, Fault
  <2> QED BY <1>15, <1>a, <2>1, <2>2, RestKept DEF ServesInv, ProxyCloses, MapOK, TasksOK
<1>16. CASE ProxyEnds(k)
  <2>1. ProxiesOK'
    BY <1>16, <1>a, Blank DEF ProxyEnds, ProxiesOK, NoProxy
  <2>2. MapOK'
    BY <1>16, <1>a, Blank DEF ProxyEnds, MapOK
  <2> QED BY <1>16, <1>a, <2>1, <2>2, RestKept DEF ServesInv, ProxyEnds, TasksOK
<1> QED BY <1>1, <1>2, <1>3, <1>4, <1>5, <1>6, <1>7, <1>8, <1>9, <1>10, <1>11, <1>12,
           <1>13, <1>14, <1>15, <1>16 DEF TaskStep

LEMMA ServesStep == ServesInv /\ [Next]_vars => ServesInv'
<1> SUFFICES ASSUME ServesInv, [Next]_vars PROVE ServesInv'
  OBVIOUS
<1>1. CASE UNCHANGED vars
  BY <1>1 DEF vars, ServesInv, TasksOK, MapOK, ProxiesOK, RowsOK, RequestsOK, SessionOK
<1> QED BY <1>1, RequestTyped, SessionTyped, GivingUpTyped, AgentTyped DEF Next, GivesUp

\* Every variable keeps its type, and every task, request and proxy the serve or
\* the port it is about.
THEOREM ServesTypes == Spec => []TypeOK
<1> QED BY ServesStep, InitTyped, InvTyped, PTL DEF Spec
\* Taking an entry out of the map, or overwriting it, tells its proxy to stop.
LEMMA TakenOutIsStopped ==
    ASSUME ServesInv, ListenerTracked, NEW p \in Ports, NEW k \in Slots,
           TakeOut(p), task[k].pc # "insert",
           \A g \in Slots \ {k} : task'[g] = task[g]
    PROVE  ListenerTracked'
<1> SUFFICES ASSUME NEW g \in Slots, proxy'[g].st = "listening", ~proxy'[g].stop
             PROVE  \/ serves'[proxy'[g].port].gen = g
                    \/ task'[g].pc = "insert" /\ Port[task'[g].id] = proxy'[g].port
  BY DEF ListenerTracked
<1>1. /\ proxy \in [Slots -> ProxyTypes] /\ serves[p].gen \in Slots \cup {NoSlot}
      /\ serves \in [Ports -> [id : Ids \cup {NoId}, acl : Acls, gen : Slots \cup {NoSlot}]]
      /\ \A h \in Slots : proxy[h].st # "none" => proxy[h].port \in Ports
  BY DEF ServesInv, MapOK, ProxiesOK
<1>2. /\ proxy[g].st = "listening" /\ ~proxy[g].stop /\ proxy'[g].port = proxy[g].port
      /\ serves[p].gen # g
  BY <1>1 DEF TakeOut, ProxyTypes
<1>3. CASE serves[proxy[g].port].gen = g
  BY <1>1, <1>2, <1>3 DEF TakeOut
<1>4. CASE task[g].pc = "insert" /\ Port[task[g].id] = proxy[g].port
  BY <1>2, <1>4
<1> QED BY <1>2, <1>3, <1>4 DEF ListenerTracked

\* A step that changes neither the map's generations nor the proxies, and leaves
\* the tasks that are about to insert alone.
LEMMA StillTracked ==
    ASSUME ListenerTracked, \A p \in Ports : serves'[p].gen = serves[p].gen, proxy' = proxy,
           \A g \in Slots : task[g].pc = "insert" => task'[g] = task[g],
           \A g \in Slots : proxy[g].st # "none" => proxy[g].port \in Ports
    PROVE  ListenerTracked'
  BY DEF ListenerTracked

\* No listener is lost sight of (serve.rs): whatever starts, stops, reconciles
\* and proxy exits interleave, a listener that accepts and has not been told to
\* stop can be found in the map under its generation, or is about to be.
THEOREM ServesTracked == Spec => []ListenerTracked
<1>1. Init => ListenerTracked
  BY DEF Init, ListenerTracked, NoProxy
<1>2. ASSUME ServesInv, ListenerTracked, [Next]_vars PROVE ListenerTracked'
  <2>a. /\ \A g \in Slots : proxy[g].st # "none" => proxy[g].port \in Ports
        /\ task \in [Slots -> TaskTypes] /\ proxy \in [Slots -> ProxyTypes]
        /\ serves \in [Ports -> [id : Ids \cup {NoId}, acl : Acls, gen : Slots \cup {NoSlot}]]
        /\ \A k \in Slots : task[k].kind \in {"StartServe", "StopServe"} => task[k].id \in Ids
        /\ \A k \in Slots : task[k].pc \in {"evict", "wait", "bind", "insert"} =>
                                task[k].kind = "StartServe"
    BY <1>2 DEF ServesInv, TasksOK, MapOK, ProxiesOK
  <2>b. ASSUME UNCHANGED <<serves, proxy, task>> PROVE ListenerTracked'
    BY <1>2, <2>b DEF ListenerTracked
  <2>c. ASSUME NEW k \in Slots, task[k].pc # "insert", UNCHANGED <<serves, proxy>>,
               \A g \in Slots \ {k} : task'[g] = task[g]
        PROVE  ListenerTracked'
    BY <1>2, <2>a, <2>c, StillTracked
  <2>1. ASSUME NEW r \in Requests,
               \/ RequestStep(r) \/ (\E i \in Ids : CreateServe(r, i))
               \/ (\E i \in Ids, op \in Ops : FindServe(r, i, op))
        PROVE  ListenerTracked'
    BY <2>1, <2>b DEF RequestStep, CreateServe, FindServe, PatchServe, Push, PushFails,
                      RecordError, DeleteServe, agent
  <2>2. CASE Connect \/ Replay \/ Drop \/ Report
    BY <2>2, <2>b DEF Connect, Replay, ReadRows, ReplayReconcile, ReplayStart, Run, Drop,
                      Report, agent
  <2>3. CASE AgentRestarts
    BY <2>3 DEF AgentRestarts, ListenerTracked, NoProxy
  <2>9. CASE GivesUp \/ \E r \in Requests : RequestDies(r)
    BY <2>9, <2>b DEF GivesUp, ReplayFails, ReplaySkips, Forgotten, ReportFails, RequestDies,
                      agent
  <2>4. ASSUME NEW k \in Slots, Receive(k) PROVE ListenerTracked'
    <3>1. task[k].pc # "insert"
      BY <2>4 DEF Receive, Free, IdleTask
    <3> QED BY <2>4, <2>a, <2>c, <3>1 DEF Receive
  <2>5. ASSUME NEW k \in Slots, TaskStep(k) PROVE ListenerTracked'
    <3>1. CASE StartInPlace(k)
      <4>1. task[k].pc # "insert" /\ Port[task[k].id] \in Ports /\ proxy' = proxy
        BY <3>1, <2>a DEF StartInPlace
      <4>2. \A p \in Ports : serves'[p].gen = serves[p].gen
        BY <3>1, <2>a DEF StartInPlace
      <4>3. \A g \in Slots \ {k} : task'[g] = task[g]
        BY <3>1, <2>a DEF StartInPlace, Finish
      <4> QED BY <1>2, <2>a, <4>1, <4>2, <4>3, StillTracked
    <3>2. CASE \/ StartLook(k) \/ StartWaited(k) \/ StartFails(k) \/ StopLook(k)
               \/ StopDone(k) \/ ReconcileLook(k) \/ ReconcileDone(k)
      <4>1. task[k].pc # "insert" /\ UNCHANGED <<serves, proxy>>
        BY <3>2 DEF StartLook, StartWaited, StartFails, StopLook, StopDone, ReconcileLook,
                    ReconcileDone
      <4>2. \A g \in Slots \ {k} : task'[g] = task[g]
        BY <3>2, <2>a DEF StartLook, StartWaited, StartFails, StopLook, StopDone,
                          ReconcileLook, ReconcileDone, Finish
      <4> QED BY <4>1, <4>2, <2>c
    <3>3. CASE StartEvict(k) \/ StopTake(k)
      <4>1. Port[task[k].id] \in Ports /\ task[k].pc # "insert" /\ TakeOut(Port[task[k].id])
        BY <3>3, <2>a DEF StartEvict, StopTake
      <4>2. \A g \in Slots \ {k} : task'[g] = task[g]
        BY <3>3, <2>a DEF StartEvict, StopTake
      <4> QED BY <1>2, <4>1, <4>2, TakenOutIsStopped
    <3>4. CASE ReconcileTake(k)
      <4>1. PICK p \in task[k].ports : TakeOut(p)
        BY <3>4 DEF ReconcileTake
      <4>2. p \in Ports /\ task[k].pc # "insert"
        BY <3>4, <4>1, <2>a DEF ReconcileTake, TaskTypes
      <4>3. \A g \in Slots \ {k} : task'[g] = task[g]
        BY <3>4, <2>a DEF ReconcileTake
      <4> QED BY <1>2, <4>1, <4>2, <4>3, TakenOutIsStopped
    <3>5. CASE StartBind(k)
      <4>1. /\ serves' = serves /\ task'[k].pc = "insert" /\ task'[k].id = task[k].id
            /\ proxy'[k].port = Port[task[k].id]
            /\ \A g \in Slots \ {k} : task'[g] = task[g] /\ proxy'[g] = proxy[g]
        BY <3>5, <2>a DEF StartBind, TaskTypes
      <4> QED BY <1>2, <4>1 DEF ListenerTracked
    <3>6. CASE StartInsert(k)
      <4> DEFINE p == Port[task[k].id]
      <4>1. p \in Ports
        BY <3>6, <2>a DEF StartInsert
      <4>2. /\ serves'[p].gen = k /\ \A q \in Ports \ {p} : serves'[q] = serves[q]
            /\ \A g \in Slots \ {k} : task'[g] = task[g]
        BY <3>6, <2>a, <4>1 DEF StartInsert, Finish
      <4>3. \A g \in Slots : /\ proxy'[g].st = proxy[g].st /\ proxy'[g].port = proxy[g].port
                             /\ proxy[g].stop => proxy'[g].stop
                             /\ serves[p].gen = g => proxy'[g].stop
        BY <3>6, <2>a, <4>1 DEF StartInsert, ProxyTypes
      <4> HIDE DEF p
      <4>4. SUFFICES ASSUME NEW g \in Slots, proxy'[g].st = "listening", ~proxy'[g].stop
                     PROVE  \/ serves'[proxy'[g].port].gen = g
                            \/ task'[g].pc = "insert" /\ Port[task'[g].id] = proxy'[g].port
        BY DEF ListenerTracked
      <4>5. proxy[g].st = "listening" /\ ~proxy[g].stop /\ proxy[g].port \in Ports
        BY <4>3, <4>4, <2>a
      <4>6. CASE serves[proxy[g].port].gen = g
        BY <4>2, <4>3, <4>4, <4>5, <4>6
      <4>7. CASE task[g].pc = "insert" /\ Port[task[g].id] = proxy[g].port
        BY <4>2, <4>3, <4>5, <4>7 DEF p
      <4> QED BY <1>2, <4>5, <4>6, <4>7 DEF ListenerTracked
    <3> QED BY <2>5, <3>1, <3>2, <3>3, <3>4, <3>5, <3>6 DEF TaskStep
  <2>6. ASSUME NEW k \in Slots, ProxyCloses(k) PROVE ListenerTracked'
    <3>1. /\ serves' = serves /\ task' = task /\ proxy'[k].st = "closed"
          /\ \A g \in Slots \ {k} : proxy'[g] = proxy[g]
      BY <2>6, <2>a DEF ProxyCloses, ProxyTypes
    <3> QED BY <1>2, <3>1 DEF ListenerTracked
  <2>7. ASSUME NEW k \in Slots, ProxyEnds(k) PROVE ListenerTracked'
    <3>1. /\ task' = task /\ proxy'[k].st = "none"
          /\ \A g \in Slots \ {k} : proxy'[g] = proxy[g]
      BY <2>7, <2>a DEF ProxyEnds, NoProxy
    <3>2. \A q \in Ports, g \in Slots \ {k} : serves[q].gen = g => serves'[q].gen = g
      BY <2>7, <2>a DEF ProxyEnds
    <3> QED BY <1>2, <2>a, <3>1, <3>2 DEF ListenerTracked
  <2>8. CASE UNCHANGED vars
    BY <2>8, <2>b DEF vars
  <2> QED BY <1>2, <2>1, <2>2, <2>3, <2>4, <2>5, <2>6, <2>7, <2>8, <2>9
       DEF Next, GivesUp
<1>3. ASSUME ServesInv, [Next]_vars PROVE ServesInv'
  BY <1>3, ServesStep
<1> QED BY <1>1, <1>2, <1>3, InitTyped, PTL DEF Spec

-----------------------------------------------------------------------------
(* Rows in "starting" *)

\* What a sequence holds after a message is sent or taken.
LEMMA SentStays ==
    ASSUME NEW S, NEW q \in Seq(S), NEW m \in S
    PROVE  /\ \A n \in DOMAIN q : n \in DOMAIN Append(q, m) /\ Append(q, m)[n] = q[n]
           /\ \E n \in DOMAIN Append(q, m) : Append(q, m)[n] = m
<1>1. /\ Len(q) \in Nat /\ DOMAIN q = 1..Len(q) /\ DOMAIN Append(q, m) = 1..(Len(q) + 1)
      /\ \A n \in 1..Len(q) : Append(q, m)[n] = q[n]
      /\ Append(q, m)[Len(q) + 1] = m
  OBVIOUS
<1>2. Len(q) + 1 \in DOMAIN Append(q, m)
  BY <1>1
<1> QED BY <1>1, <1>2

LEMMA TakenFirst ==
    ASSUME NEW S, NEW q \in Seq(S), q # <<>>, NEW n \in DOMAIN q, q[n] # Head(q)
    PROVE  \E i \in DOMAIN Tail(q) : Tail(q)[i] = q[n]
<1>1. /\ Len(q) \in Nat /\ DOMAIN q = 1..Len(q) /\ DOMAIN Tail(q) = 1..(Len(q) - 1)
      /\ \A i \in 1..(Len(q) - 1) : Tail(q)[i] = q[i + 1]
      /\ Head(q) = q[1]
  <2>1. Tail(q) \in Seq(S) /\ Len(Tail(q)) = Len(q) - 1
    OBVIOUS
  <2> QED BY <2>1
<1>2. n # 1 /\ n \in 1..Len(q)
  BY <1>1
<1>3. n - 1 \in DOMAIN Tail(q) /\ Tail(q)[n - 1] = q[n]
  BY <1>1, <1>2
<1> QED BY <1>3

\* Who is about to settle row i.
Creates(i) == \E r \in Requests : req[r].op = "create" /\ req[r].id = i
Replays(i) == link \in {"down", "registered"} \/ \E a \in Acls : <<i, a>> \in replay.rows
Sends(i) == \E n \in DOMAIN chan : chan[n].kind = "StartServe" /\ chan[n].id = i
Works(i) == \E k \in Slots : task[k].kind = "StartServe" /\ task[k].id = i
Reported(i) == \E n \in DOMAIN client : client[n].id = i

Cared(i) == \/ Creates(i) \/ Replays(i) \/ Sends(i) \/ Works(i) \/ Reported(i)
            \/ i \in lost

\* A request that writes an access list is a PATCH.
PatchesOK == \A r \in Requests : req[r].pc = "update" => req[r].op = "patch"

LEMMA PatchesStep == ServesInv /\ PatchesOK /\ [Next]_vars => PatchesOK'
<1> SUFFICES ASSUME ServesInv, PatchesOK, [Next]_vars PROVE PatchesOK'
  OBVIOUS
<1>a. req \in [Requests -> RequestTypes]
  BY DEF ServesInv, RequestsOK
<1>b. ASSUME req' = req PROVE PatchesOK'
  BY <1>b DEF PatchesOK
<1>1. ASSUME NEW r \in Requests, RequestStep(r) PROVE PatchesOK'
  BY <1>1, <1>a DEF RequestStep, PatchServe, Push, PushFails, RecordError, DeleteServe,
                    PatchesOK, IdleRequest, RequestTypes
<1>2. ASSUME NEW r \in Requests, NEW i \in Ids, CreateServe(r, i) PROVE PatchesOK'
  BY <1>2, <1>a DEF CreateServe, PatchesOK
<1>3. ASSUME NEW r \in Requests, NEW i \in Ids, NEW op \in Ops, FindServe(r, i, op)
      PROVE  PatchesOK'
  BY <1>3, <1>a DEF FindServe, PatchesOK
<1>4. CASE Connect \/ Replay \/ Drop \/ Report \/ AgentRestarts
  BY <1>4, <1>b DEF Connect, Replay, ReadRows, ReplayReconcile, ReplayStart, Run, Drop, Report,
                    AgentRestarts, db
<1>5. ASSUME NEW k \in Slots, Receive(k) \/ TaskStep(k) \/ ProxyCloses(k) \/ ProxyEnds(k)
      PROVE  PatchesOK'
  <2>1. UNCHANGED db
    BY <1>5 DEF Receive, TaskStep, StartInPlace, StartLook, StartEvict, StartWaited, StartBind,
                StartFails, StartInsert, StopLook, StopTake, StopDone, ReconcileLook,
                ReconcileTake, ReconcileDone, ProxyCloses, ProxyEnds
  <2> QED BY <1>b, <2>1 DEF db
<1>6. CASE UNCHANGED vars
  BY <1>6, <1>b DEF vars
<1>7. CASE GivesUp
  BY <1>7, <1>b DEF GivesUp, ReplayFails, ReplaySkips, Forgotten, ReportFails, db
<1>8. ASSUME NEW r \in Requests, RequestDies(r) PROVE PatchesOK'
  BY <1>8, <1>a DEF RequestDies, PatchesOK, IdleRequest
<1> QED BY <1>1, <1>2, <1>3, <1>4, <1>5, <1>6, <1>7, <1>8 DEF Next, GivesUp

\* A push is in the channel, or the session is down, or its row is given up; what
\* was there stays.
LEMMA PushKeeps ==
    ASSUME SessionOK, NEW m \in Messages, PushTo(m), link' = link, NEW i \in Ids
    PROVE  /\ Sends(i) => Sends(i)'
           /\ m.kind = "StartServe" /\ m.id = i =>
                 link' = "down" \/ Sends(i)' \/ i \in lost'
           /\ i \in lost => i \in lost'
<1>1. chan \in Seq(Messages)
  BY DEF SessionOK
<1>2. CASE ~hub
  BY <1>2 DEF PushTo, Sends
<1>3. CASE hub
  <2>1. chan' = Append(chan, m) /\ lost' = lost
    BY <1>3 DEF PushTo
  <2>2. /\ \A n \in DOMAIN chan : n \in DOMAIN chan' /\ chan'[n] = chan[n]
        /\ \E n \in DOMAIN chan' : chan'[n] = m
    BY <1>1, <2>1, SentStays
  <2> QED BY <2>1, <2>2 DEF Sends
<1> QED BY <1>2, <1>3

\* The requests: whoever created the row still has it, or has pushed it.
LEMMA RequestCares ==
    ASSUME ServesInv, PatchesOK, NEW r \in Requests, RequestStep(r), NEW i \in Ids,
           row[i].st = "starting" => Cared(i), row'[i].st = "starting"
    PROVE  Cared(i)'
<1>a. /\ req \in [Requests -> RequestTypes] /\ row \in [Ids -> [st : Status, acl : Acls]]
      /\ req[r].pc # "idle" => req[r].id \in Ids
  BY DEF ServesInv, RequestsOK, RowsOK
<1>b. UNCHANGED <<replay, link, agent>>
  BY DEF RequestStep, PatchServe, Push, PushFails, RecordError, DeleteServe, session
<1>c. UNCHANGED <<task, client>>
  BY <1>b DEF agent
<1>d. (Replays(i) => Replays(i)') /\ (Works(i) => Works(i)') /\ (Reported(i) => Reported(i)')
  BY <1>b, <1>c DEF Replays, Works, Reported
<1>e. ASSUME req[r].op # "create" \/ req[r].id # i,
             \A q \in Requests \ {r} : req'[q] = req[q]
      PROVE  Creates(i) => Creates(i)'
  BY <1>e DEF Creates
<1>1. CASE PatchServe(r)
  <2>1. /\ row[i].st = "starting" /\ UNCHANGED <<chan, lost>>
        /\ \A q \in Requests \ {r} : req'[q] = req[q]
        /\ req[r].op # "create"
    BY <1>1, <1>a DEF PatchServe, PatchesOK, session
  <2> QED BY <1>d, <1>e, <2>1 DEF Cared, Sends
<1>2. CASE Push(r)
  <2>1. /\ row[i].st = "starting" /\ \A q \in Requests \ {r} : req'[q] = req[q]
        /\ req[r].id \in Ids /\ req[r].op \in {"none"} \cup Ops
    BY <1>2, <1>a DEF Push, RequestTypes
  <2>2. PICK m \in Messages : /\ PushTo(m)
                              /\ req[r].op = "create" => m.kind = "StartServe" /\ m.id = req[r].id
    <3>1. \A a \in Acls : /\ StartMsg(req[r].id, a) \in Messages
                          /\ StartMsg(req[r].id, a).kind = "StartServe"
                          /\ StartMsg(req[r].id, a).id = req[r].id
      BY <2>1 DEF StartMsg, Messages
    <3>2. [kind |-> "StopServe", id |-> req[r].id] \in Messages
      BY <2>1 DEF Messages
    <3>3. "created" \in Acls /\ "patched" \in Acls
      BY DEF Acls
    <3>4. CASE req[r].op = "create"
      BY <1>2, <3>1, <3>3, <3>4 DEF Push
    <3>5. CASE req[r].op = "patch"
      BY <1>2, <3>1, <3>3, <3>5 DEF Push
    <3>6. CASE req[r].op \notin {"create", "patch"}
      BY <1>2, <3>2, <3>6 DEF Push
    <3> QED BY <3>4, <3>5, <3>6
  <2>3. /\ Sends(i) => Sends(i)'
        /\ m.kind = "StartServe" /\ m.id = i => link' = "down" \/ Sends(i)' \/ i \in lost'
        /\ i \in lost => i \in lost'
    BY <1>b, <2>2, PushKeeps DEF ServesInv
  <2>4. CASE req[r].op = "create" /\ req[r].id = i
    BY <2>2, <2>3, <2>4 DEF Cared, Replays
  <2>5. CASE ~(req[r].op = "create" /\ req[r].id = i)
    BY <1>d, <1>e, <2>1, <2>3, <2>5 DEF Cared
  <2> QED BY <2>4, <2>5
<1>3. CASE PushFails(r)
  <2>1. /\ row[i].st = "starting" /\ UNCHANGED <<chan, lost>>
        /\ \A q \in Requests : req'[q].op = req[q].op /\ req'[q].id = req[q].id
    BY <1>3, <1>a DEF PushFails, session, RequestTypes
  <2> QED BY <1>d, <2>1 DEF Cared, Creates, Sends
<1>4. CASE RecordError(r) \/ DeleteServe(r)
  <2>1. /\ UNCHANGED <<chan, lost>> /\ \A q \in Requests \ {r} : req'[q] = req[q]
        /\ row[i].st = "starting" /\ req[r].id # i
    BY <1>4, <1>a DEF RecordError, DeleteServe, session
  <2> QED BY <1>d, <1>e, <2>1 DEF Cared, Sends
<1> QED BY <1>1, <1>2, <1>3, <1>4 DEF RequestStep

\* The session: a row that is not pushed yet is read again by the next one.
LEMMA SessionCares ==
    ASSUME ServesInv, Connect \/ Replay \/ Drop \/ Report \/ AgentRestarts, NEW i \in Ids,
           row[i].st = "starting" => Cared(i), row'[i].st = "starting"
    PROVE  Cared(i)'
<1>a. /\ row \in [Ids -> [st : Status, acl : Acls]] /\ SessionOK /\ client \in Seq(Reports)
      /\ replay \in [reconcile : BOOLEAN, rows : SUBSET (Ids \X Acls)]
  BY DEF ServesInv, RowsOK, SessionOK
<1>1. CASE Connect \/ Drop \/ AgentRestarts
  BY <1>1 DEF Connect, Drop, AgentRestarts, Cared, Replays
<1>2. CASE ReadRows
  <2>1. row' = row /\ row[i].st \in Live /\ row[i].acl \in Acls
    BY <1>2, <1>a DEF ReadRows, db, Live
  <2>2. <<i, row[i].acl>> \in replay'.rows
    BY <1>2, <2>1 DEF ReadRows
  <2> QED BY <2>1, <2>2 DEF Cared, Replays
<1>3. CASE ReplayReconcile
  <2> DEFINE m == [kind |-> "ReconcileServes", keep |-> {x[1] : x \in replay.rows}]
  <2>1. m \in Messages
    BY <1>a DEF Messages
  <2>2. PushTo(m) /\ link' = link /\ replay'.rows = replay.rows /\ UNCHANGED <<row, req, task, client>>
    BY <1>3, <1>a DEF ReplayReconcile, db, agent
  <2> HIDE DEF m
  <2>3. (Sends(i) => Sends(i)') /\ (i \in lost => i \in lost')
    BY <1>a, <2>1, <2>2, PushKeeps
  <2> QED BY <2>2, <2>3 DEF Cared, Creates, Replays, Works, Reported
<1>4. CASE ReplayStart
  <2>1. PICK x \in replay.rows : PushTo(StartMsg(x[1], x[2])) /\ replay' = [replay EXCEPT !.rows = @ \ {x}]
    BY <1>4 DEF ReplayStart
  <2>2. link' = link /\ link = "replaying" /\ UNCHANGED <<row, req, task, client>>
    BY <1>4 DEF ReplayStart, db, agent
  <2>3. x \in Ids \X Acls /\ replay'.rows = replay.rows \ {x}
    BY <1>a, <2>1
  <2>4. /\ StartMsg(x[1], x[2]) \in Messages
        /\ StartMsg(x[1], x[2]).kind = "StartServe" /\ StartMsg(x[1], x[2]).id = x[1]
    BY <2>3 DEF StartMsg, Messages
  <2>5. /\ Sends(i) => Sends(i)'
        /\ x[1] = i => Sends(i)' \/ i \in lost'
        /\ i \in lost => i \in lost'
    BY <1>a, <2>1, <2>2, <2>4, PushKeeps
  <2>6. Replays(i) => Replays(i)' \/ x[1] = i
    BY <2>2, <2>3 DEF Replays
  <2> QED BY <2>2, <2>5, <2>6 DEF Cared, Creates, Works, Reported
<1>5. CASE Run
  <2>1. /\ UNCHANGED <<row, req, chan, replay, lost, task, client>>
        /\ link = "replaying"
    BY <1>5 DEF Run, db, agent
  <2>2. Replays(i) => Replays(i)'
    BY <2>1 DEF Replays
  <2> QED BY <2>1, <2>2 DEF Cared, Creates, Sends, Works, Reported
<1>6. CASE Report
  <2>1. /\ client # <<>> /\ client' = Tail(client)
        /\ UNCHANGED <<req, link, replay, chan, lost, task>>
        /\ row[i].st = "starting" /\ Head(client).id # i
    <3>a. client # <<>>
      BY <1>6 DEF Report
    <3>b. Head(client) \in Reports
      BY <1>a, <3>a
    <3>c. \A r \in Reports : r.id \in Ids
      BY DEF Reports
    <3>1. Head(client) \in Reports /\ Head(client).id \in Ids
      BY <3>b, <3>c
    <3>2. row'[i].st = row[i].st /\ Head(client).id # i
      BY <1>6, <1>a, <3>1 DEF Report
    <3> QED BY <1>6, <3>2 DEF Report, session
  <2>2. Reported(i) => Reported(i)'
    <3> SUFFICES ASSUME NEW n \in DOMAIN client, client[n].id = i PROVE Reported(i)'
      BY DEF Reported
    <3>1. client[n] # Head(client)
      BY <2>1
    <3>2. \E j \in DOMAIN client' : client'[j] = client[n]
      BY <1>a, <2>1, <3>1, TakenFirst
    <3> QED BY <3>2 DEF Reported
  <2> QED BY <2>1, <2>2 DEF Cared, Creates, Replays, Sends, Works
<1> QED BY <1>1, <1>2, <1>3, <1>4, <1>5, <1>6 DEF Replay

\* The steps that give a row up say so.
LEMMA GivingUpCares ==
    ASSUME ServesInv, GivesUp \/ \E r \in Requests : RequestDies(r), NEW i \in Ids,
           row[i].st = "starting" => Cared(i), row'[i].st = "starting"
    PROVE  Cared(i)'
<1>a. /\ replay \in [reconcile : BOOLEAN, rows : SUBSET (Ids \X Acls)]
      /\ client \in Seq(Reports) /\ req \in [Requests -> RequestTypes]
  BY DEF ServesInv, SessionOK, RequestsOK
<1>b. row' = row /\ Cared(i)
  BY DEF GivesUp, ReplayFails, ReplaySkips, Forgotten, ReportFails, RequestDies, db
<1>c. i \in lost => i \in lost'
  BY DEF GivesUp, ReplayFails, ReplaySkips, Forgotten, ReportFails, RequestDies
<1>1. CASE ReplayFails
  BY <1>1, <1>b DEF ReplayFails, Cared
<1>2. CASE ReplaySkips
  <2>1. PICK x \in replay.rows :
          lost' = lost \cup {x[1]} /\ replay' = [replay EXCEPT !.rows = @ \ {x}]
    BY <1>2 DEF ReplaySkips
  <2>2. link' = link /\ UNCHANGED <<chan, req, task, client>>
    BY <1>2 DEF ReplaySkips, db, agent
  <2>3. x \in Ids \X Acls /\ replay'.rows = replay.rows \ {x}
    BY <1>a, <2>1
  <2>4. Replays(i) => Replays(i)' \/ x[1] = i
    BY <2>2, <2>3 DEF Replays
  <2> QED BY <1>b, <1>c, <2>1, <2>2, <2>4 DEF Cared, Creates, Sends, Works, Reported
<1>3. CASE Forgotten
  <2>1. UNCHANGED <<req, link, replay, chan, task, client>>
    BY <1>3 DEF Forgotten, db, agent
  <2> QED BY <1>b, <1>c, <2>1 DEF Cared, Creates, Replays, Sends, Works, Reported
<1>4. CASE ReportFails
  <2>1. /\ client # <<>> /\ client' = Tail(client) /\ lost' = lost \cup {Head(client).id}
        /\ UNCHANGED <<req, link, replay, chan, task>>
    BY <1>4 DEF ReportFails, db
  <2>2. Reported(i) => Reported(i)' \/ i \in lost'
    <3> SUFFICES ASSUME NEW n \in DOMAIN client, client[n].id = i
                 PROVE  Reported(i)' \/ i \in lost'
      BY DEF Reported
    <3>1. CASE client[n] = Head(client)
      BY <2>1, <3>1
    <3>2. CASE client[n] # Head(client)
      <4>1. \E j \in DOMAIN client' : client'[j] = client[n]
        BY <1>a, <2>1, <3>2, TakenFirst
      <4> QED BY <4>1 DEF Reported
    <3> QED BY <3>1, <3>2
  <2> QED BY <1>b, <1>c, <2>1, <2>2 DEF Cared, Creates, Replays, Sends, Works
<1>5. ASSUME NEW r \in Requests, RequestDies(r) PROVE Cared(i)'
  <2>1. /\ UNCHANGED <<link, replay, chan, task, client>>
        /\ \A q \in Requests \ {r} : req'[q] = req[q]
        /\ req[r].op = "create" => req[r].id \in lost'
    BY <1>5, <1>a DEF RequestDies, agent
  <2>2. Creates(i) => Creates(i)' \/ i \in lost'
    BY <2>1 DEF Creates
  <2> QED BY <1>b, <1>c, <2>1, <2>2 DEF Cared, Replays, Sends, Works, Reported
<1> QED BY <1>1, <1>2, <1>3, <1>4, <1>5 DEF GivesUp

\* A task of the agent that ends has reported its serve.
LEMMA FinishCares ==
    ASSUME ServesInv, NEW k \in Slots, NEW i \in Ids, task[k].id \in Ids,
           NEW kind \in {"ServeReady", "ServeFailed", "ServeStopped"}, Finish(k, kind)
    PROVE  /\ Reported(i) => Reported(i)'
           /\ Works(i) => Works(i)' \/ Reported(i)'
<1> DEFINE m == [kind |-> kind, id |-> task[k].id]
<1>1. m \in Reports /\ m.id = task[k].id /\ client \in Seq(Reports) /\ client' = Append(client, m)
  BY DEF Reports, ServesInv, Finish
<1> HIDE DEF m
<1>2. /\ \A n \in DOMAIN client : n \in DOMAIN client' /\ client'[n] = client[n]
      /\ \E n \in DOMAIN client' : client'[n] = m
  BY <1>1, SentStays
<1>3. \A g \in Slots \ {k} : task'[g] = task[g]
  BY DEF Finish, ServesInv, TasksOK
<1>4. Works(i) => task[k].id = i \/ Works(i)'
  BY <1>3 DEF Works
<1> QED BY <1>1, <1>2, <1>4 DEF Reported

\* The agent: a start that was received is in work until it is reported.
LEMMA AgentCares ==
    ASSUME ServesInv, NEW k \in Slots,
           Receive(k) \/ TaskStep(k) \/ ProxyCloses(k) \/ ProxyEnds(k), NEW i \in Ids,
           Cared(i)
    PROVE  Cared(i)'
<1>a. /\ task \in [Slots -> TaskTypes] /\ chan \in Seq(Messages)
      /\ task[k].kind \in {"StartServe", "StopServe"} => task[k].id \in Ids
      /\ task[k].pc \in {"evict", "wait", "bind", "insert"} => task[k].kind = "StartServe"
  BY DEF ServesInv, TasksOK, SessionOK
<1>b. UNCHANGED <<req, link, replay, lost>>
  BY DEF Receive, TaskStep, StartInPlace, StartLook, StartEvict, StartWaited, StartBind,
         StartFails, StartInsert, StopLook, StopTake, StopDone, ReconcileLook,
         ReconcileTake, ReconcileDone, ProxyCloses, ProxyEnds, db, session
<1>c. (Creates(i) => Creates(i)') /\ (Replays(i) => Replays(i)')
  BY <1>b DEF Creates, Replays
<1>d. ASSUME UNCHANGED <<chan, client>>, Works(i) => Works(i)' PROVE Cared(i)'
  BY <1>b, <1>c, <1>d DEF Cared, Sends, Reported
<1>e. ASSUME UNCHANGED chan, NEW kind \in {"ServeReady", "ServeFailed", "ServeStopped"},
             Finish(k, kind), task[k].id \in Ids
      PROVE  Cared(i)'
  BY <1>b, <1>c, <1>e, FinishCares DEF Cared, Sends
<1>1. CASE Receive(k)
  <2> DEFINE m == Head(chan)
  <2>1. /\ chan # <<>> /\ chan' = Tail(chan) /\ UNCHANGED client /\ task[k].kind = "none"
        /\ \A g \in Slots \ {k} : task'[g] = task[g]
    BY <1>1, <1>a DEF Receive, Free, IdleTask
  <2>2. Works(i) => Works(i)'
    BY <2>1 DEF Works
  <2>3. m.kind = "StartServe" => task'[k].kind = "StartServe" /\ task'[k].id = m.id
    BY <1>1, <1>a DEF Receive, IdleTask
  <2>4. Sends(i) => Sends(i)' \/ Works(i)'
    <3> SUFFICES ASSUME NEW n \in DOMAIN chan, chan[n].kind = "StartServe", chan[n].id = i
                 PROVE  Sends(i)' \/ Works(i)'
      BY DEF Sends
    <3>1. CASE chan[n] = m
      BY <2>3, <3>1 DEF Works
    <3>2. CASE chan[n] # m
      <4>1. \E j \in DOMAIN chan' : chan'[j] = chan[n]
        BY <1>a, <2>1, <3>2, TakenFirst
      <4> QED BY <4>1 DEF Sends
    <3> QED BY <3>1, <3>2
  <2> QED BY <1>b, <1>c, <2>1, <2>2, <2>4 DEF Cared, Reported
<1>2. CASE StartInPlace(k) \/ StartFails(k) \/ StartInsert(k) \/ StopDone(k)
  <2>1. /\ UNCHANGED chan /\ task[k].id \in Ids
        /\ \E kind \in {"ServeReady", "ServeFailed", "ServeStopped"} : Finish(k, kind)
    BY <1>2, <1>a DEF StartInPlace, StartFails, StartInsert, StopDone, session
  <2> QED BY <1>e, <2>1
<1>3. CASE StartLook(k) \/ StartEvict(k) \/ StartWaited(k) \/ StartBind(k)
  <2>1. /\ UNCHANGED <<chan, client>>
        /\ \A g \in Slots : task'[g].kind = task[g].kind /\ task'[g].id = task[g].id
    BY <1>3, <1>a DEF StartLook, StartEvict, StartWaited, StartBind, session, TaskTypes
  <2> QED BY <1>d, <2>1 DEF Works
<1>4. CASE StopLook(k)
  <2>1. CASE Finish(k, "ServeStopped")
    BY <1>4, <1>a, <1>e, <2>1 DEF StopLook, session
  <2>2. CASE task' = [task EXCEPT ![k].pc = "stop"] /\ UNCHANGED client
    BY <1>4, <1>a, <1>d, <2>2 DEF StopLook, session, Works, TaskTypes
  <2> QED BY <1>4, <2>1, <2>2 DEF StopLook
<1>5. CASE StopTake(k) \/ ReconcileLook(k) \/ ReconcileTake(k) \/ ReconcileDone(k)
  <2>1. /\ UNCHANGED <<chan, client>> /\ task[k].kind # "StartServe"
        /\ \A g \in Slots \ {k} : task'[g] = task[g]
    BY <1>5, <1>a DEF StopTake, ReconcileLook, ReconcileTake, ReconcileDone, session
  <2> QED BY <1>d, <2>1 DEF Works
<1>6. CASE ProxyCloses(k) \/ ProxyEnds(k)
  BY <1>6, <1>d DEF ProxyCloses, ProxyEnds, session, Works
<1> QED BY <1>1, <1>2, <1>3, <1>4, <1>5, <1>6 DEF TaskStep

LEMMA StartingStep ==
    ServesInv /\ PatchesOK /\ StartingTracked /\ [Next]_vars => StartingTracked'
<1> SUFFICES ASSUME ServesInv, PatchesOK, StartingTracked, [Next]_vars,
                    NEW i \in Ids, row'[i].st = "starting"
             PROVE  Cared(i)'
  BY DEF StartingTracked, Cared, Creates, Replays, Sends, Works, Reported
<1>a. row[i].st = "starting" => Cared(i)
  BY DEF StartingTracked, Cared, Creates, Replays, Sends, Works, Reported
<1>b. /\ req \in [Requests -> RequestTypes] /\ row \in [Ids -> [st : Status, acl : Acls]]
  BY DEF ServesInv, RequestsOK, RowsOK
<1>1. ASSUME NEW r \in Requests, NEW j \in Ids, CreateServe(r, j) PROVE Cared(i)'
  <2>1. /\ UNCHANGED <<link, replay, chan, lost, task, client>>
        /\ \A q \in Requests \ {r} : req'[q] = req[q]
        /\ req[r].op = "none"
    BY <1>1, <1>b DEF CreateServe, Begin, IdleRequest, session, agent
  <2>2. CASE i = j
    <3>1. req'[r].op = "create" /\ req'[r].id = i
      BY <1>1, <1>b, <2>2 DEF CreateServe
    <3> QED BY <3>1 DEF Cared, Creates
  <2>3. CASE i # j
    <3>1. row[i].st = "starting"
      BY <1>1, <1>b, <2>3 DEF CreateServe
    <3>2. Creates(i) => Creates(i)'
      BY <2>1 DEF Creates
    <3> QED BY <1>a, <2>1, <3>1, <3>2 DEF Cared, Replays, Sends, Works, Reported
  <2> QED BY <2>2, <2>3
<1>2. ASSUME NEW r \in Requests, NEW j \in Ids, NEW op \in Ops, FindServe(r, j, op)
      PROVE  Cared(i)'
  <2>1. /\ UNCHANGED <<row, link, replay, chan, lost, task, client>>
        /\ \A q \in Requests \ {r} : req'[q] = req[q]
        /\ req[r].op = "none"
    BY <1>2, <1>b DEF FindServe, Begin, IdleRequest, session, agent
  <2>2. Creates(i) => Creates(i)'
    BY <2>1 DEF Creates
  <2> QED BY <1>a, <2>1, <2>2 DEF Cared, Replays, Sends, Works, Reported
<1>3. ASSUME NEW k \in Slots, Receive(k) \/ TaskStep(k) \/ ProxyCloses(k) \/ ProxyEnds(k)
      PROVE  Cared(i)'
  <2>1. UNCHANGED row
    BY <1>3 DEF Receive, TaskStep, StartInPlace, StartLook, StartEvict, StartWaited, StartBind,
                StartFails, StartInsert, StopLook, StopTake, StopDone, ReconcileLook,
                ReconcileTake, ReconcileDone, ProxyCloses, ProxyEnds, db
  <2> QED BY <1>3, <1>a, <2>1, AgentCares
<1>4. CASE UNCHANGED vars
  BY <1>4, <1>a DEF vars, Cared, Creates, Replays, Sends, Works, Reported
<1> QED BY <1>1, <1>2, <1>3, <1>4, <1>a, RequestCares, SessionCares, GivingUpCares
        DEF Next, GivesUp

\* No row in "starting" is forgotten without a trace: whatever pushes, sessions,
\* tasks and reports are lost, something that will settle it is under way, or the
\* agent is away and its next session reads the row again, or one of the steps
\* that the code only logs has given it up since the rows were last read.
THEOREM StartingCared == Spec => []StartingTracked
<1>1. Init => PatchesOK /\ StartingTracked
  BY DEF Init, PatchesOK, StartingTracked, IdleRequest
<1> QED BY <1>1, PatchesStep, StartingStep, InitTyped, ServesStep, PTL DEF Spec
===============================================================================
