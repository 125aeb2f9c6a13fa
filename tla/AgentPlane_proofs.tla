--------------------------- MODULE AgentPlane_proofs ---------------------------
(***************************************************************************)
(* Proofs about the agent's control, data-plane and route actors.          *)
(***************************************************************************)
EXTENDS AgentPlane, TLAPS

USE AgentPlaneAssumption

\* Every message of the mailbox keeps its place and its content when its asker
\* gives up.
LEMMA AbandonKeeps ==
    ASSUME TypeOK, NEW a \in Askers
    PROVE  /\ Abandon(a) \in Seq(RouteMsgs) /\ Len(Abandon(a)) = Len(rbox)
           /\ \A i \in 1..Len(rbox) :
                 /\ Abandon(a)[i].op = rbox[i].op /\ Abandon(a)[i].version = rbox[i].version
                 /\ Abandon(a)[i].asker = IF rbox[i].asker = a THEN "nobody" ELSE rbox[i].asker
<1>1. \A i \in 1..Len(rbox) : rbox[i] \in RouteMsgs
  BY DEF TypeOK
<1>2. \A i \in 1..Len(rbox) :
         LET m == IF rbox[i].asker = a THEN [rbox[i] EXCEPT !.asker = "nobody"] ELSE rbox[i] IN
         /\ m \in RouteMsgs /\ m.op = rbox[i].op /\ m.version = rbox[i].version
         /\ m.asker = IF rbox[i].asker = a THEN "nobody" ELSE rbox[i].asker
  BY <1>1 DEF RouteMsgs, Askers
<1>3. Len(rbox) \in Nat
  BY DEF TypeOK
<1> QED
  BY <1>2, <1>3 DEF Abandon

\* What is sent to the RouteActor is a message, and its mailbox stays one.
LEMMA AskTypes ==
    ASSUME TypeOK, NEW a \in Askers
    PROVE  /\ \A v \in SUBSET Versions, d \in Versions : Append(rbox, Apply(v, d, a)) \in Seq(RouteMsgs)
           /\ Append(rbox, Clear(a)) \in Seq(RouteMsgs)
           /\ Append(rbox, Bare("KernelRoutesChanged", a)) \in Seq(RouteMsgs)
           /\ Append(rbox, Bare("GetKernelRoutes", a)) \in Seq(RouteMsgs)
           /\ \A op \in {"BringUp", "BringDown"} :
                 Append(dbox, [op |-> op, asker |-> a]) \in Seq(PlaneMsgs)
<1>1. 0 \in Versions
  BY DEF Versions
<1>2. /\ \A v \in SUBSET Versions, d \in Versions : Apply(v, d, a) \in RouteMsgs
      /\ Clear(a) \in RouteMsgs /\ Bare("KernelRoutesChanged", a) \in RouteMsgs
      /\ Bare("GetKernelRoutes", a) \in RouteMsgs
      /\ \A op \in {"BringUp", "BringDown"} : [op |-> op, asker |-> a] \in PlaneMsgs
  BY <1>1 DEF Apply, Clear, Bare, RouteMsgs, PlaneMsgs
<1> QED
  BY <1>2 DEF TypeOK

Answers == [control : {"none", "ok", "error"}, plane : {"none", "ok", "error"}]

\* An answer reaches its asker and nobody else.
LEMMA AnswerTo ==
    ASSUME answered \in Answers, NEW a \in Askers, NEW r \in {"ok", "error"}
    PROVE  /\ Answer(a, r) \in Answers
           /\ Answer(a, r).control = IF a = "control" THEN r ELSE answered.control
           /\ Answer(a, r).plane = IF a = "plane" THEN r ELSE answered.plane
<1>1. CASE a = "nobody"
  BY <1>1 DEF Answer, Answers
<1>2. CASE a = "control"
  <2>1. Answer(a, r) = [answered EXCEPT !.control = r]
    BY <1>2 DEF Answer
  <2> QED
    BY <1>2, <2>1 DEF Answers
<1>3. CASE a = "plane"
  <2>1. Answer(a, r) = [answered EXCEPT !.plane = r]
    BY <1>3 DEF Answer
  <2> QED
    BY <1>3, <2>1 DEF Answers
<1> QED
  BY <1>1, <1>2, <1>3 DEF Askers

\* The types in parts: what is between the actors, what each keeps, the flags
\* and the counters.
BoxTypes == rbox \in Seq(RouteMsgs) /\ dbox \in Seq(PlaneMsgs) /\ answered \in Answers

OwnTypes ==
    /\ rev \in Versions /\ cache \in Versions
    /\ control \in [pc : {"idle", "routes", "up", "clear", "down"}, save : BOOLEAN]
    /\ mark \in SUBSET Versions /\ desired \in SUBSET Versions /\ owned \in Versions
    /\ plane \in [pc : {"idle", "conflicts", "apply", "withdraw"}, asker : Askers, again : BOOLEAN]

FlagTypes ==
    /\ member \in BOOLEAN /\ wired \in BOOLEAN
    /\ tun \in BOOLEAN /\ up \in BOOLEAN /\ restarting \in BOOLEAN
    /\ failed \in BOOLEAN /\ refused \in BOOLEAN

CountTypes == commands \in Nat /\ faults \in Nat

LEMMA Parts == TypeOK <=> BoxTypes /\ OwnTypes /\ FlagTypes /\ CountTypes
BY DEF TypeOK, BoxTypes, OwnTypes, FlagTypes, CountTypes, Answers

\* What the head of a mailbox is made of.
LEMMA HeadTypes ==
    ASSUME TypeOK
    PROVE  /\ dbox # <<>> => /\ Request \in PlaneMsgs /\ Request.asker \in Askers
                             /\ Tail(dbox) \in Seq(PlaneMsgs)
           /\ rbox # <<>> => /\ Head(rbox) \in RouteMsgs /\ Tail(rbox) \in Seq(RouteMsgs)
                             /\ Head(rbox).asker \in Askers /\ Head(rbox).desired \in Versions
                             /\ Head(rbox).version \in SUBSET Versions
<1>1. rbox \in Seq(RouteMsgs) /\ dbox \in Seq(PlaneMsgs)
  BY DEF TypeOK
<1>2. dbox # <<>> => Head(dbox) \in PlaneMsgs /\ Tail(dbox) \in Seq(PlaneMsgs)
  BY <1>1
<1>3. rbox # <<>> => Head(rbox) \in RouteMsgs /\ Tail(rbox) \in Seq(RouteMsgs)
  BY <1>1
<1>4. \A q \in PlaneMsgs : q.asker \in Askers
  BY DEF PlaneMsgs
<1>5. \A q \in RouteMsgs : q.asker \in Askers /\ q.desired \in Versions /\ q.version \in SUBSET Versions
  BY DEF RouteMsgs
<1> QED
  BY <1>2, <1>3, <1>4, <1>5 DEF Request

\* One step keeps the mailboxes and the answers in their types ...
LEMMA BoxStep == TypeOK /\ [Next]_vars => BoxTypes'
<1> SUFFICES ASSUME TypeOK, [Next]_vars PROVE BoxTypes'
  OBVIOUS
<1>a. BoxTypes /\ OwnTypes
  BY Parts
<1>b. "control" \in Askers /\ "plane" \in Askers /\ "nobody" \in Askers /\ plane.asker \in Askers
  BY <1>a DEF Askers, OwnTypes
<1>c. 0 \in Versions /\ cache \in Versions /\ (rev < MaxVersion => rev + 1 \in Versions)
  BY <1>a DEF OwnTypes, Versions
<1>d. /\ [answered EXCEPT !.control = "none"] \in Answers
      /\ [answered EXCEPT !.plane = "none"] \in Answers
  BY <1>a DEF BoxTypes, Answers
<1>e. /\ Append(rbox, Clear("control")) \in Seq(RouteMsgs)
      /\ Append(rbox, Clear("plane")) \in Seq(RouteMsgs)
      /\ Append(rbox, Bare("KernelRoutesChanged", "nobody")) \in Seq(RouteMsgs)
      /\ Append(rbox, Bare("GetKernelRoutes", "plane")) \in Seq(RouteMsgs)
      /\ Append(rbox, Apply({}, cache, "plane")) \in Seq(RouteMsgs)
  BY <1>b, <1>c, AskTypes
<1>f. rev < MaxVersion => Append(rbox, Apply({rev + 1}, rev + 1, "control")) \in Seq(RouteMsgs)
  BY <1>b, <1>c, AskTypes
<1>g. \A op \in {"BringUp", "BringDown"} :
         /\ Append(dbox, [op |-> op, asker |-> "control"]) \in Seq(PlaneMsgs)
         /\ Append(dbox, [op |-> op, asker |-> "nobody"]) \in Seq(PlaneMsgs)
  BY <1>b, AskTypes
<1>h. Abandon("control") \in Seq(RouteMsgs) /\ Abandon("plane") \in Seq(RouteMsgs)
  BY <1>b, AbandonKeeps
<1>i. Append(Abandon("plane"), Clear("plane")) \in Seq(RouteMsgs)
  <2>1. Clear("plane") \in RouteMsgs
    BY <1>b, <1>c DEF Clear, Bare, RouteMsgs
  <2> QED
    BY <1>h, <2>1
<1>j. \A a \in Askers, r \in {"ok", "error"} : Answer(a, r) \in Answers
  BY <1>a, AnswerTo DEF BoxTypes
<1>k. \A x \in {"ok", "error"} : [Answer(plane.asker, x) EXCEPT !.plane = "none"] \in Answers
  <2>1. \A x \in {"ok", "error"} : Answer(plane.asker, x) \in Answers
    BY <1>b, <1>j
  <2> QED
    BY <2>1 DEF Answers
<1>1. CASE TakeSnapshot
  BY <1>1, <1>a, <1>f DEF TakeSnapshot, BoxTypes, AskRoute
<1>2. ASSUME NEW save \in BOOLEAN, TakeAbsence(save) PROVE BoxTypes'
  BY <1>2, <1>a, <1>e DEF TakeAbsence, BoxTypes, AskRoute
<1>3. CASE RoutesAnswered
  BY <1>3, <1>a, <1>d, <1>g DEF RoutesAnswered, BoxTypes, AskPlane
<1>4. CASE RoutesTimeOut
  BY <1>4, <1>a, <1>g, <1>h DEF RoutesTimeOut, BoxTypes, AskPlane
<1>5. CASE PlaneAnswered
  BY <1>5, <1>a, <1>d DEF PlaneAnswered, BoxTypes
<1>6. CASE NothingToDo
  BY <1>6, <1>a, <1>j, HeadTypes DEF NothingToDo, Ready, BoxTypes
<1>7. CASE DirectConflicts \/ BringDown
  BY <1>7, <1>a, <1>e, HeadTypes DEF DirectConflicts, BringDown, Ready, BoxTypes, AskRoute
<1>71. CASE BuildTun \/ TunFails
  BY <1>71, <1>a, <1>d, <1>e DEF BuildTun, TunFails, BoxTypes, AskRoute
<1>8. CASE RoutesUp \/ Refuse
  BY <1>8, <1>a, <1>k DEF RoutesUp, Refuse, BoxTypes
<1>9. CASE RoutesFail
  BY <1>9, <1>a, <1>d, <1>e, <1>i DEF RoutesFail, BoxTypes, AskRoute
<1>10. CASE TakeRestart
  BY <1>10, <1>a, <1>e DEF TakeRestart, BoxTypes, AskRoute
<1>11. CASE Withdrawn
  BY <1>11, <1>a, <1>g, <1>h, <1>k DEF Withdrawn, BoxTypes, AskPlane
<1>12. CASE ApplyDesired \/ ApplyFails \/ ClearRoutes \/ ClearFails \/ ListRoutes
  BY <1>12, <1>a, <1>j, HeadTypes
     DEF ApplyDesired, ApplyFails, ClearRoutes, ClearFails, ListRoutes, BoxTypes
<1>13. CASE ReconcileLast \/ ReconcileFails
  BY <1>13, <1>a, HeadTypes DEF ReconcileLast, ReconcileFails, BoxTypes
<1>14. CASE KernelChanges
  BY <1>14, <1>a, <1>e DEF KernelChanges, BoxTypes, AskRoute
<1>15. CASE RouteRestarts \/ ControlRestarts \/ OutboundEnds
  BY <1>15, <1>a DEF RouteRestarts, ControlRestarts, OutboundEnds, BoxTypes
<1>16. ASSUME NEW op \in {"BringUp", "BringDown"}, Command(op) PROVE BoxTypes'
  BY <1>16, <1>a, <1>g DEF Command, BoxTypes, AskPlane
<1>17. CASE UNCHANGED vars
  BY <1>17, <1>a DEF vars, BoxTypes
<1> QED
  BY <1>1, <1>2, <1>3, <1>4, <1>5, <1>6, <1>7, <1>71, <1>8, <1>9, <1>10, <1>11, <1>12, <1>13,
     <1>14, <1>15, <1>16, <1>17 DEF Next, ControlStep, PlaneStep, RouteStep

\* ... and what each actor keeps in its own.
LEMMA OwnStep == TypeOK /\ [Next]_vars => OwnTypes'
<1> SUFFICES ASSUME TypeOK, [Next]_vars PROVE OwnTypes'
  OBVIOUS
<1>a. OwnTypes
  BY Parts
<1>b. Idle \in [pc : {"idle", "routes", "up", "clear", "down"}, save : BOOLEAN]
  BY DEF Idle
<1>c. /\ Resting \in [pc : {"idle", "conflicts", "apply", "withdraw"}, asker : Askers, again : BOOLEAN]
      /\ "nobody" \in Askers /\ plane.asker \in Askers
  BY <1>a DEF Resting, Askers, OwnTypes
<1>d. 0 \in Versions /\ (rev < MaxVersion => rev + 1 \in Versions)
  BY <1>a DEF OwnTypes, Versions
<1>1. CASE TakeSnapshot
  <2>1. [pc |-> "routes", save |-> TRUE] \in
            [pc : {"idle", "routes", "up", "clear", "down"}, save : BOOLEAN]
    OBVIOUS
  <2>2. rev' \in Versions /\ cache' \in Versions
    BY <1>1, <1>a, <1>d DEF TakeSnapshot, OwnTypes
  <2>3. control' \in [pc : {"idle", "routes", "up", "clear", "down"}, save : BOOLEAN]
    BY <1>1, <1>a, <2>1, Zenon DEF TakeSnapshot, OwnTypes
  <2> QED
    BY <1>1, <1>a, <2>2, <2>3 DEF TakeSnapshot, OwnTypes, route
<1>2. ASSUME NEW save \in BOOLEAN, TakeAbsence(save) PROVE OwnTypes'
  <2>1. [pc |-> "clear", save |-> save] \in
            [pc : {"idle", "routes", "up", "clear", "down"}, save : BOOLEAN]
    BY <1>2
  <2>2. rev' \in Versions /\ cache' \in Versions
    BY <1>2, <1>a, <1>d DEF TakeAbsence, OwnTypes
  <2>3. control' \in [pc : {"idle", "routes", "up", "clear", "down"}, save : BOOLEAN]
    BY <1>2, <1>a, <2>1, Zenon DEF TakeAbsence, OwnTypes
  <2> QED
    BY <1>2, <1>a, <2>2, <2>3 DEF TakeAbsence, OwnTypes, route
<1>3. CASE RoutesAnswered \/ RoutesTimeOut
  BY <1>3, <1>a DEF RoutesAnswered, RoutesTimeOut, OwnTypes, server, route
<1>4. CASE PlaneAnswered
  BY <1>4, <1>a, <1>b, <1>d DEF PlaneAnswered, OwnTypes, server, route
<1>5. CASE ControlRestarts \/ OutboundEnds
  BY <1>5, <1>a DEF ControlRestarts, OutboundEnds, OwnTypes, server, route
<1>6. CASE NothingToDo
  BY <1>6, <1>a DEF NothingToDo, OwnTypes, server, route
<1>7. CASE DirectConflicts \/ BringDown
  <2>1. Request.asker \in Askers
    BY <1>7, HeadTypes DEF DirectConflicts, BringDown, Ready
  <2>2. \A pc \in {"conflicts", "withdraw"} :
            [pc |-> pc, asker |-> Request.asker, again |-> FALSE] \in
            [pc : {"idle", "conflicts", "apply", "withdraw"}, asker : Askers, again : BOOLEAN]
    BY <2>1
  <2>3. plane' \in [pc : {"idle", "conflicts", "apply", "withdraw"}, asker : Askers, again : BOOLEAN]
    BY <1>7, <2>2, Zenon DEF DirectConflicts, BringDown, Withdraw
  <2>4. UNCHANGED <<rev, cache, control, mark, desired, owned>>
    BY <1>7 DEF DirectConflicts, BringDown, server, route
  <2> QED
    BY <1>a, <2>3, <2>4 DEF OwnTypes
<1>71. CASE BuildTun
  BY <1>71, <1>a DEF BuildTun, OwnTypes, server, route
<1>72. CASE TunFails
  BY <1>72, <1>a, <1>c DEF TunFails, Withdraw, OwnTypes, server, route
<1>8. CASE RoutesUp \/ Refuse
  BY <1>8, <1>a, <1>c DEF RoutesUp, Refuse, OwnTypes, server, route
<1>9. CASE RoutesFail
  BY <1>9, <1>a, <1>c DEF RoutesFail, Withdraw, OwnTypes, server, route
<1>10. CASE TakeRestart
  BY <1>10, <1>a, <1>c DEF TakeRestart, Withdraw, OwnTypes, server, route
<1>11. CASE Withdrawn
  BY <1>11, <1>a, <1>c DEF Withdrawn, OwnTypes, server, route
<1>12. CASE ApplyDesired
  BY <1>12, <1>a, HeadTypes DEF ApplyDesired, OwnTypes, server, route
<1>121. CASE ApplyFails
  BY <1>121, <1>a, <1>d, HeadTypes DEF ApplyFails, OwnTypes, server
<1>13. CASE ClearRoutes \/ ClearFails \/ KernelChanges \/ RouteRestarts
  BY <1>13, <1>a, <1>d DEF ClearRoutes, ClearFails, KernelChanges, RouteRestarts, OwnTypes, server
<1>131. CASE ListRoutes
  BY <1>131, <1>a DEF ListRoutes, OwnTypes, server, route
<1>14. CASE ReconcileLast \/ ReconcileFails
  BY <1>14, <1>a, <1>d DEF ReconcileLast, ReconcileFails, OwnTypes, server
<1>15. ASSUME NEW op \in {"BringUp", "BringDown"}, Command(op) PROVE OwnTypes'
  BY <1>15, <1>a DEF Command, OwnTypes, server, route
<1>16. CASE UNCHANGED vars
  BY <1>16, <1>a DEF vars, OwnTypes
<1> QED
  BY <1>1, <1>2, <1>3, <1>4, <1>5, <1>6, <1>7, <1>71, <1>72, <1>8, <1>9, <1>10, <1>11, <1>12,
     <1>121, <1>13, <1>131, <1>14, <1>15, <1>16 DEF Next, ControlStep, PlaneStep, RouteStep

LEMMA FlagStep == FlagTypes /\ [Next]_vars => FlagTypes'
<1> SUFFICES ASSUME FlagTypes, [Next]_vars PROVE FlagTypes'
  OBVIOUS
<1> USE DEF FlagTypes, server, route
<1>1. CASE TakeSnapshot \/ \E save \in BOOLEAN : TakeAbsence(save)
  BY <1>1, Zenon DEF TakeSnapshot, TakeAbsence
<1>2. CASE ControlStep \/ ControlRestarts
  BY <1>2, Zenon DEF ControlStep, RoutesAnswered, RoutesTimeOut, PlaneAnswered, ControlRestarts
<1>3. CASE NothingToDo \/ DirectConflicts \/ BuildTun \/ TunFails \/ RoutesUp
  BY <1>3, Zenon DEF NothingToDo, DirectConflicts, BuildTun, TunFails, RoutesUp, Withdraw
<1>4. CASE Refuse \/ RoutesFail \/ BringDown \/ TakeRestart \/ Withdrawn \/ OutboundEnds
  BY <1>4, Zenon DEF Refuse, RoutesFail, BringDown, TakeRestart, Withdrawn, OutboundEnds, Withdraw
<1>5. CASE ApplyDesired
  <2>1. failed' \in BOOLEAN
    BY <1>5 DEF ApplyDesired
  <2> QED
    BY <1>5, <2>1, Zenon DEF ApplyDesired
<1>6. CASE ApplyFails \/ ClearRoutes \/ ClearFails \/ ListRoutes
  BY <1>6, Zenon DEF ApplyFails, ClearRoutes, ClearFails, ListRoutes
<1>7. CASE ReconcileLast \/ ReconcileFails \/ KernelChanges \/ RouteRestarts
  BY <1>7, Zenon DEF ReconcileLast, ReconcileFails, KernelChanges, RouteRestarts
<1>8. CASE (\E op \in {"BringUp", "BringDown"} : Command(op)) \/ UNCHANGED vars
  BY <1>8, Zenon DEF Command, vars
<1> QED
  BY <1>1, <1>2, <1>3, <1>4, <1>5, <1>6, <1>7, <1>8 DEF Next, PlaneStep, RouteStep

LEMMA CountStep == CountTypes /\ [Next]_vars => CountTypes'
<1> SUFFICES ASSUME CountTypes, [Next]_vars PROVE CountTypes'
  OBVIOUS
<1>1. \/ UNCHANGED <<commands, faults>>
      \/ faults' = faults + 1 /\ UNCHANGED commands
      \/ commands' = commands + 1 /\ UNCHANGED faults
  <2> USE DEF Fault
  <2>1. CASE TakeSnapshot \/ \E save \in BOOLEAN : TakeAbsence(save)
    BY <2>1, Zenon DEF TakeSnapshot, TakeAbsence
  <2>2. CASE ControlStep \/ ControlRestarts
    BY <2>2, Zenon DEF ControlStep, RoutesAnswered, RoutesTimeOut, PlaneAnswered, ControlRestarts
  <2>3. CASE NothingToDo \/ DirectConflicts \/ Refuse \/ BuildTun \/ TunFails \/ RoutesUp
    BY <2>3, Zenon DEF NothingToDo, DirectConflicts, Refuse, BuildTun, TunFails, RoutesUp
  <2>4. CASE RoutesFail \/ BringDown \/ TakeRestart \/ Withdrawn \/ OutboundEnds
    BY <2>4, Zenon DEF RoutesFail, BringDown, TakeRestart, Withdrawn, OutboundEnds
  <2>5. CASE RouteStep \/ KernelChanges \/ RouteRestarts
    BY <2>5, Zenon
       DEF RouteStep, ApplyDesired, ApplyFails, ClearRoutes, ClearFails, ListRoutes, ReconcileLast,
           ReconcileFails, KernelChanges, RouteRestarts
  <2>6. CASE (\E op \in {"BringUp", "BringDown"} : Command(op)) \/ UNCHANGED vars
    BY <2>6, Zenon DEF Command, vars
  <2> QED
    BY <2>1, <2>2, <2>3, <2>4, <2>5, <2>6 DEF Next, PlaneStep
<1> QED
  BY <1>1 DEF CountTypes

LEMMA TypeStep == TypeOK /\ [Next]_vars => TypeOK'
<1>1. (TypeOK <=> BoxTypes /\ OwnTypes /\ FlagTypes /\ CountTypes)'
  BY DEF TypeOK, BoxTypes, OwnTypes, FlagTypes, CountTypes, Answers
<1> QED
  BY <1>1, Parts, BoxStep, OwnStep, FlagStep, CountStep

LEMMA TypeInit == Init => TypeOK
<1> SUFFICES ASSUME Init PROVE TypeOK
  OBVIOUS
<1>1. 0 \in Versions /\ 1 \in Versions
  BY DEF Versions
<1>2. BoxTypes
  <2>1. [op |-> "BringUp", asker |-> "nobody"] \in PlaneMsgs
    BY DEF PlaneMsgs, Askers
  <2> QED
    BY <2>1 DEF Init, BoxTypes, Answers
<1>3. OwnTypes
  BY <1>1 DEF Init, OwnTypes, Idle, Resting, Askers
<1>4. FlagTypes /\ CountTypes
  BY DEF Init, FlagTypes, CountTypes
<1> QED
  BY <1>2, <1>3, <1>4, Parts

\* AgentPlane keeps its types: among others, no version is asked for that no
\* message of the server had.
THEOREM PlaneTypes == Spec => []TypeOK
BY TypeInit, TypeStep, PTL DEF Spec

-----------------------------------------------------------------------------
\* Mailboxes as sequences: what they hold after a message is sent or taken.

LEMMA Appended ==
    ASSUME NEW S, NEW q \in Seq(S), NEW m \in S
    PROVE  /\ Len(q) \in Nat /\ DOMAIN q = 1..Len(q) /\ DOMAIN Append(q, m) = 1..(Len(q) + 1)
           /\ \A i \in 1..Len(q) : Append(q, m)[i] = q[i]
           /\ Append(q, m)[Len(q) + 1] = m
  OBVIOUS

LEMMA Popped ==
    ASSUME NEW S, NEW q \in Seq(S), q # <<>>
    PROVE  /\ Len(q) \in Nat /\ Len(q) >= 1 /\ DOMAIN q = 1..Len(q)
           /\ DOMAIN Tail(q) = 1..(Len(q) - 1)
           /\ \A i \in 1..(Len(q) - 1) : Tail(q)[i] = q[i + 1]
           /\ Head(q) = q[1]
<1>1. Tail(q) \in Seq(S) /\ Len(Tail(q)) = Len(q) - 1
  OBVIOUS
<1> QED
  BY <1>1

LEMMA AskedAppend ==
    ASSUME NEW S, NEW q \in Seq(S), NEW m \in S
    PROVE  /\ Asked(Append(q, m)) <=> Asked(q) \/ m.asker = "control"
           /\ \A op : AskedFor(Append(q, m), op) <=>
                         AskedFor(q, op) \/ (m.asker = "control" /\ m.op = op)
           /\ AskedOnce(q) /\ (m.asker = "control" => ~Asked(q)) => AskedOnce(Append(q, m))
<1> DEFINE p == Append(q, m)
<1>1. /\ Len(q) \in Nat /\ DOMAIN q = 1..Len(q) /\ DOMAIN p = 1..(Len(q) + 1)
      /\ \A i \in 1..Len(q) : p[i] = q[i]
      /\ p[Len(q) + 1] = m
  BY Appended
<1> HIDE DEF p
<1>2. Asked(p) <=> Asked(q) \/ m.asker = "control"
  BY <1>1 DEF Asked
<1>3. ASSUME NEW op
      PROVE  AskedFor(p, op) <=> AskedFor(q, op) \/ (m.asker = "control" /\ m.op = op)
  BY <1>1 DEF AskedFor
<1>4. AskedOnce(q) /\ (m.asker = "control" => ~Asked(q)) => AskedOnce(p)
  BY <1>1 DEF AskedOnce, Asked
<1> QED
  BY <1>2, <1>3, <1>4 DEF p

LEMMA AskedTail ==
    ASSUME NEW S, NEW q \in Seq(S), q # <<>>
    PROVE  /\ Asked(Tail(q)) => Asked(q)
           /\ \A op : AskedFor(Tail(q), op) => AskedFor(q, op)
           /\ Head(q).asker = "control" => Asked(q) /\ AskedFor(q, Head(q).op)
           /\ AskedOnce(q) => AskedOnce(Tail(q))
           /\ AskedOnce(q) /\ Head(q).asker = "control" => ~Asked(Tail(q))
<1> DEFINE p == Tail(q)
<1>1. /\ Len(q) \in Nat /\ Len(q) >= 1 /\ DOMAIN q = 1..Len(q) /\ DOMAIN p = 1..(Len(q) - 1)
      /\ \A i \in 1..(Len(q) - 1) : p[i] = q[i + 1]
      /\ Head(q) = q[1]
  BY Popped
<1> HIDE DEF p
<1>2. \A i \in DOMAIN p : i + 1 \in DOMAIN q /\ i \in Nat /\ p[i] = q[i + 1]
  BY <1>1
<1>3. Asked(p) => Asked(q)
  BY <1>2 DEF Asked
<1>4. ASSUME NEW op PROVE AskedFor(p, op) => AskedFor(q, op)
  BY <1>2 DEF AskedFor
<1>5. Head(q).asker = "control" => Asked(q) /\ AskedFor(q, Head(q).op)
  BY <1>1 DEF Asked, AskedFor
<1>6. AskedOnce(q) => AskedOnce(p)
  BY <1>2 DEF AskedOnce
<1>7. AskedOnce(q) /\ Head(q).asker = "control" => ~Asked(p)
  <2> SUFFICES ASSUME AskedOnce(q), Head(q).asker = "control", NEW i \in DOMAIN p,
                      p[i].asker = "control"
               PROVE  FALSE
    BY DEF Asked
  <2>1. 1 \in DOMAIN q /\ i + 1 \in DOMAIN q /\ q[1].asker = "control" /\ q[i + 1].asker = "control"
    BY <1>1, <1>2
  <2>2. 1 = i + 1
    BY <2>1 DEF AskedOnce
  <2> QED
    BY <1>1, <2>2
<1> QED
  BY <1>3, <1>4, <1>5, <1>6, <1>7 DEF p

\* An asker that gives up leaves none of its requests, and the others'.
LEMMA AskedAbandon ==
    ASSUME TypeOK
    PROVE  /\ ~Asked(Abandon("control"))
           /\ Asked(Abandon("plane")) => Asked(rbox)
           /\ AskedOnce(rbox) => AskedOnce(Abandon("control")) /\ AskedOnce(Abandon("plane"))
<1>1. "control" \in Askers /\ "plane" \in Askers
  BY DEF Askers
<1>2. \A a \in Askers :
         /\ DOMAIN Abandon(a) = 1..Len(rbox)
         /\ \A i \in 1..Len(rbox) :
               Abandon(a)[i].asker = IF rbox[i].asker = a THEN "nobody" ELSE rbox[i].asker
  BY AbandonKeeps DEF Abandon
<1>3. DOMAIN rbox = 1..Len(rbox)
  BY DEF TypeOK
<1>4. ~Asked(Abandon("control"))
  BY <1>1, <1>2 DEF Asked
<1>5. Asked(Abandon("plane")) => Asked(rbox)
  BY <1>1, <1>2, <1>3 DEF Asked
<1>6. AskedOnce(rbox) => AskedOnce(Abandon("control")) /\ AskedOnce(Abandon("plane"))
  BY <1>1, <1>2, <1>3 DEF AskedOnce
<1> QED
  BY <1>4, <1>5, <1>6

LEMMA RoutesAppend ==
    ASSUME NEW q \in Seq(RouteMsgs), NEW m \in RouteMsgs, NEW d
    PROVE  /\ \A op : Pending(Append(q, m), op) <=> Pending(q, op) \/ m.op = op
           /\ Local(q) \/ (m.op = "ApplyDesiredRoutes" /\ m.version = {}) => Local(Append(q, m))
           /\ Dirty(Append(q, m), d) <=>
                 m.op = "ApplyDesiredRoutes" \/ (Dirty(q, d) /\ m.op # "ClearRoutes")
<1> DEFINE p == Append(q, m)
<1>1. /\ Len(q) \in Nat /\ DOMAIN q = 1..Len(q) /\ DOMAIN p = 1..(Len(q) + 1)
      /\ \A i \in 1..Len(q) : p[i] = q[i]
      /\ p[Len(q) + 1] = m
  BY Appended
<1> HIDE DEF p
<1>2. ASSUME NEW op PROVE Pending(p, op) <=> Pending(q, op) \/ m.op = op
  BY <1>1 DEF Pending
<1>3. Local(q) \/ (m.op = "ApplyDesiredRoutes" /\ m.version = {}) => Local(p)
  BY <1>1 DEF Local
<1>4. ASSUME m.op = "ApplyDesiredRoutes" PROVE Dirty(p, d)
  <2>1. Len(q) + 1 \in DOMAIN p /\ \A j \in DOMAIN p : ~(j > Len(q) + 1)
    BY <1>1
  <2> QED
    BY <1>1, <1>4, <2>1 DEF Dirty
<1>5. ASSUME m.op = "ClearRoutes" PROVE ~Dirty(p, d)
  <2>1. Pending(p, "ClearRoutes")
    BY <1>2, <1>5
  <2>2. ASSUME NEW i \in DOMAIN p, p[i].op = "ApplyDesiredRoutes"
        PROVE  Len(q) + 1 > i
    BY <1>1, <1>5, <2>2
  <2> QED
    BY <1>1, <1>5, <2>1, <2>2 DEF Dirty
<1>6. ASSUME m.op # "ClearRoutes", Dirty(q, d) PROVE Dirty(p, d)
  BY <1>1, <1>2, <1>6 DEF Dirty
<1>7. ASSUME m.op # "ApplyDesiredRoutes", Dirty(p, d) PROVE Dirty(q, d)
  BY <1>1, <1>2, <1>7 DEF Dirty
<1> QED
  BY <1>2, <1>3, <1>4, <1>5, <1>6, <1>7 DEF p

\* Handling the first message does not change what the whole mailbox leaves
\* desired, when the message does what its name says.
LEMMA RoutesTail ==
    ASSUME NEW q \in Seq(RouteMsgs), q # <<>>, NEW d, NEW e,
           Head(q).op = "ApplyDesiredRoutes" => e # {},
           Head(q).op = "ClearRoutes" => e = {},
           Head(q).op \in {"KernelRoutesChanged", "GetKernelRoutes"} => e = d
    PROVE  /\ \A op : Pending(q, op) <=> Pending(Tail(q), op) \/ Head(q).op = op
           /\ Dirty(Tail(q), e) <=> Dirty(q, d)
           /\ Local(q) => Local(Tail(q)) \/ Head(q).op = "ApplyDesiredRoutes"
<1> DEFINE p == Tail(q)
<1>1. /\ Len(q) \in Nat /\ Len(q) >= 1 /\ DOMAIN q = 1..Len(q) /\ DOMAIN p = 1..(Len(q) - 1)
      /\ \A i \in 1..(Len(q) - 1) : p[i] = q[i + 1]
      /\ Head(q) = q[1]
  BY Popped
<1> HIDE DEF p
<1>2. \A i \in DOMAIN p : i + 1 \in DOMAIN q /\ i \in Nat /\ p[i] = q[i + 1]
  BY <1>1
<1>3. \A i \in DOMAIN q : i = 1 \/ (i - 1 \in DOMAIN p /\ q[i] = p[i - 1] /\ i > 1 /\ i \in Nat)
  BY <1>1
<1>4. ASSUME NEW op PROVE Pending(q, op) <=> Pending(p, op) \/ Head(q).op = op
  <2>1. Pending(q, op) => Pending(p, op) \/ Head(q).op = op
    BY <1>1, <1>3 DEF Pending
  <2>2. Pending(p, op) => Pending(q, op)
    BY <1>2 DEF Pending
  <2>3. Head(q).op = op => Pending(q, op)
    BY <1>1 DEF Pending
  <2> QED
    BY <2>1, <2>2, <2>3
<1>5. Local(q) => Local(p) \/ Head(q).op = "ApplyDesiredRoutes"
  BY <1>1, <1>3 DEF Local
<1>6. Head(q).op \in {"ApplyDesiredRoutes", "ClearRoutes", "KernelRoutesChanged", "GetKernelRoutes"}
  <2>1. Head(q) \in RouteMsgs
    OBVIOUS
  <2> QED
    BY <2>1 DEF RouteMsgs
<1>7. ASSUME NEW i \in DOMAIN p, p[i].op = "ApplyDesiredRoutes",
             \A j \in DOMAIN p : j > i => p[j].op # "ClearRoutes"
      PROVE  Dirty(q, d)
  <2>1. i + 1 \in DOMAIN q /\ q[i + 1].op = "ApplyDesiredRoutes"
    BY <1>2, <1>7
  <2>2. ASSUME NEW j \in DOMAIN q, j > i + 1 PROVE q[j].op # "ClearRoutes"
    <3>1. j - 1 \in DOMAIN p /\ q[j] = p[j - 1] /\ j - 1 > i
      BY <1>2, <1>3, <2>2
    <3> QED
      BY <1>7, <3>1
  <2> QED
    BY <2>1, <2>2 DEF Dirty
<1>8. ASSUME NEW i \in DOMAIN q, i # 1, q[i].op = "ApplyDesiredRoutes",
             \A j \in DOMAIN q : j > i => q[j].op # "ClearRoutes"
      PROVE  Dirty(p, e)
  <2>1. i - 1 \in DOMAIN p /\ p[i - 1].op = "ApplyDesiredRoutes"
    BY <1>3, <1>8
  <2>2. ASSUME NEW j \in DOMAIN p, j > i - 1 PROVE p[j].op # "ClearRoutes"
    <3>1. j + 1 \in DOMAIN q /\ p[j] = q[j + 1] /\ j + 1 > i
      BY <1>2, <1>3, <1>8, <2>2
    <3> QED
      BY <1>8, <3>1
  <2> QED
    BY <2>1, <2>2 DEF Dirty
<1>9. ASSUME Head(q).op = "ApplyDesiredRoutes" PROVE Dirty(p, e) <=> Dirty(q, d)
  <2>1. 1 \in DOMAIN q /\ q[1].op = "ApplyDesiredRoutes" /\ e # {}
    BY <1>1, <1>9
  <2>2. ~Pending(p, "ClearRoutes") => Dirty(p, e) /\ Dirty(q, d)
    <3>1. ~Pending(p, "ClearRoutes") => \A j \in DOMAIN q : j > 1 => q[j].op # "ClearRoutes"
      BY <1>3 DEF Pending
    <3> QED
      BY <2>1, <3>1 DEF Dirty
  <2>3. ASSUME Dirty(q, d), Pending(p, "ClearRoutes") PROVE Dirty(p, e)
    <3>1. Pending(q, "ClearRoutes")
      BY <1>4, <2>3
    <3>2. PICK i \in DOMAIN q : /\ q[i].op = "ApplyDesiredRoutes"
                                /\ \A j \in DOMAIN q : j > i => q[j].op # "ClearRoutes"
      BY <2>3, <3>1 DEF Dirty
    <3>3. i # 1
      BY <1>2, <2>3, <3>2 DEF Pending
    <3> QED
      BY <1>8, <3>2, <3>3
  <2>4. ASSUME Dirty(p, e), Pending(p, "ClearRoutes") PROVE Dirty(q, d)
    BY <1>7, <2>4 DEF Dirty
  <2> QED
    BY <2>2, <2>3, <2>4
<1>10. ASSUME Head(q).op = "ClearRoutes" PROVE Dirty(p, e) <=> Dirty(q, d)
  <2>1. Pending(q, "ClearRoutes") /\ e = {} /\ q[1].op = "ClearRoutes"
    BY <1>1, <1>4, <1>10
  <2>2. Dirty(q, d) => Dirty(p, e)
    BY <1>8, <2>1 DEF Dirty
  <2>3. Dirty(p, e) => Dirty(q, d)
    BY <1>7, <2>1 DEF Dirty
  <2> QED
    BY <2>2, <2>3
<1>11. ASSUME Head(q).op \in {"KernelRoutesChanged", "GetKernelRoutes"}
       PROVE  Dirty(p, e) <=> Dirty(q, d)
  <2>1. e = d /\ q[1].op \in {"KernelRoutesChanged", "GetKernelRoutes"}
    BY <1>1, <1>11
  <2>2. Pending(q, "ClearRoutes") <=> Pending(p, "ClearRoutes")
    BY <1>4, <1>11
  <2>3. d # {} /\ ~Pending(q, "ClearRoutes") => Dirty(p, e) /\ Dirty(q, d)
    BY <2>1, <2>2 DEF Dirty
  <2>4. ASSUME Dirty(q, d), ~(d # {} /\ ~Pending(q, "ClearRoutes")) PROVE Dirty(p, e)
    BY <1>8, <2>1, <2>4 DEF Dirty
  <2>5. ASSUME Dirty(p, e), ~(d # {} /\ ~Pending(q, "ClearRoutes")) PROVE Dirty(q, d)
    BY <1>7, <2>1, <2>2, <2>5 DEF Dirty
  <2> QED
    BY <2>3, <2>4, <2>5
<1> QED
  BY <1>4, <1>5, <1>6, <1>9, <1>10, <1>11 DEF p

\* Giving up a request leaves what the mailbox does as it was.
LEMMA RoutesAbandon ==
    ASSUME TypeOK, NEW a \in Askers
    PROVE  /\ \A op : Pending(Abandon(a), op) <=> Pending(rbox, op)
           /\ Dirty(Abandon(a), desired) <=> Dirty(rbox, desired)
           /\ Local(Abandon(a)) <=> Local(rbox)
<1> DEFINE p == Abandon(a)
<1>1. /\ DOMAIN p = DOMAIN rbox
      /\ \A i \in DOMAIN rbox : p[i].op = rbox[i].op /\ p[i].version = rbox[i].version
  <2>1. DOMAIN p = 1..Len(rbox) /\ DOMAIN rbox = 1..Len(rbox)
    BY DEF TypeOK, Abandon
  <2> QED
    BY <2>1, AbandonKeeps
<1> HIDE DEF p
<1>2. ASSUME NEW op PROVE Pending(p, op) <=> Pending(rbox, op)
  BY <1>1 DEF Pending
<1>3. Dirty(p, desired) <=> Dirty(rbox, desired)
  BY <1>1, <1>2 DEF Dirty
<1>4. Local(p) <=> Local(rbox)
  BY <1>1 DEF Local
<1> QED
  BY <1>2, <1>3, <1>4 DEF p

LEMMA VersionsAppend ==
    ASSUME NEW q \in Seq(RouteMsgs), NEW m \in RouteMsgs, NEW r \in Nat, NEW t \in Nat, r <= t,
           Sorted(q), Bounded(q, r), \A w \in m.version : r <= w /\ w <= t
    PROVE  /\ Sorted(Append(q, m)) /\ Bounded(Append(q, m), t)
           /\ \A w \in Nat : w <= r /\ Later(q, w) => Later(Append(q, m), w)
<1> DEFINE p == Append(q, m)
<1>1. /\ Len(q) \in Nat /\ DOMAIN q = 1..Len(q) /\ DOMAIN p = 1..(Len(q) + 1)
      /\ \A i \in 1..Len(q) : p[i] = q[i]
      /\ p[Len(q) + 1] = m
  BY Appended
<1> HIDE DEF p
<1>0. \A x \in RouteMsgs : x.version \subseteq Nat
  BY DEF RouteMsgs, Versions
<1>2. \A i \in DOMAIN q : q[i].version \subseteq Nat
  <2>1. \A i \in DOMAIN q : q[i] \in RouteMsgs
    BY <1>1
  <2> QED
    BY <1>0, <2>1
<1>3. m.version \subseteq Nat
  BY <1>0
<1>4. Sorted(p)
  <2> SUFFICES ASSUME NEW i \in DOMAIN p, NEW j \in DOMAIN p, i < j,
                      NEW v \in p[i].version, NEW w \in p[j].version
               PROVE  v <= w
    BY DEF Sorted
  <2>1. i \in DOMAIN q /\ p[i] = q[i]
    BY <1>1
  <2>2. CASE j \in DOMAIN q
    BY <1>1, <2>1, <2>2 DEF Sorted
  <2>3. CASE j = Len(q) + 1
    <3>1. v \in Nat /\ v <= r /\ w \in Nat /\ r <= w
      BY <1>1, <1>2, <1>3, <2>1, <2>3 DEF Bounded
    <3> QED
      BY <3>1
  <2> QED
    BY <1>1, <2>2, <2>3
<1>5. Bounded(p, t)
  <2> SUFFICES ASSUME NEW i \in DOMAIN p, NEW v \in p[i].version PROVE v <= t
    BY DEF Bounded
  <2>1. CASE i \in DOMAIN q
    <3>1. v \in Nat /\ v <= r
      BY <1>1, <1>2, <2>1 DEF Bounded
    <3> QED
      BY <3>1
  <2> QED
    BY <1>1, <2>1
<1>6. ASSUME NEW w \in Nat, w <= r, Later(q, w) PROVE Later(p, w)
  <2> SUFFICES ASSUME NEW i \in DOMAIN p, NEW v \in p[i].version PROVE w <= v
    BY DEF Later
  <2>1. CASE i \in DOMAIN q
    BY <1>1, <1>6, <2>1 DEF Later
  <2>2. CASE i = Len(q) + 1
    <3>1. v \in Nat /\ r <= v
      BY <1>1, <1>3, <2>2
    <3> QED
      BY <1>6, <3>1
  <2> QED
    BY <1>1, <2>1, <2>2
<1> QED
  BY <1>4, <1>5, <1>6 DEF p

LEMMA BoundedUp ==
    ASSUME NEW q \in Seq(RouteMsgs), NEW r \in Nat, Bounded(q, r)
    PROVE  Bounded(q, r + 1)
<1>1. \A i \in DOMAIN q : q[i] \in RouteMsgs
  OBVIOUS
<1>2. \A x \in RouteMsgs : x.version \subseteq Nat
  BY DEF RouteMsgs, Versions
<1>3. \A i \in DOMAIN q : \A v \in q[i].version : v \in Nat /\ v <= r
  BY <1>1, <1>2 DEF Bounded
<1> QED
  BY <1>3 DEF Bounded

LEMMA VersionsTail ==
    ASSUME NEW q \in Seq(RouteMsgs), q # <<>>, Sorted(q)
    PROVE  /\ Sorted(Tail(q))
           /\ \A r : Bounded(q, r) => Bounded(Tail(q), r) /\ \A v \in Head(q).version : v <= r
           /\ \A w : Later(q, w) => Later(Tail(q), w) /\ \A v \in Head(q).version : w <= v
           /\ \A v \in Head(q).version : Later(Tail(q), v)
<1> DEFINE p == Tail(q)
<1>1. /\ Len(q) \in Nat /\ Len(q) >= 1 /\ DOMAIN q = 1..Len(q) /\ DOMAIN p = 1..(Len(q) - 1)
      /\ \A i \in 1..(Len(q) - 1) : p[i] = q[i + 1]
      /\ Head(q) = q[1]
  BY Popped
<1> HIDE DEF p
<1>2. \A i \in DOMAIN p : i + 1 \in DOMAIN q /\ 1 < i + 1 /\ i \in Nat /\ p[i] = q[i + 1]
  BY <1>1
<1>3. 1 \in DOMAIN q /\ Head(q) = q[1]
  BY <1>1
<1>4. Sorted(p)
  BY <1>2 DEF Sorted
<1>5. ASSUME NEW r, Bounded(q, r) PROVE Bounded(p, r) /\ \A v \in Head(q).version : v <= r
  BY <1>2, <1>3, <1>5 DEF Bounded
<1>6. ASSUME NEW w, Later(q, w) PROVE Later(p, w) /\ \A v \in Head(q).version : w <= v
  BY <1>2, <1>3, <1>6 DEF Later
<1>7. \A v \in Head(q).version : Later(p, v)
  BY <1>2, <1>3 DEF Later, Sorted
<1> QED
  BY <1>4, <1>5, <1>6, <1>7 DEF p

LEMMA VersionsAbandon ==
    ASSUME TypeOK, NEW a \in Askers
    PROVE  /\ Sorted(Abandon(a)) <=> Sorted(rbox)
           /\ \A r : Bounded(Abandon(a), r) <=> Bounded(rbox, r)
           /\ \A w : Later(Abandon(a), w) <=> Later(rbox, w)
<1> DEFINE p == Abandon(a)
<1>1. DOMAIN p = DOMAIN rbox /\ \A i \in DOMAIN rbox : p[i].version = rbox[i].version
  <2>1. DOMAIN p = 1..Len(rbox) /\ DOMAIN rbox = 1..Len(rbox)
    BY DEF TypeOK, Abandon
  <2> QED
    BY <2>1, AbandonKeeps
<1> HIDE DEF p
<1>2. Sorted(p) <=> Sorted(rbox)
  BY <1>1 DEF Sorted
<1>3. ASSUME NEW r PROVE Bounded(p, r) <=> Bounded(rbox, r)
  BY <1>1 DEF Bounded
<1>4. ASSUME NEW w PROVE Later(p, w) <=> Later(rbox, w)
  BY <1>1 DEF Later
<1> QED
  BY <1>2, <1>3, <1>4 DEF p

-----------------------------------------------------------------------------
\* The messages that are sent, as far as the invariant looks into them.
LEMMA Sent ==
    ASSUME NEW a \in Askers,
           NEW op \in {"ClearRoutes", "KernelRoutesChanged", "GetKernelRoutes"}
    PROVE  /\ Bare(op, a) \in RouteMsgs /\ Bare(op, a).op = op
           /\ Bare(op, a).version = {} /\ Bare(op, a).asker = a
           /\ op = "ClearRoutes" => Bare(op, a) = Clear(a)
<1>1. 0 \in Versions
  BY DEF Versions
<1> QED
  BY <1>1 DEF Clear, Bare, RouteMsgs

LEMMA DeviceStep == TypeOK /\ DeviceInv /\ [Next]_vars => DeviceInv'
<1> SUFFICES ASSUME TypeOK, DeviceInv, [Next]_vars PROVE DeviceInv'
  OBVIOUS
<1> USE DEF DeviceInv
<1>0. plane.pc \in {"idle", "conflicts", "apply", "withdraw"}
  BY DEF TypeOK
<1>1. CASE DirectConflicts \/ TunFails \/ BringDown \/ TakeRestart
  BY <1>1 DEF DirectConflicts, TunFails, BringDown, TakeRestart, Withdraw, Ready, Resting
<1>11. CASE BuildTun
  <2>1. plane'.pc = "apply" /\ tun' /\ ~up'
    BY <1>11 DEF BuildTun, Examined, TypeOK
  <2> QED
    BY <2>1
<1>12. CASE Refuse
  BY <1>12 DEF Refuse, Examined, Resting
<1>2. CASE RoutesUp \/ RoutesFail \/ Withdrawn
  BY <1>2 DEF RoutesUp, RoutesFail, Withdrawn, Withdraw, Resting
<1>3. CASE UNCHANGED <<plane, up, tun>>
  BY <1>3
<1>4. CASE NothingToDo \/ OutboundEnds \/ ControlStep \/ ControlRestarts \/ TakeSnapshot
  BY <1>3, <1>4
     DEF NothingToDo, OutboundEnds, ControlStep, RoutesAnswered, RoutesTimeOut, PlaneAnswered,
         ControlRestarts, TakeSnapshot
<1>5. CASE RouteStep \/ KernelChanges \/ RouteRestarts
  BY <1>3, <1>5
     DEF RouteStep, ApplyDesired, ApplyFails, ClearRoutes, ClearFails, ListRoutes, ReconcileLast,
         ReconcileFails, KernelChanges, RouteRestarts
<1>6. CASE (\E save \in BOOLEAN : TakeAbsence(save)) \/ (\E op \in {"BringUp", "BringDown"} : Command(op))
  BY <1>3, <1>6 DEF TakeAbsence, Command
<1> QED
  BY <1>1, <1>11, <1>12, <1>2, <1>3, <1>4, <1>5, <1>6 DEF Next, PlaneStep, vars

LEMMA VersionStep == TypeOK /\ VersionInv /\ [Next]_vars => VersionInv'
<1> SUFFICES ASSUME TypeOK, VersionInv, [Next]_vars PROVE VersionInv'
  OBVIOUS
<1>a. /\ rbox \in Seq(RouteMsgs) /\ rev \in Nat /\ rev \in Versions /\ cache \in Versions
      /\ mark \in SUBSET Nat /\ mark \in SUBSET Versions
      /\ "control" \in Askers /\ "plane" \in Askers /\ "nobody" \in Askers /\ 0 \in Versions
  BY DEF TypeOK, Versions, Askers
<1>b. ASSUME NEW m \in RouteMsgs, NEW q \in Seq(RouteMsgs), m.version = {}, Sorted(q),
             Bounded(q, rev), \A w \in mark : Later(q, w),
             rbox' = Append(q, m), UNCHANGED <<rev, mark>>
      PROVE  VersionInv'
  <2>1. /\ Sorted(Append(q, m)) /\ Bounded(Append(q, m), rev)
        /\ \A w \in Nat : w <= rev /\ Later(q, w) => Later(Append(q, m), w)
    BY <1>a, <1>b, VersionsAppend
  <2> QED
    BY <1>a, <1>b, <2>1 DEF VersionInv
<1>c. ASSUME NEW m \in RouteMsgs, m.version = {}, rbox' = Append(rbox, m), UNCHANGED <<rev, mark>>
      PROVE  VersionInv'
  BY <1>a, <1>b, <1>c DEF VersionInv
<1>d. ASSUME UNCHANGED <<rbox, rev, mark>> PROVE VersionInv'
  BY <1>d DEF VersionInv
<1>e. ASSUME NEW a \in Askers, rbox' = Abandon(a), UNCHANGED <<rev, mark>> PROVE VersionInv'
  BY <1>e, VersionsAbandon DEF VersionInv
<1>1. CASE TakeSnapshot
  <2>1. CASE wired
    <3> DEFINE m == Apply({rev + 1}, rev + 1, "control")
    <3>1. rev + 1 \in Versions /\ rev' = rev + 1 /\ rbox' = Append(rbox, m) /\ mark' = mark
      BY <1>1, <1>a, <2>1 DEF TakeSnapshot, AskRoute, Versions, route
    <3>2. m \in RouteMsgs /\ m.version = {rev + 1}
      <4>1. {rev + 1} \in SUBSET Versions
        BY <3>1
      <4> QED
        BY <1>a, <3>1, <4>1 DEF Apply, RouteMsgs
    <3> HIDE DEF m
    <3>3. rev + 1 \in Nat /\ rev <= rev + 1 /\ \A w \in m.version : rev <= w /\ w <= rev + 1
      BY <1>a, <3>2
    <3>4. /\ Sorted(Append(rbox, m)) /\ Bounded(Append(rbox, m), rev + 1)
          /\ \A w \in Nat : w <= rev /\ Later(rbox, w) => Later(Append(rbox, m), w)
      BY <1>a, <3>2, <3>3, VersionsAppend DEF VersionInv
    <3>5. \A w \in mark : w <= rev + 1
      BY <1>a DEF VersionInv
    <3> QED
      BY <1>a, <3>1, <3>4, <3>5 DEF VersionInv
  <2>2. CASE ~wired
    <3>1. rev' = rev + 1 /\ rbox' = rbox /\ mark' = mark
      BY <1>1, <2>2 DEF TakeSnapshot, route
    <3>3. Bounded(rbox, rev + 1) /\ \A w \in mark : w <= rev + 1
      BY <1>a, BoundedUp DEF VersionInv
    <3> QED
      BY <3>1, <3>3 DEF VersionInv
  <2> QED
    BY <2>1, <2>2
<1>2. ASSUME NEW save \in BOOLEAN, TakeAbsence(save) PROVE VersionInv'
  <2>1. rev' = rev + 1 /\ mark' = mark
    BY <1>2 DEF TakeAbsence, route
  <2>2. rbox' = rbox \/ rbox' = Append(rbox, Clear("control"))
    BY <1>2 DEF TakeAbsence, AskRoute
  <2>3. Clear("control") \in RouteMsgs /\ Clear("control").version = {}
    BY <1>a, Sent
  <2>4. /\ Sorted(Append(rbox, Clear("control"))) /\ Bounded(Append(rbox, Clear("control")), rev)
        /\ \A w \in Nat : w <= rev /\ Later(rbox, w) => Later(Append(rbox, Clear("control")), w)
    BY <1>a, <2>3, VersionsAppend DEF VersionInv
  <2>5. \A w \in mark : w \in Nat /\ w <= rev /\ w <= rev + 1 /\ Later(rbox, w)
    BY <1>a DEF VersionInv
  <2>6. CASE rbox' = rbox
    BY <1>a, <2>1, <2>5, <2>6, BoundedUp DEF VersionInv
  <2>7. CASE rbox' = Append(rbox, Clear("control"))
    <3>1. Append(rbox, Clear("control")) \in Seq(RouteMsgs)
      BY <1>a, <2>3
    <3>2. Bounded(Append(rbox, Clear("control")), rev + 1)
      BY <1>a, <2>4, <3>1, BoundedUp
    <3> QED
      BY <2>1, <2>4, <2>5, <2>7, <3>2 DEF VersionInv
  <2> QED
    BY <2>2, <2>6, <2>7
<1>3. CASE RoutesTimeOut
  BY <1>3, <1>a, <1>e DEF RoutesTimeOut, server, route
<1>4. CASE BuildTun
  <2>1. Apply({}, cache, "plane") \in RouteMsgs /\ Apply({}, cache, "plane").version = {}
    BY <1>a DEF Apply, RouteMsgs
  <2>2. rbox' = Append(rbox, Apply({}, cache, "plane")) /\ UNCHANGED <<rev, mark>>
    BY <1>4 DEF BuildTun, AskRoute, server, route
  <2> QED
    BY <1>c, <2>1, <2>2
<1>41. CASE DirectConflicts
  <2> DEFINE m == Bare("GetKernelRoutes", "plane")
  <2>1. m \in RouteMsgs /\ m.version = {}
    BY <1>a, Sent
  <2>2. rbox' = Append(rbox, m) /\ UNCHANGED <<rev, mark>>
    BY <1>41 DEF DirectConflicts, AskRoute, server, route
  <2> QED
    BY <1>c, <2>1, <2>2
<1>5. CASE TunFails \/ BringDown \/ TakeRestart
  <2>1. Clear("plane") \in RouteMsgs /\ Clear("plane").version = {}
    BY <1>a, Sent
  <2>2. rbox' = Append(rbox, Clear("plane")) /\ UNCHANGED <<rev, mark>>
    BY <1>5 DEF TunFails, BringDown, TakeRestart, AskRoute, server, route
  <2> QED
    BY <1>c, <2>1, <2>2
<1>6. CASE RoutesFail
  <2>1. Clear("plane") \in RouteMsgs /\ Clear("plane").version = {}
    BY <1>a, Sent
  <2>2. UNCHANGED <<rev, mark>>
    BY <1>6 DEF RoutesFail, server, route
  <2>3. CASE rbox' = Append(rbox, Clear("plane"))
    BY <1>c, <2>1, <2>2, <2>3
  <2>4. CASE rbox' = Append(Abandon("plane"), Clear("plane"))
    <3>1. /\ Abandon("plane") \in Seq(RouteMsgs) /\ Sorted(Abandon("plane"))
          /\ Bounded(Abandon("plane"), rev) /\ \A w \in mark : Later(Abandon("plane"), w)
      BY <1>a, AbandonKeeps, VersionsAbandon DEF VersionInv
    <3> QED
      BY <1>b, <2>1, <2>2, <2>4, <3>1
  <2> QED
    BY <1>6, <2>3, <2>4 DEF RoutesFail, AskRoute
<1>7. CASE Withdrawn
  BY <1>7, <1>a, <1>d, <1>e DEF Withdrawn, server, route
<1>8. CASE RouteStep
  <2> USE DEF RouteStep, ApplyDesired, ApplyFails, ClearRoutes, ClearFails, ListRoutes,
              ReconcileLast, ReconcileFails
  <2>1. rbox # <<>> /\ rbox' = Tail(rbox) /\ rev' = rev
    BY <1>8, Zenon DEF server
  <2>2. /\ Sorted(Tail(rbox))
        /\ \A r : Bounded(rbox, r) => Bounded(Tail(rbox), r) /\ \A v \in Head(rbox).version : v <= r
        /\ \A w : Later(rbox, w) => Later(Tail(rbox), w) /\ \A v \in Head(rbox).version : w <= v
        /\ \A v \in Head(rbox).version : Later(Tail(rbox), v)
    BY <1>a, <2>1, VersionsTail DEF VersionInv
  <2>3. mark' = mark \/ mark' = Head(rbox).version
    BY <1>8, Zenon DEF route
  <2> QED
    BY <2>1, <2>2, <2>3 DEF VersionInv
<1>9. CASE KernelChanges
  <2> DEFINE m == Bare("KernelRoutesChanged", "nobody")
  <2>1. m \in RouteMsgs /\ m.version = {}
    BY <1>a, Sent
  <2>2. rbox' = Append(rbox, m) /\ UNCHANGED <<rev, mark>>
    BY <1>9 DEF KernelChanges, AskRoute, server
  <2> QED
    BY <1>c, <2>1, <2>2
<1>10. CASE RouteRestarts
  BY <1>10 DEF RouteRestarts, VersionInv, server
<1>11. CASE RoutesAnswered \/ PlaneAnswered \/ ControlRestarts \/ NothingToDo \/ Refuse \/ RoutesUp
            \/ OutboundEnds
  BY <1>11, <1>d
     DEF Refuse, RoutesAnswered, PlaneAnswered, ControlRestarts, NothingToDo, RoutesUp,
         OutboundEnds, server,
         route
<1>12. CASE (\E op \in {"BringUp", "BringDown"} : Command(op)) \/ UNCHANGED vars
  BY <1>12, <1>d DEF Command, vars, server, route
<1> QED
  BY <1>1, <1>2, <1>3, <1>4, <1>41, <1>5, <1>6, <1>7, <1>8, <1>9, <1>10, <1>11, <1>12
     DEF Next, ControlStep, PlaneStep

\* What every step below knows of the types.
Known ==
    /\ control.pc \in {"idle", "routes", "up", "clear", "down"} /\ control.save \in BOOLEAN
    /\ control = [pc |-> control.pc, save |-> control.save]
    /\ answered \in Answers
    /\ plane.pc \in {"idle", "conflicts", "apply", "withdraw"} /\ plane.asker \in Askers
    /\ "control" \in Askers /\ "plane" \in Askers /\ "nobody" \in Askers
    /\ rbox \in Seq(RouteMsgs) /\ dbox \in Seq(PlaneMsgs)
    /\ cache \in Versions /\ 0 \in Versions

LEMMA TypesKnown == TypeOK => Known
BY DEF TypeOK, Known, Answers, Askers, Versions

\* The control actor's answer after a step of the others.
LEMMA AnswerControl ==
    ASSUME answered \in Answers, NEW a \in Askers, NEW r \in {"ok", "error"}
    PROVE  /\ [Answer(a, r) EXCEPT !.plane = "none"].control =
                  IF a = "control" THEN r ELSE answered.control
           /\ [answered EXCEPT !.plane = "none"].control = answered.control
           /\ [answered EXCEPT !.control = "none"].control = "none"
<1>1. /\ Answer(a, r) \in Answers
      /\ Answer(a, r).control = IF a = "control" THEN r ELSE answered.control
  BY AnswerTo
<1>2. \A x \in Answers : [x EXCEPT !.plane = "none"].control = x.control
  BY DEF Answers
<1>3. \A x \in Answers : [x EXCEPT !.control = "none"].control = "none"
  BY DEF Answers
<1> QED
  BY <1>1, <1>2, <1>3

\* Whatever the RouteActor does with its first message, it takes no other and
\* answers nobody but who waits for it.
LEMMA RouteHandles ==
    ASSUME RouteStep
    PROVE  /\ rbox # <<>> /\ rbox' = Tail(rbox)
           /\ UNCHANGED <<control, dbox, plane, tun, up, refused, restarting>>
           /\ \/ UNCHANGED answered
              \/ \E r \in {"ok", "error"} : answered' = Answer(Head(rbox).asker, r)
<1>1. CASE ApplyDesired \/ ApplyFails
  BY <1>1 DEF ApplyDesired, ApplyFails
<1>2. CASE ClearRoutes \/ ClearFails \/ ListRoutes
  BY <1>2 DEF ClearRoutes, ClearFails, ListRoutes
<1>3. CASE ReconcileLast \/ ReconcileFails
  BY <1>3 DEF ReconcileLast, ReconcileFails
<1> QED
  BY <1>1, <1>2, <1>3 DEF RouteStep

LEMMA RequestStep == TypeOK /\ RequestInv /\ [Next]_vars => RequestInv'
<1> SUFFICES ASSUME TypeOK, RequestInv, [Next]_vars PROVE RequestInv'
  OBVIOUS
<1>a. Known
  BY TypesKnown
\* A message that the control actor does not wait for.
<1>b. ASSUME NEW q \in Seq(RouteMsgs), NEW m \in RouteMsgs, m.asker # "control"
      PROVE  /\ Asked(Append(q, m)) <=> Asked(q)
             /\ AskedOnce(q) => AskedOnce(Append(q, m))
  BY <1>b, AskedAppend
<1>c. ASSUME NEW op \in {"BringUp", "BringDown"}
      PROVE  LET p == Append(dbox, [op |-> op, asker |-> "nobody"]) IN
             /\ Asked(p) <=> Asked(dbox)
             /\ \A o : AskedFor(p, o) <=> AskedFor(dbox, o)
             /\ AskedOnce(dbox) => AskedOnce(p)
  <2> DEFINE m == [op |-> op, asker |-> "nobody"]
  <2>1. m \in PlaneMsgs /\ m.asker = "nobody"
    BY DEF PlaneMsgs, Askers
  <2> HIDE DEF m
  <2>2. /\ Asked(Append(dbox, m)) <=> Asked(dbox) \/ m.asker = "control"
        /\ \A o : AskedFor(Append(dbox, m), o) <=>
                     AskedFor(dbox, o) \/ (m.asker = "control" /\ m.op = o)
        /\ AskedOnce(dbox) /\ (m.asker = "control" => ~Asked(dbox)) => AskedOnce(Append(dbox, m))
    BY <1>a, <2>1, AskedAppend DEF Known
  <2> QED
    BY <2>1, <2>2 DEF m
<1>d. ASSUME NEW op \in {"BringUp", "BringDown"}, ~Asked(dbox)
      PROVE  LET p == Append(dbox, [op |-> op, asker |-> "control"]) IN
             /\ \A o : AskedFor(p, o) <=> o = op
             /\ AskedOnce(dbox) => AskedOnce(p)
  <2> DEFINE m == [op |-> op, asker |-> "control"]
  <2>1. m \in PlaneMsgs /\ m.asker = "control" /\ m.op = op
    BY DEF PlaneMsgs, Askers
  <2> HIDE DEF m
  <2>2. /\ \A o : AskedFor(Append(dbox, m), o) <=>
                     AskedFor(dbox, o) \/ (m.asker = "control" /\ m.op = o)
        /\ AskedOnce(dbox) /\ (m.asker = "control" => ~Asked(dbox)) => AskedOnce(Append(dbox, m))
    BY <1>a, <2>1, AskedAppend DEF Known
  <2>3. \A o : ~AskedFor(dbox, o)
    BY <1>d DEF Asked, AskedFor
  <2> QED
    BY <1>d, <2>1, <2>2, <2>3 DEF m
<1>e. Asked(dbox) => AskedFor(dbox, "BringUp") \/ AskedFor(dbox, "BringDown")
  <2>1. \A i \in DOMAIN dbox : dbox[i] \in PlaneMsgs
    BY <1>a DEF Known
  <2>2. \A x \in PlaneMsgs : x.op \in {"BringUp", "BringDown"}
    BY DEF PlaneMsgs
  <2> QED
    BY <2>1, <2>2 DEF Asked, AskedFor
<1>f. AskedFor(dbox, "BringUp") \/ AskedFor(dbox, "BringDown") => Asked(dbox)
  BY DEF Asked, AskedFor
<1>1. ASSUME control = Idle, NEW m \in RouteMsgs, m.asker = "control", rbox' = Append(rbox, m),
             control'.pc \in {"routes", "clear"}, UNCHANGED <<answered, dbox, plane>>
      PROVE  RequestInv'
  <2>1. control.pc = "idle"
    BY <1>1 DEF Idle
  <2>2. ~Asked(rbox) /\ ~Asked(dbox) /\ plane.asker # "control" /\ answered.control = "none"
    BY <1>e, <2>1 DEF RequestInv
  <2>3. AskedOnce(Append(rbox, m))
    BY <1>1, <1>a, <2>2, AskedAppend DEF Known, RequestInv
  <2> QED
    BY <1>1, <1>f, <2>2, <2>3 DEF RequestInv
<1>2. CASE TakeSnapshot
  <2>1. CASE wired
    <3> DEFINE m == Apply({rev + 1}, rev + 1, "control")
    <3>1. rev + 1 \in Versions
      BY <1>2 DEF TakeSnapshot, TypeOK, Versions
    <3>2. m \in RouteMsgs /\ m.asker = "control"
      BY <1>a, <3>1 DEF Apply, RouteMsgs, Known
    <3>3. /\ control = Idle /\ rbox' = Append(rbox, m) /\ control' = [pc |-> "routes", save |-> TRUE]
          /\ UNCHANGED <<answered, dbox, plane>>
      BY <1>2, <2>1 DEF TakeSnapshot, AskRoute
    <3> HIDE DEF m
    <3> QED
      BY <1>1, <3>2, <3>3
  <2>2. CASE ~wired
    BY <1>2, <2>2 DEF TakeSnapshot, RequestInv
  <2> QED
    BY <2>1, <2>2
<1>3. ASSUME NEW save \in BOOLEAN, TakeAbsence(save) PROVE RequestInv'
  <2>1. CASE wired
    <3>2. Clear("control") \in RouteMsgs /\ Clear("control").asker = "control"
      BY <1>a, Sent DEF Known
    <3>3. /\ control = Idle /\ rbox' = Append(rbox, Clear("control"))
          /\ control' = [pc |-> "clear", save |-> save] /\ UNCHANGED <<answered, dbox, plane>>
      BY <1>3, <2>1 DEF TakeAbsence, AskRoute
    <3> QED
      BY <1>1, <3>2, <3>3
  <2>2. CASE ~wired
    BY <1>3, <2>2 DEF TakeAbsence, RequestInv
  <2> QED
    BY <2>1, <2>2
<1>4. ASSUME NEW op \in {"BringUp", "BringDown"}, control.pc \in {"routes", "clear"},
             control'.pc = IF op = "BringUp" THEN "up" ELSE "down",
             dbox' = Append(dbox, [op |-> op, asker |-> "control"]),
             ~Asked(rbox'), AskedOnce(rbox'), answered'.control = "none", UNCHANGED plane
      PROVE  RequestInv'
  <2>1. ~Asked(dbox) /\ plane.asker # "control"
    BY <1>4, <1>e DEF RequestInv
  <2>2. (\A o : AskedFor(dbox', o) <=> o = op) /\ AskedOnce(dbox')
    BY <1>4, <1>d, <2>1 DEF RequestInv
  <2> QED
    BY <1>4, <2>1, <2>2 DEF RequestInv
<1>5. CASE RoutesAnswered
  <2> DEFINE op == IF control.pc = "routes" THEN "BringUp" ELSE "BringDown"
  <2>1. ~Asked(rbox)
    BY <1>5 DEF RoutesAnswered, RequestInv
  <2>2. answered'.control = "none"
    BY <1>5, <1>a DEF RoutesAnswered, Answers, Known
  <2>3. control'.pc = IF op = "BringUp" THEN "up" ELSE "down"
    BY <1>5, <1>a DEF RoutesAnswered, Known
  <2>4. /\ dbox' = Append(dbox, [op |-> op, asker |-> "control"]) /\ UNCHANGED <<plane, rbox>>
        /\ control.pc \in {"routes", "clear"} /\ op \in {"BringUp", "BringDown"}
    BY <1>5 DEF RoutesAnswered, AskPlane
  <2> HIDE DEF op
  <2> QED
    BY <1>4, <2>1, <2>2, <2>3, <2>4 DEF RequestInv
<1>6. CASE RoutesTimeOut
  <2>1. ~Asked(rbox') /\ AskedOnce(rbox')
    BY <1>6, AskedAbandon DEF RoutesTimeOut, RequestInv
  <2>2. /\ dbox' = Append(dbox, [op |-> "BringUp", asker |-> "control"]) /\ UNCHANGED <<plane, answered>>
        /\ control.pc = "routes" /\ control'.pc = "up" /\ answered.control = "none"
    BY <1>6, <1>a DEF RoutesTimeOut, AskPlane, Known
  <2> QED
    BY <1>4, <2>1, <2>2
<1>7. CASE PlaneAnswered
  <2>1. ~Asked(rbox) /\ ~Asked(dbox) /\ plane.asker # "control"
    BY <1>7 DEF PlaneAnswered, RequestInv
  <2>2. answered'.control = "none" /\ control'.pc = "idle" /\ UNCHANGED <<rbox, dbox, plane>>
    BY <1>7, <1>a DEF PlaneAnswered, Answers, Known, Idle
  <2> QED
    BY <1>f, <2>1, <2>2 DEF RequestInv
\* The first request of the data-plane actor is answered, or is what it handles now.
<1>8. ASSUME dbox # <<>>, dbox' = Tail(dbox), UNCHANGED control, plane.asker = "nobody",
             Asked(rbox') => Asked(rbox), AskedOnce(rbox'),
             \/ /\ UNCHANGED plane
                /\ answered'.control # answered.control => Request.asker = "control"
             \/ plane'.asker = Request.asker /\ answered'.control = answered.control
      PROVE  RequestInv'
  <2>1. /\ Asked(Tail(dbox)) => Asked(dbox)
        /\ \A op : AskedFor(Tail(dbox), op) => AskedFor(dbox, op)
        /\ Head(dbox).asker = "control" => Asked(dbox) /\ AskedFor(dbox, Head(dbox).op)
        /\ AskedOnce(dbox) => AskedOnce(Tail(dbox))
        /\ AskedOnce(dbox) /\ Head(dbox).asker = "control" => ~Asked(Tail(dbox))
    BY <1>8, <1>a, AskedTail DEF Known
  <2>2. Head(dbox).asker = "control" =>
            /\ ~Asked(Tail(dbox)) /\ ~Asked(rbox) /\ answered.control = "none"
            /\ control.pc \in {"up", "down"}
    BY <1>e, <2>1 DEF RequestInv
  <2>3. AskedFor(Tail(dbox), "BringUp") \/ AskedFor(Tail(dbox), "BringDown") => Asked(Tail(dbox))
    BY DEF Asked, AskedFor
  <2> QED
    BY <1>8, <1>a, <2>1, <2>2, <2>3 DEF RequestInv, Request, Known
<1>9. CASE NothingToDo
  <2>1. /\ dbox # <<>> /\ dbox' = Tail(dbox) /\ UNCHANGED <<control, rbox, plane>>
        /\ answered' = Answer(Request.asker, "ok") /\ plane.asker = "nobody"
    BY <1>9 DEF NothingToDo, Ready, Resting
  <2>2. answered'.control = IF Request.asker = "control" THEN "ok" ELSE answered.control
    BY <1>a, <2>1, AnswerTo, HeadTypes DEF Known
  <2> QED
    BY <1>8, <2>1, <2>2 DEF RequestInv
<1>g. \A a \in Askers : Clear(a) \in RouteMsgs /\ Clear(a).asker = a
  BY Sent
<1>h. ASSUME rbox' = Append(rbox, Clear("plane")) \/ rbox' = Append(Abandon("plane"), Clear("plane"))
      PROVE  (Asked(rbox') => Asked(rbox)) /\ AskedOnce(rbox')
  <2>1. Abandon("plane") \in Seq(RouteMsgs)
    BY <1>a, AbandonKeeps DEF Known
  <2>2. Clear("plane") \in RouteMsgs /\ Clear("plane").asker # "control"
    BY <1>a, <1>g DEF Known
  <2>3. CASE rbox' = Append(rbox, Clear("plane"))
    BY <1>a, <1>b, <2>2, <2>3 DEF RequestInv, Known
  <2>4. CASE rbox' = Append(Abandon("plane"), Clear("plane"))
    <3>1. /\ Asked(rbox') <=> Asked(Abandon("plane"))
          /\ AskedOnce(Abandon("plane")) => AskedOnce(rbox')
      BY <1>b, <2>1, <2>2, <2>4
    <3> QED
      BY <3>1, AskedAbandon DEF RequestInv
  <2> QED
    BY <1>h, <2>3, <2>4
<1>10. CASE DirectConflicts
  <2> DEFINE m == Bare("GetKernelRoutes", "plane")
  <2>1. /\ dbox # <<>> /\ dbox' = Tail(dbox) /\ UNCHANGED <<control, answered>>
        /\ plane.asker = "nobody" /\ plane'.asker = Request.asker
        /\ rbox' = Append(rbox, m)
    BY <1>10 DEF DirectConflicts, Ready, Resting, AskRoute
  <2>2. m \in RouteMsgs /\ m.asker # "control"
    BY <1>a, Sent DEF Known
  <2> HIDE DEF m
  <2>3. (Asked(rbox') => Asked(rbox)) /\ AskedOnce(rbox')
    BY <1>a, <1>b, <2>1, <2>2 DEF RequestInv, Known
  <2> QED
    BY <1>8, <2>1, <2>3
<1>11. CASE BringDown
  <2>1. /\ dbox # <<>> /\ dbox' = Tail(dbox) /\ UNCHANGED <<control, answered>>
        /\ plane.asker = "nobody" /\ plane'.asker = Request.asker
        /\ rbox' = Append(rbox, Clear("plane"))
    BY <1>11 DEF BringDown, Ready, Resting, AskRoute, Withdraw
  <2> QED
    BY <1>8, <1>h, <2>1
\* The request the data-plane actor handles is answered, or goes on.
<1>12. ASSUME UNCHANGED control, Asked(rbox') => Asked(rbox), AskedOnce(rbox'),
              Asked(dbox') => Asked(dbox), AskedOnce(dbox'),
              \A op : AskedFor(dbox', op) => AskedFor(dbox, op),
              \/ /\ plane'.asker = "nobody"
                 /\ answered'.control # answered.control => plane.asker = "control"
              \/ plane'.asker = plane.asker /\ answered'.control = answered.control
       PROVE  RequestInv'
  BY <1>12, <1>a, <1>f DEF RequestInv, Known
<1>121. CASE BuildTun
  <2>1. /\ UNCHANGED <<control, dbox>> /\ plane'.asker = plane.asker
        /\ answered' = [answered EXCEPT !.plane = "none"]
        /\ rbox' = Append(rbox, Apply({}, cache, "plane"))
    BY <1>121 DEF BuildTun, AskRoute, TypeOK
  <2>2. Apply({}, cache, "plane") \in RouteMsgs /\ Apply({}, cache, "plane").asker # "control"
    BY <1>a DEF Apply, RouteMsgs, Known
  <2>3. (Asked(rbox') => Asked(rbox)) /\ AskedOnce(rbox')
    BY <1>a, <1>b, <2>1, <2>2 DEF RequestInv, Known
  <2>4. answered'.control = answered.control
    BY <1>a, <2>1, AnswerControl DEF Known
  <2> QED
    BY <1>12, <2>1, <2>3, <2>4 DEF RequestInv
<1>13. CASE RoutesUp \/ Refuse
  <2>1. /\ UNCHANGED <<control, rbox, dbox>> /\ plane'.asker = "nobody"
        /\ \E x \in {"ok", "error"} :
               answered' = [Answer(plane.asker, x) EXCEPT !.plane = "none"]
    BY <1>13 DEF RoutesUp, Refuse, Resting
  <2>2. answered'.control # answered.control => plane.asker = "control"
    BY <1>a, <2>1, AnswerControl DEF Known
  <2> QED
    BY <1>12, <2>1, <2>2 DEF RequestInv
<1>14. CASE RoutesFail \/ TunFails
  <2>1. /\ UNCHANGED <<control, dbox>> /\ plane'.asker = plane.asker
        /\ answered' = [answered EXCEPT !.plane = "none"]
        /\ rbox' = Append(rbox, Clear("plane")) \/ rbox' = Append(Abandon("plane"), Clear("plane"))
    BY <1>14 DEF RoutesFail, TunFails, Withdraw, AskRoute
  <2>2. answered'.control = answered.control
    BY <1>a, <2>1, AnswerControl DEF Known
  <2> QED
    BY <1>12, <1>h, <2>1, <2>2 DEF RequestInv
<1>15. CASE TakeRestart
  <2>1. /\ UNCHANGED <<control, dbox, answered>> /\ plane'.asker = "nobody"
        /\ rbox' = Append(rbox, Clear("plane"))
    BY <1>15 DEF TakeRestart, Withdraw, AskRoute
  <2> QED
    BY <1>12, <1>h, <2>1 DEF RequestInv
<1>16. CASE Withdrawn
  <2>1. /\ UNCHANGED control /\ plane'.asker = "nobody"
        /\ answered' = [Answer(plane.asker, "ok") EXCEPT !.plane = "none"]
        /\ rbox' = rbox \/ rbox' = Abandon("plane")
        /\ dbox' = dbox \/ dbox' = Append(dbox, [op |-> "BringUp", asker |-> "nobody"])
    BY <1>16 DEF Withdrawn, Resting, AskPlane
  <2>2. answered'.control = IF plane.asker = "control" THEN "ok" ELSE answered.control
    BY <1>a, <2>1, AnswerControl DEF Known
  <2>3. (Asked(rbox') => Asked(rbox)) /\ AskedOnce(rbox')
    BY <2>1, AskedAbandon DEF RequestInv
  <2>4. /\ Asked(dbox') => Asked(dbox)
        /\ \A op : AskedFor(dbox', op) => AskedFor(dbox, op)
    BY <1>c, <2>1 DEF RequestInv
  <2>5. AskedOnce(dbox')
    BY <1>c, <2>1 DEF RequestInv
  <2> QED
    BY <1>12, <2>1, <2>2, <2>3, <2>4, <2>5
\* The first message of the RouteActor is answered.
<1>17. CASE RouteStep
  <2>1. /\ rbox # <<>> /\ rbox' = Tail(rbox) /\ UNCHANGED <<control, dbox, plane>>
        /\ \/ UNCHANGED answered
           \/ \E r \in {"ok", "error"} : answered' = Answer(Head(rbox).asker, r)
    BY <1>17, RouteHandles
  <2>2. answered'.control # answered.control => Head(rbox).asker = "control"
    BY <1>a, <2>1, AnswerTo, HeadTypes DEF Known
  <2>3. /\ Asked(Tail(rbox)) => Asked(rbox)
        /\ Head(rbox).asker = "control" => Asked(rbox)
        /\ AskedOnce(rbox) => AskedOnce(Tail(rbox))
        /\ AskedOnce(rbox) /\ Head(rbox).asker = "control" => ~Asked(Tail(rbox))
    BY <1>a, <2>1, AskedTail DEF Known
  <2>4. Head(rbox).asker = "control" =>
            /\ ~Asked(Tail(rbox)) /\ ~Asked(dbox) /\ plane.asker # "control"
            /\ control.pc \in {"routes", "clear"}
    BY <1>e, <2>3 DEF RequestInv
  <2> QED
    BY <1>f, <2>1, <2>2, <2>3, <2>4 DEF RequestInv
<1>18. CASE KernelChanges
  <2> DEFINE m == Bare("KernelRoutesChanged", "nobody")
  <2>1. m \in RouteMsgs /\ m.asker # "control"
    BY <1>a, Sent DEF Known
  <2>2. rbox' = Append(rbox, m) /\ UNCHANGED <<control, answered, dbox, plane>>
    BY <1>18 DEF KernelChanges, AskRoute
  <2> HIDE DEF m
  <2>3. (Asked(rbox') <=> Asked(rbox)) /\ AskedOnce(rbox')
    BY <1>a, <1>b, <2>1, <2>2 DEF RequestInv, Known
  <2> QED
    BY <2>2, <2>3 DEF RequestInv
<1>19. ASSUME NEW op \in {"BringUp", "BringDown"}, Command(op) PROVE RequestInv'
  <2>1. /\ dbox' = Append(dbox, [op |-> op, asker |-> "nobody"])
        /\ UNCHANGED <<control, answered, rbox, plane>>
    BY <1>19 DEF Command, AskPlane
  <2> QED
    BY <1>c, <2>1 DEF RequestInv
<1>20. CASE ControlRestarts \/ OutboundEnds \/ RouteRestarts \/ UNCHANGED vars
  BY <1>20 DEF ControlRestarts, OutboundEnds, RouteRestarts, vars, RequestInv
<1> QED
  BY <1>2, <1>3, <1>5, <1>6, <1>7, <1>9, <1>10, <1>11, <1>121, <1>13, <1>14, <1>15, <1>16, <1>17,
     <1>18, <1>19, <1>20 DEF Next, ControlStep, PlaneStep

\* The routes: what the mailbox leaves desired agrees with the device, unless
\* the control actor still has to move the plane.
LEMMA RoutesStep ==
    TypeOK /\ DeviceInv /\ RequestInv /\ VersionInv /\ RoutesInv /\ [Next]_vars => RoutesInv'
<1> SUFFICES ASSUME TypeOK, DeviceInv, RequestInv, VersionInv, RoutesInv, [Next]_vars
             PROVE  RoutesInv'
  OBVIOUS
<1>a. Known
  BY TypesKnown
<1>b. \A op \in {"ClearRoutes", "KernelRoutesChanged", "GetKernelRoutes"}, a \in Askers :
         Bare(op, a) \in RouteMsgs /\ Bare(op, a).op = op
  BY Sent
<1>c. \A a \in Askers : Clear(a) \in RouteMsgs /\ Clear(a).op = "ClearRoutes"
  BY Sent
\* Routes are asked for: the plane is up, or the control actor will bring it up.
<1>d. ASSUME NEW m \in RouteMsgs, m.op = "ApplyDesiredRoutes", rbox' = Append(rbox, m),
             UNCHANGED <<desired, owned, failed>>, tun' => m.version = {} \/ tun,
             tun => tun', ~tun' => control'.pc = "routes"
      PROVE  RoutesInv'
  <2>1. /\ \A op : Pending(rbox', op) <=> Pending(rbox, op) \/ m.op = op
        /\ Local(rbox) \/ m.version = {} => Local(rbox')
        /\ Dirty(rbox', desired)
    BY <1>a, <1>d, RoutesAppend DEF Known
  <2> QED
    BY <1>d, <2>1 DEF RoutesInv, Owes
\* They are asked to go: the plane is down, or the control actor will bring it down.
<1>e. ASSUME NEW m \in RouteMsgs, NEW q \in Seq(RouteMsgs), m.op = "ClearRoutes",
             rbox' = Append(q, m), UNCHANGED <<desired, owned, failed>>,
             tun' => control'.pc = "clear"
      PROVE  RoutesInv'
  <2>1. Pending(rbox', "ClearRoutes") /\ ~Dirty(rbox', desired)
    BY <1>a, <1>e, RoutesAppend DEF Known
  <2> QED
    BY <1>e, <2>1 DEF RoutesInv, Owes
\* Neither: what the control actor owes stays owed.
<1>f. ASSUME UNCHANGED <<desired, owned, failed, tun>>, restarting => restarting',
             rbox' = rbox \/ \E a \in Askers : rbox' = Abandon(a),
             (plane.pc = "conflicts" \/ refused) => (plane'.pc = "conflicts" \/ refused'),
             ~tun /\ Owes("routes", "up") => Owes("routes", "up")',
             tun /\ Owes("clear", "down") => Owes("clear", "down")'
      PROVE  RoutesInv'
  <2>1. /\ \A op : Pending(rbox', op) <=> Pending(rbox, op)
        /\ Dirty(rbox', desired) <=> Dirty(rbox, desired)
        /\ Local(rbox') <=> Local(rbox)
    BY <1>f, RoutesAbandon
  <2> QED
    BY <1>f, <2>1 DEF RoutesInv
<1>1. CASE TakeSnapshot
  <2>1. CASE wired
    <3> DEFINE m == Apply({rev + 1}, rev + 1, "control")
    <3>1. rev + 1 \in Versions
      BY <1>1 DEF TakeSnapshot, TypeOK, Versions
    <3>2. m \in RouteMsgs /\ m.op = "ApplyDesiredRoutes"
      BY <1>a, <3>1 DEF Apply, RouteMsgs, Known
    <3>3. /\ rbox' = Append(rbox, m) /\ control'.pc = "routes"
          /\ UNCHANGED <<tun, desired, owned, failed>>
      BY <1>1, <2>1 DEF TakeSnapshot, AskRoute, route
    <3> HIDE DEF m
    <3> QED
      BY <1>d, <3>2, <3>3
  <2>2. CASE ~wired
    BY <1>1, <1>f, <2>2 DEF TakeSnapshot, Owes, route
  <2> QED
    BY <2>1, <2>2
<1>2. ASSUME NEW save \in BOOLEAN, TakeAbsence(save) PROVE RoutesInv'
  <2>1. CASE wired
    <3>1. /\ rbox' = Append(rbox, Clear("control")) /\ control'.pc = "clear"
          /\ UNCHANGED <<tun, desired, owned, failed>>
      BY <1>2, <2>1 DEF TakeAbsence, AskRoute, route
    <3> QED
      BY <1>a, <1>c, <1>e, <3>1 DEF Known
  <2>2. CASE ~wired
    BY <1>2, <1>f, <2>2 DEF TakeAbsence, Owes, route
  <2> QED
    BY <2>1, <2>2
<1>3. CASE RoutesAnswered \/ RoutesTimeOut
  <2>1. /\ control.pc \in {"routes", "clear"}
        /\ control'.pc = IF control.pc = "routes" THEN "up" ELSE "down"
    BY <1>3, <1>a DEF RoutesAnswered, RoutesTimeOut, Known
  <2>2. answered'.control = "none"
    BY <1>3, <1>a, AnswerControl DEF RoutesAnswered, RoutesTimeOut, Known
  <2>3. plane'.asker # "control"
    BY <1>3, <2>1 DEF RoutesAnswered, RoutesTimeOut, RequestInv
  <2>4. /\ UNCHANGED <<desired, owned, failed, tun, restarting, plane, refused>>
        /\ rbox' = rbox \/ \E a \in Askers : rbox' = Abandon(a)
    BY <1>3, <1>a DEF RoutesAnswered, RoutesTimeOut, route, Known
  <2> QED
    BY <1>f, <2>1, <2>2, <2>3, <2>4 DEF Owes
<1>4. CASE PlaneAnswered
  <2>1. ~Owes("routes", "up") /\ ~Owes("clear", "down")
    BY <1>4 DEF PlaneAnswered, Owes
  <2>2. UNCHANGED <<desired, owned, failed, tun, restarting, rbox, plane, refused>>
    BY <1>4 DEF PlaneAnswered, route
  <2> QED
    BY <1>f, <2>1, <2>2
<1>5. CASE NothingToDo
  <2>1. /\ dbox # <<>> /\ UNCHANGED <<desired, owned, failed, tun, restarting, rbox, control>>
        /\ UNCHANGED <<plane, refused>>
        /\ answered' = Answer(Request.asker, "ok") /\ plane.pc = "idle"
        /\ Request.op = "BringUp" => up
        /\ Request.op = "BringDown" => ~tun
    BY <1>5 DEF NothingToDo, Ready, Resting, route
  <2>2. answered'.control = IF Request.asker = "control" THEN "ok" ELSE answered.control
    BY <1>a, <2>1, AnswerTo, HeadTypes DEF Known
  <2>3. Request.op \in {"BringUp", "BringDown"}
    <3>1. Request \in PlaneMsgs
      BY <2>1, HeadTypes
    <3> QED
      BY <3>1 DEF PlaneMsgs
  <2>4. Request.asker = "control" => AskedFor(dbox, Request.op)
    BY <1>a, <2>1, AskedTail DEF Known, Request
  <2>5. Request.asker = "control" => control.pc = IF Request.op = "BringUp" THEN "up" ELSE "down"
    BY <2>3, <2>4 DEF RequestInv
  <2>6. Request.op = "BringUp" => tun
    BY <2>1 DEF DeviceInv
  <2>7. CASE Request.asker # "control"
    BY <1>f, <2>1, <2>2, <2>7 DEF Owes
  <2>8. CASE Request.asker = "control"
    BY <1>f, <2>1, <2>3, <2>5, <2>6, <2>8 DEF Owes
  <2> QED
    BY <2>7, <2>8
<1>6. CASE BuildTun
  <2>1. /\ Apply({}, cache, "plane") \in RouteMsgs
        /\ Apply({}, cache, "plane").op = "ApplyDesiredRoutes"
        /\ Apply({}, cache, "plane").version = {}
    BY <1>a DEF Apply, RouteMsgs, Known
  <2>2. /\ rbox' = Append(rbox, Apply({}, cache, "plane")) /\ tun' = TRUE
        /\ UNCHANGED <<desired, owned, failed>>
    BY <1>6 DEF BuildTun, AskRoute, route
  <2> QED
    BY <1>d, <2>1, <2>2
<1>7. CASE TunFails \/ BringDown \/ TakeRestart \/ RoutesFail
  <2>1. /\ rbox' = Append(rbox, Clear("plane")) \/ rbox' = Append(Abandon("plane"), Clear("plane"))
        /\ tun' = FALSE /\ UNCHANGED <<desired, owned, failed>>
    BY <1>7 DEF TunFails, BringDown, TakeRestart, RoutesFail, AskRoute, Withdraw, route
  <2>2. Abandon("plane") \in Seq(RouteMsgs)
    BY <1>a, AbandonKeeps DEF Known
  <2> QED
    BY <1>a, <1>c, <1>e, <2>1, <2>2 DEF Known
<1>71. CASE DirectConflicts
  <2> DEFINE m == Bare("GetKernelRoutes", "plane")
  <2>1. m \in RouteMsgs /\ m.op = "GetKernelRoutes"
    BY <1>a, <1>b DEF Known
  <2>2. /\ rbox' = Append(rbox, m) /\ plane'.pc = "conflicts" /\ ~tun
        /\ UNCHANGED <<desired, owned, failed, tun>>
    BY <1>71 DEF DirectConflicts, AskRoute, Ready, Resting, DeviceInv, route
  <2> HIDE DEF m
  <2>3. \A op : Pending(rbox', op) <=> Pending(rbox, op) \/ m.op = op
    BY <1>a, <2>1, <2>2, RoutesAppend DEF Known
  <2> QED
    BY <2>1, <2>2, <2>3 DEF RoutesInv
<1>72. CASE Refuse
  <2>1. /\ UNCHANGED <<desired, owned, failed, tun, rbox>> /\ refused' /\ ~tun
    BY <1>72 DEF Refuse, Examined, DeviceInv, route
  <2> QED
    BY <2>1 DEF RoutesInv
<1>8. CASE RoutesUp \/ Withdrawn
  <2>1. /\ UNCHANGED <<desired, owned, failed, tun, restarting, control, refused>>
        /\ plane'.asker = "nobody" /\ plane.pc # "conflicts"
        /\ answered' = [Answer(plane.asker, "ok") EXCEPT !.plane = "none"]
        /\ rbox' = rbox \/ \E a \in Askers : rbox' = Abandon(a)
    BY <1>8, <1>a DEF RoutesUp, Withdrawn, Resting, route, Known
  <2>2. answered'.control = IF plane.asker = "control" THEN "ok" ELSE answered.control
    BY <1>a, <2>1, AnswerControl DEF Known
  <2>3. plane.asker = "control" => control.pc \in {"up", "down"}
    BY DEF RequestInv
  <2> QED
    BY <1>f, <2>1, <2>2, <2>3 DEF Owes
<1>9. CASE OutboundEnds \/ ControlRestarts
  BY <1>9, <1>f DEF OutboundEnds, ControlRestarts, Owes, route
\* The first message of the RouteActor is handled.
<1>10. ASSUME RouteStep
       PROVE  /\ Owes("routes", "up") => Owes("routes", "up")'
              /\ Owes("clear", "down") => Owes("clear", "down")'
              /\ UNCHANGED <<plane, tun, refused, restarting>>
  <2>1. /\ rbox # <<>> /\ UNCHANGED <<control, plane>> /\ UNCHANGED <<tun, refused, restarting>>
        /\ \/ UNCHANGED answered
           \/ \E r \in {"ok", "error"} : answered' = Answer(Head(rbox).asker, r)
    BY <1>10, RouteHandles
  <2>2. answered'.control # answered.control => Head(rbox).asker = "control"
    BY <1>a, <2>1, AnswerTo, HeadTypes DEF Known
  <2>3. Head(rbox).asker = "control" => control.pc \in {"routes", "clear"}
    BY <1>a, <2>1, AskedTail DEF Known, RequestInv
  <2> QED
    BY <2>1, <2>2, <2>3 DEF Owes
<1>11. CASE ApplyDesired \/ ApplyFails
  <2>1. /\ rbox # <<>> /\ Head(rbox).op = "ApplyDesiredRoutes" /\ rbox' = Tail(rbox)
        /\ RouteStep
    BY <1>11 DEF ApplyDesired, ApplyFails, RouteStep
  <2>2. Accepts(Head(rbox).version)
    <3>1. \A w \in mark : \A v \in Head(rbox).version : w <= v
      BY <1>a, <2>1, VersionsTail DEF VersionInv, Known
    <3>2. mark \subseteq Nat /\ Head(rbox).version \subseteq Nat
      BY <2>1, HeadTypes DEF TypeOK, Versions
    <3> QED
      BY <3>1, <3>2 DEF Accepts
  <2>3. /\ desired' = {Head(rbox).desired}
        /\ tun => owned' = Head(rbox).desired \/ failed'
        /\ ~tun => owned' = owned /\ (failed => failed')
    BY <1>11, <2>2 DEF ApplyDesired, ApplyFails
  <2>4. Head(rbox).desired \in Versions
    BY <2>1, HeadTypes
  <2>5. /\ \A op : Pending(rbox, op) <=> Pending(Tail(rbox), op) \/ Head(rbox).op = op
        /\ Dirty(Tail(rbox), desired') <=> Dirty(rbox, desired)
    BY <1>a, <2>1, <2>3, RoutesTail DEF Known
  <2>6. Pending(rbox, "ClearRoutes") => Pending(rbox', "ClearRoutes")
    BY <2>1, <2>5
  <2> QED
    BY <1>10, <2>1, <2>3, <2>4, <2>5, <2>6 DEF RoutesInv
<1>12. CASE ClearRoutes \/ ClearFails
  <2>1. /\ rbox # <<>> /\ Head(rbox).op = "ClearRoutes" /\ rbox' = Tail(rbox)
        /\ desired' = {} /\ (owned' = 0 \/ failed') /\ RouteStep
    BY <1>12 DEF ClearRoutes, ClearFails, RouteStep
  <2>2. Dirty(Tail(rbox), desired') <=> Dirty(rbox, desired)
    BY <1>a, <2>1, RoutesTail DEF Known
  <2> QED
    BY <1>10, <2>1, <2>2 DEF RoutesInv
<1>121. CASE ListRoutes
  <2>1. /\ rbox # <<>> /\ Head(rbox).op = "GetKernelRoutes" /\ rbox' = Tail(rbox)
        /\ UNCHANGED <<desired, owned, failed>> /\ RouteStep
    BY <1>121 DEF ListRoutes, RouteStep, route
  <2>2. /\ \A op : Pending(rbox, op) <=> Pending(Tail(rbox), op) \/ Head(rbox).op = op
        /\ Dirty(Tail(rbox), desired') <=> Dirty(rbox, desired)
        /\ Local(rbox) => Local(Tail(rbox)) \/ Head(rbox).op = "ApplyDesiredRoutes"
    BY <1>a, <2>1, RoutesTail DEF Known
  <2> QED
    BY <1>10, <2>1, <2>2 DEF RoutesInv
<1>13. CASE ReconcileLast \/ ReconcileFails
  <2>1. /\ rbox # <<>> /\ Head(rbox).op = "KernelRoutesChanged" /\ rbox' = Tail(rbox)
        /\ desired' = desired /\ RouteStep
        /\ desired # {} /\ tun => owned' = (CHOOSE d \in desired : TRUE) \/ failed'
        /\ ~(desired # {} /\ tun) => UNCHANGED <<owned, failed>>
    BY <1>13 DEF ReconcileLast, ReconcileFails, RouteStep
  <2>2. /\ \A op : Pending(rbox, op) <=> Pending(Tail(rbox), op) \/ Head(rbox).op = op
        /\ Dirty(Tail(rbox), desired') <=> Dirty(rbox, desired)
    BY <1>a, <2>1, RoutesTail DEF Known
  <2>3. Pending(rbox, "ClearRoutes") => Pending(rbox', "ClearRoutes")
    BY <2>1, <2>2
  <2>4. ASSUME tun, desired # {} PROVE desired = {owned'} \/ failed'
    <3>1. PICK d \in Versions : desired = {d}
      BY <2>4 DEF RoutesInv
    <3>2. owned' = d \/ failed'
      BY <2>1, <2>4, <3>1
    <3> QED
      BY <3>1, <3>2
  <2> QED
    BY <1>10, <2>1, <2>2, <2>3, <2>4 DEF RoutesInv
<1>14. CASE KernelChanges
  <2> DEFINE m == Bare("KernelRoutesChanged", "nobody")
  <2>1. m \in RouteMsgs /\ m.op = "KernelRoutesChanged"
    BY <1>a, <1>b DEF Known
  <2>2. /\ rbox' = Append(rbox, m) /\ owned' = 0
        /\ UNCHANGED <<desired, failed, tun, restarting, control, answered, plane, refused>>
    BY <1>14 DEF KernelChanges, AskRoute
  <2> HIDE DEF m
  <2>3. Pending(rbox', "KernelRoutesChanged") /\ (Dirty(rbox', desired) <=> Dirty(rbox, desired))
    BY <1>a, <2>1, <2>2, RoutesAppend DEF Known
  <2> QED
    BY <2>2, <2>3 DEF RoutesInv, Owes
<1>15. CASE RouteRestarts
  <2>1. /\ UNCHANGED <<rbox, tun, control, answered, plane, refused>> /\ restarting' = TRUE
        /\ owned' = 0 /\ desired' = {}
    BY <1>15 DEF RouteRestarts
  <2>2. Dirty(rbox, {}) => Dirty(rbox, desired)
    BY DEF Dirty
  <2> QED
    BY <2>1, <2>2 DEF RoutesInv, Owes
<1>16. CASE (\E op \in {"BringUp", "BringDown"} : Command(op)) \/ UNCHANGED vars
  BY <1>16, <1>f DEF Command, Owes, route, vars
<1> QED
  BY <1>1, <1>2, <1>3, <1>4, <1>5, <1>6, <1>7, <1>71, <1>72, <1>8, <1>9, <1>11, <1>12, <1>121,
     <1>13, <1>14, <1>15, <1>16 DEF Next, ControlStep, PlaneStep, RouteStep

-----------------------------------------------------------------------------
IInv == TypeOK /\ DeviceInv /\ RequestInv /\ VersionInv /\ RoutesInv

LEMMA InvInit == Init => IInv
<1> SUFFICES ASSUME Init PROVE IInv
  OBVIOUS
<1>1. rbox = <<>> /\ DOMAIN rbox = {}
  BY DEF Init
<1>2. dbox \in Seq(PlaneMsgs) /\ ~Asked(dbox) /\ AskedOnce(dbox) /\ \A op : ~AskedFor(dbox, op)
  BY TypeInit DEF Init, TypeOK, Asked, AskedOnce, AskedFor
<1>3. DeviceInv
  BY DEF Init, DeviceInv, Resting
<1>4. RequestInv
  BY <1>1, <1>2 DEF Init, RequestInv, Asked, AskedOnce, Idle, Resting
<1>5. VersionInv
  BY <1>1 DEF Init, VersionInv, Sorted, Bounded
<1>6. RoutesInv
  BY <1>1 DEF Init, RoutesInv, Dirty
<1> QED
  BY <1>3, <1>4, <1>5, <1>6, TypeInit DEF IInv

\* Once the actors rest, the flag, the device, the routes of the host and the
\* routes that would be put back agree, whatever timed out or was restarted, but
\* for what the system refused to change and a bring-up refused at its start.
THEOREM PlaneSettles == Spec => []PlaneAgrees
<1>1. IInv /\ [Next]_vars => IInv'
  BY TypeStep, DeviceStep, RequestStep, VersionStep, RoutesStep DEF IInv
<1>2. IInv => PlaneAgrees
  <2> SUFFICES ASSUME IInv, Settled
               PROVE  /\ up <=> tun
                      /\ up => desired # {} /\ (desired = {owned} \/ failed)
                      /\ ~up => (desired = {} \/ refused) /\ (owned = 0 \/ failed)
    BY DEF PlaneAgrees
  <2>1. rbox = <<>> /\ DOMAIN rbox = {}
    BY DEF Settled
  <2>2. up <=> tun
    BY DEF IInv, Settled, DeviceInv, Resting
  <2>3. ~Owes("routes", "up") /\ ~Owes("clear", "down") /\ ~restarting /\ plane.pc = "idle"
    BY DEF Settled, Owes, Idle, Resting
  <2>4. \A op : ~Pending(rbox, op)
    BY <2>1 DEF Pending
  <2>5. ~Local(rbox) /\ (Dirty(rbox, desired) <=> desired # {})
    BY <2>1, <2>4 DEF Local, Dirty
  <2> QED
    BY <2>2, <2>3, <2>4, <2>5 DEF IInv, RoutesInv
<1> QED
  BY <1>1, <1>2, InvInit, PTL DEF Spec

===============================================================================
