------------------------------ MODULE AgentPlane ------------------------------
(***************************************************************************)
(* The actors of a managed agent that decide whether its data plane is up  *)
(* and which routes the host has: the ControlPlaneActor that handles the   *)
(* server's messages, the DataPlaneActor that owns the TUN device, the     *)
(* RouteActor that owns the routes, their mailboxes, the timeouts of their *)
(* requests, the operator's commands and the supervisors' restarts.        *)
(*                                                                         *)
(* The messages the control plane sends are the ones the agent's revisions *)
(* accept (module ManagedSync): their versions only grow.  The routes of a *)
(* snapshot stand for its version; 0 are the routes of no membership.      *)
(***************************************************************************)
EXTENDS Naturals, Sequences

CONSTANTS
    MaxVersion,   \* bound of the server's messages
    MaxCommands,  \* bound of the operator's commands
    Faults,       \* which of FaultKinds are in reach
    MaxFaults     \* bound of the faults

\* A request that takes too long, a bring-up refused before anything is built, a
\* device that cannot be built, a route the system will not take or give back,
\* routes others remove, and the ends of a listener, an outbound loop, a transport.
FaultKinds == {"slow", "refuse", "tun", "route", "kernel", "listener", "outbound", "control"}

ASSUME AgentPlaneAssumption ==
    /\ MaxVersion \in Nat \ {0}
    /\ MaxCommands \in Nat
    /\ Faults \subseteq FaultKinds
    /\ MaxFaults \in Nat

Versions == 0..MaxVersion

\* Who waits for the answer of a message; nobody does once its request has
\* timed out, but the message stays in the mailbox.
Askers == {"control", "plane", "nobody"}

\* A version is the one of a snapshot, or none for local intent; only the
\* messages that apply routes carry versions and routes.
RouteMsgs ==
    [op : {"ApplyDesiredRoutes", "ClearRoutes", "KernelRoutesChanged", "GetKernelRoutes"},
     version : SUBSET Versions, desired : Versions, asker : Askers]

PlaneMsgs == [op : {"BringUp", "BringDown"}, asker : Askers]

VARIABLES
    rev,         \* version of the last message the control actor accepted
    member,      \* whether it held the membership
    cache,       \* the routes of the cached snapshot
    wired,       \* whether the control actor holds its late-bound references
    control,     \* the message the control actor is handling
    answered,    \* the answers given to the control and the data-plane actor
    rbox,        \* mailbox of the RouteActor
    mark,        \* its last_snapshot_version, if any
    desired,     \* its last_desired, if any
    owned,       \* the routes the host has
    failed,      \* the system refused what the actor last did to them
    dbox,        \* mailbox of the DataPlaneActor
    plane,       \* the message it is handling
    tun,         \* whether a generation is published, with its TUN device
    up,          \* its flag, and the status others read
    refused,     \* its last bring-up was refused, with nothing torn down since
    restarting,  \* the supervisor is about to restart it
    commands,
    faults

vars == <<rev, member, cache, wired, control, answered, rbox, mark, desired, owned, failed, dbox,
          plane, tun, up, refused, restarting, commands, faults>>

server == <<rev, member>>
route == <<mark, desired, owned, failed>>

Idle == [pc |-> "idle", save |-> FALSE]
Resting == [pc |-> "idle", asker |-> "nobody", again |-> FALSE]

\* Every variable keeps its type: the mailboxes hold only messages their actors know.
TypeOK ==
    /\ rev \in Versions /\ member \in BOOLEAN /\ cache \in Versions /\ wired \in BOOLEAN
    /\ control \in [pc : {"idle", "routes", "up", "clear", "down"}, save : BOOLEAN]
    /\ answered \in [control : {"none", "ok", "error"}, plane : {"none", "ok", "error"}]
    /\ rbox \in Seq(RouteMsgs)
    /\ mark \in SUBSET Versions /\ desired \in SUBSET Versions /\ owned \in Versions
    /\ dbox \in Seq(PlaneMsgs)
    /\ plane \in [pc : {"idle", "conflicts", "apply", "withdraw"}, asker : Askers, again : BOOLEAN]
    /\ tun \in BOOLEAN /\ up \in BOOLEAN /\ restarting \in BOOLEAN
    /\ failed \in BOOLEAN /\ refused \in BOOLEAN
    /\ commands \in Nat /\ faults \in Nat

\* The supervisors have started the actors; the DataPlaneActor's on_start asks
\* itself to come up, from the snapshot bootstrap_managed cached.
Init ==
    /\ rev = 1 /\ member = TRUE /\ cache = 1 /\ wired = TRUE
    /\ control = Idle
    /\ answered = [control |-> "none", plane |-> "none"]
    /\ rbox = <<>> /\ mark = {} /\ desired = {} /\ owned = 0
    /\ dbox = <<[op |-> "BringUp", asker |-> "nobody"]>>
    /\ plane = Resting /\ tun = FALSE /\ up = FALSE /\ restarting = FALSE
    /\ failed = FALSE /\ refused = FALSE
    /\ commands = 0 /\ faults = 0

Fault(f) == f \in Faults /\ faults < MaxFaults /\ faults' = faults + 1

-----------------------------------------------------------------------------
\* Requests between actors.

Apply(version, d, asker) ==
    [op |-> "ApplyDesiredRoutes", version |-> version, desired |-> d, asker |-> asker]
Bare(op, asker) == [op |-> op, version |-> {}, desired |-> 0, asker |-> asker]
Clear(asker) == Bare("ClearRoutes", asker)

AskRoute(m) == rbox' = Append(rbox, m)
AskPlane(op, asker) == dbox' = Append(dbox, [op |-> op, asker |-> asker])

Answer(asker, result) ==
    IF asker = "nobody" THEN answered ELSE [answered EXCEPT ![asker] = result]

\* The request of an actor to the RouteActor times out: its message stays.
Abandon(asker) ==
    [i \in 1..Len(rbox) |-> IF rbox[i].asker = asker THEN [rbox[i] EXCEPT !.asker = "nobody"]
                            ELSE rbox[i]]

-----------------------------------------------------------------------------
\* ControlPlaneActor.

\* handle_server, a snapshot with the membership: its routes are asked for.
TakeSnapshot ==
    /\ control = Idle /\ rev < MaxVersion
    /\ rev' = rev + 1 /\ member' = TRUE
    /\ IF wired
       THEN /\ control' = [pc |-> "routes", save |-> TRUE]
            /\ AskRoute(Apply({rev + 1}, rev + 1, "control"))
            /\ UNCHANGED cache
       ELSE cache' = rev + 1 /\ UNCHANGED <<control, rbox>>
    /\ UNCHANGED <<wired, answered, route, dbox, plane, tun, up, refused, restarting, commands,
                   faults>>

\* A snapshot without the membership, which is saved, or a revocation, which is not.
TakeAbsence(save) ==
    /\ control = Idle /\ rev < MaxVersion
    /\ rev' = rev + 1 /\ member' = FALSE
    /\ IF wired
       THEN /\ control' = [pc |-> "clear", save |-> save]
            /\ AskRoute(Clear("control"))
            /\ UNCHANGED cache
       ELSE cache' = (IF save THEN 0 ELSE cache) /\ UNCHANGED <<control, rbox>>
    /\ UNCHANGED <<wired, answered, route, dbox, plane, tun, up, refused, restarting, commands,
                   faults>>

\* The RouteActor has answered, an error being only logged ...
RoutesAnswered ==
    /\ control.pc \in {"routes", "clear"} /\ answered.control # "none"
    /\ answered' = [answered EXCEPT !.control = "none"]
    /\ control' = [control EXCEPT !.pc = IF control.pc = "routes" THEN "up" ELSE "down"]
    /\ AskPlane(IF control.pc = "routes" THEN "BringUp" ELSE "BringDown", "control")
    /\ UNCHANGED <<server, cache, wired, rbox, route, plane, tun, up, refused, restarting,
                   commands, faults>>

\* ... or has not within 15 seconds, which a snapshot does not wait for.
RoutesTimeOut ==
    /\ control.pc = "routes" /\ answered.control = "none" /\ Fault("slow")
    /\ rbox' = Abandon("control")
    /\ control' = [control EXCEPT !.pc = "up"]
    /\ AskPlane("BringUp", "control")
    /\ UNCHANGED <<server, cache, wired, answered, route, plane, tun, up, refused, restarting,
                   commands>>

\* The data plane is where it should be: only now is the snapshot cached.
PlaneAnswered ==
    /\ control.pc \in {"up", "down"} /\ answered.control # "none"
    /\ answered' = [answered EXCEPT !.control = "none"]
    /\ cache' = IF ~control.save THEN cache ELSE IF control.pc = "up" THEN rev ELSE 0
    /\ control' = Idle
    /\ UNCHANGED <<server, wired, rbox, route, dbox, plane, tun, up, refused, restarting,
                   commands, faults>>

\* Its transport has ended and the actor is restarted from the arguments it was
\* first given, which hold none of the references bound later.
ControlRestarts ==
    /\ control = Idle /\ Fault("control")
    /\ wired' = FALSE
    /\ UNCHANGED <<server, cache, control, answered, rbox, route, dbox, plane, tun, up, refused,
                   restarting, commands>>

-----------------------------------------------------------------------------
\* DataPlaneActor.

Request == Head(dbox)
Ready == plane = Resting /\ dbox # <<>>

\* BringUp of a plane that is up, BringDown of one that is down.
NothingToDo ==
    /\ Ready
    /\ Request.op = "BringUp" => up
    /\ Request.op = "BringDown" => ~up /\ ~tun
    /\ dbox' = Tail(dbox)
    /\ answered' = Answer(Request.asker, "ok")
    /\ UNCHANGED <<server, cache, wired, control, rbox, route, plane, tun, up, refused,
                   restarting, commands, faults>>

\* do_bring_up begins by asking the RouteActor for the kernel's routes, with no
\* timeout, and looks for conflicts in them; an error counts as no routes.
DirectConflicts ==
    /\ Ready /\ Request.op = "BringUp" /\ ~up
    /\ AskRoute(Bare("GetKernelRoutes", "plane"))
    /\ plane' = [pc |-> "conflicts", asker |-> Request.asker, again |-> FALSE]
    /\ dbox' = Tail(dbox)
    /\ UNCHANGED <<server, cache, wired, control, answered, route, tun, up, refused, restarting,
                   commands, faults>>

Examined == plane.pc = "conflicts" /\ answered.plane # "none"

\* A conflict, or a resolver that cannot be made: the only failures that return
\* without a teardown.  The routes remembered so far stay remembered.
Refuse ==
    /\ Examined /\ Fault("refuse")
    /\ refused' = TRUE /\ plane' = Resting
    /\ answered' = [Answer(plane.asker, "error") EXCEPT !.plane = "none"]
    /\ UNCHANGED <<server, cache, wired, control, rbox, route, dbox, tun, up, restarting,
                   commands>>

\* The device is built and published, the system's DNS is set, and the routes of
\* the cached snapshot are asked for.
BuildTun ==
    /\ Examined
    /\ tun' = TRUE /\ refused' = FALSE
    /\ AskRoute(Apply({}, cache, "plane"))
    /\ plane' = [plane EXCEPT !.pc = "apply"]
    /\ answered' = [answered EXCEPT !.plane = "none"]
    /\ UNCHANGED <<server, cache, wired, control, route, dbox, up, restarting, commands, faults>>

\* teardown: the generation is withdrawn, then the routes are asked to go; the
\* flag falls last.
Withdraw(asker, again) ==
    /\ tun' = FALSE /\ refused' = FALSE
    /\ plane' = [pc |-> "withdraw", asker |-> asker, again |-> again]

\* The DNS listener, the device or the system's DNS fails.
TunFails ==
    /\ Examined /\ Fault("tun")
    /\ Withdraw(plane.asker, FALSE)
    /\ AskRoute(Clear("plane"))
    /\ answered' = [answered EXCEPT !.plane = "none"]
    /\ UNCHANGED <<server, cache, wired, control, route, dbox, up, restarting, commands>>

\* The routes are there: the plane is up.
RoutesUp ==
    /\ plane.pc = "apply" /\ answered.plane = "ok"
    /\ up' = TRUE /\ plane' = Resting
    /\ answered' = [Answer(plane.asker, "ok") EXCEPT !.plane = "none"]
    /\ UNCHANGED <<server, cache, wired, control, rbox, route, dbox, tun, refused, restarting,
                   commands, faults>>

\* They could not be installed, or not within 15 seconds.
RoutesFail ==
    /\ plane.pc = "apply"
    /\ \/ answered.plane = "error" /\ AskRoute(Clear("plane")) /\ UNCHANGED faults
       \/ /\ answered.plane = "none" /\ Fault("slow")
          /\ rbox' = Append(Abandon("plane"), Clear("plane"))
    /\ answered' = [answered EXCEPT !.plane = "none"]
    /\ Withdraw(plane.asker, FALSE)
    /\ UNCHANGED <<server, cache, wired, control, route, dbox, up, restarting, commands>>

BringDown ==
    /\ Ready /\ Request.op = "BringDown" /\ (up \/ tun)
    /\ Withdraw(Request.asker, FALSE)
    /\ AskRoute(Clear("plane"))
    /\ dbox' = Tail(dbox)
    /\ UNCHANGED <<server, cache, wired, control, answered, route, up, restarting, commands,
                   faults>>

\* Its outbound loop has ended, or the RouteActor is restarted: what the actor
\* is handling is finished, then on_stop tears the plane down.
TakeRestart ==
    /\ plane = Resting /\ restarting
    /\ restarting' = FALSE
    /\ Withdraw("nobody", TRUE)
    /\ AskRoute(Clear("plane"))
    /\ UNCHANGED <<server, cache, wired, control, answered, route, dbox, up, commands, faults>>

\* Mutant: the new incarnation waits for somebody to bring it up.
Withdrawn_NoAutoUp ==
    /\ plane.pc = "withdraw"
    /\ \/ answered.plane # "none" /\ UNCHANGED <<rbox, faults>>
       \/ answered.plane = "none" /\ Fault("slow") /\ rbox' = Abandon("plane")
    /\ up' = FALSE /\ plane' = Resting
    /\ answered' = [Answer(plane.asker, "ok") EXCEPT !.plane = "none"]
    /\ UNCHANGED <<server, cache, wired, control, route, dbox, tun, refused, restarting,
                   commands>>

\* The end of a teardown, whose request is given 5 seconds.  A restarted actor
\* asks itself to come up, behind what is in its mailbox.
Withdrawn ==
    /\ plane.pc = "withdraw"
    /\ \/ answered.plane # "none" /\ UNCHANGED <<rbox, faults>>
       \/ answered.plane = "none" /\ Fault("slow") /\ rbox' = Abandon("plane")
    /\ up' = FALSE /\ plane' = Resting
    /\ answered' = [Answer(plane.asker, "ok") EXCEPT !.plane = "none"]
    /\ IF plane.again THEN AskPlane("BringUp", "nobody") ELSE UNCHANGED dbox
    /\ UNCHANGED <<server, cache, wired, control, route, tun, refused, restarting, commands>>

OutboundEnds ==
    /\ up /\ tun /\ plane = Resting /\ Fault("outbound")
    /\ restarting' = TRUE
    /\ UNCHANGED <<server, cache, wired, control, answered, rbox, route, dbox, plane, tun, up,
                   refused, commands>>

-----------------------------------------------------------------------------
\* RouteActor.

\* accept_version
Accepts(version) == \A v \in version, w \in mark : v >= w

\* reconcile: the desired routes are remembered first, and installed if the
\* device is there.  A stale snapshot is answered and otherwise ignored.
ApplyDesired ==
    LET m == Head(rbox) IN
    /\ rbox # <<>> /\ m.op = "ApplyDesiredRoutes"
    /\ IF Accepts(m.version)
       THEN /\ mark' = IF m.version = {} THEN mark ELSE m.version
            /\ desired' = {m.desired}
            /\ owned' = IF tun THEN m.desired ELSE owned
            /\ failed' = (failed /\ ~tun)
            /\ answered' = Answer(m.asker, IF tun THEN "ok" ELSE "error")
       ELSE answered' = Answer(m.asker, "ok") /\ UNCHANGED route
    /\ rbox' = Tail(rbox)
    /\ UNCHANGED <<server, cache, wired, control, dbox, plane, tun, up, refused, restarting,
                   commands, faults>>

\* The system refuses a route: some are installed, some removed, or none; which
\* version is current and what is desired was settled before.
ApplyFails ==
    LET m == Head(rbox) IN
    /\ rbox # <<>> /\ m.op = "ApplyDesiredRoutes" /\ Accepts(m.version) /\ tun
    /\ Fault("route")
    /\ mark' = IF m.version = {} THEN mark ELSE m.version
    /\ desired' = {m.desired}
    /\ owned' \in {owned, 0, m.desired} /\ failed' = TRUE
    /\ answered' = Answer(m.asker, "error")
    /\ rbox' = Tail(rbox)
    /\ UNCHANGED <<server, cache, wired, control, dbox, plane, tun, up, refused, restarting,
                   commands>>

\* Mutant: the desired routes are kept, and come back with the next kernel change.
ClearRoutes_KeepsDesired ==
    /\ rbox # <<>> /\ Head(rbox).op = "ClearRoutes"
    /\ owned' = 0 /\ failed' = FALSE /\ UNCHANGED <<mark, desired>>
    /\ answered' = Answer(Head(rbox).asker, "ok")
    /\ rbox' = Tail(rbox)
    /\ UNCHANGED <<server, cache, wired, control, dbox, plane, tun, up, refused, restarting,
                   commands, faults>>

ClearRoutes ==
    /\ rbox # <<>> /\ Head(rbox).op = "ClearRoutes"
    /\ owned' = 0 /\ desired' = {} /\ failed' = FALSE /\ UNCHANGED mark
    /\ answered' = Answer(Head(rbox).asker, "ok")
    /\ rbox' = Tail(rbox)
    /\ UNCHANGED <<server, cache, wired, control, dbox, plane, tun, up, refused, restarting,
                   commands, faults>>

\* A route cannot be deleted: nothing is desired any more all the same.
ClearFails ==
    /\ rbox # <<>> /\ Head(rbox).op = "ClearRoutes" /\ owned # 0 /\ Fault("route")
    /\ desired' = {} /\ failed' = TRUE /\ UNCHANGED <<mark, owned>>
    /\ answered' = Answer(Head(rbox).asker, "error")
    /\ rbox' = Tail(rbox)
    /\ UNCHANGED <<server, cache, wired, control, dbox, plane, tun, up, refused, restarting,
                   commands>>

\* Mutant: the actor asks the data plane for the name of its device first.
ListRoutes_AsksPlane ==
    /\ rbox # <<>> /\ Head(rbox).op = "GetKernelRoutes" /\ plane = Resting
    /\ answered' = Answer(Head(rbox).asker, "ok")
    /\ rbox' = Tail(rbox)
    /\ UNCHANGED <<server, cache, wired, control, route, dbox, plane, tun, up, refused,
                   restarting, commands, faults>>

\* GetKernelRoutes, the error of which its asker treats as an empty list.
ListRoutes ==
    /\ rbox # <<>> /\ Head(rbox).op = "GetKernelRoutes"
    /\ answered' = Answer(Head(rbox).asker, "ok")
    /\ rbox' = Tail(rbox)
    /\ UNCHANGED <<server, cache, wired, control, route, dbox, plane, tun, up, refused,
                   restarting, commands, faults>>

\* Somebody else removes the routes; the listener tells the actor ...
KernelChanges ==
    /\ Fault("kernel")
    /\ owned' = 0 /\ UNCHANGED <<mark, desired, failed>>
    /\ AskRoute(Bare("KernelRoutesChanged", "nobody"))
    /\ UNCHANGED <<server, cache, wired, control, answered, dbox, plane, tun, up, refused,
                   restarting, commands>>

\* ... which installs what it remembers, if the device is there ...
ReconcileLast ==
    /\ rbox # <<>> /\ Head(rbox).op = "KernelRoutesChanged"
    /\ IF desired # {} /\ tun
       THEN owned' = (CHOOSE d \in desired : TRUE) /\ failed' = FALSE
       ELSE UNCHANGED <<owned, failed>>
    /\ rbox' = Tail(rbox)
    /\ UNCHANGED <<server, cache, wired, control, answered, mark, desired, dbox, plane, tun, up,
                   refused, restarting, commands, faults>>

\* ... or only logs that it could not.
ReconcileFails ==
    /\ rbox # <<>> /\ Head(rbox).op = "KernelRoutesChanged" /\ desired # {} /\ tun
    /\ Fault("route")
    /\ owned' \in {owned, 0} \cup desired /\ failed' = TRUE
    /\ rbox' = Tail(rbox)
    /\ UNCHANGED <<server, cache, wired, control, answered, mark, desired, dbox, plane, tun, up,
                   refused, restarting, commands>>

\* The listener ends: the actor withdraws its routes and is restarted, and the
\* data plane after it.
RouteRestarts ==
    /\ Fault("listener")
    /\ owned' = 0 /\ desired' = {} /\ mark' = {} /\ failed' = FALSE
    /\ restarting' = TRUE
    /\ UNCHANGED <<server, cache, wired, control, answered, rbox, dbox, plane, tun, up, refused,
                   commands>>

-----------------------------------------------------------------------------
\* The operator's up and down.
Command(op) ==
    /\ commands < MaxCommands /\ commands' = commands + 1
    /\ AskPlane(op, "nobody")
    /\ UNCHANGED <<server, cache, wired, control, answered, rbox, route, plane, tun, up, refused,
                   restarting, faults>>

ControlStep == RoutesAnswered \/ RoutesTimeOut \/ PlaneAnswered
PlaneStep ==
    \/ NothingToDo \/ DirectConflicts \/ Refuse \/ BuildTun \/ TunFails \/ RoutesUp \/ RoutesFail
    \/ BringDown \/ TakeRestart \/ Withdrawn
RouteStep ==
    \/ ApplyDesired \/ ApplyFails \/ ClearRoutes \/ ClearFails \/ ListRoutes \/ ReconcileLast
    \/ ReconcileFails

Next ==
    \/ TakeSnapshot \/ (\E save \in BOOLEAN : TakeAbsence(save))
    \/ ControlStep \/ ControlRestarts
    \/ PlaneStep \/ OutboundEnds
    \/ RouteStep \/ KernelChanges \/ RouteRestarts
    \/ (\E op \in {"BringUp", "BringDown"} : Command(op))

Spec == Init /\ [][Next]_vars

\* Every actor goes on with what is in its mailbox.  No message, command or
\* fault has to come.
FairSpec == Spec /\ WF_vars(ControlStep) /\ WF_vars(PlaneStep) /\ WF_vars(RouteStep)

-----------------------------------------------------------------------------
\* The inductive invariant behind PlaneAgrees, from what a mailbox q holds.

Pending(q, op) == \E i \in DOMAIN q : q[i].op = op
Asked(q) == \E i \in DOMAIN q : q[i].asker = "control"
AskedFor(q, op) == \E i \in DOMAIN q : q[i].asker = "control" /\ q[i].op = op
AskedOnce(q) == \A i, j \in DOMAIN q : q[i].asker = "control" /\ q[j].asker = "control" => i = j

\* Outside a message the flag and the device go together.
DeviceInv ==
    /\ plane.pc = "idle" => (up <=> tun)
    /\ plane.pc = "conflicts" => ~tun /\ ~up
    /\ plane.pc = "apply" => tun /\ ~up
    /\ plane.pc = "withdraw" => ~tun

\* The control actor has one request under way, which is where its own state says.
RequestInv ==
    /\ control.pc = "idle" => answered.control = "none"
    /\ Asked(rbox) => control.pc \in {"routes", "clear"} /\ answered.control = "none"
    /\ plane.asker = "control" =>
          control.pc \in {"up", "down"} /\ answered.control = "none" /\ ~Asked(dbox)
    /\ Asked(dbox) => answered.control = "none"
    /\ AskedFor(dbox, "BringUp") => control.pc = "up"
    /\ AskedFor(dbox, "BringDown") => control.pc = "down"
    /\ AskedOnce(rbox) /\ AskedOnce(dbox)

\* Snapshots are in the mailbox in their order: none is ever refused as stale.
Later(q, w) == \A i \in DOMAIN q : \A v \in q[i].version : w <= v
Sorted(q) ==
    \A i, j \in DOMAIN q : i < j => \A v \in q[i].version, w \in q[j].version : v <= w
Bounded(q, r) == \A i \in DOMAIN q : \A v \in q[i].version : v <= r
VersionInv ==
    /\ Sorted(rbox) /\ Bounded(rbox, rev)
    /\ \A w \in mark : w <= rev /\ Later(rbox, w)

\* Routes are desired once the messages of q are handled, d being desired now.
Dirty(q, d) ==
    \/ d # {} /\ ~Pending(q, "ClearRoutes")
    \/ \E i \in DOMAIN q :
          /\ q[i].op = "ApplyDesiredRoutes"
          /\ \A j \in DOMAIN q : j > i => q[j].op # "ClearRoutes"

\* The control actor still has to bring the plane to where the routes are.
Owes(asking, moving) ==
    \/ control.pc = asking
    \/ control.pc = moving /\ answered.control = "none" /\ plane.asker # "control"

Local(q) == \E i \in DOMAIN q : q[i].op = "ApplyDesiredRoutes" /\ q[i].version = {}

RoutesInv ==
    /\ desired # {} => \E d \in Versions : desired = {d}
    /\ ~tun /\ owned # 0 => Pending(rbox, "ClearRoutes") \/ failed
    /\ ~tun /\ Dirty(rbox, desired) => Owes("routes", "up") \/ plane.pc = "conflicts" \/ refused
    /\ tun /\ ~restarting /\ ~Dirty(rbox, desired) => Owes("clear", "down")
    /\ tun /\ desired # {} /\ desired # {owned} =>
          \/ Pending(rbox, "ClearRoutes") \/ Pending(rbox, "KernelRoutesChanged") \/ Local(rbox)
          \/ failed

-----------------------------------------------------------------------------
Settled ==
    /\ control = Idle /\ plane = Resting /\ ~restarting
    /\ rbox = <<>> /\ dbox = <<>>

\* Whatever requests timed out and whichever actors were restarted, once all of
\* them rest they agree: a plane that is up has its device, and the host has
\* exactly the routes the RouteActor remembers; one that is down has left none
\* behind, and none that a kernel change would bring back.  Only a system that
\* refuses a change of its routes keeps the host from it, until the next change
\* succeeds; and only a bring-up refused before anything was built leaves routes
\* remembered by a plane that is down, until it is next brought up or torn down.
PlaneAgrees ==
    Settled =>
        /\ up <=> tun
        /\ up => desired # {} /\ (desired = {owned} \/ failed)
        /\ ~up => (desired = {} \/ refused) /\ (owned = 0 \/ failed)

\* The control actor is never stuck in a message, with or without the timeouts:
\* its request to the data plane has none, nor has the data plane's request for
\* the kernel's routes, and either actor may be restarted meanwhile.
MessagesHandled == control # Idle ~> control = Idle

\* A restart is carried out, and followed by a plane that is up, or that somebody
\* took down or whose device could not be built, or whose bring-up was refused.
RestartRecovers ==
    /\ restarting ~> plane.again
    /\ plane.again ~> \/ up /\ tun /\ ~restarting
                      \/ plane.pc = "withdraw" /\ ~plane.again
                      \/ refused

\* actors/mod.rs, ControlVersion: "the version lets owners reject stale state so
\* an older snapshot can never become authoritative after a newer one."
NewestAuthoritative == Settled /\ up /\ member => desired = {rev}
===============================================================================
