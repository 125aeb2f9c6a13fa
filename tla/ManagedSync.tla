---------------------------- MODULE ManagedSync ----------------------------
(***************************************************************************)
(* How one managed agent (Self) follows the member list of its network.    *)
(*                                                                         *)
(* The control plane keeps devices and memberships in Postgres with two    *)
(* version counters, one of the organization and one of the network.  A    *)
(* snapshot is read by several queries outside any transaction             *)
(* (snapshot.rs), so a write may fall between two of them.  Snapshots      *)
(* reach the agent along three roads that overtake each other: pushes on   *)
(* the websocket after a NOTIFY, the one a new websocket session sends,    *)
(* and the answers to polls.  The reaper also pushes peer-left deltas and  *)
(* revocations.  The agent keeps the revisions it applied last             *)
(* (ManagedRevisions) and refuses what is older.                           *)
(*                                                                         *)
(* A routing table is the set of peers it admits; everything else of a     *)
(* snapshot (policy, subnets, DNS, relays) is left out.  One network, one  *)
(* control-plane process, one websocket session at a time.                 *)
(***************************************************************************)
EXTENDS Naturals, Sequences

CONSTANTS
    Self,          \* the agent's endpoint
    Peers,         \* the other endpoints of the network
    Listener,      \* the builder of the NOTIFY listener
    Session,       \* the builder of a new websocket session
    Polls,         \* requests of the agent in flight: polls, or register at boot
    Writes,        \* kinds of database writes of the instance
    Faults,        \* kinds of faults of the instance
    MaxOrg, MaxNet,\* bounds: the versions
    MaxFaults      \* bound: faults in one behaviour

\* The constants of every instance of the module.
ASSUME SyncAssumption ==
    /\ Self \notin Peers
    /\ Listener # Session /\ Listener \notin Polls /\ Session \notin Polls
    /\ MaxOrg \in Nat /\ MaxNet \in Nat /\ MaxFaults \in Nat

Nodes    == Peers \cup {Self}
Builders == Polls \cup {Listener, Session}

(***************************************************************************)
(* ServerMsg and EndpointSnapshot.  A snapshot's kind is what it says of   *)
(* Self in the network: "member" (an active membership), "absent" (only a  *)
(* revision), "none" (no row).  "delta" removes `peers`; on the wire it    *)
(* carries no organization revision, `org` only records the one of the     *)
(* write it announces.                                                     *)
(***************************************************************************)
Kinds == {"member", "absent", "none", "delta", "revoked"}
Msgs  == [kind : Kinds, org : Nat, net : Nat, peers : SUBSET Peers]
Msg(k, o, n, ps) == [kind |-> k, org |-> o, net |-> n, peers |-> ps]
NoMsg == Msg("none", 0, 0, {})

VARIABLES
    status,     \* network_memberships.status, "none" when there is no row
    device,     \* devices: "live", "expired" (expired_at set), "gone"
    org, net,   \* organization.snapshot_version, networks.version
    removedAt,  \* history: the network version that dropped the peer
    notified,   \* NOTIFYs the listener has not taken yet
    reaper,     \* what the reaper committed and has not announced yet
    build,      \* build_endpoint_snapshot: where it is and what it has read
    ws,         \* the agent's websocket is open
    hub,        \* the hub knows the session
    hubq,       \* messages of the session on their way to the agent
    up,         \* the agent process has booted
    dataplane,  \* what the control actor last asked of the data plane
    routes,     \* the peers of the routing table
    applied,    \* ManagedRevisions
    cache,      \* the snapshot cache on disk
    faults      \* faults so far

db     == <<status, device, org, net, removedAt>>
server == <<notified, reaper, hub, hubq, ws>>
agent  == <<up, dataplane, routes, applied, cache>>
vars   == <<db, server, build, agent, faults>>

\* load_ipv4_peers: what the peer query returns now.
Members == {p \in Peers : status[p] = "active" /\ device[p] = "live"}

\* authenticate, ws_handler: the checks on the caller's rows.  is_device_expired
\* also refuses a machine that is past its time to live and that the reaper has
\* yet to expire; that minute is left out, the machine is refused from SoftExpire on.
Admitted == status[Self] = "active" /\ device[Self] = "live"

Quiet   == [pc |-> "idle", msg |-> NoMsg]
Resting == [pc |-> "idle", node |-> Self, org |-> 0, net |-> 0]

\* The agent is enrolled with an active membership; it has not booted, and
\* its cache holds the snapshot the enrolment returned.
Init ==
    /\ status = [n \in Nodes |-> "active"]
    /\ device = [n \in Nodes |-> "live"]
    /\ org = 1 /\ net = 1
    /\ removedAt = [p \in Peers |-> 0]
    /\ notified = 0 /\ reaper = Resting
    /\ build = [b \in Builders |-> Quiet]
    /\ ws = FALSE /\ hub = FALSE /\ hubq = <<>>
    /\ up = FALSE /\ dataplane = "down" /\ routes = {}
    /\ applied = [org |-> 0, net |-> 0]
    /\ cache = Msg("member", 1, 1, Peers)
    /\ faults = 0

-----------------------------------------------------------------------------
(***************************************************************************)
(* Database writes, each one transaction.                                  *)
(***************************************************************************)

\* The version bumps of a transaction that adds o and n to the counters.
Bump(o, n) ==
    /\ org + o <= MaxOrg /\ net + n <= MaxNet
    /\ org' = org + o
    /\ net' = net + n
    /\ removedAt' = [p \in Peers |->
           IF p \in Members /\ ~(status'[p] = "active" /\ device'[p] = "live")
             THEN net + n ELSE removedAt[p]]

\* NOTIFYs sent by the transaction.
Notify(k) ==
    /\ notified' = notified + k
    /\ UNCHANGED <<reaper, hub, hubq, ws, build, agent, faults>>

\* register_endpoint: an active enrolment always wins, a pending one only
\* creates the row; expired_at is cleared only when a TTL comes with it.
ClearsExpiry(n, ttl) == device[n] = "gone" \/ ttl

Enroll(n, s, ttl) ==
    /\ "enroll" \in Writes
    /\ status' = [status EXCEPT ![n] =
           IF s = "active" THEN "active" ELSE IF @ = "none" THEN "inactive" ELSE @]
    /\ device' = [device EXCEPT ![n] = IF ClearsExpiry(n, ttl) THEN "live" ELSE @]
    /\ Bump(1, 1)
    /\ Notify(2)

\* The membership patch (active, suspended) and the approval of a pending one.
SetStatus(n, s) ==
    /\ "status" \in Writes
    /\ status[n] # "none"
    /\ status' = [status EXCEPT ![n] = s]
    /\ UNCHANGED device
    /\ Bump(0, 1)
    /\ Notify(1)

\* Mutant: the device row is left behind.
Remove_KeepsDevice(n) ==
    /\ "remove" \in Writes
    /\ status[n] # "none"
    /\ status' = [status EXCEPT ![n] = "none"]
    /\ UNCHANGED device
    /\ Bump(1, 1)
    /\ Notify(2)

\* removeDeviceMembership of the last membership: the device goes with it.
Remove(n) ==
    /\ "remove" \in Writes
    /\ status[n] # "none"
    /\ status' = [status EXCEPT ![n] = "none"]
    /\ device' = [device EXCEPT ![n] = "gone"]
    /\ Bump(1, 1)
    /\ Notify(2)

\* applyDevicePatch with expiresIn: expired_at is cleared, memberships stay.
PatchTtl(n) ==
    /\ "ttl" \in Writes
    /\ device[n] # "gone"
    /\ device' = [device EXCEPT ![n] = "live"]
    /\ UNCHANGED status
    /\ Bump(1, 0)
    /\ Notify(1)

\* Writes that change no membership: stale-device sweep, HA failover (the
\* network), policy and settings (the organization).
OtherWrite(o) ==
    /\ "other" \in Writes
    /\ UNCHANGED <<status, device>>
    /\ Bump(o, 1 - o)
    /\ Notify(1)

\* What the reaper keeps from its transaction for the announcement; net is 0
\* when no membership row changed.
Reaped(n, changed) ==
    /\ Bump(1, IF changed THEN 1 ELSE 0)
    /\ reaper' = [pc |-> "committed", node |-> n, org |-> org',
                  net |-> IF changed THEN net' ELSE 0]
    /\ UNCHANGED <<notified, hub, hubq, ws, build, agent, faults>>

\* soft_expire_device up to the commit.
SoftExpire(n) ==
    /\ "expire" \in Writes
    /\ reaper.pc = "idle"
    /\ device[n] = "live"
    /\ device' = [device EXCEPT ![n] = "expired"]
    /\ status' = [status EXCEPT ![n] = IF @ = "none" THEN @ ELSE "expired"]
    /\ Reaped(n, status[n] \notin {"none", "expired"})

\* hard_delete_device up to the commit.
HardDelete(n) ==
    /\ "purge" \in Writes
    /\ reaper.pc = "idle"
    /\ device[n] # "gone"
    /\ device' = [device EXCEPT ![n] = "gone"]
    /\ status' = [status EXCEPT ![n] = "none"]
    /\ Reaped(n, status[n] # "none")

\* WsHub::push_to: only a registered session gets the message.
Pushed(ms) == hubq' = IF hub THEN hubq \o ms ELSE hubq

\* After the commit: MembershipRevoked to the device itself and its
\* disconnection, or the peer-left delta to Self; then the NOTIFY.
ReaperAnnounce ==
    /\ reaper.pc = "committed"
    /\ Pushed(IF reaper.net = 0 THEN <<>>
              ELSE IF reaper.node = Self
                THEN << Msg("revoked", reaper.org, reaper.net, {}) >>
                ELSE << Msg("delta", reaper.org, reaper.net, {reaper.node}) >>)
    /\ hub' = (hub /\ reaper.node # Self)
    /\ notified' = notified + 1
    /\ reaper' = Resting
    /\ UNCHANGED <<db, ws, build, agent, faults>>

-----------------------------------------------------------------------------
(***************************************************************************)
(* build_endpoint_snapshot, one step per query.                            *)
(***************************************************************************)
Reads(b, pc, m) ==
    /\ build' = [build EXCEPT ![b] = [pc |-> pc, msg |-> m]]
    /\ UNCHANGED <<db, server, agent, faults>>

\* The device row and the organization version; no device, no snapshot.
ReadOrg(b) ==
    /\ build[b].pc = "org"
    /\ IF device[Self] = "gone"
         THEN Reads(b, "idle", NoMsg)
         ELSE Reads(b, "rows", Msg("none", org, 0, {}))

\* The active membership with the network version.
ReadRows(b) ==
    /\ build[b].pc = "rows"
    /\ IF status[Self] = "active"
         THEN Reads(b, "peers", Msg("member", build[b].msg.org, net, {}))
         ELSE Reads(b, "revs", build[b].msg)

\* network_revisions, the version of every network with a row of Self.
ReadRevs(b) ==
    /\ build[b].pc = "revs"
    /\ Reads(b, "done", IF status[Self] = "none" THEN build[b].msg
                        ELSE Msg("absent", build[b].msg.org, net, {}))

\* Mutant: the versions are read after the peers.
ReadPeers_VersionsLast(b) ==
    /\ build[b].pc = "peers"
    /\ IF build[b].msg.peers = {}
         THEN Reads(b, "peers", [build[b].msg EXCEPT !.peers = Members])
         ELSE Reads(b, "done", [build[b].msg EXCEPT !.org = org, !.net = net])

\* Mutant: the peer query forgets expired_at.
ReadPeers_IgnoresExpiry(b) ==
    /\ build[b].pc = "peers"
    /\ Reads(b, "done", [build[b].msg EXCEPT !.peers = {p \in Peers : status[p] = "active"}])

\* The peers, after the version the snapshot carries.
ReadPeers(b) ==
    /\ build[b].pc = "peers"
    /\ Reads(b, "done", [build[b].msg EXCEPT !.peers = Members])

-----------------------------------------------------------------------------
(***************************************************************************)
(* The roads of a snapshot.                                                *)
(***************************************************************************)

\* run_listener: one NOTIFY at a time; the snapshot is built for the
\* sessions the hub knows.
TakeNotify ==
    /\ notified > 0
    /\ build[Listener].pc = "idle"
    /\ notified' = notified - 1
    /\ build' = [build EXCEPT ![Listener].pc = IF hub THEN "org" ELSE "idle"]
    /\ UNCHANGED <<db, reaper, hub, hubq, ws, agent, faults>>

Push ==
    /\ build[Listener].pc = "done"
    /\ Pushed(<<build[Listener].msg>>)
    /\ build' = [build EXCEPT ![Listener] = Quiet]
    /\ UNCHANGED <<db, notified, reaper, hub, ws, agent, faults>>

\* ws_handler: the checks, then run_ws registers the session with the hub.
WsConnect ==
    /\ up /\ ~ws /\ Admitted
    /\ ws' = TRUE
    /\ build' = [build EXCEPT ![Session].pc = "auth"]
    /\ UNCHANGED <<db, notified, reaper, hub, hubq, agent, faults>>

WsRegister ==
    /\ build[Session].pc = "auth"
    /\ hub' = TRUE
    /\ build' = [build EXCEPT ![Session].pc = "org"]
    /\ UNCHANGED <<db, notified, reaper, hubq, ws, agent, faults>>

\* The session's own snapshot goes out before the queued messages.
WsFirst ==
    /\ build[Session].pc = "done"
    /\ hubq' = <<build[Session].msg>> \o hubq
    /\ build' = [build EXCEPT ![Session] = Quiet]
    /\ UNCHANGED <<db, notified, reaper, hub, ws, agent, faults>>

SessionGone ==
    /\ ws' = FALSE /\ hub' = FALSE /\ hubq' = <<>>
    /\ UNCHANGED <<notified, reaper>>

\* A disconnected session ends when its queue is empty.
WsEnd ==
    /\ ws /\ ~hub /\ hubq = <<>> /\ build[Session].pc = "idle"
    /\ SessionGone
    /\ UNCHANGED <<db, build, agent, faults>>

\* PollNow, register: the request passes authenticate and is being answered.
Request(b) ==
    /\ b \in Polls
    /\ build[b].pc = "idle"
    /\ Admitted
    /\ build' = [build EXCEPT ![b].pc = "org"]
    /\ UNCHANGED <<db, server, agent, faults>>

-----------------------------------------------------------------------------
(***************************************************************************)
(* The agent.                                                              *)
(***************************************************************************)

\* Mutants: one revision is forgotten, or an equal one refused.
Fresh_OrgOnly(m)  == m.org >= applied.org
Fresh_NewerOrg(m) == m.org > applied.org /\ m.net >= applied.net

\* apply_snapshot, accept_absence: neither revision may be older.
Fresh(m) == m.org >= applied.org /\ m.net >= applied.net

\* save_snapshot_cache comes last and its error is ignored.
Saved(m) == cache' \in {cache, m}

ApplyMembership(m) ==
    /\ m.kind = "member" /\ Fresh(m)
    /\ routes' = m.peers
    /\ dataplane' = "up"
    /\ applied' = [org |-> m.org, net |-> m.net]
    /\ Saved(m)

AcceptAbsence(m) ==
    /\ m.kind \in {"absent", "revoked"} /\ Fresh(m)
    /\ routes' = {}
    /\ dataplane' = "down"
    /\ applied' = [org |-> m.org, net |-> m.net]
    /\ IF m.kind = "absent" THEN Saved(m) ELSE UNCHANGED cache

ApplyDelta(m) ==
    /\ m.kind = "delta" /\ m.net >= applied.net
    /\ routes' = routes \ m.peers
    /\ applied' = [applied EXCEPT !.net = m.net]
    /\ UNCHANGED <<dataplane, cache>>

Refuse(m) ==
    /\ \/ m.kind = "none"
       \/ m.kind \in {"member", "absent", "revoked"} /\ ~Fresh(m)
       \/ m.kind = "delta" /\ m.net < applied.net
    /\ UNCHANGED <<dataplane, routes, applied, cache>>

\* handle_server
Handle(m) ==
    /\ up /\ UNCHANGED up
    /\ ApplyMembership(m) \/ AcceptAbsence(m) \/ ApplyDelta(m) \/ Refuse(m)

Deliver ==
    /\ ws /\ build[Session].pc = "idle" /\ hubq # <<>>
    /\ Handle(Head(hubq))
    /\ hubq' = Tail(hubq)
    /\ UNCHANGED <<db, notified, reaper, hub, ws, build, faults>>

PollCompleted(b) ==
    /\ b \in Polls
    /\ build[b].pc = "done"
    /\ Handle(build[b].msg)
    /\ build' = [build EXCEPT ![b] = Quiet]
    /\ UNCHANGED <<db, server, faults>>

\* Mutant: the two revisions are swapped.
Boots_Swapped(m) ==
    IF m.kind = "member"
      THEN /\ up' = TRUE /\ dataplane' = "up"
           /\ routes' = m.peers
           /\ applied' = [org |-> m.net, net |-> m.org]
      ELSE UNCHANGED <<up, dataplane, routes, applied>>

\* bootstrap_managed with a snapshot: no membership in it, no boot.
Boots(m) ==
    IF m.kind = "member"
      THEN /\ up' = TRUE /\ dataplane' = "up"
           /\ routes' = m.peers
           /\ applied' = [org |-> m.org, net |-> m.net]
      ELSE UNCHANGED <<up, dataplane, routes, applied>>

BootRegister(b) ==
    /\ ~up /\ b \in Polls
    /\ build[b].pc = "done"
    /\ Boots(build[b].msg)
    /\ Saved(build[b].msg)
    /\ build' = [build EXCEPT ![b] = Quiet]
    /\ UNCHANGED <<db, server, faults>>

\* The registration was refused; the cached snapshot serves.
BootCache ==
    /\ ~up /\ ~Admitted
    /\ \A b \in Polls : build[b].pc = "idle"
    /\ Boots(cache)
    /\ UNCHANGED <<db, server, build, cache, faults>>

-----------------------------------------------------------------------------
(***************************************************************************)
(* Faults, MaxFaults of them in a behaviour.                               *)
(***************************************************************************)
Fault(kind) ==
    /\ kind \in Faults
    /\ faults < MaxFaults
    /\ faults' = faults + 1

\* The agent stops: its requests and its session are gone.
Crash ==
    /\ Fault("crash") /\ up
    /\ up' = FALSE /\ dataplane' = "down" /\ routes' = {}
    /\ applied' = [org |-> 0, net |-> 0]
    /\ SessionGone
    /\ build' = [b \in Builders |-> IF b = Listener THEN build[b] ELSE Quiet]
    /\ UNCHANGED <<db, cache>>

\* The websocket breaks; what was queued for the session is lost.
WsDrop ==
    /\ Fault("ws") /\ ws
    /\ SessionGone
    /\ build' = [build EXCEPT ![Session] = Quiet]
    /\ UNCHANGED <<db, agent>>

\* A query fails, or the answer of a request does not arrive.
BuildFails(b) ==
    /\ Fault("build") /\ build[b].pc # "idle" /\ build[b].pc # "auth"
    /\ build' = [build EXCEPT ![b] = Quiet]
    /\ UNCHANGED <<db, server, agent>>

\* The registration at boot gets no answer; the cached snapshot serves.
BootOffline ==
    /\ Fault("offline") /\ ~up
    /\ Boots(cache)
    /\ build' = [b \in Builders |-> IF b \in Polls THEN Quiet ELSE build[b]]
    /\ UNCHANGED <<db, server, cache>>

\* The listener reconnects: the NOTIFYs in between are lost.
ListenerLost ==
    /\ Fault("notify") /\ notified > 0
    /\ notified' = 0
    /\ UNCHANGED <<db, reaper, hub, hubq, ws, build, agent>>

\* The control plane stops between the reaper's commit and its messages.
ReaperLost ==
    /\ Fault("reaper") /\ reaper.pc = "committed"
    /\ reaper' = Resting
    /\ UNCHANGED <<db, notified, hub, hubq, ws, build, agent>>

-----------------------------------------------------------------------------
Write(n) ==
    \/ \E s \in {"active", "inactive"}, ttl \in BOOLEAN : Enroll(n, s, ttl)
    \/ \E s \in {"active", "inactive"} : SetStatus(n, s)
    \/ Remove(n) \/ PatchTtl(n) \/ SoftExpire(n) \/ HardDelete(n)

Builder(b) ==
    \/ ReadOrg(b) \/ ReadRows(b) \/ ReadRevs(b) \/ ReadPeers(b)
    \/ Request(b) \/ PollCompleted(b) \/ BootRegister(b) \/ BuildFails(b)

Next ==
    \/ \E n \in Nodes : Write(n)
    \/ \E o \in {0, 1} : OtherWrite(o)
    \/ \E b \in Builders : Builder(b)
    \/ ReaperAnnounce
    \/ TakeNotify \/ Push
    \/ WsConnect \/ WsRegister \/ WsFirst \/ WsEnd \/ Deliver
    \/ BootCache \/ BootOffline
    \/ Crash \/ WsDrop \/ ListenerLost \/ ReaperLost

Spec == Init /\ [][Next]_vars

\* The poll timer keeps firing, requests that authenticate are answered and
\* their answers handled, and a stopped agent is started again.  Pushes are
\* not assumed to arrive: a NOTIFY or a session may be lost.
Fairness ==
    \A b \in Polls :
        /\ WF_vars(Request(b))
        /\ WF_vars(ReadOrg(b)) /\ WF_vars(ReadRows(b))
        /\ WF_vars(ReadRevs(b)) /\ WF_vars(ReadPeers(b))
        /\ WF_vars(PollCompleted(b)) /\ WF_vars(BootRegister(b))

FairSpec == Spec /\ Fairness

-----------------------------------------------------------------------------
(***************************************************************************)
(* Properties.                                                             *)
(***************************************************************************)

\* Every variable has its type, and a membership row never outlives its
\* device nor a device its last row (hard_delete_device, Remove, Enroll).
TypeOK ==
    /\ status \in [Nodes -> {"active", "inactive", "expired", "none"}]
    /\ device \in [Nodes -> {"live", "expired", "gone"}]
    /\ \A n \in Nodes : device[n] = "gone" <=> status[n] = "none"
    /\ org \in Nat /\ net \in Nat
    /\ removedAt \in [Peers -> Nat]
    /\ notified \in Nat
    /\ reaper \in [pc : {"idle", "committed"}, node : Nodes, org : Nat, net : Nat]
    /\ build \in [Builders -> [pc : {"idle", "auth", "org", "rows", "revs", "peers", "done"},
                               msg : Msgs]]
    /\ ws \in BOOLEAN /\ hub \in BOOLEAN /\ up \in BOOLEAN
    /\ hubq \in Seq(Msgs)
    /\ dataplane \in {"up", "down"}
    /\ routes \in SUBSET Peers
    /\ applied \in [org : Nat, net : Nat]
    /\ cache \in Msgs
    /\ faults \in Nat

\* The agent's revisions never run ahead of the server's.  If they did,
\* apply_snapshot would refuse every later snapshot until the counters catch
\* up, and the agent would keep the routes it has.
NeverAhead == applied.org <= org /\ applied.net <= net

\* An agent that stands at the server's current revisions and was last told
\* it is a member routes exactly to the current members, although no snapshot
\* is read in one transaction and deltas advance the network revision alone.
ExactAtCurrent ==
    up /\ dataplane = "up" /\ applied.org = org /\ applied.net = net
        => routes = Members

\* Once the agent has dropped a peer at (or after) the version that removed
\* it, no late push, overtaken poll or torn snapshot brings the peer back
\* while it is not a member again.
NoResurrection ==
    [][\A p \in Peers :
          up /\ up' /\ p \notin routes /\ p \notin Members /\ removedAt[p] <= applied.net
              => p \notin routes']_vars

\* However writes, deltas, torn reads, lost NOTIFYs, broken sessions and
\* restarts fall, an agent that stays admitted ends up with the data plane
\* up and exactly the members of the network, with polls alone.
Converges == <>[](Admitted => up /\ dataplane = "up" /\ routes = Members)

\* device_expiry_sql.rs: soft expiry is cleared by a re-enrolment.
ReenrollClearsExpiry ==
    [][\A n \in Nodes :
          (\E ttl \in BOOLEAN : Enroll(n, "active", ttl)) => device'[n] = "live"]_vars
=============================================================================
