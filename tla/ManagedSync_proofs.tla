------------------------- MODULE ManagedSync_proofs -------------------------
(***************************************************************************)
(* Theorems about ManagedSync, for every set of peers and of requests and  *)
(* every bound.                                                            *)
(***************************************************************************)
EXTENDS ManagedSync, SequenceTheorems, TLAPS

-----------------------------------------------------------------------------
(***************************************************************************)
(* Types.  TypeOK falls into four parts, one per group of variables.       *)
(***************************************************************************)
Statuses == {"active", "inactive", "expired", "none"}

DbOK ==
    /\ status \in [Nodes -> Statuses]
    /\ device \in [Nodes -> {"live", "expired", "gone"}]
    /\ \A n \in Nodes : device[n] = "gone" <=> status[n] = "none"
    /\ org \in Nat /\ net \in Nat
    /\ removedAt \in [Peers -> Nat]

ServerOK ==
    /\ notified \in Nat
    /\ reaper \in [pc : {"idle", "committed"}, node : Nodes, org : Nat, net : Nat]
    /\ ws \in BOOLEAN /\ hub \in BOOLEAN
    /\ hubq \in Seq(Msgs)

Pcs == {"idle", "auth", "org", "rows", "revs", "peers", "done"}

BuildOK == build \in [Builders -> [pc : Pcs, msg : Msgs]]

AgentOK ==
    /\ up \in BOOLEAN
    /\ dataplane \in {"up", "down"}
    /\ routes \in SUBSET Peers
    /\ applied \in [org : Nat, net : Nat]
    /\ cache \in Msgs
    /\ faults \in Nat

\* The parts make the type invariant.
LEMMA TypeParts == TypeOK <=> DbOK /\ ServerOK /\ BuildOK /\ AgentOK
  BY DEF TypeOK, DbOK, ServerOK, BuildOK, AgentOK, Statuses, Pcs

\* A message built from values of the right types is a message.
LEMMA MsgType ==
  ASSUME NEW k \in Kinds, NEW o \in Nat, NEW n \in Nat, NEW ps \in SUBSET Peers
  PROVE  Msg(k, o, n, ps) \in Msgs
  BY DEF Msg, Msgs

\* A write keeps the types of the database (Bump and the two row updates).
LEMMA WriteTypes ==
  ASSUME DbOK, NEW n \in Nodes, Write(n)
  PROVE  DbOK'
  <1>1. CASE \E s \in {"active", "inactive"}, ttl \in BOOLEAN : Enroll(n, s, ttl)
    BY <1>1 DEF DbOK, Enroll, Bump, ClearsExpiry, Statuses, Nodes
  <1>2. CASE \E s \in {"active", "inactive"} : SetStatus(n, s)
    BY <1>2 DEF DbOK, SetStatus, Bump, Statuses, Nodes
  <1>3. CASE Remove(n)
    BY <1>3 DEF DbOK, Remove, Bump, Statuses, Nodes
  <1>4. CASE PatchTtl(n)
    BY <1>4 DEF DbOK, PatchTtl, Bump, Statuses, Nodes
  <1>5. CASE SoftExpire(n)
    BY <1>5 DEF DbOK, SoftExpire, Reaped, Bump, Statuses, Nodes
  <1>6. CASE HardDelete(n)
    BY <1>6 DEF DbOK, HardDelete, Reaped, Bump, Statuses, Nodes
  <1> QED BY <1>1, <1>2, <1>3, <1>4, <1>5, <1>6 DEF Write

\* So does a write that changes no membership.
LEMMA OtherTypes ==
  ASSUME DbOK, NEW o \in {0, 1}, OtherWrite(o)
  PROVE  DbOK'
  BY DEF DbOK, OtherWrite, Bump, Statuses, Nodes

\* The builders' queries keep types (Reads).
LEMMA ReadTypes ==
  ASSUME TypeOK, NEW b \in Builders,
         ReadOrg(b) \/ ReadRows(b) \/ ReadRevs(b) \/ ReadPeers(b)
  PROVE  TypeOK'
  <1> USE TypeParts
  <1>1. build[b] \in [pc : Pcs, msg : Msgs] /\ build[b].msg \in Msgs
    BY DEF BuildOK
  <1>2. ASSUME NEW pc \in Pcs, NEW m \in Msgs, Reads(b, pc, m)
        PROVE  TypeOK'
    <2>1. BuildOK'
      BY <1>2 DEF BuildOK, Reads
    <2>2. DbOK' /\ ServerOK' /\ AgentOK'
      BY <1>2 DEF Reads, DbOK, ServerOK, AgentOK, db, server, agent, Members
    <2> QED BY <2>1, <2>2 DEF TypeOK, DbOK, ServerOK, BuildOK, AgentOK, Statuses, Pcs
  <1>3. NoMsg \in Msgs /\ Msg("none", org, 0, {}) \in Msgs
    BY MsgType DEF NoMsg, Kinds, DbOK
  <1>4. \A k \in Kinds : Msg(k, build[b].msg.org, net, {}) \in Msgs
    BY <1>1, MsgType DEF Msgs, DbOK
  <1>5. [build[b].msg EXCEPT !.peers = Members] \in Msgs
    BY <1>1 DEF Msgs, Members
  <1>6. CASE ReadOrg(b)
    BY <1>2, <1>3, <1>6 DEF ReadOrg, Pcs
  <1>7. CASE ReadRows(b)
    BY <1>1, <1>2, <1>4, <1>7 DEF ReadRows, Pcs, Kinds
  <1>8. CASE ReadRevs(b)
    BY <1>1, <1>2, <1>4, <1>8 DEF ReadRevs, Pcs, Kinds
  <1>9. CASE ReadPeers(b)
    BY <1>2, <1>5, <1>9 DEF ReadPeers, Pcs
  <1> QED BY <1>6, <1>7, <1>8, <1>9

\* handle_server keeps the agent's types, whatever the message.
LEMMA HandleTypes ==
  ASSUME AgentOK, NEW m \in Msgs, Handle(m), faults' = faults
  PROVE  AgentOK'
  <1>1. m.org \in Nat /\ m.net \in Nat /\ m.peers \in SUBSET Peers
    BY DEF Msgs
  <1>2. up' \in BOOLEAN /\ faults' \in Nat
    BY DEF Handle, AgentOK
  <1>3. CASE ApplyMembership(m)
    BY <1>1, <1>2, <1>3 DEF ApplyMembership, AgentOK, Saved
  <1>4. CASE AcceptAbsence(m)
    BY <1>1, <1>2, <1>4 DEF AcceptAbsence, AgentOK, Saved
  <1>5. CASE ApplyDelta(m)
    BY <1>1, <1>2, <1>5 DEF ApplyDelta, AgentOK
  <1>6. CASE Refuse(m)
    BY <1>2, <1>6 DEF Refuse, AgentOK
  <1> QED BY <1>3, <1>4, <1>5, <1>6 DEF Handle

\* So does booting from a snapshot.
LEMMA BootTypes ==
  ASSUME AgentOK, NEW m \in Msgs, Boots(m), cache' \in {cache, m}, faults' \in Nat
  PROVE  AgentOK'
  <1>1. m.org \in Nat /\ m.net \in Nat /\ m.peers \in SUBSET Peers
    BY DEF Msgs
  <1>2. up' \in BOOLEAN
    BY Zenon DEF Boots, AgentOK
  <1>3. dataplane' \in {"up", "down"} /\ routes' \in SUBSET Peers
          /\ applied' \in [org : Nat, net : Nat]
    BY <1>1 DEF Boots, AgentOK
  <1> QED BY <1>2, <1>3 DEF AgentOK

\* Every step keeps the types.
LEMMA TypeStep == TypeOK /\ [Next]_vars => TypeOK'
  <1> SUFFICES ASSUME TypeOK, [Next]_vars PROVE TypeOK'
    OBVIOUS
  <1> USE TypeParts
  <1>a. DbOK /\ ServerOK /\ BuildOK /\ AgentOK
    OBVIOUS
  <1>p. DbOK' /\ ServerOK' /\ BuildOK' /\ AgentOK' => TypeOK'
    BY DEF TypeOK, DbOK, ServerOK, BuildOK, AgentOK, Statuses, Pcs
  <1>d. UNCHANGED db => DbOK'
    BY <1>a DEF db, DbOK
  <1>s. UNCHANGED server => ServerOK'
    BY <1>a DEF server, ServerOK
  <1>b. UNCHANGED build => BuildOK'
    BY <1>a DEF BuildOK
  <1>g. UNCHANGED <<agent, faults>> => AgentOK'
    BY <1>a DEF agent, AgentOK
  <1>q. \A c \in Builders : build[c] \in [pc : Pcs, msg : Msgs] /\ build[c].msg \in Msgs
    BY <1>a DEF BuildOK
  <1>n. Quiet \in [pc : Pcs, msg : Msgs] /\ NoMsg \in Msgs
    BY MsgType DEF Quiet, NoMsg, Kinds, Pcs
  <1>z. \A c \in Builders : build' = [build EXCEPT ![c] = Quiet] => BuildOK'
    BY <1>a, <1>n DEF BuildOK
  <1>e. ASSUME NEW c \in Builders, NEW pc \in Pcs, build' = [build EXCEPT ![c].pc = pc]
        PROVE  BuildOK'
    BY <1>a, <1>e DEF BuildOK
  <1>l. Listener \in Builders /\ Session \in Builders
    BY DEF Builders
  <1>v. SessionGone => ServerOK'
    <2>1. <<>> \in Seq(Msgs)
      OBVIOUS
    <2>2. SessionGone => ws' \in BOOLEAN /\ hub' \in BOOLEAN
      BY Zenon DEF SessionGone
    <2> QED BY <1>a, <2>1, <2>2 DEF SessionGone, ServerOK
  <1>w. ASSUME NEW ms \in Seq(Msgs), Pushed(ms) PROVE hubq' \in Seq(Msgs)
    BY <1>a, <1>w, ConcatProperties DEF Pushed, ServerOK
  <1>h. Resting \in [pc : {"idle", "committed"}, node : Nodes, org : Nat, net : Nat]
    BY DEF Resting, Nodes
  <1>1. ASSUME NEW n \in Nodes, Write(n) PROVE TypeOK'
    <2>1. DbOK'
      BY <1>a, <1>1, WriteTypes
    <2>2. ASSUME NEW k \in Nat, Notify(k) PROVE TypeOK'
      BY <1>a, <1>b, <1>g, <1>p, <2>1, <2>2 DEF Notify, ServerOK
    <2>3. ASSUME NEW changed \in BOOLEAN, Reaped(n, changed) PROVE TypeOK'
      <3>1. reaper' \in [pc : {"idle", "committed"}, node : Nodes, org : Nat, net : Nat]
        BY <2>1, <2>3 DEF Reaped, DbOK
      <3> QED BY <1>a, <1>b, <1>g, <1>p, <2>1, <2>3, <3>1 DEF Reaped, ServerOK
    <2> QED BY <1>1, <2>2, <2>3
          DEF Write, Enroll, SetStatus, Remove, PatchTtl, SoftExpire, HardDelete
  <1>2. ASSUME NEW o \in {0, 1}, OtherWrite(o) PROVE TypeOK'
    <2>1. DbOK'
      BY <1>a, <1>2, OtherTypes
    <2> QED BY <1>a, <1>b, <1>g, <1>p, <1>2, <2>1 DEF OtherWrite, Notify, ServerOK
  <1>3. ASSUME NEW b \in Builders, Builder(b) PROVE TypeOK'
    <2>1. CASE ReadOrg(b) \/ ReadRows(b) \/ ReadRevs(b) \/ ReadPeers(b)
      BY <2>1, ReadTypes
    <2>2. CASE Request(b)
      BY <1>d, <1>s, <1>e, <1>g, <1>p, <2>2 DEF Request, Pcs
    <2>3. CASE PollCompleted(b)
      BY <1>a, <1>d, <1>s, <1>z, <1>p, <1>q, <2>3, HandleTypes DEF PollCompleted
    <2>4. CASE BootRegister(b)
      BY <1>a, <1>d, <1>s, <1>z, <1>p, <1>q, <2>4, BootTypes DEF BootRegister, Saved, AgentOK
    <2>5. CASE BuildFails(b)
      <3>1. AgentOK'
        BY <1>a, <2>5 DEF BuildFails, Fault, AgentOK, agent
      <3> QED BY <1>d, <1>s, <1>z, <1>p, <2>5, <3>1 DEF BuildFails
    <2> QED BY <1>3, <2>1, <2>2, <2>3, <2>4, <2>5 DEF Builder
  <1>4. CASE ReaperAnnounce
    <2>1. reaper.org \in Nat /\ reaper.net \in Nat /\ (reaper.node # Self => reaper.node \in Peers)
      BY <1>a DEF ServerOK, Nodes
    <2>2. Msg("revoked", reaper.org, reaper.net, {}) \in Msgs
      BY <2>1, MsgType DEF Kinds
    <2>3. reaper.node # Self => Msg("delta", reaper.org, reaper.net, {reaper.node}) \in Msgs
      BY <2>1, MsgType DEF Kinds
    <2>4. hubq' \in Seq(Msgs)
      <3>1. CASE reaper.net = 0
        BY <1>a, <1>4, <3>1, ConcatProperties DEF ReaperAnnounce, Pushed, ServerOK
      <3>2. CASE reaper.net # 0 /\ reaper.node = Self
        BY <1>a, <1>4, <2>2, <3>2, ConcatProperties DEF ReaperAnnounce, Pushed, ServerOK
      <3>3. CASE reaper.net # 0 /\ reaper.node # Self
        BY <1>a, <1>4, <2>3, <3>3, ConcatProperties DEF ReaperAnnounce, Pushed, ServerOK
      <3> QED BY <3>1, <3>2, <3>3
    <2>5. hub' \in BOOLEAN
      BY <1>a, <1>4, Zenon DEF ReaperAnnounce, ServerOK
    <2>6. ServerOK'
      BY <1>a, <1>h, <1>4, <2>4, <2>5 DEF ReaperAnnounce, ServerOK
    <2> QED BY <1>d, <1>b, <1>g, <1>p, <1>4, <2>6 DEF ReaperAnnounce
  <1>5. CASE TakeNotify
    <2>1. ServerOK'
      BY <1>a, <1>5 DEF TakeNotify, ServerOK
    <2> QED BY <1>d, <1>e, <1>g, <1>l, <1>p, <1>5, <2>1 DEF TakeNotify, Pcs
  <1>6. CASE Push
    <2>1. hubq' \in Seq(Msgs)
      <3>1. <<build[Listener].msg>> \in Seq(Msgs)
        BY <1>l, <1>q
      <3> QED BY <1>w, <1>6, <3>1 DEF Push
    <2>2. ServerOK'
      BY <1>a, <1>6, <2>1 DEF Push, ServerOK
    <2> QED BY <1>d, <1>z, <1>g, <1>l, <1>p, <1>6, <2>2 DEF Push
  <1>7. CASE WsConnect
    <2>2. ws' \in BOOLEAN
      BY <1>7, Zenon DEF WsConnect
    <2>1. ServerOK'
      BY <1>a, <1>7, <2>2 DEF WsConnect, ServerOK
    <2> QED BY <1>d, <1>e, <1>g, <1>l, <1>p, <1>7, <2>1 DEF WsConnect, Pcs
  <1>8. CASE WsRegister
    <2>2. hub' \in BOOLEAN
      BY <1>8, Zenon DEF WsRegister
    <2>1. ServerOK'
      BY <1>a, <1>8, <2>2 DEF WsRegister, ServerOK
    <2> QED BY <1>d, <1>e, <1>g, <1>l, <1>p, <1>8, <2>1 DEF WsRegister, Pcs
  <1>9. CASE WsFirst
    <2>1. <<build[Session].msg>> \in Seq(Msgs)
      BY <1>l, <1>q
    <2>2. hubq' \in Seq(Msgs)
      BY <1>a, <1>9, <2>1, ConcatProperties DEF WsFirst, ServerOK
    <2>3. ServerOK'
      BY <1>a, <1>9, <2>2 DEF WsFirst, ServerOK
    <2> QED BY <1>d, <1>z, <1>g, <1>l, <1>p, <1>9, <2>3 DEF WsFirst
  <1>10. CASE WsEnd
    BY <1>d, <1>b, <1>g, <1>v, <1>p, <1>10 DEF WsEnd
  <1>11. CASE Deliver
    <2>1. Head(hubq) \in Msgs /\ Tail(hubq) \in Seq(Msgs)
      BY <1>a, <1>11, HeadTailProperties DEF Deliver, ServerOK
    <2>2. AgentOK'
      BY <1>a, <1>11, <2>1, HandleTypes DEF Deliver
    <2>3. ServerOK'
      BY <1>a, <1>11, <2>1 DEF Deliver, ServerOK
    <2> QED BY <1>d, <1>b, <1>p, <1>11, <2>2, <2>3 DEF Deliver
  <1>12. CASE BootCache
    <2>1. AgentOK'
      BY <1>a, <1>12, BootTypes DEF BootCache, AgentOK
    <2> QED BY <1>d, <1>s, <1>b, <1>p, <1>12, <2>1 DEF BootCache
  <1>13. CASE BootOffline
    <2>1. AgentOK'
      BY <1>a, <1>13, BootTypes DEF BootOffline, AgentOK, Fault
    <2>2. BuildOK'
      BY <1>n, <1>q, <1>13 DEF BootOffline, BuildOK
    <2> QED BY <1>d, <1>s, <1>p, <1>13, <2>1, <2>2 DEF BootOffline
  <1>14. CASE Crash
    <2>3. up' \in BOOLEAN
      BY <1>14, Zenon DEF Crash
    <2>1. AgentOK'
      BY <1>a, <1>14, <2>3 DEF Crash, AgentOK, Fault
    <2>2. BuildOK'
      BY <1>n, <1>q, <1>14 DEF Crash, BuildOK
    <2> QED BY <1>d, <1>v, <1>p, <1>14, <2>1, <2>2 DEF Crash
  <1>15. CASE WsDrop
    <2>1. AgentOK'
      BY <1>a, <1>15 DEF WsDrop, AgentOK, Fault, agent
    <2> QED BY <1>d, <1>v, <1>z, <1>l, <1>p, <1>15, <2>1 DEF WsDrop
  <1>16. CASE ListenerLost
    <2>1. AgentOK' /\ ServerOK'
      BY <1>a, <1>16 DEF ListenerLost, AgentOK, ServerOK, Fault, agent
    <2> QED BY <1>d, <1>b, <1>p, <1>16, <2>1 DEF ListenerLost
  <1>17. CASE ReaperLost
    <2>1. AgentOK' /\ ServerOK'
      BY <1>a, <1>h, <1>17 DEF ReaperLost, AgentOK, ServerOK, Fault, agent
    <2> QED BY <1>d, <1>b, <1>p, <1>17, <2>1 DEF ReaperLost
  <1>18. CASE UNCHANGED vars
    BY <1>d, <1>s, <1>b, <1>g, <1>p, <1>18 DEF vars
  <1> QED BY <1>1, <1>2, <1>3, <1>4, <1>5, <1>6, <1>7, <1>8, <1>9, <1>10, <1>11,
             <1>12, <1>13, <1>14, <1>15, <1>16, <1>17, <1>18 DEF Next

\* The initial states have the types.
LEMMA TypeInit == Init => TypeOK
  <1> SUFFICES ASSUME Init PROVE TypeOK
    OBVIOUS
  <1>1. NoMsg \in Msgs /\ Msg("member", 1, 1, Peers) \in Msgs
    BY MsgType DEF NoMsg, Kinds
  <1>2. ws \in BOOLEAN /\ hub \in BOOLEAN
    BY Zenon DEF Init
  <1>3. DbOK
    BY DEF Init, DbOK, Statuses, Nodes
  <1>4. ServerOK
    BY <1>2 DEF Init, ServerOK, Resting, Nodes
  <1>5. BuildOK
    BY <1>1 DEF Init, BuildOK, Quiet, Pcs
  <1>6. AgentOK
    BY <1>1 DEF Init, AgentOK
  <1> QED BY <1>3, <1>4, <1>5, <1>6, TypeParts

\* The type invariant: whatever the interleaving of writes, queries, messages
\* and faults, rows and devices go together and messages are well formed.
THEOREM SyncTypes == Spec => []TypeOK
  BY TypeInit, TypeStep, PTL DEF Spec

-----------------------------------------------------------------------------
(***************************************************************************)
(* What a message says, judged by the database now.  v is the network      *)
(* version of the last write that raised the organization version: the     *)
(* reaper's writes raise both, so no delta announces a version above v,    *)
(* and a snapshot that has seen the current organization version read its  *)
(* network version later and cannot be below v.                            *)
(***************************************************************************)
Lapsed == {"expired", "none"}

Bounded(m) == m.org <= org /\ m.net <= net

\* A peer a snapshot lists is a member still, or was removed by a later version.
Honest(m) ==
    m.kind = "member" => \A p \in m.peers : p \in Members \/ m.net < removedAt[p]

\* A snapshot at the current versions lists the current members.
Exact(m) ==
    m.kind = "member" /\ m.org = org /\ m.net = net => m.peers = Members

\* A delta at the current network version names peers that have not come back.
Late(m, v) ==
    m.kind = "delta" =>
        /\ m.net <= v
        /\ m.net = net => \A p \in m.peers : status[p] \in Lapsed

Coupled(m, v) ==
    m.kind \in {"member", "absent", "revoked"} /\ m.org = org => m.net >= v

Good(v) ==
    {m \in Msgs : Bounded(m) /\ Honest(m) /\ Exact(m) /\ Late(m, v) /\ Coupled(m, v)}

\* What a builder has read so far.
Partial(b, v) ==
    /\ Bounded(build[b].msg)
    /\ build[b].pc \in {"rows", "revs"} => build[b].msg.kind = "none"
    /\ build[b].pc = "peers" => build[b].msg.kind = "member" /\ Coupled(build[b].msg, v)
    /\ build[b].pc = "done" => build[b].msg \in Good(v)

\* What the reaper is about to announce.
Announced(v) ==
    reaper.pc = "committed" =>
        /\ reaper.org <= org /\ reaper.net <= v
        /\ reaper.net = net /\ reaper.net # 0 => status[reaper.node] \in Lapsed
        /\ reaper.org = org /\ reaper.net # 0 => reaper.net >= v

\* Where the agent stands.
Standing(v) ==
    /\ NeverAhead
    /\ up /\ applied.org = org => applied.net >= v
    /\ ExactAtCurrent

SyncInv(v) ==
    /\ v \in Nat /\ v <= net
    /\ hubq \in Seq(Good(v))
    /\ cache \in Good(v)
    /\ \A b \in Builders : Partial(b, v)
    /\ Announced(v)
    /\ Standing(v)

\* The inductive invariant.
Inv == TypeOK /\ \E v \in Nat : SyncInv(v)

-----------------------------------------------------------------------------
(***************************************************************************)
(* Writes.  What all of them have in common is enough to keep every        *)
(* message good: a counter goes up, a peer leaves only with a new network  *)
(* version, and without one no lapsed row comes back.                      *)
(***************************************************************************)
DbStep(o, k) ==
    /\ o + k >= 1
    /\ org' = org + o /\ net' = net + k
    /\ \A p \in Peers :
          IF p \in Members /\ ~(status'[p] = "active" /\ device'[p] = "live")
            THEN k = 1 /\ removedAt'[p] = net + k
            ELSE removedAt'[p] = removedAt[p]
    /\ k = 0 => \A n \in Nodes : status[n] \in Lapsed => status'[n] \in Lapsed

\* Each write of a device or membership row is such a step.
LEMMA WriteSteps ==
  ASSUME TypeOK, NEW n \in Nodes, Write(n)
  PROVE  \E o, k \in {0, 1} : DbStep(o, k)
  <1> USE TypeParts DEF DbOK
  <1>0. Peers \subseteq Nodes
    BY DEF Nodes
  <1>1. CASE \E s \in {"active", "inactive"}, ttl \in BOOLEAN : Enroll(n, s, ttl)
    <2>1. DbStep(1, 1)
      BY <1>0, <1>1 DEF Enroll, Bump, DbStep, Members
    <2> QED BY <2>1
  <1>2. CASE \E s \in {"active", "inactive"} : SetStatus(n, s)
    <2>1. DbStep(0, 1)
      BY <1>0, <1>2 DEF SetStatus, Bump, DbStep, Members
    <2> QED BY <2>1
  <1>3. CASE Remove(n)
    <2>1. DbStep(1, 1)
      BY <1>0, <1>3 DEF Remove, Bump, DbStep, Members
    <2> QED BY <2>1
  <1>4. CASE PatchTtl(n)
    <2>1. DbStep(1, 0)
      BY <1>0, <1>4 DEF PatchTtl, Bump, DbStep, Members
    <2> QED BY <2>1
  <1>5. CASE SoftExpire(n)
    <2>1. CASE status[n] \in Lapsed
      <3>1. DbStep(1, 0)
        BY <1>0, <1>5, <2>1 DEF SoftExpire, Reaped, Bump, DbStep, Members, Lapsed, Statuses
      <3> QED BY <3>1
    <2>2. CASE status[n] \notin Lapsed
      <3>1. DbStep(1, 1)
        BY <1>0, <1>5, <2>2 DEF SoftExpire, Reaped, Bump, DbStep, Members, Lapsed, Statuses
      <3> QED BY <3>1
    <2> QED BY <2>1, <2>2
  <1>6. CASE HardDelete(n)
    <2>1. DbStep(1, 1)
      BY <1>0, <1>6 DEF HardDelete, Reaped, Bump, DbStep, Members, Lapsed
    <2> QED BY <2>1
  <1> QED BY <1>1, <1>2, <1>3, <1>4, <1>5, <1>6 DEF Write

\* So is a write that changes neither.
LEMMA OtherSteps ==
  ASSUME TypeOK, NEW o \in {0, 1}, OtherWrite(o)
  PROVE  DbStep(o, 1 - o)
  BY TypeParts DEF DbOK, OtherWrite, Bump, DbStep, Members

\* A good message stays good across a write.
LEMMA GoodGrows ==
  ASSUME TypeOK, TypeOK', NEW o \in {0, 1}, NEW k \in {0, 1}, DbStep(o, k),
         NEW v \in Nat, v <= net, NEW w \in Nat, w = IF o = 1 THEN net' ELSE v,
         NEW m \in Good(v)
  PROVE  m \in Good(w)'
  <1>0. /\ org \in Nat /\ net \in Nat /\ org' \in Nat /\ net' \in Nat
        /\ removedAt \in [Peers -> Nat] /\ removedAt' \in [Peers -> Nat]
    BY TypeParts DEF DbOK, TypeOK
  <1>1. /\ m \in Msgs /\ m.org \in Nat /\ m.net \in Nat /\ m.peers \in SUBSET Peers
        /\ Bounded(m) /\ Honest(m) /\ Exact(m) /\ Late(m, v) /\ Coupled(m, v)
    BY DEF Good, Msgs
  <1>2. Bounded(m)'
    BY <1>0, <1>1 DEF Bounded, DbStep
  <1>3. Honest(m)'
    <2> SUFFICES ASSUME m.kind = "member", NEW p \in m.peers
                 PROVE  p \in Members' \/ m.net < removedAt'[p]
      BY DEF Honest
    <2>1. p \in Peers
      BY <1>1
    <2>2. p \in Members' <=> status'[p] = "active" /\ device'[p] = "live"
      BY <2>1 DEF Members
    <2>3. p \in Members \/ m.net < removedAt[p]
      BY <1>1 DEF Honest
    <2> QED BY <1>0, <1>1, <2>1, <2>2, <2>3 DEF DbStep, Bounded
  <1>4. Exact(m)'
    BY <1>0, <1>1 DEF Exact, Bounded, DbStep
  <1>5. Late(m, w)'
    BY <1>0, <1>1 DEF Late, Bounded, DbStep, Nodes
  <1>6. Coupled(m, w)'
    BY <1>0, <1>1 DEF Coupled, Bounded, DbStep
  <1> QED BY <1>1, <1>2, <1>3, <1>4, <1>5, <1>6 DEF Good

\* Messages are judged by the database alone.
LEMMA GoodSame ==
  ASSUME UNCHANGED db, NEW v \in Nat
  PROVE  Good(v)' = Good(v)
  BY DEF db, Good, Bounded, Honest, Exact, Late, Coupled, Members

\* A sequence over a set is one over every larger set.
LEMMA SeqMono ==
  ASSUME NEW S, NEW T, S \subseteq T, NEW s \in Seq(S)
  PROVE  s \in Seq(T)
  OBVIOUS

-----------------------------------------------------------------------------
(***************************************************************************)
(* The agent.                                                              *)
(***************************************************************************)

\* Handling a good message keeps the agent's standing and a good cache.
LEMMA HandleStands ==
  ASSUME TypeOK, UNCHANGED db, NEW v \in Nat, v <= net, Standing(v),
         cache \in Good(v), NEW m \in Good(v), Handle(m)
  PROVE  Standing(v)' /\ cache' \in Good(v)
  <1>0. /\ org' = org /\ net' = net /\ Members' = Members
        /\ org \in Nat /\ net \in Nat /\ applied \in [org : Nat, net : Nat]
        /\ applied.org \in Nat /\ applied.net \in Nat /\ routes \in SUBSET Peers
    BY TypeParts DEF db, Members, DbOK, AgentOK
  <1>1. /\ m \in Msgs /\ m.org \in Nat /\ m.net \in Nat /\ m.peers \in SUBSET Peers
        /\ Bounded(m) /\ Honest(m) /\ Exact(m) /\ Late(m, v) /\ Coupled(m, v)
    BY DEF Good, Msgs
  <1>2. up /\ up' = up
    BY DEF Handle
  <1>3. CASE ApplyMembership(m)
    BY <1>0, <1>1, <1>2, <1>3
       DEF ApplyMembership, Standing, NeverAhead, ExactAtCurrent, Saved, Bounded, Exact, Coupled
  <1>4. CASE AcceptAbsence(m)
    BY <1>0, <1>1, <1>2, <1>4
       DEF AcceptAbsence, Standing, NeverAhead, ExactAtCurrent, Saved, Bounded, Coupled
  <1>5. CASE ApplyDelta(m)
    <2>1. applied' = [org |-> applied.org, net |-> m.net] /\ dataplane' = dataplane
      BY <1>0, <1>5 DEF ApplyDelta
    <2>2. applied.org = org => m.net = applied.net
      BY <1>0, <1>1, <1>2, <1>5 DEF ApplyDelta, Late, Standing
    <2>3. m.net = net => m.peers \cap Members = {}
      BY <1>1, <1>5 DEF ApplyDelta, Late, Lapsed, Members
    <2>4. NeverAhead' /\ (up' /\ applied'.org = org' => applied'.net >= v)
      BY <1>0, <1>1, <1>2, <2>1, <2>2 DEF Standing, NeverAhead, Bounded
    <2>5. ExactAtCurrent'
      BY <1>0, <1>2, <1>5, <2>1, <2>2, <2>3 DEF ApplyDelta, Standing, ExactAtCurrent
    <2> QED BY <1>5, <2>4, <2>5 DEF Standing, ApplyDelta
  <1>6. CASE Refuse(m)
    BY <1>0, <1>2, <1>6 DEF Refuse, Standing, NeverAhead, ExactAtCurrent
  <1> QED BY <1>3, <1>4, <1>5, <1>6 DEF Handle

\* Booting from a good snapshot gives the agent a good standing.
LEMMA BootStands ==
  ASSUME TypeOK, UNCHANGED db, NEW v \in Nat, Standing(v), NEW m \in Good(v), Boots(m)
  PROVE  Standing(v)'
  <1>0. org' = org /\ net' = net /\ Members' = Members
    BY DEF db, Members
  <1>1. /\ m \in Msgs /\ m.org \in Nat /\ m.net \in Nat
        /\ Bounded(m) /\ Exact(m) /\ Coupled(m, v)
    BY DEF Good, Msgs
  <1>2. CASE m.kind = "member"
    BY <1>0, <1>1, <1>2
       DEF Boots, Standing, NeverAhead, ExactAtCurrent, Bounded, Exact, Coupled
  <1>3. CASE m.kind # "member"
    BY <1>0, <1>3 DEF Boots, Standing, NeverAhead, ExactAtCurrent
  <1> QED BY <1>2, <1>3

-----------------------------------------------------------------------------
(***************************************************************************)
(* The step.                                                               *)
(***************************************************************************)

\* A write keeps the invariant, with v raised when the organization version is.
LEMMA WriteStep ==
  ASSUME TypeOK, TypeOK', NEW v \in Nat, SyncInv(v),
         NEW o \in {0, 1}, NEW k \in {0, 1}, DbStep(o, k),
         UNCHANGED <<hubq, build, agent>>,
         \/ UNCHANGED reaper
         \/ /\ o = 1
            /\ reaper'.org = org'
            /\ \/ reaper'.net = 0
               \/ reaper'.net = net' /\ status'[reaper'.node] \in Lapsed
  PROVE  \E w \in Nat : SyncInv(w)'
  <1>0. /\ org \in Nat /\ net \in Nat /\ org' \in Nat /\ net' \in Nat
        /\ applied.org \in Nat /\ applied.net \in Nat
        /\ reaper.org \in Nat /\ reaper.net \in Nat /\ reaper.node \in Nodes
        /\ reaper'.net \in Nat
    BY TypeParts DEF DbOK, TypeOK, AgentOK, ServerOK
  <1> DEFINE w == IF o = 1 THEN net' ELSE v
  <1>1. PICK u \in Nat : u = w
    BY <1>0
  <1>2. v <= net /\ u <= net' /\ v <= u
    BY <1>0, <1>1 DEF SyncInv, DbStep
  <1>3. Good(v) \subseteq Good(u)'
    BY <1>1, <1>2, GoodGrows
  <1>4. hubq' \in Seq(Good(u)') /\ cache' \in Good(u)'
    BY <1>3, SeqMono DEF SyncInv, agent
  <1>5. ASSUME NEW b \in Builders PROVE Partial(b, u)'
    <2>1. /\ build' = build /\ Partial(b, v)
          /\ build[b].msg.org \in Nat /\ build[b].msg.net \in Nat
      BY TypeParts DEF SyncInv, BuildOK, Msgs
    <2>2. Bounded(build[b].msg)'
      BY <1>0, <2>1 DEF Partial, Bounded, DbStep
    <2>3. Coupled(build[b].msg, v) => Coupled(build[b].msg, u)'
      BY <1>0, <1>1, <2>1 DEF Partial, Coupled, Bounded, DbStep
    <2> QED BY <1>3, <2>1, <2>2, <2>3 DEF Partial
  <1>6. Announced(u)'
    <2>1. CASE UNCHANGED reaper
      BY <1>0, <1>1, <1>2, <2>1 DEF SyncInv, Announced, DbStep
    <2>2. CASE o = 1 /\ reaper'.org = org' /\ reaper'.net = 0
      BY <1>0, <1>1, <2>2, TypeParts DEF Announced, DbStep, SyncInv
    <2>3. CASE o = 1 /\ reaper'.org = org' /\ reaper'.net = net' /\ status'[reaper'.node] \in Lapsed
      BY <1>0, <1>1, <2>3 DEF Announced, DbStep
    <2> QED BY <2>1, <2>2, <2>3
  <1>7. Standing(u)'
    BY <1>0, <1>1, <1>2 DEF SyncInv, Standing, NeverAhead, ExactAtCurrent, DbStep, agent
  <1> QED BY <1>2, <1>4, <1>5, <1>6, <1>7 DEF SyncInv

\* Steps that leave the database alone: what remains to be shown of each.
LEMMA QuietStep ==
  ASSUME UNCHANGED db, NEW v \in Nat, SyncInv(v),
         hubq' \in Seq(Good(v)), cache' \in Good(v),
         \A b \in Builders : Partial(b, v)',
         UNCHANGED reaper \/ reaper' = Resting,
         Standing(v)'
  PROVE  SyncInv(v)'
  <1>1. Good(v)' = Good(v)
    BY GoodSame
  <1>2. Announced(v)'
    BY DEF SyncInv, Announced, db, Resting
  <1>3. v <= net'
    BY DEF SyncInv, db
  <1> QED BY <1>1, <1>2, <1>3 DEF SyncInv

\* Every step keeps the invariant.
LEMMA SyncStep == Inv /\ [Next]_vars => Inv'
  <1> SUFFICES ASSUME TypeOK, NEW v \in Nat, SyncInv(v), [Next]_vars
               PROVE  Inv'
    BY DEF Inv
  <1>t. TypeOK'
    BY TypeStep
  <1> SUFFICES \E w \in Nat : SyncInv(w)'
    BY <1>t DEF Inv
  <1>f. /\ v <= net /\ hubq \in Seq(Good(v)) /\ cache \in Good(v)
        /\ \A b \in Builders : Partial(b, v)
        /\ Standing(v)
    BY DEF SyncInv
  <1>n. /\ org \in Nat /\ net \in Nat
        /\ \A b \in Builders : build[b] \in [pc : Pcs, msg : Msgs] /\ build[b].msg \in Msgs
    BY TypeParts DEF DbOK, BuildOK
  <1>c. Listener \in Builders /\ Session \in Builders
    BY DEF Builders
  \* A builder whose slot is unchanged, idle or only starting keeps its promise.
  <1>k. ASSUME UNCHANGED db, NEW b \in Builders,
               \/ build'[b] = build[b]
               \/ build'[b] = Quiet
               \/ build'[b].msg = build[b].msg /\ build'[b].pc \in {"idle", "auth", "org"}
        PROVE  Partial(b, v)'
    <2>0. Good(v)' = Good(v) /\ org' = org /\ net' = net
      BY <1>k, GoodSame DEF db
    <2>1. CASE build'[b] = build[b]
      BY <1>f, <2>0, <2>1 DEF Partial, Bounded, Coupled
    <2>2. CASE build'[b] = Quiet
      BY <1>n, <2>0, <2>2 DEF Partial, Bounded, Quiet, NoMsg, Msg
    <2>3. CASE build'[b].msg = build[b].msg /\ build'[b].pc \in {"idle", "auth", "org"}
      BY <1>f, <2>0, <2>3 DEF Partial, Bounded
    <2> QED BY <1>k, <2>1, <2>2, <2>3
  \* What is left when only some builder slots change.
  <1>s. UNCHANGED <<db, up, dataplane, routes, applied>> => Standing(v)'
    BY <1>f DEF db, Standing, NeverAhead, ExactAtCurrent, Members
  <1>1. ASSUME NEW n \in Nodes, Write(n) PROVE \E w \in Nat : SyncInv(w)'
    <2>1. PICK o \in {0, 1}, k \in {0, 1} : DbStep(o, k)
      BY <1>1, WriteSteps
    <2>2. ASSUME NEW j \in Nat, Notify(j) PROVE \E w \in Nat : SyncInv(w)'
      BY <1>t, <2>1, <2>2, WriteStep DEF Notify
    <2>3. CASE SoftExpire(n)
      <3>1. o = 1
        BY <1>n, <2>1, <2>3 DEF DbStep, SoftExpire, Reaped, Bump
      <3>2. status'[n] \in Lapsed
        BY <2>3, TypeParts DEF SoftExpire, DbOK, Lapsed
      <3>3. reaper'.org = org' /\ reaper'.node = n /\ reaper'.net \in {0, net'}
        BY <2>3 DEF SoftExpire, Reaped
      <3> QED BY <1>t, <2>1, <2>3, <3>1, <3>2, <3>3, WriteStep DEF SoftExpire, Reaped
    <2>4. CASE HardDelete(n)
      <3>1. o = 1
        BY <1>n, <2>1, <2>4 DEF DbStep, HardDelete, Reaped, Bump
      <3>2. status'[n] \in Lapsed
        BY <2>4, TypeParts DEF HardDelete, DbOK, Lapsed
      <3>3. reaper'.org = org' /\ reaper'.node = n /\ reaper'.net \in {0, net'}
        BY <2>4 DEF HardDelete, Reaped
      <3> QED BY <1>t, <2>1, <2>4, <3>1, <3>2, <3>3, WriteStep DEF HardDelete, Reaped
    <2> QED BY <1>1, <2>2, <2>3, <2>4 DEF Write, Enroll, SetStatus, Remove, PatchTtl
  <1>2. ASSUME NEW o \in {0, 1}, OtherWrite(o) PROVE \E w \in Nat : SyncInv(w)'
    <2>1. DbStep(o, 1 - o) /\ 1 - o \in {0, 1}
      BY <1>2, OtherSteps
    <2> QED BY <1>t, <1>2, <2>1, WriteStep DEF OtherWrite, Notify
  <1>3. ASSUME NEW b \in Builders, Builder(b) PROVE \E w \in Nat : SyncInv(w)'
    <2>d. UNCHANGED db
      BY <1>3 DEF Builder, ReadOrg, ReadRows, ReadRevs, ReadPeers, Reads, Request,
                  PollCompleted, BootRegister, BuildFails
    <2>g. Good(v)' = Good(v) /\ org' = org /\ net' = net /\ Members' = Members
      BY <2>d, GoodSame DEF db, Members
    <2>o. /\ build[b] \in [pc : Pcs, msg : Msgs] /\ build[b].msg \in Msgs
          /\ build[b].msg.org \in Nat /\ build[b].msg.net \in Nat
          /\ Partial(b, v)
      BY <1>f, <1>n DEF Msgs
    <2>1. ASSUME NEW pc \in Pcs, NEW m \in Msgs, Reads(b, pc, m),
                 /\ Bounded(m)
                 /\ pc \in {"rows", "revs"} => m.kind = "none"
                 /\ pc = "peers" => m.kind = "member" /\ Coupled(m, v)
                 /\ pc = "done" => m \in Good(v)
          PROVE  SyncInv(v)'
      <3>1. build'[b] = [pc |-> pc, msg |-> m]
        BY <2>1, TypeParts DEF Reads, BuildOK
      <3>2. Partial(b, v)'
        BY <2>1, <2>g, <3>1 DEF Partial, Bounded, Coupled
      <3>3. ASSUME NEW c \in Builders, c # b PROVE Partial(c, v)'
        <4>1. build'[c] = build[c]
          BY <2>1, <3>3, TypeParts DEF Reads, BuildOK
        <4> QED BY <1>k, <2>d, <4>1
      <3>4. UNCHANGED <<hubq, cache, reaper, up, dataplane, routes, applied>>
        BY <2>1 DEF Reads, server, agent
      <3> QED BY <1>f, <1>s, <2>d, <3>2, <3>3, <3>4, QuietStep
    <2>2. CASE ReadOrg(b)
      <3>1. NoMsg \in Msgs /\ Bounded(NoMsg)
        BY <1>n, MsgType DEF NoMsg, Kinds, Bounded, Msg
      <3>2. Msg("none", org, 0, {}) \in Msgs /\ Bounded(Msg("none", org, 0, {}))
              /\ Msg("none", org, 0, {}).kind = "none"
        BY <1>n, MsgType DEF Kinds, Bounded, Msg
      <3> QED BY <2>1, <2>2, <3>1, <3>2 DEF ReadOrg, Pcs
    <2>3. CASE ReadRows(b)
      <3> DEFINE m == Msg("member", build[b].msg.org, net, {})
      <3>1. m \in Msgs /\ Bounded(m) /\ m.kind = "member" /\ Coupled(m, v)
        BY <1>f, <1>n, <2>o, MsgType DEF Kinds, Bounded, Msg, Coupled, Partial
      <3>2. Bounded(build[b].msg) /\ build[b].msg.kind = "none"
        BY <2>o, <2>3 DEF Partial, ReadRows
      <3> QED BY <2>1, <2>3, <2>o, <3>1, <3>2 DEF ReadRows, Pcs
    <2>4. CASE ReadRevs(b)
      <3> DEFINE m == Msg("absent", build[b].msg.org, net, {})
      <3>1. m \in Msgs /\ m \in Good(v) /\ Bounded(m)
        BY <1>f, <1>n, <2>o, MsgType
           DEF Kinds, Bounded, Msg, Coupled, Partial, Good, Honest, Exact, Late
      <3>2. build[b].msg \in Good(v) /\ Bounded(build[b].msg)
        BY <2>o, <2>4 DEF Partial, ReadRevs, Good, Honest, Exact, Late, Coupled
      <3> QED BY <2>1, <2>4, <2>o, <3>1, <3>2 DEF ReadRevs, Pcs
    <2>5. CASE ReadPeers(b)
      <3> DEFINE m == [build[b].msg EXCEPT !.peers = Members]
      <3>1. /\ m \in Msgs /\ m.kind = "member" /\ m.org = build[b].msg.org
            /\ m.net = build[b].msg.net /\ m.peers = Members
        BY <2>o, <2>5 DEF Msgs, Members, Partial, ReadPeers
      <3>2. Bounded(m) /\ Coupled(m, v)
        BY <2>o, <2>5, <3>1 DEF Bounded, Coupled, Partial, ReadPeers
      <3>3. m \in Good(v)
        BY <3>1, <3>2 DEF Good, Honest, Exact, Late
      <3> QED BY <2>1, <2>5, <3>1, <3>2, <3>3 DEF ReadPeers, Pcs
    <2>q. ASSUME build' = [build EXCEPT ![b] = Quiet] \/ build' = [build EXCEPT ![b].pc = "org"],
                 NEW c \in Builders
          PROVE  Partial(c, v)'
      BY <1>k, <2>d, <2>q, TypeParts DEF BuildOK
    <2>6. CASE Request(b)
      BY <1>f, <1>s, <2>d, <2>q, <2>6, QuietStep DEF Request, server, agent
    <2>7. CASE PollCompleted(b)
      <3>1. build[b].msg \in Good(v)
        BY <2>o, <2>7 DEF PollCompleted, Partial
      <3>2. Standing(v)' /\ cache' \in Good(v)
        BY <1>f, <2>d, <2>7, <3>1, HandleStands DEF PollCompleted
      <3> QED BY <1>f, <2>d, <2>q, <2>7, <3>2, QuietStep DEF PollCompleted, server
    <2>8. CASE BootRegister(b)
      <3>1. build[b].msg \in Good(v)
        BY <2>o, <2>8 DEF BootRegister, Partial
      <3>2. Standing(v)'
        BY <1>f, <2>d, <2>8, <3>1, BootStands DEF BootRegister
      <3>3. cache' \in Good(v)
        BY <1>f, <2>8, <3>1 DEF BootRegister, Saved
      <3> QED BY <1>f, <2>d, <2>q, <2>8, <3>2, <3>3, QuietStep DEF BootRegister, server
    <2>9. CASE BuildFails(b)
      BY <1>f, <1>s, <2>d, <2>q, <2>9, QuietStep DEF BuildFails, server, agent
    <2> QED BY <1>3, <2>2, <2>3, <2>4, <2>5, <2>6, <2>7, <2>8, <2>9 DEF Builder
  <1>e. ASSUME NEW ms \in Seq(Good(v)), Pushed(ms) PROVE hubq' \in Seq(Good(v))
    BY <1>e, <1>f, ConcatProperties DEF Pushed
  \* The remaining steps leave the database alone.
  <1>4. CASE ReaperAnnounce
    <2>1. UNCHANGED db /\ UNCHANGED <<build, up, dataplane, routes, applied, cache>>
      BY <1>4 DEF ReaperAnnounce, agent
    <2>2. /\ reaper.org \in Nat /\ reaper.net \in Nat
          /\ (reaper.node # Self => reaper.node \in Peers)
          /\ Announced(v)
      BY TypeParts DEF ServerOK, Nodes, SyncInv
    <2>3. reaper.net # 0 => Msg("revoked", reaper.org, reaper.net, {}) \in Good(v)
      <3>1. Msg("revoked", reaper.org, reaper.net, {}) \in Msgs
        BY <2>2, MsgType DEF Kinds
      <3> QED BY <1>4, <1>f, <1>n, <2>2, <3>1
            DEF ReaperAnnounce, Announced, Good, Bounded, Honest, Exact, Late, Coupled, Msg
    <2>4. reaper.net # 0 /\ reaper.node # Self
            => Msg("delta", reaper.org, reaper.net, {reaper.node}) \in Good(v)
      <3>1. reaper.node # Self => Msg("delta", reaper.org, reaper.net, {reaper.node}) \in Msgs
        BY <2>2, MsgType DEF Kinds
      <3> QED BY <1>4, <1>f, <1>n, <2>2, <3>1
            DEF ReaperAnnounce, Announced, Good, Bounded, Honest, Exact, Late, Coupled, Msg
    <2>5. hubq' \in Seq(Good(v))
      <3>1. CASE reaper.net = 0
        BY <1>f, <1>4, <3>1, ConcatProperties DEF ReaperAnnounce, Pushed
      <3>2. CASE reaper.net # 0 /\ reaper.node = Self
        BY <1>f, <1>4, <2>3, <3>2, ConcatProperties DEF ReaperAnnounce, Pushed
      <3>3. CASE reaper.net # 0 /\ reaper.node # Self
        BY <1>f, <1>4, <2>4, <3>3, ConcatProperties DEF ReaperAnnounce, Pushed
      <3> QED BY <3>1, <3>2, <3>3
    <2> QED BY <1>f, <1>k, <1>s, <1>4, <2>1, <2>5, QuietStep DEF ReaperAnnounce
  <1>u. ASSUME UNCHANGED db, UNCHANGED <<up, dataplane, routes, applied, cache>>,
               UNCHANGED reaper \/ reaper' = Resting,
               hubq' \in Seq(Good(v)),
               \A b \in Builders :
                   \/ build'[b] = build[b]
                   \/ build'[b] = Quiet
                   \/ build'[b].msg = build[b].msg /\ build'[b].pc \in {"idle", "auth", "org"}
        PROVE  SyncInv(v)'
    BY <1>f, <1>k, <1>s, <1>u, QuietStep
  <1>5. CASE TakeNotify
    BY <1>f, <1>u, <1>c, <1>5, TypeParts DEF TakeNotify, BuildOK, agent
  <1>6. CASE Push
    <2>1. <<build[Listener].msg>> \in Seq(Good(v))
      BY <1>f, <1>c, <1>6 DEF Push, Partial
    <2>2. hubq' \in Seq(Good(v))
      BY <1>e, <1>6, <2>1 DEF Push
    <2> QED BY <1>u, <1>c, <1>6, <2>2, TypeParts DEF Push, BuildOK, agent
  <1>7. CASE WsConnect
    BY <1>f, <1>u, <1>c, <1>7, TypeParts DEF WsConnect, BuildOK, agent
  <1>8. CASE WsRegister
    BY <1>f, <1>u, <1>c, <1>8, TypeParts DEF WsRegister, BuildOK, agent
  <1>9. CASE WsFirst
    <2>1. <<build[Session].msg>> \in Seq(Good(v))
      BY <1>f, <1>c, <1>9 DEF WsFirst, Partial
    <2>2. hubq' \in Seq(Good(v))
      BY <1>f, <1>9, <2>1, ConcatProperties DEF WsFirst
    <2> QED BY <1>u, <1>c, <1>9, <2>2, TypeParts DEF WsFirst, BuildOK, agent
  <1>10. CASE WsEnd
    BY <1>u, <1>10 DEF WsEnd, SessionGone, agent
  <1>11. CASE Deliver
    <2>1. Head(hubq) \in Good(v) /\ Tail(hubq) \in Seq(Good(v))
      BY <1>f, <1>11, HeadTailProperties DEF Deliver
    <2>2. Standing(v)' /\ cache' \in Good(v)
      BY <1>f, <1>11, <2>1, HandleStands DEF Deliver
    <2> QED BY <1>k, <1>11, <2>1, <2>2, QuietStep DEF Deliver
  <1>12. CASE BootCache
    <2>1. Standing(v)'
      BY <1>f, <1>12, BootStands DEF BootCache
    <2> QED BY <1>f, <1>k, <1>12, <2>1, QuietStep DEF BootCache, server
  <1>13. CASE BootOffline
    <2>1. Standing(v)'
      BY <1>f, <1>13, BootStands DEF BootOffline
    <2>2. \A b \in Builders : build'[b] = build[b] \/ build'[b] = Quiet
      BY <1>13 DEF BootOffline
    <2> QED BY <1>f, <1>k, <1>13, <2>1, <2>2, QuietStep DEF BootOffline, server
  <1>14. CASE Crash
    <2>1. Standing(v)'
      BY <1>f, <1>n, <1>14 DEF Crash, Standing, NeverAhead, ExactAtCurrent, db
    <2>2. \A b \in Builders : build'[b] = build[b] \/ build'[b] = Quiet
      BY <1>14 DEF Crash
    <2> QED BY <1>f, <1>k, <1>14, <2>1, <2>2, QuietStep DEF Crash, SessionGone
  <1>15. CASE WsDrop
    BY <1>u, <1>c, <1>15, TypeParts DEF WsDrop, SessionGone, BuildOK, agent
  <1>16. CASE ListenerLost
    BY <1>f, <1>u, <1>16 DEF ListenerLost, agent
  <1>17. CASE ReaperLost
    BY <1>f, <1>u, <1>17 DEF ReaperLost, agent
  <1>18. CASE UNCHANGED vars
    BY <1>f, <1>u, <1>18 DEF vars, server, agent
  <1> QED BY <1>1, <1>2, <1>3, <1>4, <1>5, <1>6, <1>7, <1>8, <1>9, <1>10, <1>11,
             <1>12, <1>13, <1>14, <1>15, <1>16, <1>17, <1>18 DEF Next

\* The invariant holds in every behaviour.
LEMMA SyncInvariant == Spec => []Inv
  <1>1. Init => Inv
    <2> SUFFICES ASSUME Init PROVE Inv
      OBVIOUS
    <2>1. TypeOK
      BY TypeInit
    <2>2. Members = Peers
      BY DEF Init, Members, Nodes
    <2>3. cache \in Good(0)
      <3>1. cache \in Msgs
        BY <2>1 DEF TypeOK
      <3> QED BY <2>2, <3>1 DEF Init, Good, Bounded, Honest, Exact, Late, Coupled, Msg
    <2>4. hubq \in Seq(Good(0))
      BY DEF Init
    <2>5. \A b \in Builders : Partial(b, 0)
      BY DEF Init, Partial, Bounded, Quiet, NoMsg, Msg
    <2>6. Announced(0) /\ Standing(0)
      BY DEF Init, Announced, Resting, Standing, NeverAhead, ExactAtCurrent
    <2>7. SyncInv(0)
      BY <2>3, <2>4, <2>5, <2>6 DEF SyncInv, Init
    <2> QED BY <2>1, <2>7 DEF Inv
  <1> QED BY <1>1, SyncStep, PTL DEF Spec

-----------------------------------------------------------------------------
(***************************************************************************)
(* Theorems.                                                               *)
(***************************************************************************)

\* The revisions ManagedRevisions holds never overtake the control plane's.
THEOREM RevisionsNeverAhead == Spec => []NeverAhead
  <1>1. Inv => NeverAhead
    BY DEF Inv, SyncInv, Standing
  <1> QED BY <1>1, SyncInvariant, PTL

\* An agent at the current revisions routes to exactly the members, although
\* snapshots are read query by query and deltas carry one revision only.
THEOREM CurrentIsExact == Spec => []ExactAtCurrent
  <1>1. Inv => ExactAtCurrent
    BY DEF Inv, SyncInv, Standing
  <1> QED BY <1>1, SyncInvariant, PTL

\* No message brings back a peer the agent has dropped and the control plane
\* has not re-admitted.
THEOREM RemovedStaysRemoved == Spec => NoResurrection
  <1> DEFINE Stays ==
        \A p \in Peers :
          up /\ up' /\ p \notin routes /\ p \notin Members /\ removedAt[p] <= applied.net
              => p \notin routes'
  <1>1. Inv /\ [Next]_vars => [Stays]_vars
    <2> SUFFICES ASSUME TypeOK, NEW v \in Nat, SyncInv(v), Next,
                        NEW p \in Peers, up, up', p \notin routes, p \notin Members,
                        removedAt[p] <= applied.net
                 PROVE  p \notin routes'
      BY DEF Inv
    <2>0. removedAt[p] \in Nat /\ applied.net \in Nat
      BY TypeParts DEF DbOK, AgentOK
    <2>1. ASSUME NEW m \in Good(v), Handle(m) PROVE p \notin routes'
      <3>1. m.net \in Nat /\ Honest(m)
        BY DEF Good, Msgs
      <3>2. CASE ApplyMembership(m)
        BY <2>0, <3>1, <3>2 DEF ApplyMembership, Honest, Fresh
      <3>3. CASE AcceptAbsence(m) \/ ApplyDelta(m) \/ Refuse(m)
        BY <3>3 DEF AcceptAbsence, ApplyDelta, Refuse
      <3> QED BY <2>1, <3>2, <3>3 DEF Handle
    <2>2. CASE Deliver
      <3>1. Head(hubq) \in Good(v)
        BY <2>2, HeadTailProperties DEF Deliver, SyncInv
      <3> QED BY <2>1, <2>2, <3>1 DEF Deliver
    <2>3. ASSUME NEW b \in Builders, PollCompleted(b) PROVE p \notin routes'
      <3>1. build[b].msg \in Good(v)
        BY <2>3 DEF PollCompleted, SyncInv, Partial
      <3> QED BY <2>1, <2>3, <3>1 DEF PollCompleted
    <2>4. CASE UNCHANGED routes
      BY <2>4
    <2>5. CASE \E n \in Nodes : Write(n)
      BY <2>5 DEF Write, Enroll, SetStatus, Remove, PatchTtl, SoftExpire, HardDelete,
                  Notify, Reaped, agent
    <2>6. CASE \E o \in {0, 1} : OtherWrite(o)
      BY <2>6 DEF OtherWrite, Notify, agent
    <2>7. ASSUME NEW b \in Builders, Builder(b) PROVE p \notin routes'
      BY <2>3, <2>7 DEF Builder, ReadOrg, ReadRows, ReadRevs, ReadPeers, Reads, Request,
                        BootRegister, BuildFails, agent
    <2> QED BY <2>2, <2>5, <2>6, <2>7
          DEF Next, ReaperAnnounce, TakeNotify, Push, WsConnect, WsRegister, WsFirst,
              WsEnd, BootCache, BootOffline, Crash, WsDrop, ListenerLost, ReaperLost, agent
  <1> QED BY <1>1, SyncInvariant, PTL DEF Spec, NoResurrection
=============================================================================
