----------------------- MODULE OutboundScheduler_proofs -----------------------
(* Proofs about OutboundScheduler, for every number of PeerStates and sender *)
(* tasks, every queue capacity and every number of packets.                  *)
EXTENDS OutboundScheduler, TLAPS

\* Taking a packet off a queue keeps the queues' types and caps.
LEMMA QueueShrinks ==
    ASSUME queue \in [Objs -> [Classes -> Nat]],
           \A o \in Objs : \A c \in Classes : queue[o][c] <= Cap(c),
           \A c \in Classes : Cap(c) \in Nat,
           NEW x \in Objs, NEW k \in Classes, queue[x][k] > 0,
           queue' = [queue EXCEPT ![x][k] = @ - 1]
    PROVE  /\ queue' \in [Objs -> [Classes -> Nat]]
           /\ \A o \in Objs : \A c \in Classes : queue'[o][c] <= Cap(c)
OBVIOUS

\* The part of TypeOK about the sender tasks.
SenderOK ==
    /\ sender \in [Senders -> [pc : {"ended", "pass", "select", "give_back", "take_back",
                                     "remove"} \cup Checks,
                               obj : Objs \cup {NoObj}, at : Classes]]
    /\ \A s \in Senders : sender[s].pc # "ended" => sender[s].obj \in Objs

\* A step of a sender's program counter changes nothing else of any sender, and
\* keeps the senders' types.
LEMMA GotoFrame ==
    ASSUME SenderOK, NEW s \in Senders, NEW p, NEW k, Goto(s, p, k)
    PROVE  /\ sender'[s].pc = p /\ sender'[s].at = k /\ sender'[s].obj = sender[s].obj
           /\ \A u \in Senders : u # s => sender'[u] = sender[u]
    BY DEF SenderOK, Goto

LEMMA GotoType ==
    ASSUME SenderOK, NEW s \in Senders, sender[s].pc # "ended",
           NEW p \in {"pass", "select", "give_back", "take_back", "remove"} \cup Checks,
           NEW k \in Classes, Goto(s, p, k)
    PROVE  SenderOK'
    BY DEF SenderOK, Goto

\* Where a look at the queues leads.
LEMMA IsEmptyGoto ==
    ASSUME SenderOK, NEW s \in Senders, IsEmpty(s)
    PROVE  \/ /\ Queued(s, sender[s].at) > 0
              /\ Goto(s, IF sender[s].pc = "recheck" THEN "take_back" ELSE "pass", 1)
           \/ /\ ~(Queued(s, sender[s].at) > 0) /\ sender[s].at = Bulk
              /\ Goto(s, IfEmpty(sender[s].pc), 1)
           \/ /\ ~(Queued(s, sender[s].at) > 0) /\ sender[s].at # Bulk
              /\ sender[s].at + 1 \in Classes
              /\ Goto(s, sender[s].pc, sender[s].at + 1)
    BY DEF SenderOK, IsEmpty, Classes, Bulk

\* The type invariant is inductive on its own.
THEOREM SchedTypes == Spec => []TypeOK
<1>c. \A c \in Classes : Cap(c) \in Nat
  BY SchedulerAssumption DEF Cap
<1> USE SchedulerAssumption DEF TypeOK, Classes, Checks
<1>1. Init => TypeOK
  BY <1>c DEF Init, Empty, Reader, Ended
<1>2. TypeOK /\ [Next]_vars => TypeOK'
  <2> SUFFICES ASSUME TypeOK, [Next]_vars PROVE TypeOK'
    OBVIOUS
  <2> USE DEF Latency, Normal, Bulk, Reader, Ended
  <2>s. SenderOK
    BY DEF SenderOK
  <2>1. ASSUME NEW c \in Classes, Lookup(c) PROVE TypeOK'
    <3>1. PICK o \in Objs :
            /\ entry' \in SUBSET Objs /\ running' \in SUBSET Objs /\ permit' \in SUBSET Objs
            /\ queue' = queue \/ queue' = [queue EXCEPT ![o] = Empty]
            /\ enq' = [pc |-> "try", obj |-> o, class |-> c]
      BY <2>1 DEF Lookup
    <3>2. queue' \in [Objs -> [Classes -> Nat]] /\ \A x \in Objs : \A k \in Classes : queue'[x][k] <= Cap(k)
      BY <1>c, <3>1 DEF Empty
    <3>3. QED BY <2>1, <3>1, <3>2 DEF Lookup
  <2>2. CASE TryPush
    <3>1. enq.obj \in Objs /\ enq.class \in Classes /\ queue[enq.obj][enq.class] < Cap(enq.class)
      BY <2>2 DEF TryPush, Room
    <3>2. queue' \in [Objs -> [Classes -> Nat]] /\ \A x \in Objs : \A k \in Classes : queue'[x][k] <= Cap(k)
      BY <1>c, <2>2, <3>1 DEF TryPush, Push
    <3>3. QED BY <2>2, <3>1, <3>2 DEF TryPush, EnqGoto
  <2>3. CASE TryFull \/ Drop
    BY <2>3 DEF TryFull, Drop, EnqGoto
  <2>4. CASE FreeBulk \/ FreeNormal
    <3>1. enq.obj \in Objs
      BY <2>4 DEF FreeBulk, FreeNormal
    <3>2. \/ queue' = queue
          \/ \E k \in Classes : queue[enq.obj][k] > 0 /\ queue' = [queue EXCEPT ![enq.obj][k] = @ - 1]
      BY <2>4 DEF FreeBulk, FreeNormal, DropHead
    <3>3. queue' \in [Objs -> [Classes -> Nat]] /\ \A x \in Objs : \A k \in Classes : queue'[x][k] <= Cap(k)
      BY <1>c, <3>1, <3>2
    <3>4. QED BY <2>4, <3>1, <3>3 DEF FreeBulk, FreeNormal, EnqGoto
  <2>5. CASE SwapRunning
    <3>1. enq.obj \in Objs
      BY <2>5 DEF SwapRunning
    <3>2. QED BY <2>5, <3>1 DEF SwapRunning
  <2>6. ASSUME NEW s \in Senders, Pass(s) PROVE TypeOK'
    <3>1. sender[s].obj \in Objs /\ sender[s].at \in Classes
      BY <2>6 DEF Pass
    <3>2. \/ queue' = queue
          \/ \E k \in Classes :
                queue[sender[s].obj][k] > 0 /\ queue' = [queue EXCEPT ![sender[s].obj][k] = @ - 1]
      <4>1. CASE Queued(s, sender[s].at) = 0
        BY <2>6, <4>1 DEF Pass
      <4>2. CASE Queued(s, sender[s].at) # 0
        <5>1. queue[sender[s].obj][sender[s].at] > 0
          BY <3>1, <4>2 DEF Queued
        <5>2. queue' = [queue EXCEPT ![sender[s].obj][sender[s].at] = @ - 1]
          BY <2>6, <4>2 DEF Pass
        <5>3. QED BY ONLY <3>1, <5>1, <5>2
      <4>3. QED BY <4>1, <4>2
    <3>3. queue' \in [Objs -> [Classes -> Nat]] /\ \A x \in Objs : \A k \in Classes : queue'[x][k] <= Cap(k)
      BY <1>c, <3>1, <3>2, QueueShrinks
    <3>4. sender' = sender \/ \E p \in {"pass", "is_empty"} : \E k \in Classes : Goto(s, p, k)
      <4>1. \/ sender' = sender
            \/ sender[s].at = Bulk /\ Goto(s, "is_empty", 1)
            \/ sender[s].at # Bulk /\ Goto(s, "pass", sender[s].at + 1)
        BY <2>6 DEF Pass
      <4>2. sender[s].at # Bulk => sender[s].at + 1 \in Classes
        BY <3>1
      <4>3. QED BY <4>1, <4>2
    <3>5. QED BY <2>6, <3>1, <3>3, <3>4 DEF Pass, Goto
  <2>7. ASSUME NEW s \in Senders, IsEmpty(s) PROVE TypeOK'
    <3>1. sender[s].pc # "ended" /\ sender[s].pc \in Checks
      BY <2>7 DEF IsEmpty
    <3>2. \E p \in {"pass", "select", "give_back", "take_back", "remove"} \cup Checks :
             \E k \in Classes : Goto(s, p, k)
      BY <3>1, <2>7, <2>s, IsEmptyGoto DEF IfEmpty
    <3>3. SenderOK'
      BY <2>s, <3>1, <3>2, GotoType
    <3>4. QED BY <2>7, <3>3 DEF IsEmpty, SenderOK
  <2>8. ASSUME NEW s \in Senders, Notified(s) \/ IdleTimeout(s) \/ GiveBack(s) PROVE TypeOK'
    <3>1. /\ sender[s].pc # "ended"
          /\ \E p \in {"pass", "idle_empty", "recheck"} : Goto(s, p, 1)
      BY <2>8 DEF Notified, IdleTimeout, GiveBack
    <3>2. SenderOK'
      BY <2>s, <3>1, GotoType
    <3>3. QED BY <2>8, <3>2 DEF Notified, IdleTimeout, GiveBack, SenderOK
  <2>9. ASSUME NEW s \in Senders, TakeBack(s) PROVE TypeOK'
    <3>1. /\ sender[s].pc # "ended"
          /\ \E p \in {"last_check", "pass"} : Goto(s, p, 1)
      BY <2>9 DEF TakeBack
    <3>2. SenderOK'
      BY <2>s, <3>1, GotoType
    <3>3. sender[s].obj \in Objs
      BY <2>9 DEF TakeBack
    <3>4. QED BY <2>9, <3>2, <3>3 DEF TakeBack, SenderOK
  <2>e. ASSUME NEW s \in Senders, Remove(s) PROVE TypeOK'
    BY <2>e DEF Remove
  <2>10. CASE UNCHANGED vars
    BY <2>10 DEF vars
  <2>11. QED
    BY <2>1, <2>2, <2>3, <2>4, <2>5, <2>6, <2>7, <2>8, <2>9, <2>e, <2>10
       DEF Next, EnqueueStep, SenderStep
<1>3. QED
  BY <1>1, <1>2, PTL DEF Spec

\* The mark `running` always has a sender behind it: the task that set it, until
\* that task clears it itself.
THEOREM RunningIsServed == Spec => []RunningHasSender
<1> USE DEF RunningHasSender
<1>1. Init => RunningHasSender
  BY DEF Init
<1>2. TypeOK /\ RunningHasSender /\ [Next]_vars => RunningHasSender'
  <2> SUFFICES ASSUME TypeOK, RunningHasSender, [Next]_vars PROVE RunningHasSender'
    OBVIOUS
  <2> DEFINE Busy == {"pass", "is_empty", "select", "idle_empty", "give_back"}
  <2>a. ASSUME running' \subseteq running,
               \A u \in Senders :
                   /\ sender'[u].obj = sender[u].obj
                   /\ sender[u].pc \in Busy => sender'[u].pc \in Busy
        PROVE  RunningHasSender'
    <3> SUFFICES ASSUME NEW o \in running'
                 PROVE  \E s \in Senders : sender'[s].obj = o /\ sender'[s].pc \in Busy
      OBVIOUS
    <3>1. PICK s \in Senders : sender[s].obj = o /\ sender[s].pc \in Busy
      BY <2>a
    <3>2. sender'[s].obj = o /\ sender'[s].pc \in Busy
      BY <2>a, <3>1
    <3>3. QED BY <3>2
  <2> USE DEF TypeOK
  <2>1. ASSUME NEW c \in Classes, Lookup(c) PROVE RunningHasSender'
    BY <2>1 DEF Lookup
  <2>2. CASE TryPush \/ TryFull \/ FreeBulk \/ FreeNormal \/ Drop
    BY <2>2 DEF TryPush, TryFull, FreeBulk, FreeNormal, Drop
  <2>3. CASE SwapRunning
    BY <2>3 DEF SwapRunning, Ended
  <2>4. ASSUME NEW s \in Senders, Pass(s) PROVE RunningHasSender'
    <3>1. sender' = sender \/ \E p \in {"pass", "is_empty"} : \E k : Goto(s, p, k)
      BY <2>4 DEF Pass
    <3>2. QED BY <2>a, <2>4, <3>1 DEF Pass, Goto
  <2>5. ASSUME NEW s \in Senders, IsEmpty(s) PROVE RunningHasSender'
    <3>1. PICK p, k : Goto(s, p, k) /\ (sender[s].pc \in Busy => p \in Busy)
      BY <2>5 DEF IsEmpty, IfEmpty, Checks
    <3>2. SenderOK
      BY DEF SenderOK
    <3>3. QED BY <2>a, <2>5, <3>1, <3>2, GotoFrame DEF IsEmpty
  <2>6. ASSUME NEW s \in Senders, Notified(s) \/ IdleTimeout(s) PROVE RunningHasSender'
    <3>1. \E p \in {"pass", "idle_empty"} : Goto(s, p, 1)
      BY <2>6 DEF Notified, IdleTimeout
    <3>2. SenderOK
      BY DEF SenderOK
    <3>3. running' = running
      BY <2>6 DEF Notified, IdleTimeout
    <3>4. QED BY <2>a, <3>1, <3>2, <3>3, GotoFrame
  <2>b. ASSUME NEW s \in Senders, NEW o \in running, sender[s].obj # o \/ sender[s].pc \notin Busy,
               \A u \in Senders \ {s} : sender'[u] = sender[u]
        PROVE  \E u \in Senders : sender'[u].obj = o /\ sender'[u].pc \in Busy
    <3>1. PICK u \in Senders : sender[u].obj = o /\ sender[u].pc \in Busy
      OBVIOUS
    <3>2. sender'[u] = sender[u]
      BY <2>b, <3>1
    <3>3. QED BY <3>1, <3>2
  <2>7. ASSUME NEW s \in Senders, GiveBack(s) PROVE RunningHasSender'
    <3>1. \A u \in Senders \ {s} : sender'[u] = sender[u]
      BY <2>7 DEF GiveBack, Goto
    <3>2. running' = running \ {sender[s].obj}
      BY <2>7 DEF GiveBack
    <3>3. QED BY <2>b, <3>1, <3>2
  <2>8. ASSUME NEW s \in Senders, TakeBack(s) PROVE RunningHasSender'
    <3>1. \A u \in Senders \ {s} : sender'[u] = sender[u]
      BY <2>8 DEF TakeBack, Goto
    <3>2. running' = running \cup {sender[s].obj} /\ sender[s].pc \notin Busy
      BY <2>8 DEF TakeBack
    <3>3. ASSUME sender[s].obj \notin running
          PROVE  sender'[s].obj = sender[s].obj /\ sender'[s].pc \in Busy
      <4>1. Goto(s, "pass", 1)
        BY <2>8, <3>3 DEF TakeBack
      <4>2. SenderOK
        BY DEF SenderOK
      <4>3. QED BY <4>1, <4>2, GotoFrame
    <3>4. ASSUME NEW o \in running
          PROVE  \E u \in Senders : sender'[u].obj = o /\ sender'[u].pc \in Busy
      BY <2>b, <3>1, <3>2
    <3>5. QED BY <3>2, <3>3, <3>4
  <2>c. ASSUME NEW s \in Senders, Remove(s) PROVE RunningHasSender'
    <3>1. \A u \in Senders \ {s} : sender'[u] = sender[u]
      BY <2>c DEF Remove
    <3>2. running' = running /\ sender[s].pc \notin Busy
      BY <2>c DEF Remove
    <3>3. QED BY <2>b, <3>1, <3>2
  <2>9. CASE UNCHANGED vars
    BY <2>9 DEF vars
  <2>10. QED
    BY <2>1, <2>2, <2>3, <2>4, <2>5, <2>6, <2>7, <2>8, <2>c, <2>9
       DEF Next, EnqueueStep, SenderStep
<1>3. QED
  BY <1>1, <1>2, SchedTypes, PTL DEF Spec

\* Who sees to packets of class c in PeerState o.
Attended(o, c) ==
    \/ o \in running
    \/ enq.pc = "swap" /\ enq.obj = o
    \/ \E s \in Senders :
          /\ sender[s].obj = o
          /\ \/ sender[s].pc \in {"pass", "take_back"}
             \/ sender[s].pc \in Checks \ {"idle_empty"} /\ sender[s].at <= c

\* No packet is stranded by a sender that goes idle while the reader enqueues:
\* the sender that gave `running` back looks at every queue once more, and a
\* packet pushed behind its back finds `running` clear and gets a sender.
THEOREM NothingStranded == Spec => []NoStrandedPacket
<1>0. NoStrandedPacket <=> \A o \in Objs : \A c \in Classes : queue[o][c] > 0 => Attended(o, c)
  BY DEF NoStrandedPacket, Attended
<1>1. Init => NoStrandedPacket
  BY DEF Init, NoStrandedPacket, Empty
<1>2. TypeOK /\ NoStrandedPacket /\ [Next]_vars => NoStrandedPacket'
  <2> SUFFICES ASSUME TypeOK, NoStrandedPacket, [Next]_vars,
                      NEW o \in Objs, NEW c \in Classes, queue'[o][c] > 0
               PROVE  Attended(o, c)'
    BY DEF NoStrandedPacket, Attended
  <2>0. queue[o][c] > 0 => Attended(o, c)
    BY <1>0
  <2> USE <2>0 DEF Attended, TypeOK, Classes, Bulk, Checks
  <2>1. ASSUME NEW k \in Classes, Lookup(k) PROVE Attended(o, c)'
    BY <2>1 DEF Lookup, Empty
  <2>2. CASE TryPush
    BY <2>2 DEF TryPush, Push, EnqGoto
  <2>3. CASE TryFull \/ Drop
    BY <2>3 DEF TryFull, Drop
  <2>4. CASE FreeBulk \/ FreeNormal
    BY <2>4 DEF FreeBulk, FreeNormal, DropHead, Normal
  <2>5. CASE SwapRunning
    BY <2>5 DEF SwapRunning, Ended
  <2>6. ASSUME NEW s \in Senders, Pass(s) PROVE Attended(o, c)'
    BY <2>6 DEF Pass, Goto, Queued
  <2>7. ASSUME NEW s \in Senders, IsEmpty(s) PROVE Attended(o, c)'
    <3>1. SenderOK
      BY DEF SenderOK
    <3>2. UNCHANGED <<queue, running, enq>> /\ sender[s].pc \in Checks /\ sender[s].at \in Classes
      BY <2>7 DEF IsEmpty
    <3>3. Attended(o, c)
      BY <3>2
    <3>4. CASE o \in running \/ (enq.pc = "swap" /\ enq.obj = o)
      BY <3>2, <3>4
    <3>5. CASE \E u \in Senders :
                 /\ sender[u].obj = o
                 /\ \/ sender[u].pc \in {"pass", "take_back"}
                    \/ sender[u].pc \in Checks \ {"idle_empty"} /\ sender[u].at <= c
      <4>1. PICK u \in Senders :
                 /\ sender[u].obj = o
                 /\ \/ sender[u].pc \in {"pass", "take_back"}
                    \/ sender[u].pc \in Checks \ {"idle_empty"} /\ sender[u].at <= c
        BY <3>5
      <4>2. CASE u # s
        <5>1. sender'[u] = sender[u]
          BY <2>7, <3>1, <4>2, GotoFrame, IsEmptyGoto
        <5>2. QED BY <4>1, <5>1
      <4>3. CASE u = s
        <5>1. sender[s].pc \in Checks \ {"idle_empty"} /\ sender[s].at <= c /\ sender[s].obj = o
          BY <3>2, <4>1, <4>3
        <5>2. CASE Queued(s, sender[s].at) > 0
          <6>1. \E p \in {"pass", "take_back"} : Goto(s, p, 1)
            BY <2>7, <3>1, <5>2, IsEmptyGoto
          <6>2. sender'[s].pc \in {"pass", "take_back"} /\ sender'[s].obj = o
            BY <3>1, <5>1, <6>1, GotoFrame
          <6>3. QED BY <6>2
        <5>3. CASE ~(Queued(s, sender[s].at) > 0)
          <6>1. sender[s].at # c
            BY <3>2, <5>1, <5>3 DEF Queued
          <6>2. sender[s].at + 1 <= c /\ sender[s].at # Bulk
            BY <3>2, <5>1, <6>1
          <6>3. Goto(s, sender[s].pc, sender[s].at + 1)
            BY <2>7, <3>1, <5>3, <6>2, IsEmptyGoto
          <6>4. /\ sender'[s].pc = sender[s].pc /\ sender'[s].at = sender[s].at + 1
                /\ sender'[s].obj = o
            BY <3>1, <5>1, <6>3, GotoFrame
          <6>5. QED BY <5>1, <6>2, <6>4
        <5>4. QED BY <5>2, <5>3
      <4>4. QED BY <4>2, <4>3
    <3>6. QED BY <3>3, <3>4, <3>5
  <2>8. ASSUME NEW s \in Senders, Notified(s) \/ IdleTimeout(s) PROVE Attended(o, c)'
    BY <2>8 DEF Notified, IdleTimeout, Goto
  <2>9. ASSUME NEW s \in Senders, GiveBack(s) PROVE Attended(o, c)'
    BY <2>9 DEF GiveBack, Goto
  <2>a. ASSUME NEW s \in Senders, TakeBack(s) PROVE Attended(o, c)'
    BY <2>a DEF TakeBack, Goto
  <2>b. ASSUME NEW s \in Senders, Remove(s) PROVE Attended(o, c)'
    BY <2>b DEF Remove
  <2>10. CASE UNCHANGED vars
    BY <2>10 DEF vars
  <2>11. QED
    BY <2>1, <2>2, <2>3, <2>4, <2>5, <2>6, <2>7, <2>8, <2>9, <2>a, <2>b, <2>10
       DEF Next, EnqueueStep, SenderStep
<1>3. QED
  BY <1>1, <1>2, SchedTypes, PTL DEF Spec
===============================================================================
