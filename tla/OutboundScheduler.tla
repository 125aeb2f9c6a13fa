-------------------------- MODULE OutboundScheduler --------------------------
(***************************************************************************)
(* The per-peer outbound scheduler of tunnet-agent (qos.rs), for one peer. *)
(*                                                                         *)
(* The TUN reader enqueues packets into the three class queues of the      *)
(* peer's PeerState and makes sure a sender task drains them: the one that *)
(* flips `running` spawns it.  A sender that finds nothing for 50 ms gives *)
(* `running` back, looks once more, and ends; the task then removes the    *)
(* peer from the map, whatever PeerState the map holds by then.            *)
(*                                                                         *)
(* Every lock, atomic and map operation is a step of its own; is_empty()   *)
(* takes the three queue locks one after the other.  A packet is a unit of *)
(* its queue.  The deficit counters only decide how many packets of a      *)
(* class a pass sends (at least one: a quantum is never below the MTU), so *)
(* a pass is free to go on or to move to the next class after each packet. *)
(***************************************************************************)
EXTENDS Naturals, FiniteSets

CONSTANTS
    Objs,        \* PeerState allocations
    NoObj,       \* no PeerState
    Senders,     \* sender tasks; bounds how many run at once
    CAP_LATENCY, CAP_NORMAL, CAP_BULK,
    MaxPackets   \* bound: packets the TUN reader reads in one behaviour

\* The constants of every instance of the module.
ASSUME SchedulerAssumption ==
    /\ NoObj \notin Objs
    /\ CAP_LATENCY \in Nat \ {0} /\ CAP_NORMAL \in Nat \ {0} /\ CAP_BULK \in Nat \ {0}
    /\ MaxPackets \in Nat

Latency == 1
Normal  == 2
Bulk    == 3
Classes == 1..3
Cap(c)  == IF c = Latency THEN CAP_LATENCY ELSE IF c = Normal THEN CAP_NORMAL ELSE CAP_BULK

VARIABLES
    entry,    \* peers: the set holding the PeerState in the map, or empty
    queue,    \* PeerState: packets per class
    running,  \* PeerState: the set of those whose running flag is true
    permit,   \* PeerState: the set of those whose Notify holds a permit
    enq,      \* the TUN reader: [pc, obj, class]
    sender,   \* per sender task: [pc, obj, at], at = the class it looks at
    left      \* packets still to be read

vars == <<entry, queue, running, permit, enq, sender, left>>

Empty == [c \in Classes |-> 0]
Ended == [pc |-> "ended", obj |-> NoObj, at |-> 1]
Reader == [pc |-> "read", obj |-> NoObj, class |-> 1]

Init ==
    /\ entry = {} /\ running = {} /\ permit = {}
    /\ queue = [o \in Objs |-> Empty]
    /\ enq = Reader
    /\ sender = [s \in Senders |-> Ended]
    /\ left = MaxPackets

\* A PeerState nobody holds is gone; its memory may be allocated again.
Unused(o) == o \notin entry /\ enq.obj # o /\ \A s \in Senders : sender[s].obj # o

----------------------------------------------------------------------------
(* enqueue, run by the TUN reader *)

\* peers.entry(peer).or_insert_with(PeerState::new)
Lookup(c) ==
    /\ enq.pc = "read" /\ left > 0
    /\ left' = left - 1
    /\ \E o \in Objs :
        /\ \/ o \in entry /\ UNCHANGED <<entry, queue, running, permit>>
           \/ /\ entry = {} /\ Unused(o)
              /\ entry' = {o}
              /\ queue' = [queue EXCEPT ![o] = Empty]
              /\ running' = running \ {o} /\ permit' = permit \ {o}
        /\ enq' = [pc |-> "try", obj |-> o, class |-> c]
    /\ UNCHANGED sender

\* Mutant: the cap is off by one.
Room_OffByOne(c) == queue[enq.obj][c] <= Cap(c)

Room(c) == queue[enq.obj][c] < Cap(c)
Push == queue' = [queue EXCEPT ![enq.obj][enq.class] = @ + 1]
DropHead(c) == queue' = [queue EXCEPT ![enq.obj][c] = @ - 1]
EnqGoto(p) == enq' = [enq EXCEPT !.pc = p]

\* try_enqueue: append if the class has room, under its lock; otherwise make
\* room at the cost of a lower class.
TryPush ==
    /\ enq.pc \in {"try", "retry_bulk", "retry_normal"}
    /\ Room(enq.class)
    /\ Push /\ EnqGoto("swap")
    /\ UNCHANGED <<entry, running, permit, sender, left>>

TryFull ==
    /\ enq.pc \in {"try", "retry_bulk", "retry_normal"}
    /\ ~Room(enq.class)
    /\ EnqGoto(CASE enq.pc = "try" /\ enq.class # Bulk -> "free_bulk"
                 [] enq.pc = "retry_bulk" /\ enq.class = Latency -> "free_normal"
                 [] OTHER -> "drop")
    /\ UNCHANGED <<entry, queue, running, permit, sender, left>>

\* Pop the head of the bulk queue and try again.
FreeBulk ==
    /\ enq.pc = "free_bulk"
    /\ IF queue[enq.obj][Bulk] > 0
       THEN DropHead(Bulk) /\ EnqGoto("retry_bulk")
       ELSE /\ EnqGoto(IF enq.class = Latency THEN "free_normal" ELSE "drop")
            /\ UNCHANGED queue
    /\ UNCHANGED <<entry, running, permit, sender, left>>

\* Then, for the latency class, the head of the normal queue.
FreeNormal ==
    /\ enq.pc = "free_normal"
    /\ IF queue[enq.obj][Normal] > 0
       THEN DropHead(Normal) /\ EnqGoto("retry_normal")
       ELSE EnqGoto("drop") /\ UNCHANGED queue
    /\ UNCHANGED <<entry, running, permit, sender, left>>

\* The packet is dropped and counted.
Drop ==
    /\ enq.pc = "drop" /\ enq' = Reader
    /\ UNCHANGED <<entry, queue, running, permit, sender, left>>

\* running.swap(true): spawn a sender, or notify the one that runs.
SwapRunning ==
    /\ enq.pc = "swap"
    /\ running' = running \cup {enq.obj}
    /\ \/ /\ enq.obj \in running
          /\ permit' = permit \cup {enq.obj}
          /\ UNCHANGED sender
       \/ /\ enq.obj \notin running
          /\ \E s \in Senders :
                /\ sender[s] = Ended
                /\ sender' = [sender EXCEPT ![s] = [pc |-> "pass", obj |-> enq.obj, at |-> 1]]
          /\ UNCHANGED permit
    /\ enq' = Reader
    /\ UNCHANGED <<entry, queue, left>>

----------------------------------------------------------------------------
(* run_peer_sender *)

Goto(s, p, c) == sender' = [sender EXCEPT ![s].pc = p, ![s].at = c]
Queued(s, c) == queue[sender[s].obj][c]

\* One class of a DRR pass: send a packet and go on or leave the rest for the
\* next pass; an empty class is skipped.
Pass(s) ==
    /\ sender[s].pc = "pass"
    /\ LET c == sender[s].at
           next == IF c = Bulk THEN Goto(s, "is_empty", 1) ELSE Goto(s, "pass", c + 1)
       IN  IF Queued(s, c) = 0
           THEN next /\ UNCHANGED queue
           ELSE /\ queue' = [queue EXCEPT ![sender[s].obj][c] = @ - 1]
                /\ UNCHANGED sender \/ next
    /\ UNCHANGED <<entry, running, permit, enq, left>>

\* is_empty(): one queue after the other, false at the first that is not.
\* After the pass, after the timeout, after running was given back, and last.
Checks == {"is_empty", "idle_empty", "recheck", "last_check"}

IfEmpty(p) == CASE p = "is_empty"   -> "select"
                [] p = "idle_empty" -> "give_back"
                [] p = "recheck"    -> "last_check"
                [] p = "last_check" -> "remove"

\* Mutant: the bulk queue is not looked at.
IsEmpty_SkipsBulk(s) ==
    /\ sender[s].pc \in Checks
    /\ LET p == sender[s].pc
           c == sender[s].at
       IN  IF Queued(s, c) > 0
           THEN Goto(s, IF p = "recheck" THEN "take_back" ELSE "pass", 1)
           ELSE IF c = Normal THEN Goto(s, IfEmpty(p), 1) ELSE Goto(s, p, c + 1)
    /\ UNCHANGED <<entry, queue, running, permit, enq, left>>

IsEmpty(s) ==
    /\ sender[s].pc \in Checks
    /\ LET p == sender[s].pc
           c == sender[s].at
       IN  IF Queued(s, c) > 0
           THEN Goto(s, IF p = "recheck" THEN "take_back" ELSE "pass", 1)
           ELSE IF c = Bulk THEN Goto(s, IfEmpty(p), 1) ELSE Goto(s, p, c + 1)
    /\ UNCHANGED <<entry, queue, running, permit, enq, left>>

\* select!: notified
Notified(s) ==
    /\ sender[s].pc = "select" /\ sender[s].obj \in permit
    /\ permit' = permit \ {sender[s].obj}
    /\ Goto(s, "pass", 1)
    /\ UNCHANGED <<entry, queue, running, enq, left>>

\* select!: 50 ms without a notification
IdleTimeout(s) ==
    /\ sender[s].pc = "select"
    /\ Goto(s, "idle_empty", 1)
    /\ UNCHANGED <<entry, queue, running, permit, enq, left>>

\* Mutant: the sender ends without giving the mark back.
GiveBack_KeepsMark(s) ==
    /\ sender[s].pc = "give_back"
    /\ Goto(s, "recheck", 1)
    /\ UNCHANGED <<entry, queue, running, permit, enq, left>>

\* Mutant: the sender gives the mark back and ends without another look.
GiveBack_NoRecheck(s) ==
    /\ sender[s].pc = "give_back"
    /\ running' = running \ {sender[s].obj}
    /\ Goto(s, "remove", 1)
    /\ UNCHANGED <<entry, queue, permit, enq, left>>

\* running.store(false)
GiveBack(s) ==
    /\ sender[s].pc = "give_back"
    /\ running' = running \ {sender[s].obj}
    /\ Goto(s, "recheck", 1)
    /\ UNCHANGED <<entry, queue, permit, enq, left>>

\* !state.is_empty() && !running.swap(true): continue as the sender, or look
\* once more because somebody else became it.
TakeBack(s) ==
    /\ sender[s].pc = "take_back"
    /\ running' = running \cup {sender[s].obj}
    /\ Goto(s, IF sender[s].obj \in running THEN "last_check" ELSE "pass", 1)
    /\ UNCHANGED <<entry, queue, permit, enq, left>>

\* The spawned task ends with peers.remove(&peer).
Remove(s) ==
    /\ sender[s].pc = "remove"
    /\ entry' = {}
    /\ sender' = [sender EXCEPT ![s] = Ended]
    /\ UNCHANGED <<queue, running, permit, enq, left>>

SenderStep(s) ==
    \/ Pass(s) \/ IsEmpty(s) \/ Notified(s) \/ IdleTimeout(s)
    \/ GiveBack(s) \/ TakeBack(s) \/ Remove(s)

EnqueueStep == TryPush \/ TryFull \/ FreeBulk \/ FreeNormal \/ Drop \/ SwapRunning

Next ==
    \/ \E c \in Classes : Lookup(c)
    \/ EnqueueStep
    \/ \E s \in Senders : SenderStep(s)

Spec == Init /\ [][Next]_vars

\* Sender tasks and the TUN reader are scheduled; timers fire.
FairSpec == Spec /\ WF_vars(EnqueueStep) /\ \A s \in Senders : WF_vars(SenderStep(s))

----------------------------------------------------------------------------
(* Properties *)

\* The type of every variable; the queues keep to their caps.
TypeOK ==
    /\ entry \in SUBSET Objs /\ running \in SUBSET Objs /\ permit \in SUBSET Objs
    /\ queue \in [Objs -> [Classes -> Nat]]
    /\ \A o \in Objs : \A c \in Classes : queue[o][c] <= Cap(c)
    /\ enq \in [pc : {"read", "try", "free_bulk", "retry_bulk", "free_normal",
                      "retry_normal", "drop", "swap"},
                obj : Objs \cup {NoObj}, class : Classes]
    /\ enq.pc # "read" => enq.obj \in Objs
    /\ sender \in [Senders -> [pc : {"ended", "pass", "select", "give_back", "take_back",
                                     "remove"} \cup Checks,
                               obj : Objs \cup {NoObj}, at : Classes]]
    /\ \A s \in Senders : sender[s].pc # "ended" => sender[s].obj \in Objs
    /\ left \in Nat

\* A PeerState marked running has a sender that has not given the mark back, so
\* a reader that only notifies never notifies nobody.
RunningHasSender ==
    \A o \in running : \E s \in Senders :
        /\ sender[s].obj = o
        /\ sender[s].pc \in {"pass", "is_empty", "select", "idle_empty", "give_back"}

\* A queued packet is never left behind, not even in a PeerState that the map
\* has lost: its PeerState is marked running, or the reader that queued it is
\* about to see to it, or a sender that gave the mark back has not yet passed
\* over its queue.
NoStrandedPacket ==
    \A o \in Objs : \A c \in Classes : queue[o][c] > 0 =>
        \/ o \in running
        \/ enq.pc = "swap" /\ enq.obj = o
        \/ \E s \in Senders :
              /\ sender[s].obj = o
              /\ \/ sender[s].pc \in {"pass", "take_back"}
                 \/ sender[s].pc \in Checks \ {"idle_empty"} /\ sender[s].at <= c

\* Everything queued is sent, whatever the timing of packets, senders ending
\* and senders starting.
EverythingSent == left = 0 /\ enq.pc = "read" ~> \A o \in Objs : queue[o] = Empty

\* "latency / normal / bulk queues feed a single sender": no two tasks take
\* packets of the peer at once.
SingleSender ==
    \A s, u \in Senders : sender[s].pc = "pass" /\ sender[u].pc = "pass" => s = u
=============================================================================
