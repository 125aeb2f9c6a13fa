------------------------- MODULE MCOutboundScheduler -------------------------
(* Small instances of OutboundScheduler for TLC. *)
EXTENDS OutboundScheduler, TLC

\* Allocations and sender tasks are interchangeable.
SchedulerSymmetry == Permutations(Objs) \cup Permutations(Senders)
=============================================================================
