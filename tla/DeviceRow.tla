------------------------------- MODULE DeviceRow -------------------------------
(***************************************************************************)
(* What the presence columns of a device's row promise to those who read   *)
(* them: agent_connected, connected_at and last_heartbeat_at.  A write that *)
(* raises the flag also stamps a new heartbeat, and one that lowers it      *)
(* leaves the stamps alone, so of two reads of the row the later heartbeat, *)
(* or at the same heartbeat the one with the flag down, is the newer.  The  *)
(* sessions of the control plane implement it (Presence), the dashboard     *)
(* relies on it (PresenceFeed).                                             *)
(***************************************************************************)
EXTENDS Naturals

VARIABLES
    online,        \* agent_connected
    connectedAt,   \* connected_at: the write that set it, 0 while NULL
    beat           \* last_heartbeat_at, likewise

row == <<online, connectedAt, beat>>

RowInit == online = FALSE /\ connectedAt = 0 /\ beat = 0

\* A connect or a heartbeat.  now() is later than every earlier stamp.
GoOnline ==
    /\ online' = TRUE
    /\ beat' = beat + 1
    /\ connectedAt' \in {connectedAt, beat'}

\* A clean-up, the sweep or an expiry.
GoOffline ==
    /\ online
    /\ online' = FALSE
    /\ UNCHANGED <<connectedAt, beat>>

RowSpec == RowInit /\ [][GoOnline \/ GoOffline]_row
================================================================================
