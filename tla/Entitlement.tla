----------------------------- MODULE Entitlement -----------------------------
(***************************************************************************)
(* What the licence manager promises about time, with the manager left     *)
(* out: there is a clock mark, and a licence is granted only while the     *)
(* mark has not passed its end by more than twice the tolerated clock      *)
(* skew.  The mark moves forward; it is set back only when the deployment  *)
(* forgets it, which is counted and happens with no licence in force.      *)
(* Setting the system clock back wins no more than that, whatever is       *)
(* restarted or unreachable in between.                                    *)
(***************************************************************************)
EXTENDS Integers

CONSTANTS Tokens, NoToken, Skew, End

VARIABLES mark,    \* the latest time the deployment is known to have reached
          grant,   \* the licence in force, or NoToken for the community edition
          losses   \* how often the mark was forgotten

TimelyGrant(t) == mark < End[t] + 2 * Skew

Init == mark = 0 /\ grant = NoToken /\ losses = 0

\* Time passes; the licence in force may be given up with it.
Advance == /\ mark' \in Nat /\ mark' >= mark
           /\ grant' \in {grant, NoToken}
           /\ UNCHANGED losses

Grant == /\ \E t \in Tokens : TimelyGrant(t) /\ grant' = t
         /\ UNCHANGED <<mark, losses>>

Forget == /\ grant = NoToken
          /\ mark' = 0
          /\ losses' = losses + 1
          /\ UNCHANGED grant

Next == Advance \/ Grant \/ Forget

Spec == Init /\ [][Next]_<<mark, grant, losses>>
===============================================================================
