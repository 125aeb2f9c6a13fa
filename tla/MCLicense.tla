------------------------------ MODULE MCLicense ------------------------------
\* Two licences: the first ends at 0 and has a grace period of 1, its renewal
\* starts and ends at 2 without grace, in force from 1 to 2 with the skew.
EXTENDS License, TLC
CONSTANTS l1, l2

MCNotBefore == l1 :> 0 @@ l2 :> 2
MCExpires == l1 :> 0 @@ l2 :> 2
MCGrace == l1 :> 1 @@ l2 :> 0
MCDefect == l1 :> "none" @@ l2 :> "none"
===============================================================================
