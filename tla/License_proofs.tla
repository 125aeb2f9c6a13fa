--------------------------- MODULE License_proofs ---------------------------
(***************************************************************************)
(* Proofs about the licence manager: its type invariant, that a refused    *)
(* licence stays refused while the process lives, and that the manager     *)
(* implements the promise about time of module Entitlement.                *)
(***************************************************************************)
EXTENDS License, TLAPS

Results == [grant : Tokens \cup {NoToken}, reason : {"none"} \cup Codes]

\* The two values the manager publishes are well formed.
LEMMA ResultsTyped ==
    /\ \A r \in {"none"} \cup Codes : Community(r) \in Results
    /\ \A t \in Tokens : Licensed(t) \in Results
    /\ \A r : Community(r).grant = NoToken /\ Community(r).reason = r
    /\ \A t : Licensed(t).grant = t /\ Licensed(t).reason = "none"
  BY DEF Results, Community, Licensed

\* What verification answers (verifyLicenseToken): a code, or active or grace,
\* and those two only for a licence that is not revoked and has not ended.
LEMMA VerifyAnswers ==
    ASSUME NEW t \in Tokens, NEW at \in Nat, NEW ids \in SUBSET Tokens
    PROVE  /\ Verify(t, at, ids) \in {"active", "grace"} =>
                 t \notin ids /\ at < End[t] + Skew
           /\ Verify(t, at, ids) \notin {"active", "grace"} =>
                 Verify(t, at, ids) \in Codes
           /\ Verify(t, at, ids) = "revoked" => t \in ids
  <1> USE LicenseAssumption
  <1>1. End[t] = Expires[t] + Grace[t] /\ Expires[t] \in Nat /\ Grace[t] \in Nat
    BY DEF End
  <1>2. Defect[t] \in {"none"} \cup Defects
    OBVIOUS
  <1>3. NotBefore[t] \in Nat
    OBVIOUS
  <1> QED  BY <1>1, <1>2, <1>3 DEF Verify, Codes, Defects

\* The parts of the type invariant that the steps of a refresh touch.
THEOREM LicenseTypes == Spec => []TypeOK
<1> USE LicenseAssumption
<1>1. Init => TypeOK
  <2> SUFFICES ASSUME Init PROVE TypeOK
    OBVIOUS
  <2>1. stopped \in BOOLEAN
    BY Zenon DEF Init
  <2>2. /\ pc = "down" /\ wall = 0 /\ crl = {{}} /\ watermark = 0 /\ revoked = {}
        /\ tok = NoToken /\ now = 0 /\ refused = {} /\ losses = 0 /\ crashes = 0
        /\ configured \in Tokens \cup {NoToken}
    BY Zenon DEF Init
  <2>3. result = Community("none") /\ ent = Community("none")
        /\ disk = [token |-> NoToken, mark |-> 0]
    BY Zenon DEF Init
  <2> QED  BY <2>1, <2>2, <2>3 DEF TypeOK, Community, Evaluating
<1>2. TypeOK /\ [Next]_vars => TypeOK'
  <2> SUFFICES ASSUME TypeOK, [Next]_vars PROVE TypeOK'
    OBVIOUS
  <2> USE ResultsTyped DEF TypeOK, Evaluating, env, eval
  <2>1. CASE Start
    BY <2>1 DEF Start
  <2>2. CASE Timer
    BY <2>2 DEF Timer
  <2>3. CASE LoadOk
    BY <2>3 DEF LoadOk
  <2>4. CASE LoadNotConfigured
    BY <2>4 DEF LoadNotConfigured, Publish, Community
  <2>5. CASE LoadFails
    BY <2>5 DEF LoadFails, Community, Codes
  <2>6. CASE Fallback
    BY <2>6 DEF Fallback, Publish, Community, Codes
  <2>7. CASE ReadClock
    BY <2>7 DEF ReadClock
  <2>8. CASE LoadRevocations
    BY <2>8 DEF LoadRevocations
  <2>9. CASE Decide
    
    <3>1. tok \in Tokens /\ pc = "verify"
      BY <2>9 DEF Decide
    <3> DEFINE v == Verify(tok, now, revoked)
    <3>2. v \in {"active", "grace"} \/ v \in Codes
      BY <3>1, VerifyAnswers
    <3>3. /\ pc' \in {"persist", "publish"}
          /\ result' \in {Licensed(tok), Community(v)}
          /\ v \notin {"active", "grace"} => result' = Community(v)
          /\ v \in {"active", "grace"} => result' = Licensed(tok)
      BY <2>9 DEF Decide
    <3> HIDE DEF v
    <3>4. result' \in Results
      <4>1. CASE v \in {"active", "grace"}
        BY <4>1, <3>1, <3>3 DEF Results, Licensed
      <4>2. CASE v \in Codes /\ v \notin {"active", "grace"}
        BY <4>2, <3>3 DEF Results, Community
      <4> QED  BY <4>1, <4>2, <3>2
    <3> QED  BY <2>9, <3>1, <3>3, <3>4 DEF Decide, Results
  <2>10. CASE Persist
    BY <2>10 DEF Persist
  <2>11. CASE PublishResult
    BY <2>11 DEF PublishResult, Publish, Community
  <2>12. CASE Stop
    BY <2>12 DEF Stop
  <2>13. CASE Crash
    <3>1. stopped' \in BOOLEAN
      BY <2>13, Zenon DEF Crash
    <3>2. /\ pc' = "down" /\ watermark' = 0 /\ revoked' = {} /\ refused' = {}
          /\ tok' = NoToken /\ now' = 0 /\ result' = Community("none")
          /\ ent' = Community("none") /\ crashes' = crashes + 1
          /\ UNCHANGED <<env, disk, losses>>
      BY <2>13, Zenon DEF Crash
    <3> QED  BY <3>1, <3>2 DEF Community
  <2>14. CASE SetClock
    BY <2>14 DEF SetClock
  <2>15. CASE Configure
    BY <2>15 DEF Configure
  <2>16. CASE \E t \in Tokens : Revoke(t)
    <3>1. PICK t \in Tokens : Revoke(t)
      BY <2>16
    <3> DEFINE list == (UNION crl) \cup {t}
    <3>2. crl' = crl \cup {list}
          /\ UNCHANGED <<wall, configured, disk, pc, stopped, watermark, revoked, eval,
                         ent, refused, losses, crashes>>
      BY <3>1 DEF Revoke
    <3>3. list \subseteq Tokens
      <4>1. crl \in SUBSET (SUBSET Tokens)
        OBVIOUS
      <4>2. \A x \in UNION crl : x \in Tokens
        BY <4>1, Zenon
      <4>3. t \in Tokens
        BY <3>1
      <4> QED  BY <4>2, <4>3, Zenon
    <3> HIDE DEF list
    <3> QED  BY <3>2, <3>3
  <2>17. CASE UNCHANGED vars
    BY <2>17 DEF vars
  <2> QED
    BY <2>1, <2>2, <2>3, <2>4, <2>5, <2>6, <2>7, <2>8, <2>9, <2>10, <2>11, <2>12,
       <2>13, <2>14, <2>15, <2>16, <2>17 DEF Next, Refresh
<1> QED  BY <1>1, <1>2, PTL DEF Spec

\* The clock invariant is inductive given the types.  Only ReadClock moves the
\* time a refresh works with, and it never falls behind the watermark by more
\* than the skew; a licence is granted only by a process that is up.
THEOREM LicenseClock == Spec => []ClockInv
<1> USE LicenseAssumption
<1>1. Init => ClockInv
  <2> SUFFICES ASSUME Init PROVE ClockInv
    OBVIOUS
  <2>1. pc = "down" /\ ent = Community("none")
    BY Zenon DEF Init
  <2> QED  BY <2>1, ResultsTyped DEF ClockInv
<1>2. TypeOK /\ ClockInv /\ [Next]_vars => ClockInv'
  <2> SUFFICES ASSUME TypeOK, ClockInv, [Next]_vars PROVE ClockInv'
    OBVIOUS
  <2> USE DEF TypeOK, ClockInv, env, eval
  <2>1. CASE Start
    BY <2>1 DEF Start
  <2>2. CASE Timer
    BY <2>2 DEF Timer
  <2>3. CASE LoadOk
    BY <2>3 DEF LoadOk
  <2>4. CASE LoadNotConfigured
    BY <2>4 DEF LoadNotConfigured, Publish
  <2>5. CASE LoadFails
    BY <2>5 DEF LoadFails
  <2>6. CASE Fallback
    BY <2>6 DEF Fallback, Publish
  <2>7. CASE ReadClock
    BY <2>7 DEF ReadClock
  <2>8. CASE LoadRevocations
    BY <2>8 DEF LoadRevocations
  <2>9. CASE Decide
    <3>1. tok \in Tokens /\ pc = "verify"
      BY <2>9 DEF Decide, Evaluating
    <3> DEFINE v == Verify(tok, now, revoked)
    <3>2. v \in {"active", "grace"} => now < End[tok] + Skew
      BY <3>1, VerifyAnswers
    <3>3. /\ UNCHANGED <<disk, watermark, now>> /\ pc' \in {"persist", "publish"}
          /\ v \notin {"active", "grace"} => result' = Community(v)
          /\ v \in {"active", "grace"} => result' = Licensed(tok)
      BY <2>9 DEF Decide
    <3> HIDE DEF v
    <3>4. result'.grant # NoToken => now < End[result'.grant] + Skew
      BY <3>2, <3>3, ResultsTyped, Zenon
    <3> QED  BY <3>1, <3>3, <3>4
  <2>10. CASE Persist
    BY <2>10 DEF Persist
  <2>11. CASE PublishResult
    BY <2>11 DEF PublishResult, Publish
  <2>12. CASE Stop
    BY <2>12 DEF Stop
  <2>13. CASE Crash
    <3>1. pc' = "down" /\ ent' = Community("none")
      BY <2>13, Zenon DEF Crash
    <3> QED  BY <3>1, ResultsTyped
  <2>14. CASE SetClock
    BY <2>14 DEF SetClock
  <2>15. CASE Configure
    BY <2>15 DEF Configure
  <2>16. CASE \E t \in Tokens : Revoke(t)
    BY <2>16 DEF Revoke
  <2>17. CASE UNCHANGED vars
    BY <2>17 DEF vars
  <2> QED
    BY <2>1, <2>2, <2>3, <2>4, <2>5, <2>6, <2>7, <2>8, <2>9, <2>10, <2>11, <2>12,
       <2>13, <2>14, <2>15, <2>16, <2>17 DEF Next, Refresh
<1> QED  BY <1>1, <1>2, LicenseTypes, PTL DEF Spec

\* Setting the clock back, restarting and losing the source never win more than
\* twice the skew, and the mark is set back only by a start that cannot read the
\* state file: the manager implements the promise of module Entitlement
\* (manager.ts, start, #evaluate and #persist; server.ts, fileStateStore).
THEOREM LicenseClockPromise == Spec => ClockPromise
<1> USE LicenseAssumption
<1>1. Init => Promise!Init
  <2> SUFFICES ASSUME Init PROVE Promise!Init
    OBVIOUS
  <2>1. /\ ent = Community("none") /\ disk = [token |-> NoToken, mark |-> 0]
        /\ pc = "down" /\ losses = 0
    BY Zenon DEF Init
  <2> QED  BY <2>1 DEF Promise!Init, Community, Mark
<1>2. TypeOK /\ ClockInv /\ [Next]_vars => [Promise!Next]_<<Mark, ent.grant, losses>>
  <2> SUFFICES ASSUME TypeOK, ClockInv, [Next]_vars
               PROVE  [Promise!Next]_<<Mark, ent.grant, losses>>
    OBVIOUS
  <2> USE DEF env, eval
  <2>m. Mark \in Nat /\ (pc # "down" => Mark <= watermark)
    <3>1. disk.mark \in Nat /\ watermark \in Nat
      BY DEF TypeOK
    <3> QED  BY <3>1 DEF Mark
  <2>a. ASSUME Mark' \in Nat, Mark' >= Mark, UNCHANGED losses,
               ent'.grant \in {ent.grant, NoToken}
        PROVE  Promise!Next
    BY <2>a DEF Promise!Next, Promise!Advance
  <2>1. CASE Start
    <3>1. CASE watermark' = disk.mark /\ UNCHANGED losses
      BY <2>1, <3>1 DEF Start, Mark
    <3>2. CASE watermark' = 0 /\ losses' = losses + 1
      <4>1. /\ pc = "down" /\ pc' = "load" /\ UNCHANGED <<disk, ent>>
            /\ ent.grant = NoToken
        BY <2>1 DEF Start, ClockInv
      <4>2. Mark' = 0
        BY <3>2, <4>1 DEF Mark, TypeOK
      <4> QED  BY <3>2, <4>1, <4>2 DEF Promise!Next, Promise!Forget
    <3> QED  BY <2>1, <3>1, <3>2 DEF Start
  <2>2. CASE Timer \/ LoadOk \/ LoadFails \/ LoadRevocations
             \/ Decide \/ Stop \/ SetClock \/ Configure \/ UNCHANGED vars
    <3>1. UNCHANGED <<disk, ent, losses, watermark>> /\ (pc' = "down" <=> pc = "down")
      BY <2>2 DEF Timer, LoadOk, LoadFails, LoadRevocations,
                  Decide, Stop, SetClock, Configure, vars
    <3> QED  BY <3>1 DEF Mark
  <2>3. CASE \E t \in Tokens : Revoke(t)
    <3>1. UNCHANGED <<disk, ent, losses, watermark, pc>>
      BY <2>3 DEF Revoke
    <3> QED  BY <3>1 DEF Mark
  <2>4. CASE ReadClock
    <3>1. /\ UNCHANGED <<disk, ent, losses>> /\ watermark' >= watermark
          /\ watermark' \in Nat /\ pc = "evaluate" /\ pc' = "crl"
      BY <2>4 DEF ReadClock, TypeOK
    <3>2. Mark' \in Nat /\ Mark' >= Mark
      BY <3>1 DEF Mark, TypeOK
    <3> QED  BY <3>1, <3>2, <2>a
  <2>5. CASE LoadNotConfigured
    <3>1. /\ UNCHANGED <<disk, losses, watermark>> /\ ent' = Community("none")
          /\ pc = "load" /\ pc' = "idle"
      BY <2>5 DEF LoadNotConfigured, Publish
    <3>2. Mark' = Mark
      BY <3>1 DEF Mark
    <3> QED  BY <3>1, <3>2, <2>m, <2>a, ResultsTyped
  <2>6. CASE Persist
    <3>1. /\ UNCHANGED <<ent, losses, watermark>> /\ pc = "persist" /\ pc' = "publish"
          /\ disk' = disk \/ disk'.mark = watermark
      BY <2>6 DEF Persist
    <3>2. Mark' \in Nat /\ Mark' >= Mark
      BY <3>1 DEF Mark, TypeOK
    <3> QED  BY <3>1, <3>2, <2>a
  <2>7. CASE PublishResult \/ Fallback
    <3>1. /\ UNCHANGED <<disk, losses, watermark>> /\ pc # "down" /\ pc' # "down"
          /\ pc \in {"publish", "fallback"}
      BY <2>7 DEF PublishResult, Fallback, Publish
    <3>2. Mark' = Mark
      BY <3>1 DEF Mark
    <3>3. ent' = ent \/ ent' = result
      BY <2>7 DEF PublishResult, Fallback, Publish
    <3>4. CASE ent' = ent
      BY <3>1, <3>2, <3>4
    <3>5. CASE ent' = result /\ result.grant = NoToken
      BY <3>1, <3>2, <3>5, <2>m, <2>a
    <3>6. CASE ent' = result /\ result.grant # NoToken /\ pc = "publish"
      <4>1. Mark < End[result.grant] + 2 * Skew /\ result.grant \in Tokens
        BY <3>6, <2>m DEF TypeOK, ClockInv, Evaluating, End
      <4> QED  BY <3>1, <3>2, <3>6, <4>1
               DEF Promise!Next, Promise!Grant, Promise!TimelyGrant
    <3>7. CASE pc = "fallback" /\ result.grant # NoToken
      BY <3>7, ResultsTyped DEF TypeOK
    <3> QED  BY <3>1, <3>3, <3>4, <3>5, <3>6, <3>7
  <2>8. CASE Crash
    <3>1. UNCHANGED <<disk, losses>> /\ ent' = Community("none") /\ pc' = "down"
      BY <2>8, Zenon DEF Crash
    <3>2. Mark' \in Nat /\ Mark' >= Mark
      BY <3>1 DEF Mark, TypeOK
    <3> QED  BY <3>1, <3>2, <2>a, ResultsTyped
  <2> QED
    BY <2>1, <2>2, <2>3, <2>4, <2>5, <2>6, <2>7, <2>8 DEF Next, Refresh
<1> QED  BY <1>1, <1>2, LicenseTypes, LicenseClock, PTL DEF Spec, ClockPromise, Promise!Spec

\* As long as the process lives, a licence it refused as revoked is not granted
\* again before it accepts a list that leaves it out, whatever lists fail to load
\* or go back to an older one meanwhile (manager.ts, #loadRevocations).  The
\* argument is that the list in memory covers every refusal still standing.
THEOREM LicenseRevocation == Spec => []RevocationSticks
<1> USE LicenseAssumption
<1> DEFINE Inv == RevokedInv /\ RevocationSticks
<1>1. Init => Inv
  <2> SUFFICES ASSUME Init PROVE Inv
    OBVIOUS
  <2>1. pc = "down" /\ refused = {} /\ revoked = {}
    BY Zenon DEF Init
  <2> QED  BY <2>1 DEF RevokedInv, RevocationSticks
<1>2. TypeOK /\ Inv /\ [Next]_vars => Inv'
  <2> SUFFICES ASSUME TypeOK, Inv, [Next]_vars PROVE Inv'
    OBVIOUS
  <2> USE ResultsTyped DEF RevokedInv, RevocationSticks, env, eval
  <2>1. CASE Start
    BY <2>1 DEF Start
  <2>2. CASE Timer
    BY <2>2 DEF Timer
  <2>3. CASE LoadOk
    BY <2>3 DEF LoadOk
  <2>4. CASE LoadNotConfigured
    BY <2>4 DEF LoadNotConfigured, Publish, TypeOK
  <2>5. CASE LoadFails
    BY <2>5 DEF LoadFails
  <2>6. CASE Fallback
    <3>1. pc' \in {"idle", "evaluate"} /\ UNCHANGED revoked
      BY <2>6 DEF Fallback, Publish
    <3>2. UNCHANGED refused /\ (ent' = ent \/ ent'.grant = NoToken)
      BY <2>6 DEF Fallback, Publish, TypeOK
    <3> QED  BY <3>1, <3>2 DEF TypeOK
  <2>7. CASE ReadClock
    BY <2>7 DEF ReadClock
  <2>8. CASE LoadRevocations
    BY <2>8 DEF LoadRevocations
  <2>9. CASE Decide
    <3>1. tok \in Tokens /\ pc = "verify" /\ now \in Nat /\ revoked \in SUBSET Tokens
      BY <2>9 DEF Decide, TypeOK, Evaluating
    <3> DEFINE v == Verify(tok, now, revoked)
    <3>2. /\ v \in {"active", "grace"} => tok \notin revoked
          /\ v = "revoked" => tok \in revoked
      BY <3>1, VerifyAnswers
    <3>3. /\ UNCHANGED <<revoked, refused, ent, tok>>
          /\ v \notin {"active", "grace"} => result' = Community(v)
          /\ v \in {"active", "grace"} => result' = Licensed(tok)
      BY <2>9 DEF Decide
    <3> HIDE DEF v
    <3>4. /\ result'.grant # NoToken => result'.grant \notin revoked
          /\ result'.reason = "revoked" => tok \in revoked
      BY <3>2, <3>3
    <3> QED  BY <3>3, <3>4
  <2>10. CASE Persist
    BY <2>10 DEF Persist
  <2>11. CASE PublishResult
    <3>1. /\ pc = "publish" /\ pc' = "idle" /\ ent' = result /\ UNCHANGED revoked
          /\ refused' = IF result.reason = "revoked" THEN refused \cup {tok} ELSE refused
      BY <2>11 DEF PublishResult, Publish
    <3>2. refused' \subseteq revoked
      BY <3>1
    <3>3. ent'.grant \notin refused'
      BY <3>1, <3>2 DEF TypeOK
    <3> QED  BY <3>1, <3>2, <3>3
  <2>12. CASE Stop
    BY <2>12 DEF Stop
  <2>13. CASE Crash
    <3>1. pc' = "down" /\ refused' = {} /\ revoked' = {}
      BY <2>13, Zenon DEF Crash
    <3> QED  BY <3>1
  <2>14. CASE SetClock
    BY <2>14 DEF SetClock
  <2>15. CASE Configure
    BY <2>15 DEF Configure
  <2>16. CASE \E t \in Tokens : Revoke(t)
    BY <2>16 DEF Revoke
  <2>17. CASE UNCHANGED vars
    BY <2>17 DEF vars
  <2> QED
    BY <2>1, <2>2, <2>3, <2>4, <2>5, <2>6, <2>7, <2>8, <2>9, <2>10, <2>11, <2>12,
       <2>13, <2>14, <2>15, <2>16, <2>17 DEF Next, Refresh
<1> QED  BY <1>1, <1>2, LicenseTypes, PTL DEF Spec
===============================================================================
