------------------------------- MODULE License -------------------------------
(***************************************************************************)
(* The licence manager of packages/license: one refresh at a time loads    *)
(* the token from its source, falls back on the token kept on disk when    *)
(* the source cannot be reached, settles what time it is against the       *)
(* persisted clock watermark, loads the revocation list, verifies, keeps   *)
(* the result on disk and publishes the entitlements.  Every await of the  *)
(* code is a step of its own, so that the clock may be set, the source     *)
(* and the list may change and the process may die between any two.        *)
(***************************************************************************)
EXTENDS Integers, FiniteSets

CONSTANTS
    Tokens,        \* the licence tokens that may be configured
    NoToken,
    NotBefore,     \* nbf, exp and grace of each token
    Expires,
    Grace,
    Defect,        \* what is wrong with the token itself ("none" when nothing)
    Skew,          \* clockSkewSec
    HasCrl,        \* revocationSource is configured
    MaxTime,       \* bound of the system clock
    MaxCrashes,    \* bound of the restarts
    MaxRevoked     \* bound of the published lists after the first

End == [t \in Tokens |-> Expires[t] + Grace[t]]

\* The failure codes a token has by itself, and all of them.
Defects == {"malformed", "unsupported_format", "unsupported_claim", "unknown_key",
            "key_revoked", "alg_mismatch", "bad_signature", "invalid_claims",
            "issuer_mismatch", "audience_mismatch"}

Codes == Defects \cup {"revoked", "not_yet_valid", "expired", "unavailable", "too_large"}

ASSUME LicenseAssumption ==
    /\ NoToken \notin Tokens
    /\ NotBefore \in [Tokens -> Nat]
    /\ Expires \in [Tokens -> Nat]
    /\ Grace \in [Tokens -> Nat]
    /\ Defect \in [Tokens -> {"none"} \cup Defects]
    /\ Skew \in Nat
    /\ HasCrl \in BOOLEAN
    /\ MaxTime \in Nat
    /\ MaxCrashes \in Nat
    /\ MaxRevoked \in Nat

VARIABLES
    wall,        \* the system clock
    configured,  \* the token the source holds, or NoToken
    crl,         \* the revocation lists published so far and not yet stale
    disk,        \* the state file: the last token kept and the clock watermark
    pc,          \* where the process is: down, idle or an await of the refresh
    stopped,     \* stop() was called
    watermark,   \* #watermark
    revoked,     \* #revoked
    tok,         \* the token this refresh evaluates
    now,         \* the time it evaluates it at
    result,      \* what it is about to publish
    ent,         \* #entitlements: the licence granted and the reason when none
    refused,     \* history: tokens this process has published as revoked and that
                 \* every list it accepted since still names
    losses,      \* history: starts that could not read the state file
    crashes

vars == <<wall, configured, crl, disk, pc, stopped, watermark, revoked, tok,
          now, result, ent, refused, losses, crashes>>

env == <<wall, configured, crl>>
eval == <<tok, now, result>>

Community(reason) == [grant |-> NoToken, reason |-> reason]
Licensed(t) == [grant |-> t, reason |-> "none"]

Evaluating == {"evaluate", "crl", "verify", "persist", "publish"}

\* Every variable keeps its type, and a refresh that evaluates has a token to evaluate.
TypeOK ==
    /\ wall \in Nat
    /\ configured \in Tokens \cup {NoToken}
    /\ crl \subseteq SUBSET Tokens
    /\ disk \in [token : Tokens \cup {NoToken}, mark : Nat]
    /\ pc \in {"down", "idle", "load", "fallback"} \cup Evaluating
    /\ stopped \in BOOLEAN
    /\ watermark \in Nat
    /\ revoked \subseteq Tokens
    /\ tok \in Tokens \cup {NoToken}
    /\ now \in Nat
    /\ result \in [grant : Tokens \cup {NoToken}, reason : {"none"} \cup Codes]
    /\ ent \in [grant : Tokens \cup {NoToken}, reason : {"none"} \cup Codes]
    /\ refused \subseteq Tokens
    /\ losses \in Nat
    /\ crashes \in Nat
    /\ pc \in Evaluating => tok \in Tokens
    /\ pc = "fallback" => result \in {Community("unavailable"), Community("too_large")}

Init ==
    /\ wall = 0
    /\ configured \in Tokens \cup {NoToken}
    /\ crl = {{}}
    /\ disk = [token |-> NoToken, mark |-> 0]
    /\ pc = "down" /\ stopped = FALSE
    /\ watermark = 0 /\ revoked = {}
    /\ tok = NoToken /\ now = 0 /\ result = Community("none")
    /\ ent = Community("none")
    /\ refused = {} /\ losses = 0 /\ crashes = 0

-----------------------------------------------------------------------------
\* verifyLicenseToken: the checks in the order the code makes them.  What the
\* token, the keyring, the issuer and the deployment decide by themselves is
\* the token's Defect; the audience is looked at after the revocation list.
Verify(t, at, ids) ==
    IF Defect[t] \notin {"none", "audience_mismatch"} THEN Defect[t]
    ELSE IF t \in ids THEN "revoked"
    ELSE IF Defect[t] = "audience_mismatch" THEN "audience_mismatch"
    ELSE IF at + Skew < NotBefore[t] THEN "not_yet_valid"
    ELSE IF at - Skew < Expires[t] THEN "active"
    ELSE IF at - Skew < Expires[t] + Grace[t] THEN "grace"
    ELSE "expired"

\* #publish, and the end of the refresh, whose locals go.
Publish(e) ==
    /\ ent' = e
    /\ refused' = IF e.reason = "revoked" THEN refused \cup {tok} ELSE refused
    /\ pc' = "idle"
    /\ tok' = NoToken /\ now' = 0 /\ result' = Community("none")

\* Mutant: the watermark starts again with the process.
Start_ForgetsMark ==
    /\ pc = "down"
    /\ watermark' = 0
    /\ pc' = "load"
    /\ UNCHANGED <<env, disk, stopped, revoked, eval, ent, refused, losses, crashes>>

\* start(): the watermark comes from the state file, then the first refresh.
\* read() answers null for a file that is missing, cannot be read or does not
\* parse, and the watermark then starts from 0.
Start ==
    /\ pc = "down"
    /\ \/ watermark' = disk.mark /\ UNCHANGED losses
       \/ watermark' = 0 /\ losses' = losses + 1
    /\ pc' = "load"
    /\ UNCHANGED <<env, disk, stopped, revoked, eval, ent, refused, crashes>>

\* The timer of #schedule: a refresh is started when none is in flight.
Timer ==
    /\ pc = "idle" /\ ~stopped
    /\ pc' = "load"
    /\ UNCHANGED <<env, disk, stopped, watermark, revoked, eval, ent, refused,
                   losses, crashes>>

\* source.load gave a token.
LoadOk ==
    /\ pc = "load" /\ configured # NoToken
    /\ tok' = configured
    /\ pc' = "evaluate"
    /\ UNCHANGED <<env, disk, stopped, watermark, revoked, now, result, ent,
                   refused, losses, crashes>>

\* No source is configured: the community edition, whatever the disk holds.
LoadNotConfigured ==
    /\ pc = "load" /\ configured = NoToken
    /\ Publish(Community("none"))
    /\ UNCHANGED <<env, disk, stopped, watermark, revoked, losses, crashes>>

\* Mutant: a source that fails ends the refresh and leaves what was published.
LoadFails_KeepsGrant ==
    /\ pc = "load" /\ configured # NoToken
    /\ pc' = "idle"
    /\ UNCHANGED <<env, disk, stopped, watermark, revoked, eval, ent, refused,
                   losses, crashes>>

\* The source failed: the refresh goes on to read the state file.
LoadFails ==
    /\ pc = "load" /\ configured # NoToken
    /\ \E why \in {"unavailable", "too_large"} : result' = Community(why)
    /\ pc' = "fallback"
    /\ UNCHANGED <<env, disk, stopped, watermark, revoked, tok, now, ent,
                   refused, losses, crashes>>

\* The last known good token, or the community edition when there is none or
\* the state file cannot be read.
Fallback ==
    /\ pc = "fallback"
    /\ \/ Publish(result)
       \/ /\ disk.token # NoToken
          /\ tok' = disk.token /\ pc' = "evaluate" /\ result' = Community("none")
          /\ UNCHANGED <<now, ent, refused>>
    /\ UNCHANGED <<env, disk, stopped, watermark, revoked, losses, crashes>>

\* Mutant: the tolerance is taken off the clock as well.
ReadClock_TakesSkew ==
    /\ pc = "evaluate"
    /\ now' = wall - Skew
    /\ watermark' = IF wall > watermark THEN wall ELSE watermark
    /\ pc' = "crl"
    /\ UNCHANGED <<env, disk, stopped, revoked, tok, result, ent, refused, losses, crashes>>

\* #evaluate: a clock that is behind the watermark by more than the skew is
\* not believed; a clock that is ahead of it moves it.
ReadClock ==
    /\ pc = "evaluate"
    /\ now' = IF wall + Skew < watermark THEN watermark ELSE wall
    /\ watermark' = IF wall > watermark THEN wall ELSE watermark
    /\ pc' = "crl"
    /\ UNCHANGED <<env, disk, stopped, revoked, tok, result, ent, refused, losses, crashes>>

\* Mutant: a list that cannot be had is an empty list.
LoadRevocations_Empties ==
    /\ pc = "crl"
    /\ \/ /\ revoked' = IF HasCrl THEN {} ELSE revoked
          /\ UNCHANGED refused
       \/ /\ HasCrl
          /\ revoked' \in crl
          /\ refused' = refused \cap revoked'
    /\ pc' = "verify"
    /\ UNCHANGED <<env, disk, stopped, watermark, eval, ent, losses, crashes>>

\* #loadRevocations: a list that cannot be had, or is refused as stale or badly
\* signed, leaves the previous one in force.  Any other list is accepted, one
\* older than the last too: nothing compares the times they were issued.
LoadRevocations ==
    /\ pc = "crl"
    /\ \/ UNCHANGED <<revoked, refused>>
       \/ /\ HasCrl
          /\ revoked' \in crl
          /\ refused' = refused \cap revoked'
    /\ pc' = "verify"
    /\ UNCHANGED <<env, disk, stopped, watermark, eval, ent, losses, crashes>>

\* The verdict.  Only a licence in force and an expired one are kept on disk.
Decide ==
    /\ pc = "verify"
    /\ LET v == Verify(tok, now, revoked) IN
       IF v \in {"active", "grace"}
       THEN result' = Licensed(tok) /\ pc' = "persist"
       ELSE /\ result' = Community(v)
            /\ pc' = IF v = "expired" THEN "persist" ELSE "publish"
    /\ UNCHANGED <<env, disk, stopped, watermark, revoked, tok, now, ent, refused,
                   losses, crashes>>

\* #persist: the state file is replaced by a rename, or the write fails and is
\* only logged.
Persist ==
    /\ pc = "persist"
    /\ disk' \in {disk, [token |-> tok, mark |-> watermark]}
    /\ pc' = "publish"
    /\ UNCHANGED <<env, stopped, watermark, revoked, eval, ent, refused, losses, crashes>>

PublishResult ==
    /\ pc = "publish"
    /\ Publish(result)
    /\ UNCHANGED <<env, disk, stopped, watermark, revoked, losses, crashes>>

\* stop(): the timer is cleared; a refresh in flight still ends.
Stop ==
    /\ pc # "down" /\ ~stopped
    /\ stopped' = TRUE
    /\ UNCHANGED <<env, disk, pc, watermark, revoked, eval, ent, refused, losses, crashes>>

\* The process dies: everything but the state file is lost.
Crash ==
    /\ pc # "down" /\ crashes < MaxCrashes
    /\ crashes' = crashes + 1
    /\ pc' = "down" /\ stopped' = FALSE
    /\ watermark' = 0 /\ revoked' = {} /\ refused' = {}
    /\ tok' = NoToken /\ now' = 0 /\ result' = Community("none")
    /\ ent' = Community("none")
    /\ UNCHANGED <<env, disk, losses>>

\* The system clock: it runs, and it may be set to anything, backwards too.
SetClock ==
    /\ wall' \in 0..MaxTime
    /\ wall' # wall
    /\ UNCHANGED <<configured, crl, disk, pc, stopped, watermark, revoked, eval,
                   ent, refused, losses, crashes>>

\* The operator puts another licence in the source.  Whether there is a source
\* is settled when the process starts; a file that is removed under it is a
\* source that fails (LoadFails).
Configure ==
    /\ configured' \in Tokens \cup {NoToken}
    /\ configured' # configured
    /\ pc # "down" => configured # NoToken /\ configured' # NoToken
    /\ UNCHANGED <<wall, crl, disk, pc, stopped, watermark, revoked, eval, ent,
                   refused, losses, crashes>>

\* The issuer publishes a list with one licence more.
Revoke(t) ==
    /\ t \notin UNION crl /\ Cardinality(crl) <= MaxRevoked
    /\ crl' = crl \cup {(UNION crl) \cup {t}}
    /\ UNCHANGED <<wall, configured, disk, pc, stopped, watermark, revoked, eval,
                   ent, refused, losses, crashes>>

Refresh == LoadOk \/ LoadNotConfigured \/ LoadFails \/ Fallback \/ ReadClock
           \/ LoadRevocations \/ Decide \/ Persist \/ PublishResult

Next ==
    \/ Start \/ Timer \/ Refresh \/ Stop \/ Crash
    \/ SetClock \/ Configure
    \/ \E t \in Tokens : Revoke(t)

\* Every await of a refresh returns (the HTTP source has a timeout of five
\* seconds) and the timer fires.
Spec == Init /\ [][Next]_vars /\ WF_vars(Refresh) /\ WF_vars(Timer)

-----------------------------------------------------------------------------
\* The time the deployment is known to have reached: what a restart would read
\* while the process is down, and no more than the process knows while it is up.
Mark == IF pc = "down" \/ disk.mark <= watermark THEN disk.mark ELSE watermark

\* The manager implements the promise about time: the grant is the licence of
\* the published entitlements.
Promise == INSTANCE Entitlement WITH mark <- Mark, grant <- ent.grant, losses <- losses

\* Setting the clock back, restarting, or losing the source never gets a
\* licence granted that had ended more than twice the skew before the mark; only
\* a start that cannot read the state file sets the mark back, with no licence
\* in force (manager.ts, start, #evaluate and #persist).
ClockPromise == Promise!Spec

\* As long as the process lives, a licence it has refused as revoked is not
\* granted again, though later lists may be unreachable, stale or badly signed,
\* unless a list it accepted since leaves that licence out (#loadRevocations,
\* "keeping previous").
RevocationSticks == ent.grant \notin refused

\* A licence that has ended for good stops being granted: the refresh timer
\* alone brings the entitlements down, with no restart and no call.
ExpiryTakesEffect ==
    \A t \in Tokens :
        (<>[](wall - Skew >= End[t] /\ ~stopped)) => <>[](ent.grant # t)

\* The clock a refresh works with is never behind the watermark by more than
\* the skew, and a grant on its way to be published was decided against it.
ClockInv ==
    /\ pc \in {"crl", "verify", "persist", "publish"} => watermark <= now + Skew
    /\ pc \in {"persist", "publish"} /\ result.grant # NoToken =>
          now < End[result.grant] + Skew
    /\ pc = "down" => ent.grant = NoToken

\* The set of revoked tokens the process works with covers what it refused.
RevokedInv ==
    /\ refused \subseteq revoked
    /\ pc \in {"persist", "publish"} /\ result.grant # NoToken =>
          result.grant \notin revoked
    /\ pc \in {"persist", "publish"} /\ result.reason = "revoked" => tok \in revoked
===============================================================================
