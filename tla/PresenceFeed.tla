----------------------------- MODULE PresenceFeed -----------------------------
(***************************************************************************)
(* How a machine's presence reaches the dashboard: the row (DeviceRow, which *)
(* Presence implements) is announced with NOTIFY, the management API reads   *)
(* the row again for each announcement and sends a patch down an SSE stream, *)
(* and the dashboard applies the patches to a cache that it also seeds from  *)
(* the machine list, which a patch may make it fetch again.                  *)
(***************************************************************************)
EXTENDS DeviceRow, Sequences

CONSTANTS
    Reads,       \* reads of the row the API may have under way at once
    Quirks,      \* "revive", "silent", "skip", "cut", "end"
    MaxWrites    \* bound of the writes to the row

ASSUME FeedAssumption ==
    /\ Quirks \subseteq {"revive", "silent", "skip", "cut", "end"}
    /\ MaxWrites \in Nat

VARIABLES
    writes,      \* how many times the row was written
    owed,        \* writes whose pg_notify is still to be executed
    notices,     \* announcements on their way to the management API
    read,        \* the reads the stream's handler has started
    subscribed,  \* the stream: open, cut (the dashboard connects again), ended
    stream,      \* the patches in it
    cache,       \* the dashboard's entry for the machine
    fetch,       \* the machine list's query: idle, asked, or its answer
    listed,      \* the machine as last listed
    missed       \* since the last change that was announced, one was not announced, an
                 \* announcement was lost or led to no patch, or a handler's patch
                 \* overtook an older one

feedVars == <<writes, owed, notices, read, subscribed, stream, cache, fetch, listed, missed>>
vars == <<row, feedVars>>

\* serializePresencePatch; n says which write made the row so.
Patch == [online : BOOLEAN, at : Nat, beat : Nat, n : Nat]
ThisRow == [online |-> online, at |-> connectedAt, beat |-> beat, n |-> writes]
NoPatch == [online |-> FALSE, at |-> 0, beat |-> 0, n |-> 0]

Idle == [st |-> "idle", patch |-> NoPatch]
Asked == [st |-> "asked", patch |-> NoPatch]
Has(p) == [st |-> "has", patch |-> p]

Init ==
    /\ RowInit
    /\ writes = 0 /\ owed = 0 /\ notices = 0
    /\ read = [r \in Reads |-> Idle]
    /\ subscribed = "open" /\ stream = <<>>
    /\ cache = Idle /\ fetch = Asked /\ listed = Idle
    /\ missed = FALSE

-------------------------------------------------------------------------------
(* The control plane *)

\* mark_agent_connected.
Connected ==
    /\ writes < MaxWrites
    /\ GoOnline /\ connectedAt' = beat'
    /\ writes' = writes + 1
    /\ owed' = owed + 1
    /\ missed' = FALSE
    /\ UNCHANGED <<notices, read, subscribed, stream, cache, fetch, listed>>

\* record_heartbeat announces nothing, not even when it raises the flag.
Beats ==
    /\ writes < MaxWrites
    /\ online \/ "revive" \in Quirks
    /\ GoOnline /\ connectedAt' = connectedAt
    /\ writes' = writes + 1
    /\ missed' = (missed \/ ~online)
    /\ UNCHANGED <<owed, notices, read, subscribed, stream, cache, fetch, listed>>

\* mark_agent_disconnected and the sweep announce the change, the expiry does not.
Disconnected ==
    /\ writes < MaxWrites
    /\ GoOffline
    /\ writes' = writes + 1
    /\ \/ owed' = owed + 1 /\ missed' = FALSE
       \/ "silent" \in Quirks /\ UNCHANGED owed /\ missed' = TRUE
    /\ UNCHANGED <<notices, read, subscribed, stream, cache, fetch, listed>>

\* emit_presence_changed, a statement of its own after the UPDATE.
Emit ==
    /\ owed > 0
    /\ owed' = owed - 1
    /\ notices' = notices + 1
    /\ UNCHANGED <<row, writes, read, subscribed, stream, cache, fetch, listed, missed>>

-------------------------------------------------------------------------------
(* The management API *)

\* PresenceNotifyHub.dispatch: each subscribed stream starts a read and goes on.
Dispatch ==
    /\ notices > 0
    /\ notices' = notices - 1
    /\ IF subscribed = "open"
       THEN /\ \E r \in Reads : read[r] = Idle /\ read' = [read EXCEPT ![r] = Asked]
            /\ UNCHANGED missed
       ELSE UNCHANGED read /\ missed' = TRUE
    /\ UNCHANGED <<row, writes, owed, subscribed, stream, cache, fetch, listed>>

\* The database answers one of the reads.
FindDevice(r) ==
    /\ read[r] = Asked
    /\ read' = [read EXCEPT ![r] = Has(ThisRow)]
    /\ UNCHANGED <<row, writes, owed, notices, subscribed, stream, cache, fetch, listed, missed>>

\* The handler goes on after its await and sends the patch, or nothing at all: the
\* read failed, or the row or its membership is gone.  Nothing orders two handlers:
\* one that read the row earlier may send it later.
SendPatch(r) ==
    /\ read[r].st = "has"
    /\ read' = [read EXCEPT ![r] = Idle]
    /\ \/ /\ stream' = Append(stream, read[r].patch)
          /\ missed' = (missed \/ \E q \in Reads : /\ read[q].st = "has"
                                                 /\ read[q].patch.n < read[r].patch.n)
       \/ "skip" \in Quirks /\ UNCHANGED stream /\ missed' = TRUE
    /\ UNCHANGED <<row, writes, owed, notices, subscribed, cache, fetch, listed>>

-------------------------------------------------------------------------------
(* The dashboard *)

\* Mutant: a patch without a newer heartbeat is taken for a late one.
ApplyPatch_NewerOnly ==
    /\ stream # <<>>
    /\ stream' = Tail(stream)
    /\ IF cache = Idle \/ Head(stream).beat > cache.patch.beat
       THEN /\ cache' = Has(Head(stream))
            /\ fetch' = IF cache = Idle \/ cache.patch.online # Head(stream).online
                        THEN Asked ELSE fetch
       ELSE UNCHANGED <<cache, fetch>>
    /\ UNCHANGED <<row, writes, owed, notices, read, subscribed, listed, missed>>

\* applyPresencePatch takes every patch; one that flips the flag invalidates the
\* machine list, which cancels the fetch under way and starts another.
ApplyPatch ==
    /\ stream # <<>>
    /\ cache' = Has(Head(stream))
    /\ fetch' = IF cache = Idle \/ cache.patch.online # Head(stream).online THEN Asked ELSE fetch
    /\ stream' = Tail(stream)
    /\ UNCHANGED <<row, writes, owed, notices, read, subscribed, listed, missed>>

\* The list is read on the server.
FetchMachines ==
    /\ fetch = Asked
    /\ fetch' = Has(ThisRow)
    /\ UNCHANGED <<row, writes, owed, notices, read, subscribed, stream, cache, listed, missed>>

\* Mutant: the tie of two equal heartbeats is not broken.
Keeps_NoTie(old, new) == old.beat > new.beat

\* seedPresenceCache: the entry that is there is newer than the listed machine.
Keeps(old, new) ==
    \/ old.beat > new.beat
    \/ old.beat = new.beat /\ ~old.online /\ new.online

\* The answer arrives.  The query library keeps the old list when the new one is
\* equal, and the effect that seeds the cache runs only for a new list.
ListMachines ==
    /\ fetch.st = "has"
    /\ fetch' = Idle
    /\ listed' = fetch
    /\ cache' = IF fetch = listed \/ (cache # Idle /\ Keeps(cache.patch, fetch.patch))
                THEN cache ELSE fetch
    /\ UNCHANGED <<row, writes, owed, notices, read, subscribed, stream, missed>>

\* The stream breaks, and the handlers under way find it closed: an exception of the
\* reader makes the dashboard connect again, the end of the response does not.
LoseStream ==
    /\ subscribed = "open"
    /\ \/ "cut" \in Quirks /\ subscribed' = "cut"
       \/ "end" \in Quirks /\ subscribed' = "ended"
    /\ stream' = <<>>
    /\ missed' = (missed \/ stream # <<>> \/ \E r \in Reads : read[r] # Idle)
    /\ read' = [r \in Reads |-> Idle]
    /\ UNCHANGED <<row, writes, owed, notices, cache, fetch, listed>>

\* ... three seconds later, and without a look at what it missed.
Reconnect ==
    /\ subscribed = "cut"
    /\ subscribed' = "open"
    /\ UNCHANGED <<row, writes, owed, notices, read, stream, cache, fetch, listed, missed>>

Next ==
    \/ Connected \/ Beats \/ Disconnected \/ Emit
    \/ Dispatch \/ \E r \in Reads : FindDevice(r) \/ SendPatch(r)
    \/ ApplyPatch \/ FetchMachines \/ ListMachines \/ LoseStream \/ Reconnect

Spec == Init /\ [][Next]_vars

\* What was announced, sent or asked for is worked off.
FairSpec ==
    /\ Spec
    /\ WF_vars(Emit) /\ WF_vars(Dispatch)
    /\ \A r \in Reads : WF_vars(FindDevice(r)) /\ WF_vars(SendPatch(r))
    /\ WF_vars(ApplyPatch) /\ WF_vars(FetchMachines) /\ WF_vars(ListMachines)

-------------------------------------------------------------------------------
(* Properties *)

Holding == [st : {"idle", "asked", "has"}, patch : Patch]

\* Every variable keeps its type, and nothing is announced that was not written.
TypeOK ==
    /\ online \in BOOLEAN /\ connectedAt \in Nat /\ beat \in Nat
    /\ writes \in Nat /\ owed \in Nat /\ notices \in Nat
    /\ owed + notices <= writes
    /\ read \in [Reads -> Holding]
    /\ subscribed \in {"open", "cut", "ended"}
    /\ stream \in Seq(Patch)
    /\ cache \in Holding /\ fetch \in Holding /\ listed \in Holding
    /\ missed \in BOOLEAN

\* "Do not clobber a fresher SSE patch with a stale REST snapshot": whatever order
\* patches and lists arrive in, seeding from the list never puts the cache back to
\* an older state of the row.
SeedKeepsNewer == [][ListMachines => cache'.patch.n >= cache.patch.n]_vars

\* Whenever no announcement is on its way the dashboard shows the machine as it
\* is, unless it was not told (missed): whatever lists and patches crossed, the last
\* of them to arrive did not leave an older state on the screen, and a list that is
\* still being fetched will not bring one back.
QuietIsShown ==
    /\ owed = 0 /\ notices = 0 /\ \A r \in Reads : read[r] = Idle
    /\ stream = <<>> /\ ~missed
    => cache.patch.online = online

\* "The dashboard also connects to a presence SSE stream to show live machine
\* status": once the row rests, the dashboard shows its flag, unless what changed
\* it last was never announced to the dashboard, or an older patch was sent after
\* a newer one: patches carry no order that the dashboard looks at.
AnnouncedIsShown == <>[](missed \/ cache.patch.online = online)
================================================================================
