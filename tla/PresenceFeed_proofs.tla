-------------------------- MODULE PresenceFeed_proofs --------------------------
(***************************************************************************)
(* Proofs about PresenceFeed: its type invariant, that seeding the           *)
(* dashboard's cache from the machine list never puts it back, and that a    *)
(* feed with no announcement under way shows the row.  The                   *)
(* argument: every patch that is held anywhere is a state the row once had,  *)
(* and because the row keeps the promise of DeviceRow, of two such states    *)
(* the later one has the later heartbeat, or the same one and the flag down. *)
(***************************************************************************)
EXTENDS PresenceFeed, TLAPS

LEMMA ConstantTypes ==
    /\ NoPatch \in Patch
    /\ Idle \in Holding
    /\ Asked \in Holding
    /\ \A p \in Patch : Has(p) \in Holding
    /\ \A h \in Holding : h.patch \in Patch
    /\ Idle.patch = NoPatch /\ Asked.patch = NoPatch
    /\ \A p \in Patch : Has(p).patch = p /\ Has(p).st = "has"
BY DEF NoPatch, Patch, Idle, Asked, Has, Holding

LEMMA ThisRowType == TypeOK => ThisRow \in Patch
BY DEF TypeOK, ThisRow, Patch

LEMMA InitTypes == Init => TypeOK
<1> SUFFICES ASSUME Init PROVE TypeOK
    OBVIOUS
<1> USE DEF Init, RowInit
<1>1. online \in BOOLEAN /\ connectedAt \in Nat /\ beat \in Nat /\ missed \in BOOLEAN
    OBVIOUS
<1>2. writes \in Nat /\ owed \in Nat /\ notices \in Nat /\ owed + notices <= writes
    OBVIOUS
<1>3. read \in [Reads -> Holding] /\ cache \in Holding /\ fetch \in Holding /\ listed \in Holding
    BY ConstantTypes
<1>4. stream \in Seq(Patch) /\ subscribed \in {"open", "cut", "ended"}
    OBVIOUS
<1>5. QED
    BY <1>1, <1>2, <1>3, <1>4 DEF TypeOK

\* The row's own columns, in every step.
LEMMA RowStep ==
    ASSUME TypeOK, [Next]_vars
    PROVE  /\ online' \in BOOLEAN /\ connectedAt' \in Nat /\ beat' \in Nat
           /\ missed' \in BOOLEAN
<1>1. CASE Connected \/ Beats \/ Disconnected
    <2>1. online' \in BOOLEAN
        BY <1>1, Zenon DEF Connected, Beats, Disconnected, GoOnline, GoOffline
    <2>2. missed' \in BOOLEAN
        BY <1>1, Zenon DEF Connected, Beats, Disconnected, TypeOK
    <2>3. beat' \in Nat /\ connectedAt' \in Nat
        BY <1>1 DEF Connected, Beats, Disconnected, GoOnline, GoOffline, TypeOK
    <2>4. QED
        BY <2>1, <2>2, <2>3
<1>2. CASE Dispatch \/ LoseStream
    <2>1. missed' \in BOOLEAN
        BY <1>2, Zenon DEF Dispatch, LoseStream, TypeOK
    <2>2. UNCHANGED row
        BY <1>2 DEF Dispatch, LoseStream
    <2>3. QED
        BY <2>1, <2>2 DEF TypeOK, row
<1>3. CASE Emit \/ ApplyPatch \/ FetchMachines \/ ListMachines \/ Reconnect
    <2>1. UNCHANGED <<row, missed>>
        BY <1>3 DEF Emit, ApplyPatch, FetchMachines, ListMachines, Reconnect
    <2>2. QED
        BY <2>1 DEF TypeOK, row
<1>4. CASE \E r \in Reads : FindDevice(r) \/ SendPatch(r)
    <2>1. UNCHANGED row
        BY <1>4 DEF FindDevice, SendPatch
    <2>2. missed' \in BOOLEAN
        BY <1>4, Zenon DEF FindDevice, SendPatch, TypeOK
    <2>3. QED
        BY <2>1, <2>2 DEF TypeOK, row
<1>5. CASE UNCHANGED vars
    BY <1>5 DEF TypeOK, vars, row, feedVars
<1>6. QED
    BY <1>1, <1>2, <1>3, <1>4, <1>5 DEF Next

LEMMA CountStep ==
    ASSUME TypeOK, [Next]_vars
    PROVE  /\ writes' \in Nat /\ owed' \in Nat /\ notices' \in Nat
           /\ owed' + notices' <= writes'
           /\ subscribed' \in {"open", "cut", "ended"}
<1> USE DEF TypeOK
<1>1. CASE Connected \/ Beats \/ Disconnected
    BY <1>1 DEF Connected, Beats, Disconnected
<1>2. CASE Emit \/ Dispatch
    BY <1>2 DEF Emit, Dispatch
<1>3. CASE ApplyPatch \/ FetchMachines \/ ListMachines \/ LoseStream \/ Reconnect
    BY <1>3 DEF ApplyPatch, FetchMachines, ListMachines, LoseStream, Reconnect
<1>4. CASE \E r \in Reads : FindDevice(r) \/ SendPatch(r)
    BY <1>4 DEF FindDevice, SendPatch
<1>5. CASE UNCHANGED vars
    BY <1>5 DEF vars, feedVars
<1>6. QED
    BY <1>1, <1>2, <1>3, <1>4, <1>5 DEF Next

LEMMA HoldingStep ==
    ASSUME TypeOK, [Next]_vars
    PROVE  /\ read' \in [Reads -> Holding] /\ stream' \in Seq(Patch)
           /\ cache' \in Holding /\ fetch' \in Holding /\ listed' \in Holding
<1> USE ConstantTypes, ThisRowType
<1> HIDE DEF Patch, Holding, NoPatch, Idle, Asked, Has, ThisRow
<1>1. CASE Connected \/ Beats \/ Disconnected \/ Emit \/ Reconnect
    BY <1>1 DEF Connected, Beats, Disconnected, Emit, Reconnect, TypeOK
<1>2. CASE Dispatch \/ LoseStream
    <2>1. CASE Dispatch
        <3>1. UNCHANGED <<stream, cache, fetch, listed>>
            BY <2>1 DEF Dispatch
        <3>2. read' = read \/ \E r \in Reads : read' = [read EXCEPT ![r] = Asked]
            BY <2>1 DEF Dispatch
        <3>3. read' \in [Reads -> Holding]
            BY <3>2 DEF TypeOK
        <3>4. QED
            BY <3>1, <3>3 DEF TypeOK
    <2>2. CASE LoseStream
        <3>1. UNCHANGED <<cache, fetch, listed>> /\ stream' = <<>> /\ read' = [r \in Reads |-> Idle]
            BY <2>2 DEF LoseStream
        <3>2. QED
            BY <3>1 DEF TypeOK
    <2>3. QED
        BY <1>2, <2>1, <2>2
<1>3. CASE ApplyPatch
    <2>1. stream' \in Seq(Patch) /\ Head(stream) \in Patch
        BY <1>3 DEF ApplyPatch, TypeOK
    <2>2. cache' \in Holding /\ fetch' \in Holding /\ UNCHANGED <<read, listed>>
        BY <1>3, <2>1 DEF ApplyPatch, TypeOK
    <2>3. QED
        BY <2>1, <2>2 DEF TypeOK
<1>4. CASE FetchMachines \/ ListMachines
    BY <1>4 DEF FetchMachines, ListMachines, TypeOK
<1>5. ASSUME NEW r \in Reads, FindDevice(r) \/ SendPatch(r)
      PROVE  /\ read' \in [Reads -> Holding] /\ stream' \in Seq(Patch)
             /\ UNCHANGED <<cache, fetch, listed>>
    <2>1. UNCHANGED <<cache, fetch, listed>>
        BY <1>5 DEF FindDevice, SendPatch
    <2>2. read' = [read EXCEPT ![r] = Has(ThisRow)] \/ read' = [read EXCEPT ![r] = Idle]
        BY <1>5 DEF FindDevice, SendPatch
    <2>3. read' \in [Reads -> Holding]
        BY <2>2 DEF TypeOK
    <2>4. read[r].patch \in Patch
        BY DEF TypeOK
    <2>5. stream' = stream \/ stream' = Append(stream, read[r].patch)
        BY <1>5 DEF FindDevice, SendPatch
    <2>6. stream' \in Seq(Patch)
        BY <2>4, <2>5 DEF TypeOK
    <2>7. QED
        BY <2>1, <2>3, <2>6
<1>6. CASE UNCHANGED vars
    BY <1>6 DEF TypeOK, vars, feedVars
<1>7. QED
    BY <1>1, <1>2, <1>3, <1>4, <1>5, <1>6 DEF Next, TypeOK

\* Every variable of the feed keeps its type, and no change is announced twice.
THEOREM FeedTypes == Spec => []TypeOK
<1>1. TypeOK /\ [Next]_vars => TypeOK'
    <2> SUFFICES ASSUME TypeOK, [Next]_vars PROVE TypeOK'
        OBVIOUS
    <2>1. QED
        BY RowStep, CountStep, HoldingStep DEF TypeOK
<1>2. QED
    BY InitTypes, <1>1, PTL DEF Spec

-------------------------------------------------------------------------------
(* The order of the row's states *)

\* Every patch that is somewhere on its way to the cache, or in it.
Held ==
    {read[r].patch : r \in Reads} \cup {stream[i] : i \in DOMAIN stream}
    \cup {cache.patch, fetch.patch, NoPatch}

\* a is an earlier state of the row than b, and it shows; or they are one state.
Ordered(a, b) ==
    /\ a.n < b.n => a.beat < b.beat \/ (a.beat = b.beat /\ a.online = TRUE /\ b.online = FALSE)
    /\ a.n = b.n => a.beat = b.beat /\ a.online = b.online

InOrder ==
    /\ \A a \in Held : a.n <= writes /\ Ordered(a, ThisRow)
    /\ \A a, b \in Held : Ordered(a, b)

LEMMA HeldTypes == TypeOK => \A a \in Held : a \in Patch
BY ConstantTypes DEF TypeOK, Held

LEMMA InitOrder == Init => InOrder
<1> SUFFICES ASSUME Init PROVE InOrder
    OBVIOUS
<1>1. Held = {NoPatch}
    BY ConstantTypes DEF Init, Held
<1>2. ThisRow = NoPatch
    BY DEF Init, RowInit, ThisRow, NoPatch
<1>3. QED
    BY <1>1, <1>2 DEF InOrder, Ordered, NoPatch, Init

\* The row is written: what is held was the row at some earlier write.
LEMMA WriteOrder ==
    ASSUME TypeOK, InOrder, Held' = Held, writes' = writes + 1, GoOnline \/ GoOffline
    PROVE  InOrder'
<1> DEFINE now == ThisRow
           next == ThisRow'
<1>1. /\ now.n = writes /\ now.beat = beat /\ now.online = online
      /\ next.n = writes + 1 /\ next.beat = beat' /\ next.online = online'
    BY DEF ThisRow
<1>2. \/ beat' = beat + 1
      \/ beat' = beat /\ online = TRUE /\ online' = FALSE
    BY DEF GoOnline, GoOffline, TypeOK
<1>3. ASSUME NEW a \in Held
      PROVE  a.n <= writes' /\ Ordered(a, next)
    <2>1. a \in Patch /\ a.n <= writes /\ Ordered(a, now)
        BY HeldTypes DEF InOrder
    <2>2. a.n \in Nat /\ a.beat \in Nat /\ writes \in Nat /\ beat \in Nat
        BY <2>1 DEF Patch, TypeOK
    <2>3. a.n < next.n => a.beat < next.beat \/ (a.beat = next.beat /\ a.online = TRUE /\ next.online = FALSE)
        BY <1>1, <1>2, <2>1, <2>2 DEF Ordered
    <2>4. a.n # next.n
        BY <1>1, <2>1, <2>2
    <2>5. QED
        BY <2>1, <2>2, <2>3, <2>4 DEF Ordered
<1>4. QED
    BY <1>3 DEF InOrder

\* A step that leaves the row alone: whatever is held after it was held before or
\* is the row.
LEMMA DeliverOrder ==
    ASSUME TypeOK, InOrder, Held' \subseteq Held \cup {ThisRow}, UNCHANGED <<row, writes>>
    PROVE  InOrder'
<1>1. ThisRow' = ThisRow /\ ThisRow.n = writes /\ writes' = writes /\ writes \in Nat
    BY DEF ThisRow, row, TypeOK
<1>2. \A a \in Held \cup {ThisRow} : a.n <= writes /\ Ordered(a, ThisRow)
    BY <1>1 DEF InOrder, Ordered
<1>3. \A a, b \in Held \cup {ThisRow} : Ordered(a, b)
    <2> SUFFICES ASSUME NEW a \in Held \cup {ThisRow}, NEW b \in Held PROVE Ordered(a, b)
        BY <1>2
    <2>1. CASE a \in Held
        BY <2>1 DEF InOrder
    <2>2. CASE a = ThisRow
        <3>1. b.n <= a.n /\ Ordered(b, a)
            BY <1>1, <2>2 DEF InOrder
        <3>2. b.n \in Nat /\ a.n \in Nat
            BY <1>1, <2>2, HeldTypes DEF Patch
        <3>3. QED
            BY <3>1, <3>2 DEF Ordered
    <2>3. QED
        BY <2>1, <2>2
<1>4. QED
    BY <1>1, <1>2, <1>3 DEF InOrder

\* What one step does to the patches that are held.
Written == Held' = Held /\ writes' = writes + 1 /\ (GoOnline \/ GoOffline)
Delivered == Held' \subseteq Held \cup {ThisRow} /\ UNCHANGED <<row, writes>>

LEMMA HeldStep ==
    ASSUME TypeOK, [Next]_vars
    PROVE  Written \/ Delivered
<1> USE ConstantTypes
<1>1. CASE Connected \/ Beats \/ Disconnected
    <2>1. Held' = Held
        BY <1>1 DEF Connected, Beats, Disconnected, Held
    <2>2. writes' = writes + 1 /\ (GoOnline \/ GoOffline)
        BY <1>1 DEF Connected, Beats, Disconnected
    <2>3. QED
        BY <2>1, <2>2 DEF Written
<1>2. CASE Emit \/ Reconnect \/ Dispatch \/ LoseStream
    <2>1. Held' \subseteq Held
        BY <1>2 DEF Emit, Reconnect, Dispatch, LoseStream, Held, TypeOK
    <2>2. UNCHANGED <<row, writes>>
        BY <1>2 DEF Emit, Reconnect, Dispatch, LoseStream
    <2>3. QED
        BY <2>1, <2>2 DEF Delivered
<1>3. CASE ApplyPatch
    <2>1. Head(stream) \in Held /\ Head(stream) \in Patch
        BY <1>3 DEF ApplyPatch, Held, TypeOK
    <2>2. \A i \in DOMAIN stream' : stream'[i] \in Held
        BY <1>3 DEF ApplyPatch, Held, TypeOK
    <2>3. cache'.patch = Head(stream) /\ fetch'.patch \in Held /\ UNCHANGED <<read, row, writes>>
        BY <1>3, <2>1 DEF ApplyPatch, Held
    <2>4. Held' \subseteq Held
        BY <2>1, <2>2, <2>3 DEF Held
    <2>5. QED
        BY <2>3, <2>4 DEF Delivered
<1>4. CASE FetchMachines
    <2>1. fetch'.patch = ThisRow
        BY <1>4, ThisRowType DEF FetchMachines
    <2>2. UNCHANGED <<read, stream, cache, row, writes>>
        BY <1>4 DEF FetchMachines
    <2>3. QED
        BY <2>1, <2>2 DEF Delivered, Held
<1>5. CASE ListMachines
    <2>1. cache' \in {cache, fetch} /\ fetch'.patch = NoPatch
        BY <1>5 DEF ListMachines
    <2>2. UNCHANGED <<read, stream, row, writes>>
        BY <1>5 DEF ListMachines
    <2>3. QED
        BY <2>1, <2>2 DEF Delivered, Held
<1>6. ASSUME NEW r \in Reads, FindDevice(r) \/ SendPatch(r)
      PROVE  Delivered
    <2>1. UNCHANGED <<cache, fetch, row, writes>>
        BY <1>6 DEF FindDevice, SendPatch
    <2>2. CASE FindDevice(r)
        <3>1. \A q \in Reads : read'[q].patch \in Held \cup {ThisRow}
            BY <2>2, ThisRowType DEF FindDevice, Held, TypeOK
        <3>2. stream' = stream
            BY <2>2 DEF FindDevice
        <3>3. QED
            BY <2>1, <3>1, <3>2 DEF Delivered, Held
    <2>3. CASE SendPatch(r)
        <3>1. \A q \in Reads : read'[q].patch \in Held
            BY <2>3 DEF SendPatch, Held, TypeOK
        <3>2. read[r].patch \in Held /\ read[r].patch \in Patch
            BY DEF Held, TypeOK
        <3>3. \A i \in DOMAIN stream' : stream'[i] \in Held
            BY <2>3, <3>2 DEF SendPatch, Held, TypeOK
        <3>4. QED
            BY <2>1, <3>1, <3>3 DEF Delivered, Held
    <2>4. QED
        BY <1>6, <2>2, <2>3
<1>7. CASE UNCHANGED vars
    BY <1>7 DEF Delivered, vars, feedVars, Held
<1>8. QED
    BY <1>1, <1>2, <1>3, <1>4, <1>5, <1>6, <1>7 DEF Next

LEMMA OrderStep ==
    ASSUME TypeOK, InOrder, [Next]_vars
    PROVE  InOrder'
BY HeldStep, WriteOrder, DeliverOrder DEF Written, Delivered

LEMMA OrderInvariant == Spec => []InOrder
<1>1. TypeOK /\ InOrder /\ [Next]_vars => InOrder'
    BY OrderStep
<1>2. QED
    BY <1>1, InitOrder, FeedTypes, PTL DEF Spec

LEMMA SeedStep ==
    ASSUME TypeOK, InOrder, ListMachines
    PROVE  cache'.patch.n >= cache.patch.n
<1>1. cache.patch \in Patch /\ fetch.patch \in Patch
    BY ConstantTypes DEF TypeOK
<1>2. cache.patch.n \in Nat /\ fetch.patch.n \in Nat
    BY <1>1 DEF Patch
<1>3. CASE cache' = cache
    BY <1>2, <1>3
<1>4. CASE cache = Idle /\ cache' = fetch
    BY <1>2, <1>4, ConstantTypes DEF NoPatch
<1>5. CASE cache' = fetch /\ ~Keeps(cache.patch, fetch.patch)
    <2>1. Ordered(fetch.patch, cache.patch)
        BY DEF InOrder, Held
    <2>2. cache.patch.beat \in Nat /\ fetch.patch.beat \in Nat
        BY <1>1 DEF Patch
    <2>3. ~(fetch.patch.n < cache.patch.n)
        BY <1>5, <2>1, <2>2 DEF Ordered, Keeps
    <2>4. QED
        BY <1>2, <1>5, <2>3
<1>6. QED
    BY <1>3, <1>4, <1>5 DEF ListMachines

\* Seeding the cache from a list never puts it back to an older state of the row,
\* however many reads are under way and in whatever order they are answered.
THEOREM FeedSeeds == Spec => SeedKeepsNewer
<1>1. TypeOK /\ InOrder /\ [Next]_vars => [ListMachines => cache'.patch.n >= cache.patch.n]_vars
    BY SeedStep
<1>2. QED
    BY <1>1, OrderInvariant, FeedTypes, PTL DEF Spec, SeedKeepsNewer

-------------------------------------------------------------------------------
(* What is shown once nothing is on its way *)

\* The flag has not changed since write v, as far as anything that is held tells.
Agree(v) == \A p \in Held : p.n >= v => p.online = online

\* A patch as new as v has been sent, no handler holds an older one, and nothing
\* behind it in the stream is older; or it is what the cache has.
Reached(v) ==
    /\ \A r \in Reads : read[r].st = "has" => read[r].patch.n >= v
    /\ stream = <<>> => cache.patch.n >= v
    /\ stream # <<>> => stream[Len(stream)].n >= v

\* The dashboard was told of write v, or somebody is still to read the row for it.
Unread == owed > 0 \/ notices > 0 \/ \E r \in Reads : read[r] = Asked
Carried(v) == \E r \in Reads : read[r].st = "has" /\ read[r].patch.n >= v
OnItsWay(v) == Unread \/ Carried(v) \/ Reached(v)

\* Unless something was missed, v being the last write that was announced.
Told == missed = FALSE => \E v \in Nat : v <= writes /\ Agree(v) /\ OnItsWay(v)

LEMMA InitTold == Init => Told
<1> SUFFICES ASSUME Init PROVE 0 <= writes /\ Agree(0) /\ OnItsWay(0)
    BY DEF Told
<1>1. Held = {NoPatch}
    BY ConstantTypes DEF Init, Held
<1>2. Agree(0)
    <2>1. NoPatch.online = FALSE /\ online = FALSE
        BY DEF NoPatch, Init, RowInit
    <2>2. \A p \in Held : p.online = online
        BY <1>1, <2>1
    <2>3. QED
        BY <2>2 DEF Agree
<1>3. Reached(0)
    <2>1. cache.patch.n = 0 /\ stream = <<>> /\ \A r \in Reads : read[r].st = "idle"
        BY DEF Init, Idle, NoPatch
    <2>2. QED
        BY <2>1 DEF Reached
<1>4. QED
    BY <1>2, <1>3 DEF OnItsWay, Init

\* What is delivered agrees with what was held and with the row.
LEMMA AgreeDelivered ==
    ASSUME TypeOK, Delivered, NEW v \in Nat, Agree(v)
    PROVE  Agree(v)'
<1>1. ThisRow.online = online /\ online' = online
    BY DEF ThisRow, Delivered, row
<1>2. QED
    BY <1>1 DEF Agree, Delivered

\* A step that leaves the row alone, and after which nothing is missed, brings
\* what write v has to tell on its way.
LEMMA OnItsWayStep ==
    ASSUME TypeOK, InOrder, [Next]_vars, Delivered, missed = FALSE, missed' = FALSE,
           NEW v \in Nat, v <= writes, OnItsWay(v)
    PROVE  OnItsWay(v)'
<1> USE ConstantTypes
<1>a. /\ read \in [Reads -> Holding] /\ stream \in Seq(Patch) /\ cache \in Holding
      /\ owed \in Nat /\ notices \in Nat /\ writes \in Nat
    BY DEF TypeOK
<1>b. \A p \in Patch : p.n \in Nat
    BY DEF Patch
<1>c. \A r \in Reads : read[r].patch \in Patch /\ read[r].patch.n \in Nat
    BY <1>a, <1>b
<1>1. CASE Connected \/ Beats \/ Disconnected
    BY <1>1, <1>a DEF Connected, Beats, Disconnected, Delivered
<1>2. CASE Emit
    BY <1>2, <1>a DEF Emit, OnItsWay, Unread
<1>3. CASE Dispatch
    <2>1. PICK r \in Reads : read' = [read EXCEPT ![r] = Asked]
        BY <1>3 DEF Dispatch
    <2>2. read'[r] = Asked
        BY <1>a, <2>1
    <2>3. QED
        BY <2>2 DEF OnItsWay, Unread
<1>4. ASSUME NEW r \in Reads, FindDevice(r) PROVE OnItsWay(v)'
    <2>1. read'[r] = Has(ThisRow) /\ ThisRow \in Patch /\ ThisRow.n = writes
        BY <1>4, <1>a, ThisRowType DEF FindDevice, ThisRow
    <2>2. read'[r].st = "has" /\ read'[r].patch.n >= v
        BY <1>a, <2>1
    <2>3. QED
        BY <2>2 DEF OnItsWay, Carried
<1>5. ASSUME NEW r \in Reads, SendPatch(r) PROVE OnItsWay(v)'
    <2>1. /\ read[r].st = "has" /\ read' = [read EXCEPT ![r] = Idle]
          /\ stream' = Append(stream, read[r].patch)
          /\ \A q \in Reads : read[q].st = "has" => ~(read[q].patch.n < read[r].patch.n)
          /\ UNCHANGED <<owed, notices, cache>>
        BY <1>5 DEF SendPatch
    <2>2. \A q \in Reads : q # r => read'[q] = read[q]
        BY <1>a, <2>1
    <2>3. read'[r].st # "has"
        BY <1>a, <2>1 DEF Idle
    <2>4. stream' # <<>> /\ stream'[Len(stream')] = read[r].patch
        BY <1>a, <1>c, <2>1
    <2>5. CASE Unread
        <3>1. \A q \in Reads : read[q] = Asked => q # r
            BY <2>1 DEF Asked
        <3>2. QED
            BY <2>1, <2>2, <2>5, <3>1 DEF Unread, OnItsWay
    <2>6. CASE read[r].patch.n >= v
        <3>1. \A q \in Reads : read[q].st = "has" => read[q].patch.n >= v
            BY <1>c, <2>1, <2>6
        <3>2. Reached(v)'
            BY <2>2, <2>3, <2>4, <2>6, <3>1 DEF Reached
        <3>3. QED
            BY <3>2 DEF OnItsWay
    <2>7. CASE ~(read[r].patch.n >= v) /\ Carried(v)
        <3>1. PICK q \in Reads : read[q].st = "has" /\ read[q].patch.n >= v
            BY <2>7 DEF Carried
        <3>2. read'[q] = read[q]
            BY <2>2, <2>7, <3>1
        <3>3. QED
            BY <3>1, <3>2 DEF OnItsWay, Carried
    <2>8. QED
        BY <2>1, <2>5, <2>6, <2>7 DEF OnItsWay, Reached
<1>6. CASE ApplyPatch
    <2>1. /\ stream # <<>> /\ stream' = Tail(stream) /\ cache'.patch = Head(stream)
          /\ UNCHANGED <<owed, notices, read>>
        <3>1. stream # <<>> /\ cache' = Has(Head(stream))
            BY <1>6 DEF ApplyPatch
        <3>2. Head(stream) \in Patch
            BY <1>a, <3>1
        <3>3. QED
            BY <1>6, <3>1, <3>2 DEF ApplyPatch
    <2>2. CASE Unread \/ Carried(v)
        BY <2>1, <2>2 DEF OnItsWay, Unread, Carried
    <2>3. CASE Reached(v)
        <3>1. stream[Len(stream)].n >= v
            BY <2>1, <2>3 DEF Reached
        <3>2. stream' = <<>> => Head(stream) = stream[Len(stream)]
            <4>1. Len(stream) \in Nat /\ Len(stream') = Len(stream) - 1 /\ Head(stream) = stream[1]
                BY <1>a, <2>1
            <4>2. stream' = <<>> => Len(stream') = 0
                OBVIOUS
            <4>3. stream' = <<>> => Len(stream) = 1
                BY <4>1, <4>2
            <4>4. QED
                BY <4>1, <4>3
        <3>3. stream' # <<>> => stream'[Len(stream')] = stream[Len(stream)]
            BY <1>a, <2>1
        <3>4. Reached(v)'
            BY <2>1, <2>3, <3>1, <3>2, <3>3 DEF Reached
        <3>5. QED
            BY <3>4 DEF OnItsWay
    <2>4. QED
        BY <2>2, <2>3 DEF OnItsWay
<1>7. CASE FetchMachines \/ Reconnect
    BY <1>7 DEF FetchMachines, Reconnect, OnItsWay, Unread, Carried, Reached
<1>8. CASE ListMachines
    <2>1. UNCHANGED <<owed, notices, read, stream>>
        BY <1>8 DEF ListMachines
    <2>2. cache'.patch.n >= cache.patch.n
        BY <1>8, SeedStep
    <2>3. cache' \in Holding
        BY HoldingStep
    <2>4. cache.patch.n \in Nat /\ cache'.patch.n \in Nat
        BY <1>a, <1>b, <2>3
    <2>5. Reached(v) => Reached(v)'
        BY <2>1, <2>2, <2>4 DEF Reached
    <2>6. (Unread \/ Carried(v)) => (Unread \/ Carried(v))'
        BY <2>1 DEF Unread, Carried
    <2>7. QED
        BY <2>5, <2>6 DEF OnItsWay
<1>9. CASE LoseStream
    <2>1. /\ stream = <<>> /\ stream' = <<>> /\ \A r \in Reads : read[r] = Idle
          /\ read' = [r \in Reads |-> Idle] /\ UNCHANGED <<owed, notices, cache>>
        BY <1>9 DEF LoseStream
    <2>2. \A r \in Reads : read'[r] = read[r]
        BY <2>1
    <2>3. QED
        BY <2>1, <2>2 DEF OnItsWay, Unread, Carried, Reached
<1>10. CASE UNCHANGED vars
    BY <1>10 DEF vars, feedVars, OnItsWay, Unread, Carried, Reached
<1>11. QED
    BY <1>1, <1>2, <1>3, <1>4, <1>5, <1>6, <1>7, <1>8, <1>9, <1>10 DEF Next

LEMMA ToldStep ==
    ASSUME TypeOK, InOrder, Told, [Next]_vars
    PROVE  Told'
<1> SUFFICES ASSUME missed' = FALSE
             PROVE  \E v \in Nat : v <= writes' /\ Agree(v)' /\ OnItsWay(v)'
    BY DEF Told
<1>a. writes \in Nat /\ owed \in Nat /\ online \in BOOLEAN /\ missed \in BOOLEAN
    BY DEF TypeOK
\* A change is announced: nothing that is held is as new.
<1>1. ASSUME owed' = owed + 1, writes' = writes + 1, Held' = Held
      PROVE  \E v \in Nat : v <= writes' /\ Agree(v)' /\ OnItsWay(v)'
    <2>1. \A p \in Held : p.n \in Nat /\ p.n <= writes
        BY HeldTypes DEF InOrder, Patch
    <2>2. PICK v \in Nat : v = writes + 1
        BY <1>a
    <2>3. \A p \in Held' : ~(p.n >= v)
        BY <1>1, <1>a, <2>1, <2>2
    <2>4. Agree(v)'
        BY <2>3 DEF Agree
    <2>5. OnItsWay(v)'
        BY <1>1, <1>a DEF OnItsWay, Unread
    <2>6. v <= writes'
        BY <1>1, <1>a, <2>2
    <2>7. QED
        BY <2>4, <2>5, <2>6
<1>2. CASE Connected \/ (Disconnected /\ owed' = owed + 1)
    <2>1. owed' = owed + 1 /\ writes' = writes + 1 /\ Held' = Held
        BY <1>2 DEF Connected, Disconnected, Held
    <2>2. QED
        BY <1>1, <2>1
\* A heartbeat that leaves the flag where it was.
<1>3. CASE Beats
    <2>1. missed = FALSE /\ online' = online
        BY <1>3, <1>a, Zenon DEF Beats, GoOnline
    <2>2. PICK v \in Nat : v <= writes /\ Agree(v) /\ OnItsWay(v)
        BY <2>1 DEF Told
    <2>3. /\ Held' = Held /\ writes' = writes + 1
          /\ UNCHANGED <<owed, notices, read, stream, cache>>
        BY <1>3 DEF Beats, Held
    <2>4. v <= writes'
        BY <1>a, <2>2, <2>3
    <2>5. Agree(v)'
        BY <2>1, <2>2, <2>3 DEF Agree
    <2>6. OnItsWay(v)'
        BY <2>2, <2>3 DEF OnItsWay, Unread, Carried, Reached
    <2>7. QED
        BY <2>4, <2>5, <2>6
\* The rest only carries what was announced.
<1>4. CASE Delivered
    <2>1. missed = FALSE
        <3>1. \/ missed' = missed \/ missed' = TRUE
              \/ \E r \in Reads : SendPatch(r)
              \/ LoseStream
              \/ writes' = writes + 1
            BY DEF Next, Connected, Beats, Disconnected, Emit, Dispatch, FindDevice, ApplyPatch,
                   FetchMachines, ListMachines, Reconnect, vars, feedVars
        <3>2. writes' # writes + 1
            BY <1>4, <1>a DEF Delivered
        <3>3. QED
            BY <1>a, <3>1, <3>2, Zenon DEF SendPatch, LoseStream
    <2>2. PICK v \in Nat : v <= writes /\ Agree(v) /\ OnItsWay(v)
        BY <2>1 DEF Told
    <2>3. Agree(v)'
        BY <1>4, <2>2, AgreeDelivered
    <2>4. OnItsWay(v)'
        BY <1>4, <2>1, <2>2, OnItsWayStep
    <2>5. v <= writes'
        BY <1>4, <2>2 DEF Delivered
    <2>6. QED
        BY <2>3, <2>4, <2>5
<1>5. CASE Written
    <2>1. Connected \/ Beats \/ (Disconnected /\ owed' = owed + 1)
        <3>1. CASE Disconnected
            BY <3>1 DEF Disconnected
        <3>2. CASE ~Disconnected
            <4>1. writes' # writes
                BY <1>5, <1>a DEF Written
            <4>2. QED
                BY <3>2, <4>1 DEF Next, Emit, Dispatch, FindDevice, SendPatch, ApplyPatch,
                   FetchMachines, ListMachines, LoseStream, Reconnect, vars, feedVars
        <3>3. QED
            BY <3>1, <3>2
    <2>2. QED
        BY <1>2, <1>3, <2>1
<1>6. QED
    BY <1>4, <1>5, HeldStep

\* Whenever no announcement is on its way, the dashboard shows the flag as it is,
\* unless a change was not announced to it or an older patch was sent after a newer
\* one, however many reads are under way and whatever lists cross the patches.
THEOREM FeedShows == Spec => []QuietIsShown
<1>1. TypeOK /\ Told => QuietIsShown
    <2> SUFFICES ASSUME TypeOK, Told, owed = 0, notices = 0, \A r \in Reads : read[r] = Idle,
                        stream = <<>>, ~missed
                 PROVE  cache.patch.online = online
        BY DEF QuietIsShown
    <2>1. missed = FALSE
        BY DEF TypeOK
    <2>2. PICK v \in Nat : v <= writes /\ Agree(v) /\ OnItsWay(v)
        BY <2>1 DEF Told
    <2>3. ~Unread /\ ~Carried(v)
        BY DEF Unread, Carried, Idle, Asked
    <2>4. cache.patch.n >= v
        BY <2>2, <2>3 DEF OnItsWay, Reached
    <2>5. QED
        BY <2>2, <2>4 DEF Agree, Held
<1>2. TypeOK /\ InOrder /\ Told /\ [Next]_vars => Told'
    BY ToldStep
<1>3. QED
    BY <1>1, <1>2, InitTold, OrderInvariant, FeedTypes, PTL DEF Spec
================================================================================
