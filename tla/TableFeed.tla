----------------------------- MODULE TableFeed -----------------------------
(***************************************************************************)
(* One table, from the informer's cache to the rows on the screen.         *)
(*                                                                         *)
(* internal/resources/manager.go: publish, fanout, watchBroke and          *)
(* watchRecovered put changes in a subscriber's bounded channel, or raise  *)
(* its one-place resync flag.  internal/server/ws.go: buildSub and relay   *)
(* turn these into frames.  frontend/src/lib/feed.ts and                   *)
(* frontend/src/store/resources.ts apply the frames to the table.          *)
(*                                                                         *)
(* A row is the number of the change that made it, 0 when it is absent.    *)
(***************************************************************************)
EXTENDS Integers, Sequences, FiniteSetsExt

CONSTANTS
    Objects,      \* UIDs
    EventBuffer,  \* capacity of subscriber.events, 256 in the code
    MaxBatch,     \* maxBatch, 200 in the code
    MaxWire,      \* frames the connection holds before a write blocks
    Limits,       \* whether tables have a row limit: TRUE, FALSE or either
    MaxChanges,   \* bound on the changes of the cluster
    MaxBreaks,    \* bound on the failures of the watch
    MaxDrops      \* bound on the losses of the connection

ASSUME FeedAssumption ==
    /\ EventBuffer \in Nat \ {0} /\ MaxBatch \in Nat \ {0} /\ MaxWire \in Nat \ {0}
    /\ MaxChanges \in Nat /\ MaxBreaks \in Nat /\ MaxDrops \in Nat
    /\ Limits \subseteq BOOLEAN

Tables == [Objects -> 0 .. MaxChanges]
Rows   == [obj : Objects, ver : 0 .. MaxChanges]   \* added, modified; deleted at 0
Empty  == [o \in Objects |-> 0]
Oops   == [obj |-> "error"]                        \* an event of kind "error"

VARIABLES
    \* the informer
    cache,     \* its indexer
    changes,   \* changes so far
    notify,    \* notifications the informer has yet to hand to the handler
    handler,   \* publish: "rest", or "fan" between watchRecovered and fanout
    broken,    \* st.broken
    breaking,  \* watchBroke is between setting st.broken and its fanout
    breaks,
    \* the subscription and its relay
    at,        \* where buildSub and relay are
    hand,      \* the frames they are about to write
    events,    \* subscriber.events
    resync,    \* subscriber.resync holds its token
    closed,    \* both channels are closed: the kind is gone
    \* the connection and the browser
    asked,     \* a subscribe message is on its way to the server
    wire,      \* frames on their way to the browser
    conn,      \* the socket is open
    drops,
    loaded,    \* the store knows the subscription
    table,     \* its rows
    pending,   \* deltas waiting for the flush timer
    failed,    \* the store holds an error for it
    limited    \* it asked for a limit on its rows (Subscription.SetLimit)

informer == <<cache, changes, notify, handler, broken, breaking, breaks>>
relay    == <<at, hand, events, resync, closed>>
browser  == <<loaded, table, pending, failed, limited>>
link     == <<asked, wire, conn, drops>>
feedVars     == <<informer, relay, link, browser>>

Frames == [type : {"snapshot"}, rows : Tables]
            \cup [type : {"batch"}, rows : Seq(Rows)]
            \cup [type : {"error"}]

FeedTypeOK ==
    /\ cache \in Tables /\ changes \in 0 .. MaxChanges
    /\ notify \in Seq(Rows) /\ handler \in {"rest", "fan"}
    /\ broken \in BOOLEAN /\ breaking \in BOOLEAN /\ breaks \in 0 .. MaxBreaks
    /\ at \in {"off", "failing", "registered", "writing", "select", "spaced", "drained", "ended"}
    /\ hand \in Seq(Frames)
    /\ events \in Seq(Rows \cup {Oops}) /\ Len(events) <= EventBuffer
    /\ resync \in BOOLEAN /\ closed \in BOOLEAN
    /\ asked \in BOOLEAN /\ conn \in BOOLEAN /\ drops \in 0 .. MaxDrops
    /\ wire \in Seq(Frames) /\ Len(wire) <= MaxWire
    /\ loaded \in BOOLEAN /\ table \in Tables
    /\ pending \in Seq(Rows) /\ failed \in BOOLEAN /\ limited \in BOOLEAN

FeedInit ==
    /\ cache = Empty /\ changes = 0 /\ notify = <<>> /\ handler = "rest"
    /\ broken = FALSE /\ breaking = FALSE /\ breaks = 0
    /\ at = "off" /\ hand = <<>> /\ events = <<>> /\ resync = FALSE /\ closed = FALSE
    /\ asked = FALSE /\ wire = <<>> /\ conn = FALSE /\ drops = 0
    /\ loaded = FALSE /\ table = Empty /\ pending = <<>> /\ failed = FALSE
    /\ limited \in Limits

-----------------------------------------------------------------------------
(* The informer and its handler.                                           *)

\* client-go updates the indexer first and notifies the handler later, in
\* order: an object is added or modified, or removed.
Change(o) ==
    /\ changes < MaxChanges
    /\ \E ver \in {changes + 1} \cup (IF cache[o] = 0 THEN {} ELSE {0}) :
        /\ cache' = [cache EXCEPT ![o] = ver]
        /\ notify' = Append(notify, [obj |-> o, ver |-> ver])
    /\ changes' = changes + 1
    /\ UNCHANGED <<handler, broken, breaking, breaks, relay, link, browser>>

\* signalResync: one token, however often it is raised.
SignalResync == resync' = TRUE

\* The stream holds this subscriber.
Registered == at \notin {"off", "failing"} /\ ~ closed

\* A slip: one event too many.
RoomAtLimit == Len(events) <= EventBuffer

\* A send that would not block.
Room == Len(events) < EventBuffer

\* fanout to this subscriber, if it is registered: a limited table is only
\* ever told to read the cache again, and so is one whose channel is full.
Fanout(ev) ==
    \/ ~ Registered /\ UNCHANGED <<events, resync>>
    \/ Registered /\ limited /\ SignalResync /\ events' = events
    \/ Registered /\ ~ limited /\ Room /\ events' = Append(events, ev) /\ resync' = resync
    \/ Registered /\ ~ limited /\ ~ Room /\ SignalResync /\ events' = events

\* publish and publishDelete begin with watchRecovered ...
WatchRecovered ==
    /\ handler = "rest" /\ notify # <<>>
    /\ handler' = "fan"
    /\ broken' = FALSE
    /\ resync' = (resync \/ (broken /\ Registered))
    /\ UNCHANGED <<cache, changes, notify, breaking, breaks, at, hand, events, closed, link, browser>>

\* ... and end with fanout.
Publish ==
    /\ handler = "fan"
    /\ Fanout(Head(notify))
    /\ notify' = Tail(notify)
    /\ handler' = "rest"
    /\ UNCHANGED <<cache, changes, broken, breaking, breaks, at, hand, closed, link, browser>>

\* watchBroke, called by the reflector: only the first failure is told.
WatchBreaks ==
    /\ breaks < MaxBreaks /\ ~ breaking
    /\ breaks' = breaks + 1
    /\ broken' = TRUE
    /\ breaking' = ~ broken
    /\ UNCHANGED <<cache, changes, notify, handler, relay, link, browser>>

TellBroken ==
    /\ breaking
    /\ breaking' = FALSE
    /\ Fanout(Oops)
    /\ UNCHANGED <<cache, changes, notify, handler, broken, breaks, at, hand, closed, link, browser>>

\* A discovery refresh no longer finds the kind: dropVanished, and shutdown of
\* the stream, which closes the subscriber's channels.
Shutdown ==
    /\ breaks < MaxBreaks /\ Registered
    /\ breaks' = breaks + 1
    /\ closed' = TRUE
    /\ UNCHANGED <<cache, changes, notify, handler, broken, breaking, at, hand, events, resync, link, browser>>

-----------------------------------------------------------------------------
(* buildSub and relay.                                                     *)

Error == [type |-> "error"]

\* writeLocked: the frames in hand go on the wire one by one; a full
\* connection holds the writer back.  A subscription that failed is forgotten.
Write ==
    /\ at \in {"writing", "failing"}
    /\ Len(wire) < MaxWire
    /\ wire' = Append(wire, Head(hand))
    /\ hand' = Tail(hand)
    /\ at' = IF Tail(hand) # <<>> THEN at ELSE IF at = "writing" THEN "select" ELSE "off"
    /\ UNCHANGED <<informer, events, resync, closed, asked, conn, drops, browser>>

\* Subscribe: the subscriber is registered ...
Register ==
    /\ asked /\ at = "off"
    /\ asked' = FALSE /\ at' = "registered"
    /\ events' = <<>> /\ resync' = FALSE /\ closed' = FALSE
    /\ UNCHANGED <<informer, hand, wire, conn, drops, browser>>

\* failAndForget.
TellFailure == at' = "failing" /\ hand' = <<Error>>

\* ... or refused: no snapshot slot in time, no access, no stream.
BuildFails ==
    /\ asked /\ at = "off"
    /\ asked' = FALSE
    /\ TellFailure
    /\ UNCHANGED <<informer, events, resync, closed, wire, conn, drops, browser>>

\* Subscribe, once registered, and sendResync, once drained, read the cache.
Capture ==
    /\ at \in {"registered", "drained"}
    /\ hand' = <<[type |-> "snapshot", rows |-> cache]>>
    /\ at' = "writing"
    /\ UNCHANGED <<informer, events, resync, closed, link, browser>>

\* The cache cannot be read: Subscribe gives its subscriber back, and relay
\* carries on.
SnapshotFails ==
    /\ \/ at = "registered" /\ TellFailure
       \/ at = "drained" /\ at' = "writing" /\ hand' = <<Error>>
    /\ UNCHANGED <<informer, events, resync, closed, link, browser>>

\* relay takes the token, and waits out the throttle.
TakeResync ==
    /\ at = "select" /\ resync
    /\ resync' = FALSE
    /\ at' = "spaced"
    /\ UNCHANGED <<informer, hand, events, closed, link, browser>>

\* sendResync without a snapshot slot: the browser is told, the token is gone.
Refused ==
    /\ at = "spaced"
    /\ at' = "writing" /\ hand' = <<Error>>
    /\ UNCHANGED <<informer, events, resync, closed, link, browser>>

\* drainEvents.
DrainEvents == events' = <<>>

\* sendResync with a slot drops what the snapshot is going to include.
Drain ==
    /\ at = "spaced"
    /\ DrainEvents
    /\ at' = "drained"
    /\ UNCHANGED <<informer, hand, resync, closed, link, browser>>

\* The changes at the head of events that go in one batch: up to an error or
\* MaxBatch.
BatchLength ==
    CHOOSE n \in 0 .. Len(events) :
        /\ n <= MaxBatch /\ \A i \in 1 .. n : events[i] # Oops
        /\ n = MaxBatch \/ n = Len(events) \/ events[n + 1] = Oops

\* writeBatch: a batch of changes, then the error that ended it.
TakeEvents ==
    LET n     == BatchLength
        batch == IF n = 0 THEN <<>> ELSE <<[type |-> "batch", rows |-> SubSeq(events, 1, n)]>>
        stop  == n < MaxBatch /\ n < Len(events)
    IN
    /\ at = "select" /\ events # <<>>
    /\ at' = "writing"
    /\ hand' = IF stop THEN Append(batch, Error) ELSE batch
    /\ events' = SubSeq(events, IF stop THEN n + 2 ELSE n + 1, Len(events))
    /\ UNCHANGED <<informer, resync, closed, link, browser>>

\* A closed channel, once empty, ends relay; nobody tells the browser.
FeedEnds ==
    /\ at = "select" /\ closed /\ (~ resync \/ events = <<>>)
    /\ at' = "ended"
    /\ UNCHANGED <<informer, hand, events, resync, closed, link, browser>>

\* handleWS returns: closeAll, and the socket is shut.
Sever ==
    /\ conn' = FALSE /\ asked' = FALSE /\ wire' = <<>>
    /\ at' = "off" /\ hand' = <<>> /\ events' = <<>> /\ resync' = FALSE /\ closed' = FALSE

\* "more" from the browser, once the subscription is adopted: SetLimit sends
\* on the channel, and panics in the reader when it is closed.
Adopted == at \in {"writing", "select", "spaced", "drained", "ended"}

More ==
    /\ limited /\ Adopted /\ ~ closed /\ ~ resync
    /\ SignalResync
    /\ UNCHANGED <<informer, at, hand, events, closed, link, browser>>

MorePanics ==
    /\ limited /\ Adopted /\ closed
    /\ Sever
    /\ UNCHANGED <<informer, drops, browser>>

-----------------------------------------------------------------------------
(* The browser.                                                            *)

\* A slip: a socket that was lost once is not opened again.
ConnectOnce ==
    /\ ~ conn /\ drops = 0
    /\ conn' = TRUE /\ asked' = TRUE
    /\ UNCHANGED <<informer, relay, wire, drops, browser>>

\* onopen: every known subscription is asked for again.
Connect ==
    /\ ~ conn
    /\ conn' = TRUE /\ asked' = TRUE
    /\ UNCHANGED <<informer, relay, wire, drops, browser>>

\* The socket is lost: closeAll on the server; the browser keeps its table and
\* the deltas it has queued.
Drop ==
    /\ conn /\ drops < MaxDrops
    /\ drops' = drops + 1
    /\ Sever
    /\ UNCHANGED <<informer, browser>>

\* The places in a sequence of events where object o is told of.
Mentions(seq, o) == {i \in DOMAIN seq : seq[i] # Oops /\ seq[i].obj = o}

\* applyDeltas: of the deltas of one object the last is what its row becomes.
Applied(t, seq) ==
    [o \in Objects |-> LET told == Mentions(seq, o) IN
                       IF told = {} THEN t[o] ELSE seq[Max(told)].ver]

\* flush: deltas of a subscription the store does not know go nowhere.
Flushed == IF loaded THEN Applied(table, pending) ELSE table

Flush ==
    /\ pending # <<>>
    /\ table' = Flushed
    /\ pending' = <<>>
    /\ UNCHANGED <<informer, relay, link, loaded, failed, limited>>

\* A slip: the deltas that wait are applied on top of the newer snapshot.
KeepPending == pending' = pending

\* dropPending.
DropPending == pending' = <<>>

\* apply(msg): a snapshot replaces the table, drops the deltas that wait and
\* clears the error; a batch waits; an error flushes first.
Receive ==
    /\ wire # <<>>
    /\ wire' = Tail(wire)
    /\ LET msg == Head(wire) IN
       \/ /\ msg.type = "snapshot"
          /\ DropPending
          /\ loaded' = TRUE /\ table' = msg.rows /\ failed' = FALSE
       \/ /\ msg.type = "batch"
          /\ pending' = pending \o msg.rows
          /\ UNCHANGED <<loaded, table, failed>>
       \/ /\ msg.type = "error"
          /\ table' = Flushed /\ pending' = <<>>
          /\ failed' = TRUE
          /\ loaded' = loaded
    /\ UNCHANGED <<informer, relay, asked, conn, drops, limited>>

-----------------------------------------------------------------------------
FeedNext ==
    \/ \E o \in Objects : Change(o)
    \/ WatchRecovered \/ Publish \/ WatchBreaks \/ TellBroken \/ Shutdown
    \/ Register \/ BuildFails \/ Capture \/ SnapshotFails \/ Write
    \/ TakeResync \/ Refused \/ Drain \/ TakeEvents \/ FeedEnds
    \/ More \/ MorePanics
    \/ Connect \/ Drop \/ Flush \/ Receive

FeedSpec == FeedInit /\ [][FeedNext]_feedVars

\* Goroutines and timers that have something to do get to do it, and a browser
\* that lost its socket opens another.  Nothing is assumed of the cluster, the
\* network, the user or the snapshot budget.
FeedFairness ==
    /\ WF_feedVars(WatchRecovered) /\ WF_feedVars(Publish) /\ WF_feedVars(TellBroken)
    /\ WF_feedVars(Register \/ BuildFails) /\ WF_feedVars(Capture \/ SnapshotFails) /\ WF_feedVars(Write)
    /\ WF_feedVars(TakeResync \/ TakeEvents \/ FeedEnds)
    /\ WF_feedVars(Refused \/ Drain)
    /\ WF_feedVars(Connect) /\ WF_feedVars(Flush) /\ WF_feedVars(Receive)

FairFeedSpec == FeedSpec /\ FeedFairness

-----------------------------------------------------------------------------
(* What the feed promises.                                                 *)

\* What a table becomes by one frame.
Shown(t, msg) ==
    IF msg.type = "snapshot" THEN msg.rows
    ELSE IF msg.type = "batch" THEN Applied(t, msg.rows) ELSE t

\* The frames of a sequence that say what the row of o is.
Speak(frames, o) ==
    {k \in DOMAIN frames : \/ frames[k].type = "snapshot"
                           \/ frames[k].type = "batch" /\ Mentions(frames[k].rows, o) # {}}

\* What a table becomes by all of them: each row is what the last one says.
AllShown(t, frames) ==
    [o \in Objects |-> LET said == Speak(frames, o) IN
                       IF said = {} THEN t[o] ELSE Shown(t, frames[Max(said)])[o]]

\* Whether an error is what remains of them: a snapshot clears it.
ErrorLast(e, frames) ==
    \/ e /\ \A k \in DOMAIN frames : frames[k].type # "snapshot"
    \/ \E k \in DOMAIN frames :
        /\ frames[k].type = "error"
        /\ \A j \in DOMAIN frames : j > k => frames[j].type # "snapshot"

\* What the table will hold when the browser has read every frame, and whether
\* it will then show an error.
Arriving      == AllShown(Flushed, wire \o hand)
ErrorArriving == ErrorLast(failed, wire \o hand)

\* No change is lost between the cache and the screen.  While relay waits with
\* no resync due, the frames on the wire, the events in the channel and the
\* notifications behind them bring the table to the cache, or the browser is
\* told it failed.
NothingLost ==
    (at \in {"writing", "select"} /\ ~ closed /\ ~ resync) =>
        \/ ErrorArriving
        \/ Applied(Applied(Arriving, events), notify) = cache

\* A browser that no longer asks and is not served is told so.
SilenceIsTold ==
    (conn /\ ~ asked /\ at = "off") => ErrorArriving

\* The table on the screen is on its way to what the cluster has, or its reader
\* knows it is not (Fanout, relay, fail, and the browser's feed).
FeedSound == FeedTypeOK /\ NothingLost /\ SilenceIsTold

\* Once the cluster is quiet and the connection holds, the table comes to show
\* the cache or an error, and stays so, unless its kind is gone.
Converges == <>[](failed \/ closed \/ (loaded /\ table = cache))

\* Asking for more rows never costs the connection: only the network ends it.
MoreKeepsTheFeed == [][conn /\ drops' = drops => conn']_feedVars

=============================================================================
