--------------------------- MODULE StreamRegistry ---------------------------
(***************************************************************************)
(* The life of a shared informer in internal/resources/manager.go: how     *)
(* concurrent callers of Subscribe, Lease and Warm come to share one       *)
(* stream per key, and how that stream is let go again: by the idle timer, *)
(* by Unpin, by a discovery refresh in which its resource type vanished,   *)
(* or by the end of the cluster's root context.                            *)
(*                                                                         *)
(* One action is one critical section of m.mu (most also take st.mu), of   *)
(* the per-key build gate, or of st.mu alone.  A caller's place between    *)
(* two sections is its pc.                                                 *)
(***************************************************************************)
EXTENDS Integers, FiniteSets

CONSTANTS
    Callers,      \* goroutines in Subscribe, Lease or Warm
    Kinds,        \* the resource types callers read; discovery lists others too
    Ops,          \* what callers do, of "read", "nsread" and "warm": a Subscribe
                  \* to every namespace or a Lease; a Subscribe to one namespace;
                  \* a Warm (pinnedLister)
    Streams,      \* names of *stream values; a name nothing refers to is reused
    None,         \* no stream, no gate, no key
    MaxLoose,     \* bound on fired timers the stream no longer points at
    AttachAttempts, \* attachAttempts, 3 in the code
    MaxWait       \* maxBuildBackoff in units of buildBackoff, 24 in the code

\* streamKey: a resource type, watched everywhere or in one namespace.
Keys == [kind : Kinds, ns : {"all", "one"}]

ASSUME NoneAssumption == None \notin Streams /\ None \notin Callers /\ None \notin Keys
ASSUME OpsAssumption == Ops \subseteq {"read", "nsread", "warm"}
ASSUME FiniteAssumption == IsFiniteSet(Callers)
ASSUME BoundAssumption ==
    /\ MaxLoose \in Nat
    /\ AttachAttempts \in Nat \ {0}
    /\ MaxWait \in Nat \ {0}

Locations == {"idle", "attach", "gate", "locked", "cool", "building", "built",
              "failed", "release", "join", "attached"}

VARIABLES
    \* Manager
    streams,    \* m.streams
    building,   \* m.building: the gate of a key, named by the caller who made it
    gateRefs,   \* buildGate.refs
    failure,    \* m.failures: the wait of the last failure, 0 when there is none
    failErr,    \* its error
    cooling,    \* keys whose failure's wait has not elapsed yet
    catalog,    \* m.descs
    refreshing, \* RefreshResources set the catalog and has yet to drop streams
    dropped,    \* dropVanished's local list "gone"
    unpinned,   \* streams unpin deleted and has yet to cancel
    root,       \* m.rootCtx is not done
    \* streams
    subs,       \* st.subs
    refs,       \* st.refs
    pinned,     \* the streams with st.pinned
    idle,       \* st.idle: no timer, one that is pending, one that has fired
    loose,      \* timers that will call retire and st.idle does not point at
    live,       \* the streams whose informer's context is not done
    \* callers
    pc, op, key,
    got,        \* the stream the caller was given or is building
    mine,       \* the gate it was given
    tries,      \* attach's attempts
    err,        \* the error streamFor returned
    open        \* the callers whose subscriber's channels are open

managerVars == <<streams, building, gateRefs, failure, failErr, cooling>>
refreshVars == <<catalog, refreshing, dropped>>
streamVars  == <<subs, refs, pinned, idle, loose, live>>
callerVars  == <<pc, op, key, got, mine, tries, err, open>>
vars == <<managerVars, refreshVars, unpinned, root, streamVars, callerVars>>

TypeOK ==
    /\ streams \in [Keys -> Streams \cup {None}]
    /\ building \in [Keys -> Callers \cup {None}]
    /\ gateRefs \in [Keys -> Int]
    /\ failure \in [Keys -> 0 .. MaxWait]
    /\ failErr \in [Keys -> {"none", "denied", "other"}]
    /\ cooling \in SUBSET Keys
    /\ catalog \in SUBSET Kinds
    /\ refreshing \in BOOLEAN
    /\ dropped \in SUBSET Streams
    /\ unpinned \in SUBSET Streams
    /\ root \in BOOLEAN
    /\ subs \in [Streams -> SUBSET Callers]
    /\ refs \in [Streams -> Int]
    /\ pinned \in SUBSET Streams
    /\ idle \in [Streams -> {"none", "armed", "fired"}]
    /\ loose \in [Streams -> Nat]
    /\ live \in SUBSET Streams
    /\ pc \in [Callers -> Locations]
    /\ op \in [Callers -> Ops \cup {"none"}]
    /\ key \in [Callers -> Keys \cup {None}]
    /\ got \in [Callers -> Streams \cup {None}]
    /\ mine \in [Callers -> Callers \cup {None}]
    /\ tries \in [Callers -> 1 .. AttachAttempts]
    /\ err \in [Callers -> {"none", "denied", "other"}]
    /\ open \in SUBSET Callers

Init ==
    /\ streams = [k \in Keys |-> None]
    /\ building = [k \in Keys |-> None]
    /\ gateRefs = [k \in Keys |-> 0]
    /\ failure = [k \in Keys |-> 0]
    /\ failErr = [k \in Keys |-> "none"]
    /\ cooling = {}
    /\ catalog = Kinds
    /\ refreshing = FALSE
    /\ dropped = {}
    /\ unpinned = {}
    /\ root = TRUE
    /\ subs = [s \in Streams |-> {}]
    /\ refs = [s \in Streams |-> 0]
    /\ pinned = {}
    /\ idle = [s \in Streams |-> "none"]
    /\ loose = [s \in Streams |-> 0]
    /\ live = {}
    /\ pc = [c \in Callers |-> "idle"]
    /\ op = [c \in Callers |-> "none"]
    /\ key = [c \in Callers |-> None]
    /\ got = [c \in Callers |-> None]
    /\ mine = [c \in Callers |-> None]
    /\ tries = [c \in Callers |-> 1]
    /\ err = [c \in Callers |-> "none"]
    /\ open = {}

-----------------------------------------------------------------------------
(* Callers.                                                                *)

\* The call returns: what it knew is gone.
Return(c) ==
    /\ pc' = [pc EXCEPT ![c] = "idle"]
    /\ op' = [op EXCEPT ![c] = "none"]
    /\ key' = [key EXCEPT ![c] = None]
    /\ got' = [got EXCEPT ![c] = None]
    /\ tries' = [tries EXCEPT ![c] = 1]
    /\ err' = [err EXCEPT ![c] = "none"]

\* Subscribe, Lease and pinnedLister start by looking the resource type up
\* in the catalog, and aim at the stream of every namespace.  Nobody starts on
\* a closed cluster, but the calls under way when it closes run on.
Begin(c) ==
    /\ pc[c] = "idle" /\ root
    /\ \E o \in Ops, kind \in catalog :
        /\ op' = [op EXCEPT ![c] = o]
        /\ key' = [key EXCEPT ![c] = [kind |-> kind, ns |-> "all"]]
    /\ pc' = [pc EXCEPT ![c] = "attach"]
    /\ UNCHANGED <<managerVars, refreshVars, unpinned, root, streamVars,
                   got, mine, tries, err, open>>

\* acquireGate: an existing stream is used at once; otherwise join the gate
\* of the key, or make it.
AcquireGate(c) ==
    LET k == key[c] IN
    /\ pc[c] = "attach"
    /\ \/ /\ streams[k] # None
          /\ got' = [got EXCEPT ![c] = streams[k]]
          /\ pc' = [pc EXCEPT ![c] = "join"]
          /\ UNCHANGED <<building, gateRefs, mine>>
       \/ /\ streams[k] = None
          /\ building' = [building EXCEPT ![k] = IF @ = None THEN c ELSE @]
          /\ gateRefs' = [gateRefs EXCEPT ![k] = @ + 1]
          /\ mine' = [mine EXCEPT ![c] = building'[k]]
          /\ pc' = [pc EXCEPT ![c] = "gate"]
          /\ got' = got
    /\ UNCHANGED <<streams, failure, failErr, cooling, refreshVars, unpinned,
                   root, streamVars, op, key, tries, err, open>>

\* The sections of streamFor that run with the gate's mutex held.
Inside == {"locked", "cool", "building", "built", "failed"}

\* gate.Lock(): the mutex of the very gate the caller was given.
LockGate(c) ==
    /\ pc[c] = "gate"
    /\ \A d \in Callers \ {c} :
         ~ (pc[d] \in Inside /\ key[d] = key[c] /\ mine[d] = mine[c])
    /\ pc' = [pc EXCEPT ![c] = "locked"]
    /\ UNCHANGED <<managerVars, refreshVars, unpinned, root, streamVars,
                   op, key, got, mine, tries, err, open>>

\* lookupStream, with the gate held: the stream may have been built meanwhile.
LookupStream(c) ==
    /\ pc[c] = "locked"
    /\ got' = [got EXCEPT ![c] = streams[key[c]]]
    /\ pc' = [pc EXCEPT ![c] = IF streams[key[c]] # None THEN "release" ELSE "cool"]
    /\ UNCHANGED <<managerVars, refreshVars, unpinned, root, streamVars,
                   op, key, mine, tries, err, open>>

\* Nothing refers to the name s any more.
Fresh(s) ==
    /\ s \notin live /\ idle[s] = "none" /\ loose[s] = 0 /\ subs[s] = {}
    /\ s \notin dropped \cup unpinned
    /\ \A k \in Keys : streams[k] # s
    /\ \A c \in Callers : got[c] # s

\* A slip: the failure is looked up before the gate is taken, not after.
CoolingUnseen(k) == FALSE

\* coolingOff: the key failed, and the failure's wait has not elapsed.
Cooling(k) == failure[k] # 0 /\ k \in cooling

\* A key that failed a moment ago answers with that failure.  Otherwise newStream
\* makes a stream and starts its informer, whose context ends with the
\* cluster's.
CoolingOff(c) ==
    LET k == key[c] IN
    /\ pc[c] = "cool"
    /\ \/ /\ Cooling(k)
          /\ err' = [err EXCEPT ![c] = failErr[k]]
          /\ pc' = [pc EXCEPT ![c] = "release"]
          /\ UNCHANGED <<got, streamVars>>
       \/ /\ ~ Cooling(k)
          /\ \E s \in Streams :
              /\ Fresh(s)
              /\ got' = [got EXCEPT ![c] = s]
              /\ live' = IF root THEN live \cup {s} ELSE live
              /\ refs' = [refs EXCEPT ![s] = 0]
              /\ pinned' = pinned \ {s}
          /\ pc' = [pc EXCEPT ![c] = "building"]
          /\ UNCHANGED <<err, subs, idle, loose>>
    /\ UNCHANGED <<managerVars, refreshVars, unpinned, root,
                   op, key, mine, tries, open>>

\* newStream returns: the cache synced while the cluster was still open.
Synced(c) ==
    /\ pc[c] = "building" /\ root
    /\ pc' = [pc EXCEPT ![c] = "built"]
    /\ UNCHANGED <<managerVars, refreshVars, unpinned, root, streamVars,
                   op, key, got, mine, tries, err, open>>

\* A slip: newStream returns without cancelling what it started.
CancelBuildForgotten(s) == live' = live

\* newStream's cancel on every failing return.
CancelBuild(s) == live' = live \ {s}

\* newStream gives up: the watch was denied, or the sync timed out, the
\* request went away or the cluster closed.  Either way it cancels the
\* informer it had started.
SyncFails(c) ==
    /\ pc[c] = "building"
    /\ \E why \in {"denied", "other"} : err' = [err EXCEPT ![c] = why]
    /\ CancelBuild(got[c])
    /\ got' = [got EXCEPT ![c] = None]
    /\ pc' = [pc EXCEPT ![c] = "failed"]
    /\ UNCHANGED <<managerVars, refreshVars, unpinned, root, subs, refs,
                   pinned, idle, loose, op, key, mine, tries, open>>

\* A slip: the wait keeps doubling.
NextWaitUncapped(w) == IF 2 * w > 1 THEN 2 * w ELSE 1

\* recordFailure's wait: doubled, at least one unit, at most MaxWait units.
NextWait(w) ==
    LET doubled == IF 2 * w > 1 THEN 2 * w ELSE 1
    IN  IF doubled < MaxWait THEN doubled ELSE MaxWait

\* recordFailure, unless the request's context, which may end at any time and
\* is read here only, is done.
RecordFailure(c) ==
    LET k == key[c] IN
    /\ pc[c] = "failed"
    /\ \/ /\ failure' = [failure EXCEPT ![k] = NextWait(@)]
          /\ failErr' = [failErr EXCEPT ![k] = err[c]]
          /\ cooling' = cooling \cup {k}
       \/ UNCHANGED <<failure, failErr, cooling>>
    /\ pc' = [pc EXCEPT ![c] = "release"]
    /\ UNCHANGED <<streams, building, gateRefs, refreshVars, unpinned, root,
                   streamVars, op, key, got, mine, tries, err, open>>

\* The tail of streamFor: forget the failure and put the stream in the map.
Install(c) ==
    LET k == key[c] IN
    /\ pc[c] = "built"
    /\ streams' = [streams EXCEPT ![k] = got[c]]
    /\ failure' = [failure EXCEPT ![k] = 0]
    /\ failErr' = [failErr EXCEPT ![k] = "none"]
    /\ cooling' = cooling \ {k}
    /\ pc' = [pc EXCEPT ![c] = "release"]
    /\ UNCHANGED <<building, gateRefs, refreshVars, unpinned, root, streamVars,
                   op, key, got, mine, tries, err, open>>

\* A slip: whoever is done first takes the gate out of the map.
DropGateAtOnce(k) ==
    /\ gateRefs' = [gateRefs EXCEPT ![k] = 0]
    /\ building' = [building EXCEPT ![k] = None]

\* releaseGate: the last user of a gate takes it out of the map.
DropGate(k) ==
    IF building[k] = None
      THEN UNCHANGED <<building, gateRefs>>
      ELSE /\ gateRefs' = [gateRefs EXCEPT ![k] = @ - 1]
           /\ building' = [building EXCEPT ![k] =
                             IF gateRefs[k] = 1 THEN None ELSE @]

\* The gate is unlocked, then releaseGate drops it with its last user.  An
\* error ends the call, except that a table of one namespace which was denied
\* the stream of every namespace tries the stream of its own.
ReleaseGate(c) ==
    LET k == key[c]
        narrower == err[c] = "denied" /\ op[c] = "nsread" /\ k.ns = "all"
    IN
    /\ pc[c] = "release"
    /\ DropGate(k)
    /\ mine' = [mine EXCEPT ![c] = None]
    /\ \/ /\ got[c] # None
          /\ pc' = [pc EXCEPT ![c] = "join"]
          /\ UNCHANGED <<key, tries, err>>
          /\ UNCHANGED <<op, got>>
       \/ /\ got[c] = None /\ narrower
          /\ key' = [key EXCEPT ![c] = [kind |-> k.kind, ns |-> "one"]]
          /\ tries' = [tries EXCEPT ![c] = 1]
          /\ err' = [err EXCEPT ![c] = "none"]
          /\ pc' = [pc EXCEPT ![c] = "attach"]
          /\ UNCHANGED <<op, got>>
       \/ /\ got[c] = None /\ ~ narrower
          /\ Return(c)
    /\ UNCHANGED <<streams, failure, failErr, cooling, refreshVars, unpinned,
                   root, streamVars, open>>

\* A slip: the stream that was looked up is taken on trust.
StillHeldUnchecked(c) == got[c] # None

\* The check register and pin make: m.streams[key] is still the stream the
\* caller found.
StillHeld(c) == streams[key[c]] = got[c]

\* register and pin both refuse a stream that was torn down after the caller
\* found it; the caller tries again, at most AttachAttempts times in all.
TornDown(c) ==
    /\ pc[c] = "join" /\ ~ StillHeld(c)
    /\ \/ /\ tries[c] < AttachAttempts
          /\ tries' = [tries EXCEPT ![c] = @ + 1]
          /\ got' = [got EXCEPT ![c] = None]
          /\ pc' = [pc EXCEPT ![c] = "attach"]
          /\ UNCHANGED <<op, key, err>>
       \/ /\ tries[c] = AttachAttempts
          /\ Return(c)
    /\ UNCHANGED <<managerVars, refreshVars, unpinned, root, streamVars, mine, open>>

\* A timer that has already fired cannot be stopped: its retire still runs.
StopIdle(s) ==
    /\ loose' = [loose EXCEPT ![s] = IF idle[s] = "fired" THEN @ + 1 ELSE @]
    /\ idle' = [idle EXCEPT ![s] = "none"]

\* register: a new subscriber on the stream the map still holds.
Register(c) ==
    LET s == got[c] IN
    /\ pc[c] = "join" /\ op[c] # "warm" /\ StillHeld(c)
    /\ StopIdle(s)
    /\ subs' = [subs EXCEPT ![s] = @ \cup {c}]
    /\ refs' = [refs EXCEPT ![s] = @ + 1]
    /\ open' = open \cup {c}
    /\ pc' = [pc EXCEPT ![c] = "attached"]
    /\ tries' = [tries EXCEPT ![c] = 1]
    /\ UNCHANGED <<managerVars, refreshVars, unpinned, root, pinned, live,
                   op, key, got, mine, err>>

\* pin: Warm keeps the stream, whatever its subscribers do.
Pin(c) ==
    LET s == got[c] IN
    /\ pc[c] = "join" /\ op[c] = "warm" /\ StillHeld(c)
    /\ pinned' = pinned \cup {s}
    /\ Return(c)
    /\ UNCHANGED <<managerVars, refreshVars, unpinned, root, subs, refs, idle,
                   loose, live, mine, open>>

\* A slip: idleness judged before the leaving subscriber is taken off.
ArmIdleEarly(s, left) ==
    idle' = [idle EXCEPT ![s] =
               IF refs[s] = 0 /\ s \notin pinned /\ @ = "none" THEN "armed" ELSE @]

\* detach's AfterFunc: with nobody left and no pin, one timer at a time.
ArmIdle(s, left) ==
    idle' = [idle EXCEPT ![s] =
               IF left = 0 /\ s \notin pinned /\ @ = "none" THEN "armed" ELSE @]

\* The references left once c is off s: shutdown may have removed it already.
Left(c, s) == IF c \in subs[s] THEN refs[s] - 1 ELSE refs[s]

\* detach: Close of a Subscription, the end of a Lease, or a Subscribe whose
\* snapshot failed.  A subscriber that shutdown already removed is left as it
\* is, and the idle timer is armed all the same.
Detach(c) ==
    LET s == got[c] IN
    /\ pc[c] = "attached"
    /\ subs' = [subs EXCEPT ![s] = @ \ {c}]
    /\ refs' = [refs EXCEPT ![s] = Left(c, s)]
    /\ open' = IF c \in subs[s] THEN open \ {c} ELSE open
    /\ ArmIdle(s, Left(c, s))
    /\ Return(c)
    /\ UNCHANGED <<managerVars, refreshVars, unpinned, root, pinned, loose,
                   live, mine>>

-----------------------------------------------------------------------------
(* The streams' own ends.                                                  *)

\* IdleGrace elapses: the runtime starts retire, which has yet to take m.mu.
FireIdle(s) ==
    /\ idle[s] = "armed" /\ loose[s] < MaxLoose
    /\ idle' = [idle EXCEPT ![s] = "fired"]
    /\ UNCHANGED <<managerVars, refreshVars, unpinned, root, subs, refs,
                   pinned, loose, live, callerVars>>

\* Streams the map forgets.
Forget(s) == streams' = [k \in Keys |-> IF streams[k] = s THEN None ELSE streams[k]]

\* What retire spares.
Busy(s) == refs[s] > 0 \/ s \in pinned

\* retire clears st.idle whichever timer called it, spares a busy stream, and
\* takes one that the map still holds out of it and cancels its informer.
\* A pending timer it clears is not stopped and becomes a loose one.
Retire(s) ==
    /\ \/ /\ idle[s] = "fired"
          /\ loose' = loose
       \/ /\ loose[s] > 0
          /\ loose' = [loose EXCEPT ![s] = IF idle[s] = "none" THEN @ - 1 ELSE @]
    /\ idle' = [idle EXCEPT ![s] = "none"]
    /\ IF Busy(s) \/ \A k \in Keys : streams[k] # s
         THEN UNCHANGED <<streams, live>>
         ELSE /\ Forget(s)
              /\ live' = live \ {s}
    /\ UNCHANGED <<building, gateRefs, failure, failErr, cooling, refreshVars,
                   unpinned, root, subs, refs, pinned, callerVars>>

\* unpin, the part under m.mu: an unpinned stream nobody reads leaves the map.
Unpin(k) ==
    LET s == streams[k] IN
    /\ k.ns = "all" /\ s # None
    /\ pinned' = pinned \ {s}
    /\ IF refs[s] = 0
         THEN /\ streams' = [streams EXCEPT ![k] = None]
              /\ unpinned' = unpinned \cup {s}
         ELSE UNCHANGED <<streams, unpinned>>
    /\ UNCHANGED <<building, gateRefs, failure, failErr, cooling, refreshVars,
                   root, subs, refs, idle, loose, live, callerVars>>

\* ... and its informer is cancelled after m.mu was released.
CancelUnpinned(s) ==
    /\ s \in unpinned
    /\ unpinned' = unpinned \ {s}
    /\ live' = live \ {s}
    /\ UNCHANGED <<managerVars, refreshVars, root, subs, refs, pinned, idle,
                   loose, callerVars>>

-----------------------------------------------------------------------------
(* RefreshResources: one at a time (beginRefresh).  A discovery that lists *)
(* nothing or fails keeps the catalog and changes nothing here.            *)

SetCatalog ==
    /\ ~ refreshing /\ dropped = {}
    /\ catalog' \in SUBSET Kinds
    /\ refreshing' = TRUE
    /\ UNCHANGED <<managerVars, dropped, unpinned, root, streamVars, callerVars>>

\* dropVanished, the part under m.mu.
DropVanished ==
    LET gone == {k \in Keys : streams[k] # None /\ k.kind \notin catalog} IN
    /\ refreshing
    /\ streams' = [k \in Keys |-> IF k \in gone THEN None ELSE streams[k]]
    /\ dropped' = {streams[k] : k \in gone}
    /\ refreshing' = FALSE
    /\ UNCHANGED <<building, gateRefs, failure, failErr, cooling, catalog,
                   unpinned, root, streamVars, callerVars>>

\* shutdown closes the channels of every subscriber and empties the set.
CloseSubscribers(s) ==
    /\ open' = open \ subs[s]
    /\ subs' = [subs EXCEPT ![s] = {}]

\* shutdown: every subscriber's channels are closed, then the informer is
\* cancelled.
Shutdown(s) ==
    /\ s \in dropped
    /\ dropped' = dropped \ {s}
    /\ CloseSubscribers(s)
    /\ refs' = [refs EXCEPT ![s] = 0]
    /\ pinned' = pinned \ {s}
    /\ live' = live \ {s}
    /\ UNCHANGED <<managerVars, catalog, refreshing, unpinned, root, idle, loose,
                   pc, op, key, got, mine, tries, err>>

-----------------------------------------------------------------------------
(* Time and the cluster.                                                   *)

\* A failure's wait elapses.
WaitElapses(k) ==
    /\ k \in cooling
    /\ cooling' = cooling \ {k}
    /\ UNCHANGED <<streams, building, gateRefs, failure, failErr, refreshVars,
                   unpinned, root, streamVars, callerVars>>

\* The cluster is closed: its root context, and every informer's with it.
CloseRoot ==
    /\ root
    /\ root' = FALSE
    /\ live' = {}
    /\ UNCHANGED <<managerVars, refreshVars, unpinned, subs, refs, pinned,
                   idle, loose, callerVars>>

-----------------------------------------------------------------------------
CallerStep(c) ==
    \/ AcquireGate(c) \/ LockGate(c) \/ LookupStream(c) \/ CoolingOff(c)
    \/ Synced(c) \/ SyncFails(c) \/ RecordFailure(c) \/ Install(c)
    \/ ReleaseGate(c) \/ TornDown(c) \/ Register(c) \/ Pin(c)

Next ==
    \/ \E c \in Callers : Begin(c) \/ CallerStep(c) \/ Detach(c)
    \/ \E s \in Streams : FireIdle(s) \/ Retire(s) \/ CancelUnpinned(s) \/ Shutdown(s)
    \/ \E k \in Keys : Unpin(k) \/ WaitElapses(k)
    \/ SetCatalog \/ DropVanished \/ CloseRoot

Spec == Init /\ [][Next]_vars

-----------------------------------------------------------------------------
(* What the registry promises.                                             *)

Registered(s) == \E k \in Keys : streams[k] = s

\* A table whose channels are open is fed: its caller is a subscriber of a
\* stream whose informer runs, and which the map holds under the caller's key
\* or a refresh is about to shut down.  retire and unpin, which cancel an
\* informer without closing anything, must never hit such a stream.
SubscribersServed ==
    \A c \in open :
        /\ c \in subs[got[c]]
        /\ streams[key[c]] = got[c] \/ got[c] \in dropped
        /\ root => got[c] \in live

\* publish, watchRecovered and shutdown send on and close the channels of the
\* entries in st.subs: each of those is open, attached to this stream, and in
\* no other stream's set.  A closed one there would panic the informer.
SubscribersOpen ==
    \A s \in Streams : \A c \in subs[s] :
        c \in open /\ pc[c] = "attached" /\ got[c] = s

\* st.refs, by which retire and unpin judge a stream idle, counts st.subs.
RefsCountSubscribers ==
    \A s \in Streams : refs[s] = Cardinality(subs[s])

\* streamFor builds a key's stream one caller at a time, across gates being
\* dropped and made again.
OneBuilder ==
    \A c, d \in Callers :
        (c # d /\ pc[c] \in Inside /\ pc[d] \in Inside) => key[c] # key[d]

\* A running informer is one the map holds, one a caller is building, or one
\* that unpin or a refresh is about to cancel: nothing watches the cluster on
\* nobody's behalf.
NoOrphanInformer ==
    \A s \in live :
        \/ Registered(s)
        \/ s \in dropped \cup unpinned
        \/ \E c \in Callers : pc[c] \in {"building", "built"} /\ got[c] = s

\* A warmed stream stays in the map until Unpin, or a refresh takes it out.
PinnedStays ==
    \A s \in pinned : Registered(s) \/ s \in dropped

\* A stream in the map with nobody on it has a timer that will retire it, or
\* a caller that found it and has yet to join: none is forgotten.
IdleIsTimed ==
    \A k \in Keys : LET s == streams[k] IN
        (s # None /\ refs[s] = 0 /\ s \notin pinned) =>
            \/ idle[s] # "none" \/ loose[s] > 0
            \/ \E c \in Callers : pc[c] \in {"release", "join"} /\ got[c] = s

\* Callers that queue at a gate while a build fails answer with its failure:
\* no failure is recorded over one that is still cooling off.
NoHerd ==
    [][\A k \in Keys : failure[k] # 0 /\ k \in cooling =>
           failure'[k] = failure[k] \/ (failure'[k] = 0 /\ streams'[k] # None)]_vars


\* How a stream is counted and let go: what is warmed stays, what is idle has
\* a timer, what is in st.subs is open, st.refs counts it, and each key has
\* one builder.  retire, unpin, publish and shutdown each rely on one of them.
StreamsCounted ==
    /\ PinnedStays
    /\ IdleIsTimed
    /\ SubscribersOpen
    /\ RefsCountSubscribers
    /\ OneBuilder

Shared == INSTANCE SharedInformer WITH
    offered <- streams,
    running <- live,
    reads <- [c \in Callers |-> IF c \in open THEN got[c] ELSE None],
    ending <- dropped,
    open <- root

\* The registry, with its gates, counters, timers and retries, is a sharer of
\* informers: a step of Subscribe, retire, unpin, dropVanished or shutdown is a
\* step SharedInformer allows, or one it does not see.
SharesInformers == Shared!Spec

=============================================================================
