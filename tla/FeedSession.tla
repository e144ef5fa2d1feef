---------------------------- MODULE FeedSession ----------------------------
(***************************************************************************)
(* One feed websocket: the entries of a wsSession (internal/server/ws.go). *)
(*                                                                         *)
(* The reader goroutine handles the browser's messages; each table or log  *)
(* stream it asks for is opened by a goroutine of its own, which adopts    *)
(* what it opened only while its entry still carries its generation.       *)
(* Closing a cluster (clusters.go) drops entries from a third goroutine.   *)
(* Two locks: sess.mu guards the maps and makes each step below atomic;    *)
(* sess.writeMu is held from the check of a generation to the end of its   *)
(* frame.                                                                  *)
(*                                                                         *)
(* A builder, its entry and what it opens are all named by its generation. *)
(***************************************************************************)
EXTENDS Integers, FiniteSets

CONSTANTS
    SubIds,            \* the browser's names for its tables and log streams
    Clusters,
    None,
    MaxSubscriptions,  \* maxSubscriptions, 64 in the code
    LogLimit,          \* units of the logStreams budget of this identity
    MaxGen             \* bound on the subscribe messages of the session

ASSUME SessionAssumption ==
    /\ MaxSubscriptions \in Nat \ {0} /\ LogLimit \in Nat /\ MaxGen \in Nat \ {0}
    /\ None \notin Clusters /\ None \notin [feed : {"tables", "streams"}, sub : SubIds]

Feeds == {"tables", "streams"}
Slots == [feed : Feeds, sub : SubIds]
Gens  == 1 .. MaxGen

VARIABLES
    entry,     \* sess.tables and sess.logs: the generation in each slot, or 0
    nextGen,
    slot,      \* the slot each generation was claimed for
    on,        \* the cluster its message named
    pc,        \* where the goroutine of each generation is
    open,      \* generations whose Subscription or log stream is open
    adopted,   \* generations whose entry holds what they opened
    reserved,  \* generations that hold units of the log stream budget
    writing,   \* generations that hold writeMu: at most one
    last,      \* the generation of the last frame sent for each slot
    asking,    \* the reader, between lookup and tryClaim: the request, or None
    claimed,   \* the reader, between tryClaim and safe.Go: the generation, or 0
    doomed,    \* entries the reader or closeCluster took out and has yet to stop
    alive,     \* "yes", "cancelled" (ping, expiry, access), or "ended"
    opened,    \* the clusters that are open
    closing    \* the cluster closeCluster is at work on, or None

reader  == <<asking, claimed>>
builder == <<pc, open, adopted, reserved>>
claims  == <<entry, nextGen, slot, on>>
sessionVars    == <<claims, builder, writing, last, reader, doomed, alive, opened, closing>>

Requests == [slot : Slots, on : Clusters, found : BOOLEAN]
Places   == {"none", "claimed", "spawned", "building", "opened", "failing", "telling",
             "relaying", "writing", "ending", "done"}

\* The number of entries, as tryClaim counts them.
Held == Cardinality({s \in Slots : entry[s] # 0})

\* The state is well formed, and within maxSubscriptions and the log budget.
SessionTypeOK ==
    /\ entry \in [Slots -> 0 .. MaxGen] /\ nextGen \in 0 .. MaxGen
    /\ slot \in [Gens -> Slots \cup {None}] /\ on \in [Gens -> Clusters \cup {None}]
    /\ pc \in [Gens -> Places]
    /\ open \subseteq Gens /\ adopted \subseteq Gens
    /\ reserved \subseteq Gens /\ Cardinality(reserved) <= LogLimit
    /\ writing \subseteq Gens /\ last \in [Slots -> 0 .. MaxGen]
    /\ asking \in Requests \cup {None} /\ claimed \in 0 .. MaxGen
    /\ doomed \in [{"reader", "closer"} -> SUBSET Gens]
    /\ alive \in {"yes", "cancelled", "ended"}
    /\ opened \subseteq Clusters /\ closing \in Clusters \cup {None}
    /\ Held <= MaxSubscriptions

SessionInit ==
    /\ entry = [s \in Slots |-> 0] /\ nextGen = 0
    /\ slot = [g \in Gens |-> None] /\ on = [g \in Gens |-> None]
    /\ pc = [g \in Gens |-> "none"]
    /\ open = {} /\ adopted = {} /\ reserved = {}
    /\ writing = {} /\ last = [s \in Slots |-> 0]
    /\ asking = None /\ claimed = 0 /\ doomed = [a \in {"reader", "closer"} |-> {}]
    /\ alive = "yes" /\ opened = Clusters /\ closing = None

Goto(g, place) == pc' = [pc EXCEPT ![g] = place]

\* isCurrent, and the same test in holdCancel, adoptAuthorized, forgetCurrent.
Current(g) == entry[slot[g]] = g

-----------------------------------------------------------------------------
(* The reader.                                                             *)

ReaderFree == alive = "yes" /\ asking = None /\ claimed = 0 /\ doomed["reader"] = {}

\* subscribe and subscribeLogs first look the cluster up ...
Lookup(s, c) ==
    /\ ReaderFree /\ nextGen < MaxGen
    /\ asking' = [slot |-> s, on |-> c, found |-> c \in opened]
    /\ UNCHANGED <<claims, builder, writing, last, claimed, doomed, alive, opened, closing>>

\* tryClaim refuses a new name when the session is full; a known one it takes.
Full(s) == entry[s] = 0 /\ Held >= MaxSubscriptions

Refuse ==
    /\ asking # None /\ Full(asking.slot) /\ writing = {}
    /\ asking' = None
    /\ UNCHANGED <<claims, builder, writing, last, claimed, doomed, alive, opened, closing>>

\* ... then claim the name, whoever holds it.
TryClaim ==
    /\ asking # None /\ ~ Full(asking.slot)
    /\ LET g == nextGen + 1
           s == asking.slot
       IN  /\ nextGen' = g
           /\ entry' = [entry EXCEPT ![s] = g]
           /\ slot' = [slot EXCEPT ![g] = s]
           /\ on' = [on EXCEPT ![g] = asking.on]
           /\ Goto(g, IF asking.found THEN "claimed" ELSE "failing")
           /\ claimed' = g
           /\ doomed' = [doomed EXCEPT !["reader"] = IF entry[s] = 0 THEN {} ELSE {entry[s]}]
    /\ asking' = None
    /\ UNCHANGED <<open, adopted, reserved, writing, last, alive, opened, closing>>

\* The previous holder is stopped; the builder starts.
Spawn ==
    /\ claimed # 0 /\ doomed["reader"] = {} /\ pc[claimed] = "claimed"
    /\ Goto(claimed, "spawned")
    /\ claimed' = 0
    /\ UNCHANGED <<claims, open, adopted, reserved, writing, last, asking, doomed, alive, opened, closing>>

\* drop, for unsubscribe and logs-unsubscribe.
Unsubscribe(s) ==
    /\ ReaderFree /\ entry[s] # 0
    /\ entry' = [entry EXCEPT ![s] = 0]
    /\ doomed' = [doomed EXCEPT !["reader"] = {entry[s]}]
    /\ UNCHANGED <<nextGen, slot, on, builder, writing, last, reader, alive, opened, closing>>

\* stop: cancel the builder, which may notice or not, and close what the entry
\* holds; a log stream gives its units back.
Stop(a, g) ==
    /\ g \in doomed[a]
    /\ doomed' = [doomed EXCEPT ![a] = @ \ {g}]
    /\ open' = open \ (adopted \cap {g})
    /\ reserved' = reserved \ (adopted \cap {g})
    /\ UNCHANGED <<claims, pc, adopted, writing, last, reader, alive, opened, closing>>

\* keepAlive or watchAuthorization cancels the session, or the socket breaks.
Cancel ==
    /\ alive = "yes"
    /\ alive' = "cancelled"
    /\ UNCHANGED <<claims, builder, writing, last, reader, doomed, opened, closing>>

\* A slip: the log streams of a session that ends stay open.
TablesOnly == {g \in Gens : slot[g] # None /\ slot[g].feed = "tables" /\ Current(g)}

\* Every entry of the session.
Everything == {g \in Gens : slot[g] # None /\ Current(g)}

\* The reader's read fails: closeAll.
CloseAll ==
    /\ alive = "cancelled" /\ asking = None /\ claimed = 0 /\ doomed["reader"] = {}
    /\ alive' = "ended"
    /\ doomed' = [doomed EXCEPT !["reader"] = Everything]
    /\ entry' = [s \in Slots |-> 0]
    /\ UNCHANGED <<nextGen, slot, on, builder, writing, last, reader, opened, closing>>

-----------------------------------------------------------------------------
(* buildSub and buildLogs.                                                 *)

\* holdCancel: a table that was claimed again meanwhile is not built.
HoldCancel(g) ==
    /\ pc[g] = "spawned" /\ slot[g].feed = "tables"
    /\ Goto(g, IF Current(g) THEN "building" ELSE "done")
    /\ UNCHANGED <<claims, open, adopted, reserved, writing, last, reader, doomed, alive, opened, closing>>

\* A log stream takes its units first, or fails.
Reserve(g) ==
    /\ pc[g] = "spawned" /\ slot[g].feed = "streams"
    /\ \/ Cardinality(reserved) < LogLimit
          /\ reserved' = reserved \cup {g} /\ Goto(g, "building")
       \/ Cardinality(reserved) >= LogLimit
          /\ reserved' = reserved /\ Goto(g, "failing")
    /\ UNCHANGED <<claims, open, adopted, writing, last, reader, doomed, alive, opened, closing>>

\* Subscribe or Logs answers, cancelled or not.
Opened(g) ==
    /\ pc[g] = "building"
    /\ open' = open \cup {g}
    /\ Goto(g, "opened")
    /\ UNCHANGED <<claims, adopted, reserved, writing, last, reader, doomed, alive, opened, closing>>

\* release.
Release(g) == reserved' = reserved \ {g}

\* No slot in time, no access, no such object, cancelled: nothing is open.
OpenFails(g) ==
    /\ pc[g] = "building"
    /\ Release(g)
    /\ Goto(g, "failing")
    /\ UNCHANGED <<claims, open, adopted, writing, last, reader, doomed, alive, opened, closing>>

\* A slip: whoever holds the name gets the resource.
AdoptsAny(g) == entry[slot[g]] # 0

\* adoptAuthorized takes the resource only for its own generation.
Adopts(g) == Current(g)

Adopt(g) ==
    /\ pc[g] = "opened"
    /\ \/ /\ Adopts(g)
          /\ adopted' = adopted \cup {g}
          /\ Goto(g, "relaying")
          /\ UNCHANGED <<open, reserved>>
       \/ /\ ~ Adopts(g)
          /\ open' = open \ {g} /\ Release(g)
          /\ Goto(g, "done")
          /\ UNCHANGED adopted
    /\ UNCHANGED <<claims, writing, last, reader, doomed, alive, opened, closing>>

\* A slip: frames are written without the lock.
WriteMuIgnored == TRUE

\* writeMu is free.
WriteMu == writing = {}

\* failAndForget: the entry goes, its context is cancelled and the browser is
\* told, all under writeMu; an entry that was claimed again is left alone.
FailAndForget(g) ==
    /\ pc[g] = "failing" /\ WriteMu
    /\ (claimed = g => doomed["reader"] = {})
    /\ \/ /\ Current(g)
          /\ entry' = [entry EXCEPT ![slot[g]] = 0]
          /\ writing' = writing \cup {g}
          /\ Goto(g, "telling")
       \/ /\ ~ Current(g)
          /\ Goto(g, "done")
          /\ UNCHANGED <<entry, writing>>
    /\ claimed' = IF claimed = g /\ ~ Current(g) THEN 0 ELSE claimed
    /\ UNCHANGED <<nextGen, slot, on, open, adopted, reserved, last, asking, doomed, alive, opened, closing>>

\* writeCurrent: the check under writeMu.  The last frame of a log stream that
\* ends by itself is its end; the entry keeps the stream until it is dropped.
CheckCurrent(g) ==
    /\ pc[g] = "relaying" /\ WriteMu
    /\ \/ /\ Current(g)
          /\ writing' = writing \cup {g}
          /\ \/ Goto(g, "writing")
             \/ slot[g].feed = "streams" /\ Goto(g, "ending")
       \/ /\ ~ Current(g)
          /\ writing' = writing
          /\ Goto(g, "done")
    /\ UNCHANGED <<claims, open, adopted, reserved, last, reader, doomed, alive, opened, closing>>

\* The frame is on the wire, and writeMu free again.
WriteFrame(g) ==
    /\ g \in writing
    /\ writing' = writing \ {g}
    /\ last' = [last EXCEPT ![slot[g]] = g]
    /\ Goto(g, IF pc[g] = "writing" THEN "relaying" ELSE "done")
    /\ claimed' = IF claimed = g THEN 0 ELSE claimed
    /\ UNCHANGED <<claims, open, adopted, reserved, asking, doomed, alive, opened, closing>>

\* relay and relayLogs end when the channel they read is closed or the session
\* is over.
RelayEnds(g) ==
    /\ pc[g] = "relaying" /\ (g \notin open \/ alive # "yes")
    /\ Goto(g, "done")
    /\ UNCHANGED <<claims, open, adopted, reserved, writing, last, reader, doomed, alive, opened, closing>>

-----------------------------------------------------------------------------
(* closeCluster.                                                           *)

\* dropSubscriptionsOn takes out every entry on the cluster ...
DropOn(c) ==
    /\ closing = None /\ c \in opened
    /\ closing' = c
    /\ LET gone == {g \in Everything : on[g] = c} IN
       /\ doomed' = [doomed EXCEPT !["closer"] = gone]
       /\ entry' = [s \in Slots |-> IF entry[s] \in gone THEN 0 ELSE entry[s]]
    /\ UNCHANGED <<nextGen, slot, on, builder, writing, last, reader, alive, opened>>

\* ... stops them, and closes the connection to the cluster.
CloseCluster ==
    /\ closing # None /\ doomed["closer"] = {}
    /\ opened' = opened \ {closing}
    /\ closing' = None
    /\ UNCHANGED <<claims, builder, writing, last, reader, doomed, alive>>

-----------------------------------------------------------------------------
Build(g) ==
    \/ HoldCancel(g) \/ Reserve(g) \/ Opened(g) \/ OpenFails(g) \/ Adopt(g)
    \/ FailAndForget(g) \/ CheckCurrent(g) \/ WriteFrame(g) \/ RelayEnds(g)

SessionNext ==
    \/ \E s \in Slots, c \in Clusters : Lookup(s, c)
    \/ Refuse \/ TryClaim \/ Spawn \/ Cancel \/ CloseAll
    \/ \E s \in Slots : Unsubscribe(s)
    \/ \E a \in {"reader", "closer"}, g \in Gens : Stop(a, g)
    \/ \E g \in Gens : Build(g)
    \/ \E c \in Clusters : DropOn(c)
    \/ CloseCluster

SessionSpec == SessionInit /\ [][SessionNext]_sessionVars

\* Goroutines run.  A reader that refuses and a builder that fails wait for
\* writeMu, which its holders give back in ten seconds at most (writeLocked's
\* timeout) and which Go hands to waiters in order: hence strong fairness for
\* the steps that take it.
SessionFairness ==
    /\ SF_sessionVars(Refuse) /\ WF_sessionVars(TryClaim) /\ WF_sessionVars(Spawn) /\ WF_sessionVars(CloseAll)
    /\ \A a \in {"reader", "closer"}, g \in Gens : WF_sessionVars(Stop(a, g))
    /\ \A g \in Gens :
        /\ WF_sessionVars(HoldCancel(g) \/ Reserve(g)) /\ WF_sessionVars(Opened(g) \/ OpenFails(g))
        /\ WF_sessionVars(Adopt(g)) /\ WF_sessionVars(WriteFrame(g))
        /\ SF_sessionVars(FailAndForget(g))
        /\ SF_sessionVars(RelayEnds(g) \/ CheckCurrent(g))
    /\ WF_sessionVars(CloseCluster)

FairSessionSpec == SessionSpec /\ SessionFairness

-----------------------------------------------------------------------------
(* What the session promises.                                              *)

\* A frame of an older claim on a name never follows one of a newer claim:
\* the browser, which drops the deltas of a table when its snapshot comes, is
\* never handed rows of the table it had before.
FramesInOrder == [][\A s \in Slots : last'[s] >= last[s]]_sessionVars

\* Whatever a builder opened is on its way to an entry, in one, or about to be
\* stopped: a claim, a drop or a closing cluster at the wrong moment leaks
\* no subscription and no log stream.
NothingLeaks ==
    \A g \in open :
        \/ pc[g] = "opened"
        \/ g \in adopted /\ (Current(g) \/ \E a \in DOMAIN doomed : g \in doomed[a])

\* The budget's units are held by exactly the log streams that are being
\* opened or are open.
UnitsAccounted ==
    reserved = {g \in Gens : slot[g] # None /\ slot[g].feed = "streams"
                              /\ (pc[g] = "building" \/ g \in open)}

\* Claims, cancellations, dropped clusters and builders that fail, in any order,
\* lose no subscription and no unit of the budget (claim, adopt, drop).
SessionSound == SessionTypeOK /\ NothingLeaks /\ UnitsAccounted

\* A session that ends gives everything back.
EndsClean == (alive = "cancelled") ~> (open = {} /\ reserved = {} /\ alive = "ended")

=============================================================================
