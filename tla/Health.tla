------------------------------- MODULE Health -------------------------------
(***************************************************************************)
(* Whether the open clusters answer (internal/server/health.go,            *)
(* sinkwatch.go, internal/reach): one goroutine pings while somebody       *)
(* looks, requests tell what they saw through a sink, verdicts carry the   *)
(* generation they were asked in, and closing a cluster forgets them.      *)
(***************************************************************************)
EXTENDS Naturals, FiniteSets

CONSTANTS
    Viewers,        \* websocket sessions
    Sites,          \* cluster ids
    Misses,         \* missesBeforeUnreachable
    MaxDials,       \* bound on connections made
    MaxFlips        \* bound on how often a cluster stops or starts answering

ASSUME HealthAssumption == Misses \in Nat /\ MaxDials \in Nat \ {0} /\ MaxFlips \in Nat

VARIABLES
    feeds,          \* where a session's handler is
    tracked,        \* Server.sessions
    changed,        \* the token in Server.sessionChange
    watching,       \* Server.watching
    round,          \* the goroutine of pingUntilNobodyIsWatching
    conn,           \* the open connection of a cluster, 0 for none
    dials,
    closing,        \* closeCluster calls between cluster.Close and forgetHealthOf
    answers,        \* does the API server answer
    flips,
    gen,            \* Server.healthGen
    missed,         \* Server.misses
    health,         \* Server.health, with the connection it was measured on
    asking,         \* pings under way
    sink,           \* the sink of each connection: what it last saw, and its token
    watch,          \* sinkWatchers.held
    reports         \* calls of recordHealthAt under way

healthVars == <<feeds, tracked, changed, watching, round, conn, dials, closing, answers, flips,
                gen, missed, health, asking, sink, watch, reports>>

Unknown == [state |-> "unknown", of |-> 0, by |-> "none"]
Idle == [at |-> "none", gen |-> 0, of |-> 0]
Fresh == [alive |-> TRUE, token |-> FALSE]

HealthTypeOK ==
    /\ feeds \in [Viewers -> {"off", "tracked", "live"}]
    /\ tracked \subseteq Viewers /\ changed \in BOOLEAN /\ watching \in BOOLEAN
    /\ round \in {"none", "ping", "asking", "follow", "wait"}
    /\ conn \in [Sites -> 0..MaxDials] /\ dials \in 0..MaxDials /\ closing \in [Sites -> Nat]
    /\ gen \in [Sites -> Nat] /\ missed \in [Sites -> Nat]
    /\ health \in [Sites -> [state : {"unknown", "up", "wobbling", "down"}, of : 0..MaxDials,
                             by : {"none", "ping", "sink"}]]

HealthInit ==
    /\ feeds = [v \in Viewers |-> "off"] /\ tracked = {} /\ changed = FALSE
    /\ watching = FALSE /\ round = "none"
    /\ conn = [c \in Sites |-> 1] /\ dials = 1 /\ closing = [c \in Sites |-> 0]
    /\ answers \in [Sites -> BOOLEAN] /\ flips = 0
    /\ gen = [c \in Sites |-> 0] /\ missed = [c \in Sites |-> 0] /\ health = [c \in Sites |-> Unknown]
    /\ asking = [c \in Sites |-> Idle] /\ sink = [n \in 1..MaxDials |-> Fresh]
    /\ watch = [c \in Sites |-> Idle] /\ reports = {}

siteVars == <<conn, dials, closing, answers, flips, sink>>
verdictVars == <<gen, missed, health>>
feedVars == <<feeds, tracked, changed>>

-----------------------------------------------------------------------------
(* Sessions.                                                               *)

Track(v) ==
    /\ feeds[v] = "off"
    /\ feeds' = [feeds EXCEPT ![v] = "tracked"]
    /\ tracked' = tracked \cup {v}
    /\ changed' = TRUE
    /\ UNCHANGED <<watching, round, siteVars, verdictVars, asking, watch, reports>>

WatchCluster(v) ==
    /\ feeds[v] = "tracked"
    /\ feeds' = [feeds EXCEPT ![v] = "live"]
    /\ watching' = TRUE
    /\ round' = IF watching THEN round ELSE "ping"
    /\ UNCHANGED <<tracked, changed, siteVars, verdictVars, asking, watch, reports>>

ForgetSession(v) ==
    /\ feeds[v] \in {"tracked", "live"}
    /\ feeds' = [feeds EXCEPT ![v] = "off"]
    /\ tracked' = tracked \ {v}
    /\ changed' = TRUE
    /\ UNCHANGED <<watching, round, siteVars, verdictVars, asking, watch, reports>>

-----------------------------------------------------------------------------
(* The goroutine that pings.                                               *)

IdleNow == tracked = {}

StopIfIdle ==
    /\ round = "wait" /\ IdleNow
    /\ changed' \in {FALSE, changed}
    /\ watching' = FALSE
    /\ round' = "none"
    /\ watch' = [c \in Sites |-> Idle]
    /\ UNCHANGED <<feeds, tracked, siteVars, verdictVars, asking, reports>>

SessionChanged ==
    /\ round = "wait" /\ changed /\ ~ IdleNow
    /\ changed' = FALSE
    /\ UNCHANGED <<feeds, tracked, watching, round, siteVars, verdictVars, asking, watch, reports>>

Tick ==
    /\ round = "wait" /\ ~ IdleNow
    /\ round' = "ping"
    /\ UNCHANGED <<feedVars, watching, siteVars, verdictVars, asking, watch, reports>>

PingEveryCluster ==
    /\ round = "ping"
    /\ round' = "asking"
    /\ asking' = [c \in Sites |-> IF conn[c] # 0 THEN [Idle EXCEPT !.at = "begin"] ELSE Idle]
    /\ UNCHANGED <<feedVars, watching, siteVars, verdictVars, watch, reports>>

\* pingOne reads the generation first, and the connection after it.
ReadGeneration(c) ==
    /\ asking[c].at = "begin"
    /\ asking' = [asking EXCEPT ![c].at = "look", ![c].gen = gen[c]]
    /\ UNCHANGED <<feedVars, watching, round, siteVars, verdictVars, watch, reports>>

FindManager(c) ==
    /\ asking[c].at = "look"
    /\ asking' = [asking EXCEPT ![c] = IF conn[c] = 0 THEN Idle ELSE [@ EXCEPT !.at = "sent", !.of = conn[c]]]
    /\ UNCHANGED <<feedVars, watching, round, siteVars, verdictVars, watch, reports>>

\* What a ping of connection n sees: a cancelled connection does not answer.
Reaches(c, n) == n = conn[c] /\ answers[c]

Report(by, c, ok, g, n) == [by |-> by, site |-> c, ok |-> ok, gen |-> g, of |-> n, at |-> "check"]

Answered(c) ==
    /\ asking[c].at = "sent"
    /\ asking' = [asking EXCEPT ![c].at = "answered"]
    /\ reports' = reports \cup {Report("ping", c, Reaches(c, asking[c].of), asking[c].gen, asking[c].of)}
    /\ UNCHANGED <<feedVars, watching, round, siteVars, verdictVars, watch>>

PingDone(c) ==
    /\ asking[c].at = "answered" /\ ~ \E r \in reports : r.by = "ping" /\ r.site = c
    /\ asking' = [asking EXCEPT ![c] = Idle]
    /\ UNCHANGED <<feedVars, watching, round, siteVars, verdictVars, watch, reports>>

RoundAsked ==
    /\ round = "asking" /\ \A c \in Sites : asking[c] = Idle
    /\ round' = "follow"
    /\ UNCHANGED <<feedVars, watching, siteVars, verdictVars, asking, watch, reports>>

\* follow: a sink that is already watched is left alone, another is let go,
\* and the generation of a new one is read after the sink itself.
FollowSink(c) ==
    /\ round = "follow" /\ watch[c].at # "sink" /\ watch[c].of # conn[c]
    /\ watch' = [watch EXCEPT ![c] = IF conn[c] = 0 THEN Idle ELSE [Idle EXCEPT !.at = "sink", !.of = conn[c]]]
    /\ UNCHANGED <<feedVars, watching, round, siteVars, verdictVars, asking, reports>>

FollowGeneration(c) ==
    /\ round = "follow" /\ watch[c].at = "sink"
    /\ watch' = [watch EXCEPT ![c].at = "on", ![c].gen = gen[c]]
    /\ UNCHANGED <<feedVars, watching, round, siteVars, verdictVars, asking, reports>>

Followed ==
    /\ round = "follow" /\ \A c \in Sites : watch[c].at # "sink" /\ watch[c].of = conn[c]
    /\ round' = "wait"
    /\ UNCHANGED <<feedVars, watching, siteVars, verdictVars, asking, watch, reports>>

\* followSink wakes on the token and passes on what the sink last saw.
SinkChanged(c) ==
    /\ watch[c].at = "on" /\ sink[watch[c].of].token
    /\ sink' = [sink EXCEPT ![watch[c].of].token = FALSE]
    /\ reports' = reports \cup {Report("sink", c, sink[watch[c].of].alive, watch[c].gen, watch[c].of)}
    /\ UNCHANGED <<feedVars, watching, round, conn, dials, closing, answers, flips, verdictVars, asking, watch>>

-----------------------------------------------------------------------------
(* The verdict.                                                            *)

\* recordHealthAt gives up when the cluster has no manager.
CheckManager(r) ==
    /\ r.at = "check"
    /\ reports' = (reports \ {r}) \cup (IF conn[r.site] = 0 THEN {} ELSE {[r EXCEPT !.at = "settle"]})
    /\ UNCHANGED <<feedVars, watching, round, siteVars, verdictVars, asking, watch>>

\* A slip: a verdict is taken whatever generation it was asked in.
AnyGeneration(r) == TRUE

Current(r) == gen[r.site] = r.gen

\* A slip: only the last miss is remembered.
MissesOne(c, ok) == IF ok THEN 0 ELSE 1

MissesAfter(c, ok) == IF ok THEN 0 ELSE IF missed[c] < Misses THEN missed[c] + 1 ELSE missed[c]

VerdictHeld(ok, n) == IF ok THEN "up" ELSE IF n >= Misses THEN "down" ELSE "wobbling"

Settle(r) ==
    /\ r.at = "settle"
    /\ reports' = reports \ {r}
    /\ IF Current(r)
       THEN /\ missed' = [missed EXCEPT ![r.site] = MissesAfter(r.site, r.ok)]
            /\ health' = [health EXCEPT ![r.site] =
                   [state |-> VerdictHeld(r.ok, missed'[r.site]), of |-> r.of, by |-> r.by]]
       ELSE UNCHANGED <<missed, health>>
    /\ UNCHANGED <<feedVars, watching, round, siteVars, gen, asking, watch>>

-----------------------------------------------------------------------------
(* Closing and opening, and the cluster itself (external).                 *)

CloseSite(c) ==
    /\ conn[c] # 0
    /\ conn' = [conn EXCEPT ![c] = 0]
    /\ closing' = [closing EXCEPT ![c] = @ + 1]
    /\ UNCHANGED <<feedVars, watching, round, dials, answers, flips, verdictVars, asking, sink, watch, reports>>

ForgetHealth(c) ==
    /\ closing[c] > 0
    /\ closing' = [closing EXCEPT ![c] = @ - 1]
    /\ gen' = [gen EXCEPT ![c] = @ + 1]
    /\ health' = [health EXCEPT ![c] = Unknown]
    /\ missed' = [missed EXCEPT ![c] = 0]
    /\ UNCHANGED <<feedVars, watching, round, conn, dials, answers, flips, asking, sink, watch, reports>>

OpenSite(c) ==
    /\ conn[c] = 0 /\ dials < MaxDials
    /\ conn' = [conn EXCEPT ![c] = dials + 1]
    /\ dials' = dials + 1
    /\ UNCHANGED <<feedVars, watching, round, closing, answers, flips, verdictVars, asking, sink, watch, reports>>

\* A request on the open connection tells its sink what it saw; the token is
\* left only when that is news. Requests of a closed one end cancelled, which
\* Saw ignores.
Saw(c) ==
    /\ conn[c] # 0 /\ sink[conn[c]].alive # answers[c]
    /\ sink' = [sink EXCEPT ![conn[c]] = [alive |-> answers[c], token |-> TRUE]]
    /\ UNCHANGED <<feedVars, watching, round, conn, dials, closing, answers, flips, verdictVars, asking, watch, reports>>

Flip(c) ==
    /\ flips < MaxFlips
    /\ flips' = flips + 1
    /\ answers' = [answers EXCEPT ![c] = ~ @]
    /\ UNCHANGED <<feedVars, watching, round, conn, dials, closing, verdictVars, asking, sink, watch, reports>>

PingerStep ==
    \/ StopIfIdle \/ SessionChanged \/ Tick \/ PingEveryCluster \/ RoundAsked \/ Followed
    \/ \E c \in Sites : ReadGeneration(c) \/ FindManager(c) \/ Answered(c) \/ PingDone(c)
                            \/ FollowSink(c) \/ FollowGeneration(c)

ReportStep == \E r \in reports : CheckManager(r) \/ Settle(r)

HealthNext ==
    \/ PingerStep \/ ReportStep
    \/ \E v \in Viewers : Track(v) \/ WatchCluster(v) \/ ForgetSession(v)
    \/ \E c \in Sites : SinkChanged(c) \/ CloseSite(c) \/ ForgetHealth(c) \/ OpenSite(c) \/ Saw(c) \/ Flip(c)

-----------------------------------------------------------------------------
(* Properties.                                                             *)

\* Whoever has a feed open is pinged for: stopWatchingIfIdle and watchCluster
\* may meet in any order, and no session is left without the goroutine.
SomebodyWatches == \A v \in Viewers : feeds[v] = "live" => watching /\ round # "none"

\* A ping that answers after its cluster was closed, and perhaps opened again,
\* says nothing about the cluster that is open now (closeCluster may still be
\* on its way to forgetHealthOf).
PingsNotStale ==
    \A c \in Sites : health[c].by = "ping" /\ closing[c] = 0 => health[c].of = conn[c]

\* A cluster that has stopped answering for good is called down, as long as
\* somebody looks and it stays open, whatever late reports and missed rounds
\* came before; and one that answers again is called up.
OutageTold ==
    \A c \in Sites :
        /\ <>[](conn[c] # 0 /\ closing[c] = 0 /\ ~ answers[c] /\ \E v \in Viewers : feeds[v] = "live")
               => <>[](health[c].state = "down")
        /\ <>[](conn[c] # 0 /\ closing[c] = 0 /\ answers[c] /\ \E v \in Viewers : feeds[v] = "live")
               => <>[](health[c].state = "up")
=============================================================================
