---------------------------- MODULE SharedCaches ----------------------------
(***************************************************************************)
(* A value that is built once for all who ask within its time to live      *)
(* (recent, fresh, store, buildOnce and shared of                          *)
(* internal/resources/cache.go). Builds fail and panic, readers go away.   *)
(* The second part is the cache of chart versions (internal/charts), which *)
(* shares no state with the first.                                         *)
(***************************************************************************)
EXTENDS Naturals, FiniteSets

CONSTANTS
    Readers,        \* calls of shared
    Ttl,            \* how long a value is fresh
    MaxClock        \* bound on time

VARIABLES
    clock,
    value,           \* recent: when its value was stored, and when its build began; 0 for never
    building,       \* recent.building: the channel of the build under way, 0 for none
    chans,          \* channels made so far
    shut,           \* channels that are closed
    reader          \* per call: where it is, the time it asked, the channel it has, when its build began

cacheVars == <<clock, value, building, chans, shut, reader>>

CacheInit ==
    /\ clock = 1 /\ value = [at |-> 0, from |-> 0] /\ building = 0 /\ chans = 0 /\ shut = {}
    /\ reader = [r \in Readers |-> [at |-> "off", asked |-> 0, ch |-> 0, from |-> 0]]

IsFresh(now) == value.at # 0 /\ now - value.at < Ttl

\* shared reads the clock before it takes the lock.
ReadClock(r) ==
    /\ reader[r].at = "off"
    /\ reader' = [reader EXCEPT ![r].at = "look", ![r].asked = clock]
    /\ UNCHANGED <<clock, value, building, chans, shut>>

\* A slip: whoever finds no fresh value builds one.
BuildsToo == TRUE

NobodyBuilds == building = 0

Look(r) ==
    /\ reader[r].at = "look"
    /\ \/ /\ IsFresh(reader[r].asked)
          /\ reader' = [reader EXCEPT ![r].at = "served", ![r].from = value.from]
          /\ UNCHANGED <<building, chans>>
       \/ /\ ~ IsFresh(reader[r].asked) /\ NobodyBuilds
          /\ building' = chans + 1 /\ chans' = chans + 1
          /\ reader' = [reader EXCEPT ![r].at = "build", ![r].ch = chans + 1, ![r].from = clock]
       \/ /\ ~ IsFresh(reader[r].asked) /\ ~ NobodyBuilds
          /\ reader' = [reader EXCEPT ![r].at = "wait", ![r].ch = building]
          /\ UNCHANGED <<building, chans>>
    /\ UNCHANGED <<clock, value, shut>>

\* A slip: what a build left is kept only when it is worth keeping, and so is
\* the channel closed.
WokenIfKept(keep) == IF keep THEN shut \cup {building} ELSE shut

Woken(keep) == shut \cup {building}

\* buildOnce stores in a defer: a build that is not worth keeping, or that
\* panics, wakes those who wait as well.
Built(r) ==
    /\ reader[r].at = "build"
    /\ \E keep \in BOOLEAN :
           /\ value' = IF keep THEN [at |-> clock, from |-> reader[r].from] ELSE value
           /\ shut' = Woken(keep)
    /\ building' = 0
    /\ reader' = [reader EXCEPT ![r].at = "served"]
    /\ UNCHANGED <<clock, chans>>

\* Whoever waited asks again.
WokenUp(r) ==
    /\ reader[r].at = "wait" /\ reader[r].ch \in shut
    /\ reader' = [reader EXCEPT ![r].at = "off", ![r].ch = 0]
    /\ UNCHANGED <<clock, value, building, chans, shut>>

GoesAway(r) ==
    /\ reader[r].at = "wait"
    /\ reader' = [reader EXCEPT ![r].at = "left"]
    /\ UNCHANGED <<clock, value, building, chans, shut>>

PassTime ==
    /\ clock < MaxClock
    /\ clock' = clock + 1
    /\ UNCHANGED <<value, building, chans, shut, reader>>

ReaderStep(r) == ReadClock(r) \/ Look(r) \/ Built(r) \/ WokenUp(r)

CacheNext == PassTime \/ \E r \in Readers : ReaderStep(r) \/ GoesAway(r)

-----------------------------------------------------------------------------
(* Properties.                                                             *)

\* However many ask at once, one build runs at a time.
OneBuild == Cardinality({r \in Readers : reader[r].at = "build"}) <= 1

\* Whoever asks is answered or goes away: a build that fails or panics leaves
\* nobody waiting, and the next in line builds.
EveryoneAnswered == \A r \in Readers : reader[r].at = "look" ~> reader[r].at \in {"served", "left"}

-----------------------------------------------------------------------------
(* The cache of chart versions (internal/charts/charts.go): one fetch of a   *)
(* chart at a time, whose outcome everybody who asked meanwhile gets, kept   *)
(* for a while when it worked and for a shorter one when it failed; a bound  *)
(* on the charts of registries, and one on the fetches nobody waits for.     *)
(* All charts here are charts of registries, each a unit of its own.         *)

CONSTANTS Askers,      \* requests, and listings that warm the cache
          ChartUnits,       \* charts of a registry
          KeepFor, FailFor, ChartRoom, WarmRoom,
          MaxMoment    \* bound on the clock

ASSUME ChartAssumption ==
  /\ IsFiniteSet(Askers) /\ IsFiniteSet(ChartUnits) /\ ChartUnits # {}
  /\ ChartRoom \in Nat /\ WarmRoom \in Nat /\ MaxMoment \in Nat \ {0}

NeverYet == 0

VARIABLES fetchedAt, failedAt,   \* unit -> when, NeverYet where there is nothing
          versioned,                \* the units whose versions are held
          flying,                \* units that are being fetched
          asker,                 \* asker -> [at, unit, warms]
          warming,               \* slots of warmSlots that are taken
          moment

chartVars == <<fetchedAt, failedAt, versioned, flying, asker, warming, moment>>

Out == [at |-> "out", unit |-> CHOOSE u \in ChartUnits : TRUE, warms |-> FALSE]

ChartTypeOK ==
  /\ fetchedAt \in [ChartUnits -> 0..MaxMoment] /\ failedAt \in [ChartUnits -> 0..MaxMoment]
  /\ versioned \subseteq ChartUnits /\ flying \subseteq ChartUnits
  /\ asker \in [Askers -> [at : {"out", "begin", "lead", "wait", "read"}, unit : ChartUnits, warms : BOOLEAN]]
  /\ warming \in 0..WarmRoom /\ moment \in 1..MaxMoment

ChartInit ==
  /\ fetchedAt = [u \in ChartUnits |-> NeverYet] /\ failedAt = [u \in ChartUnits |-> NeverYet]
  /\ versioned = {} /\ flying = {}
  /\ asker = [a \in Askers |-> Out]
  /\ warming = 0 /\ moment = 1

FreshChart(u) == fetchedAt[u] # NeverYet /\ moment - fetchedAt[u] < KeepFor
FailedLately(u) == failedAt[u] # NeverYet /\ moment - failedAt[u] < FailFor

AskChart(a, u) ==
  /\ asker[a].at = "out"
  /\ asker' = [asker EXCEPT ![a] = [at |-> "begin", unit |-> u, warms |-> FALSE]]
  /\ UNCHANGED <<fetchedAt, failedAt, versioned, flying, warming, moment>>

\* Warm takes a slot, or gives up at once.
WarmChart(a, u) ==
  /\ asker[a].at = "out"
  /\ warming < WarmRoom
  /\ warming' = warming + 1
  /\ asker' = [asker EXCEPT ![a] = [at |-> "begin", unit |-> u, warms |-> TRUE]]
  /\ UNCHANGED <<fetchedAt, failedAt, versioned, flying, moment>>

SlotBack(a, over) == IF asker[a].warms /\ over THEN warming - 1 ELSE warming

\* begin: a fresh list or a fresh failure is an answer; otherwise the asker
\* fetches, or waits for the one who does.  Nobody waits to warm the cache.
BeginFetch(a) ==
  LET u == asker[a].unit
      known == FreshChart(u) \/ FailedLately(u)
      leads == ~ known /\ u \notin flying
      place == CASE leads -> "lead"
                 [] ~ leads /\ asker[a].warms -> "out"
                 [] known /\ ~ asker[a].warms -> IF FreshChart(u) THEN "read" ELSE "out"
                 [] OTHER -> "wait"
  IN /\ asker[a].at = "begin"
     /\ asker' = [asker EXCEPT ![a].at = place]
     /\ flying' = IF leads THEN flying \cup {u} ELSE flying
     /\ failedAt' = IF known THEN failedAt ELSE [failedAt EXCEPT ![u] = NeverYet]
     /\ warming' = SlotBack(a, ~ leads)
     /\ UNCHANGED <<fetchedAt, versioned, moment>>

\* ociAccessTimes: a failure counts as much as a list, and later than it.
Touched(fetched, failed) == [u \in ChartUnits |-> IF failed[u] # NeverYet THEN failed[u] ELSE fetched[u]]

\* evictOCI: the oldest go until there is room, in any order where they are
\* of one age.
Evicted(fetched, failed) ==
  LET at == Touched(fetched, failed)
      kept == {u \in ChartUnits : at[u] # NeverYet}
      over == IF Cardinality(kept) > ChartRoom THEN Cardinality(kept) - ChartRoom ELSE 0
  IN {gone \in SUBSET kept : Cardinality(gone) = over /\ \A u \in gone, v \in kept \ gone : at[u] =< at[v]}

\* complete: the outcome is kept, the cache is brought back to its bound and
\* everybody who waits gets the outcome, all in one section.
Complete(a, worked) ==
  LET u == asker[a].unit
      fetched == IF worked THEN [fetchedAt EXCEPT ![u] = moment] ELSE fetchedAt
      failed == [failedAt EXCEPT ![u] = IF worked THEN NeverYet ELSE moment]
      told == {b \in Askers : asker[b].at = "wait" /\ asker[b].unit = u} \cup {a}
  IN /\ asker[a].at = "lead"
     /\ flying' = flying \ {u}
     /\ \E gone \in Evicted(fetched, failed) :
          /\ fetchedAt' = [v \in ChartUnits |-> IF v \in gone THEN NeverYet ELSE fetched[v]]
          /\ failedAt' = [v \in ChartUnits |-> IF v \in gone THEN NeverYet ELSE failed[v]]
          /\ versioned' = (IF worked THEN versioned \cup {u} ELSE versioned) \ gone
     /\ warming' = SlotBack(a, TRUE)
     /\ asker' = [b \in Askers |-> IF b \notin told THEN asker[b]
                                   ELSE [asker[b] EXCEPT !.at = IF worked /\ ~ asker[b].warms THEN "read" ELSE "out"]]
     /\ UNCHANGED moment

\* Versions reads the list in a section of its own: it may be gone again.
ReadVersions(a) ==
  /\ asker[a].at = "read"
  /\ asker' = [asker EXCEPT ![a].at = "out"]
  /\ UNCHANGED <<fetchedAt, failedAt, versioned, flying, warming, moment>>

\* The request of one who waits is given up.
GiveUpWaiting(a) ==
  /\ asker[a].at = "wait"
  /\ asker' = [asker EXCEPT ![a].at = "out"]
  /\ UNCHANGED <<fetchedAt, failedAt, versioned, flying, warming, moment>>

PassMoment ==
  /\ moment < MaxMoment
  /\ moment' = moment + 1
  /\ UNCHANGED <<fetchedAt, failedAt, versioned, flying, asker, warming>>

ChartNext ==
  \/ \E a \in Askers, u \in ChartUnits : AskChart(a, u) \/ WarmChart(a, u)
  \/ \E a \in Askers : BeginFetch(a) \/ ReadVersions(a) \/ GiveUpWaiting(a)
  \/ \E a \in Askers, worked \in BOOLEAN : Complete(a, worked)
  \/ PassMoment

\* A registry is asked for a chart by one request at a time, and whoever
\* waits waits for a fetch that is under way (begin, complete).
OneFetchPerChart ==
  /\ \A u \in ChartUnits : Cardinality({a \in Askers : asker[a].at = "lead" /\ asker[a].unit = u}) = IF u \in flying THEN 1 ELSE 0
  /\ \A a \in Askers : asker[a].at = "wait" => asker[a].unit \in flying

\* The cache of registries is never over its bound once a fetch is complete,
\* and holds no list of a chart that it would not also evict.
ChartsWithinRoom ==
  /\ Cardinality({u \in ChartUnits : Touched(fetchedAt, failedAt)[u] # NeverYet}) =< ChartRoom
  /\ \A u \in versioned : fetchedAt[u] # NeverYet

\* A slot of the fetches nobody waits for is taken exactly while one of them
\* runs (Warm): otherwise the list of releases would stop learning versions.
WarmSlotsReturn ==
  warming = Cardinality({a \in Askers : asker[a].warms /\ asker[a].at \in {"begin", "lead"}})
=============================================================================
