---------------------------- MODULE PortForward ----------------------------
(***************************************************************************)
(* The registry of port forwards (internal/portforward/registry.go), for   *)
(* one target and port: forwards to different targets never meet.          *)
(*                                                                         *)
(* Start runs one call at a time; a run is the goroutine that carries the  *)
(* traffic; watch sees it end; the reaper moves a forward whose pod is     *)
(* gone to another pod, from a list it took without holding r.mu since.    *)
(* Probes, name resolution and runs answer as they please.                 *)
(***************************************************************************)
EXTENDS Integers, FiniteSets

CONSTANTS
    Starts,       \* calls of Start
    None,
    MaxForwards,  \* bound on the forwards registered
    MaxRuns       \* bound on the runs launched

ASSUME ForwardAssumption ==
    /\ None \notin Starts
    /\ MaxForwards \in Nat /\ MaxRuns \in Nat

Forwards == 1 .. MaxForwards
Runs     == 1 .. MaxRuns

VARIABLES
    state,     \* "unused", "running", "failed", or "gone" from r.forwards
    current,   \* the run of each forward, or 0
    replacing, \* forwards being moved
    sequence,  \* forwards registered so far
    starting,  \* the call that holds the reservation, or None
    stopped,
    launched,  \* runs launched so far
    up,        \* runs that have not returned
    broke,     \* runs that returned an error
    halted,    \* runs told to stop
    watched,   \* runs that have a watch goroutine
    owner,     \* the forward each watch is for, or 0
    pc,        \* where each Start is
    leader,    \* the call whose release it waits for, or None
    mine,      \* the run it launched, or 0
    todo,      \* running forwards the reaper listed and has yet to look at
    at,        \* where the reaper is
    moving,    \* the forward it is moving, or 0
    moved      \* the run it launched for it, or 0

table  == <<state, current, replacing, sequence>>
runs   == <<launched, up, broke, halted, watched, owner>>
calls  == <<pc, leader, mine>>
reaper == <<todo, at, moving, moved>>
forwardVars   == <<table, starting, stopped, runs, calls, reaper>>

\* The state is well formed, and a reservation belongs to a Start under way.
ForwardTypeOK ==
    /\ state \in [Forwards -> {"unused", "running", "failed", "gone"}]
    /\ current \in [Forwards -> 0 .. MaxRuns]
    /\ replacing \subseteq Forwards /\ sequence \in 0 .. MaxForwards
    /\ starting \in Starts \cup {None} /\ stopped \in BOOLEAN
    /\ launched \in 0 .. MaxRuns
    /\ up \subseteq Runs /\ broke \subseteq Runs /\ halted \subseteq Runs /\ watched \subseteq Runs
    /\ owner \in [Runs -> 0 .. MaxForwards]
    /\ pc \in [Starts -> {"idle", "waiting", "resolving", "launching", "ending", "done"}]
    /\ leader \in [Starts -> Starts \cup {None}] /\ mine \in [Starts -> 0 .. MaxRuns]
    /\ todo \subseteq Forwards /\ at \in {"rest", "probe", "resolve", "move", "launched"}
    /\ moving \in 0 .. MaxForwards /\ moved \in 0 .. MaxRuns
    /\ starting # None => pc[starting] \in {"resolving", "launching", "ending"}

ForwardInit ==
    /\ state = [f \in Forwards |-> "unused"] /\ current = [f \in Forwards |-> 0]
    /\ replacing = {} /\ sequence = 0 /\ starting = None /\ stopped = FALSE
    /\ launched = 0 /\ up = {} /\ broke = {} /\ halted = {} /\ watched = {}
    /\ owner = [r \in Runs |-> 0]
    /\ pc = [c \in Starts |-> "idle"] /\ leader = [c \in Starts |-> None]
    /\ mine = [c \in Starts |-> 0]
    /\ todo = {} /\ at = "rest" /\ moving = 0 /\ moved = 0

Present(f)     == state[f] \in {"running", "failed"}
Goto(c, place) == pc' = [pc EXCEPT ![c] = place]

\* safe.Go of runner.Run.
Launch ==
    /\ launched < MaxRuns
    /\ launched' = launched + 1
    /\ up' = up \cup {launched'}

\* safe.Go of watch.
StartWatch(f, r) == watched' = watched \cup {r} /\ owner' = [owner EXCEPT ![r] = f]

\* halt: at most once, by its sync.Once.
Halt(S) == halted' = halted \cup S

-----------------------------------------------------------------------------
(* Start.                                                                  *)

\* reserve: refused, answered with the running forward, told to wait, or first.
Reserve(c) ==
    /\ pc[c] = "idle"
    /\ \/ /\ stopped \/ \E f \in Forwards : state[f] = "running"
          /\ Goto(c, "done") /\ UNCHANGED <<leader, starting>>
       \/ /\ ~ stopped /\ \A f \in Forwards : state[f] # "running"
          /\ \/ /\ starting # None
                /\ Goto(c, "waiting") /\ leader' = [leader EXCEPT ![c] = starting]
                /\ starting' = starting
             \/ /\ starting = None
                /\ starting' = c /\ Goto(c, "resolving") /\ leader' = leader
    /\ UNCHANGED <<table, stopped, runs, mine, reaper>>

\* reserveStart: the reservation waited for is gone, try again ...
Wake(c) ==
    /\ pc[c] = "waiting" /\ starting # leader[c]
    /\ Goto(c, "idle")
    /\ leader' = [leader EXCEPT ![c] = None]
    /\ UNCHANGED <<table, starting, stopped, runs, mine, reaper>>

\* ... or the caller gives up.
GiveUp(c) ==
    /\ pc[c] = "waiting"
    /\ Goto(c, "done")
    /\ leader' = [leader EXCEPT ![c] = None]
    /\ UNCHANGED <<table, starting, stopped, runs, mine, reaper>>

\* The target resolves to a pod and a run is launched; or not.
Resolve(c) ==
    /\ pc[c] = "resolving"
    /\ \/ Launch /\ mine' = [mine EXCEPT ![c] = launched'] /\ Goto(c, "launching")
       \/ Goto(c, "ending") /\ UNCHANGED <<launched, up, mine>>
    /\ UNCHANGED <<table, starting, stopped, broke, halted, watched, owner, leader, reaper>>

\* A slip: a forward is registered after StopAll.
RegistersAlways == TRUE

\* register refuses once the registry is stopped.
Registers == ~ stopped

\* The run was ready, though it may have returned since: register.
Register(c) ==
    /\ pc[c] = "launching"
    /\ \/ /\ Registers /\ sequence < MaxForwards
          /\ sequence' = sequence + 1
          /\ state' = [state EXCEPT ![sequence'] = "running"]
          /\ current' = [current EXCEPT ![sequence'] = mine[c]]
          /\ StartWatch(sequence', mine[c])
          /\ halted' = halted
       \/ /\ ~ Registers
          /\ Halt({mine[c]})
          /\ UNCHANGED <<sequence, state, current, watched, owner>>
    /\ Goto(c, "ending")
    /\ UNCHANGED <<replacing, starting, stopped, launched, up, broke, leader, mine, reaper>>

\* The run returned early, the caller or the process gave up, or the timeout.
LaunchFails(c) ==
    /\ pc[c] = "launching"
    /\ Halt({mine[c]})
    /\ Goto(c, "ending")
    /\ UNCHANGED <<table, starting, stopped, launched, up, broke, watched, owner, leader, mine, reaper>>

\* release: a reservation StopAll took is not released again.
Release(c) == starting' = IF starting = c THEN None ELSE starting

\* Start returns, through its deferred release.
Return(c) ==
    /\ pc[c] = "ending"
    /\ Release(c)
    /\ Goto(c, "done")
    /\ UNCHANGED <<table, stopped, runs, leader, mine, reaper>>

-----------------------------------------------------------------------------
(* Runs.                                                                   *)

\* A run ends, told to or not, with an error or without.
RunReturns(r) ==
    /\ r \in up
    /\ up' = up \ {r}
    /\ broke' \in {broke, broke \cup {r}}
    /\ UNCHANGED <<table, starting, stopped, launched, halted, watched, owner, calls, reaper>>

\* The run that ended is still the forward's, and nobody is moving it.
Owns(f, r) == current[f] = r /\ f \notin replacing

\* watch: the forward fails with its run, or goes when the run ends well.
Watch(r) ==
    /\ r \in watched /\ r \notin up
    /\ watched' = watched \ {r}
    /\ state' = [state EXCEPT ![owner[r]] =
                    IF ~ Owns(owner[r], r) \/ @ # "running" THEN @
                    ELSE IF r \in broke THEN "failed" ELSE "gone"]
    /\ UNCHANGED <<current, replacing, sequence, starting, stopped, launched, up, broke, halted, owner, calls, reaper>>

-----------------------------------------------------------------------------
(* The reaper.                                                             *)

ReapBegin ==
    /\ at = "rest" /\ ~ stopped
    /\ todo' = {f \in Forwards : state[f] = "running"}
    /\ todo' # {}
    /\ at' = "probe"
    /\ UNCHANGED <<table, starting, stopped, runs, calls, moving, moved>>

\* The probe of the next forward: alive, or its pod is gone.
Probe(f) ==
    /\ at = "probe" /\ f \in todo
    /\ todo' = todo \ {f}
    /\ \/ /\ at' = IF todo' = {} THEN "rest" ELSE "probe"
          /\ UNCHANGED moving
       \/ /\ Present(f) /\ at' = "resolve" /\ moving' = f
    /\ UNCHANGED <<table, starting, stopped, runs, calls, moved>>

\* fail: whatever the forward has become since it was listed.
Fail(f) ==
    /\ state' = IF Present(f) THEN [state EXCEPT ![f] = "failed"] ELSE state
    /\ replacing' = IF Present(f) THEN replacing \ {f} ELSE replacing

NextForward ==
    /\ at' = IF todo = {} THEN "rest" ELSE "probe"
    /\ moving' = 0 /\ moved' = 0

\* The target no longer resolves, or to the same pod.
ReplaceFails ==
    /\ at = "resolve"
    /\ Fail(moving)
    /\ Halt(IF Present(moving) THEN {current[moving]} ELSE {})
    /\ NextForward
    /\ UNCHANGED <<current, sequence, starting, stopped, launched, up, broke, watched, owner, calls, todo>>

\* beginReplace, and the old run is halted.
BeginReplace ==
    /\ at = "resolve"
    /\ \/ /\ ~ stopped /\ Present(moving) /\ moving \notin replacing
          /\ replacing' = replacing \cup {moving}
          /\ Halt({current[moving]})
          /\ at' = "move"
          /\ UNCHANGED <<moving, moved>>
       \/ /\ stopped \/ ~ Present(moving)
          /\ NextForward
          /\ UNCHANGED <<replacing, halted>>
    /\ UNCHANGED <<state, current, sequence, starting, stopped, launched, up, broke, watched, owner, calls, todo>>

\* awaitEnd gives the old run time to end; restart launches the new one.
Restart ==
    /\ at = "move"
    /\ Launch
    /\ moved' = launched'
    /\ at' = "launched"
    /\ UNCHANGED <<table, starting, stopped, broke, halted, watched, owner, calls, todo, moving>>

\* A slip: the forward comes back although it was stopped meanwhile.
AdoptsAlways(f) == TRUE

\* adopt asks again whether the forward is still there.
Adopts(f) == Present(f) /\ ~ stopped

\* The new run was ready, though it may have returned since.
Adopt ==
    /\ at = "launched"
    /\ \/ /\ Adopts(moving)
          /\ current' = [current EXCEPT ![moving] = moved]
          /\ replacing' = replacing \ {moving}
          /\ state' = [state EXCEPT ![moving] = "running"]
          /\ StartWatch(moving, moved)
          /\ halted' = halted
       \/ /\ ~ Adopts(moving)
          /\ Halt({moved})
          /\ UNCHANGED <<current, replacing, state, watched, owner>>
    /\ NextForward
    /\ UNCHANGED <<sequence, starting, stopped, launched, up, broke, calls, todo>>

\* The new run ended early or was not ready in time.
MoveFails ==
    /\ at = "launched"
    /\ Fail(moving)
    /\ Halt({moved} \cup IF Present(moving) THEN {current[moving]} ELSE {})
    /\ NextForward
    /\ UNCHANGED <<current, sequence, starting, stopped, launched, up, broke, watched, owner, calls, todo>>

-----------------------------------------------------------------------------
(* Stop and StopAll.                                                       *)

Stop(f) ==
    /\ Present(f)
    /\ state' = [state EXCEPT ![f] = "gone"]
    /\ Halt({current[f]})
    /\ UNCHANGED <<current, replacing, sequence, starting, stopped, launched, up, broke, watched, owner, calls, reaper>>

\* A slip: the forwards are forgotten and left running.
HaltNone == halted' = halted

\* StopAll halts the run of every forward.
HaltAll == Halt({current[f] : f \in {f \in Forwards : Present(f)}})

\* The root context is done: stopOnShutdown.
StopAll ==
    /\ ~ stopped
    /\ stopped' = TRUE
    /\ state' = [f \in Forwards |-> IF Present(f) THEN "gone" ELSE state[f]]
    /\ HaltAll
    /\ starting' = None
    /\ UNCHANGED <<current, replacing, sequence, launched, up, broke, watched, owner, calls, reaper>>

-----------------------------------------------------------------------------
ForwardNext ==
    \/ \E c \in Starts :
        Reserve(c) \/ Wake(c) \/ GiveUp(c) \/ Resolve(c) \/ Register(c) \/ LaunchFails(c) \/ Return(c)
    \/ \E r \in Runs : RunReturns(r) \/ Watch(r)
    \/ \E f \in Forwards : Probe(f) \/ Stop(f)
    \/ ReapBegin \/ ReplaceFails \/ BeginReplace \/ Restart \/ Adopt \/ MoveFails \/ StopAll

ForwardSpec == ForwardInit /\ [][ForwardNext]_forwardVars

-----------------------------------------------------------------------------
(* What the registry promises.                                             *)

\* A run that carries traffic and was not told to stop is a registered
\* forward's, or in the hands of the call or the reaper that launched it.
NoRunLeaks ==
    \A r \in up \ halted :
        \/ \E f \in Forwards : Present(f) /\ current[f] = r
        \/ \E c \in Starts : pc[c] = "launching" /\ mine[c] = r
        \/ at = "launched" /\ moved = r

\* A forward the user sees as running has a run that was not told to stop, or
\* is being moved: a stale run never fails or removes its replacement.
RunningIsReal ==
    \A f \in Forwards :
        state[f] = "running" /\ f \notin replacing =>
            current[f] \in watched /\ current[f] \notin halted

\* What carries traffic is shown and what is shown carries traffic, while starts,
\* stops, failing runs and the reaper meet (Start, watch, reap, Stop).
ForwardSound == ForwardTypeOK /\ NoRunLeaks /\ RunningIsReal

\* A forward that was stopped, or ended well, never comes back: not when the
\* reaper was moving it, and not after StopAll.
StoppedStays == [][\A f \in Forwards : state[f] = "gone" => state'[f] = "gone"]_forwardVars

\* After StopAll everything ends, whatever was being started or moved.
StopsAll == stopped ~> (up = {} /\ \A f \in Forwards : ~ Present(f))

\* Every Start returns: a reservation is always given back.
StartReturns == \A c \in Starts : (pc[c] # "idle") ~> (pc[c] = "done")

\* Every Start returns, and after StopAll everything ends.
ForwardsEnd == StopsAll /\ StartReturns

=============================================================================
