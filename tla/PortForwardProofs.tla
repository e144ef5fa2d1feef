------------------------- MODULE PortForwardProofs -------------------------
(***************************************************************************)
(* The safety of the registry of port forwards, for any number of Starts,  *)
(* forwards and runs: what carries traffic is shown, what is shown carries *)
(* traffic, and what was stopped stays stopped.                            *)
(***************************************************************************)
EXTENDS PortForward, TLAPS

\* Runs are numbered as they are launched, forwards as they are registered;
\* nothing refers to a number that was not given out yet.
Numbered ==
    /\ \A r \in up \cup watched \cup halted : r <= launched
    /\ \A f \in Forwards : current[f] <= launched
    /\ \A c \in Starts : mine[c] <= launched
    /\ moved <= launched
    /\ \A f \in Forwards : (f <= sequence <=> state[f] # "unused") /\ (f <= sequence <=> current[f] # 0)
    /\ \A f \in todo : f <= sequence
    /\ moving <= sequence

\* A run in the hands of the Start that launched it is nobody else's.
StartsOwn ==
    \A c \in Starts : pc[c] = "launching" =>
        /\ mine[c] # 0 /\ mine[c] \notin watched \cup halted
        /\ \A f \in Forwards : current[f] # mine[c]
        /\ \A d \in Starts \ {c} : pc[d] = "launching" => mine[d] # mine[c]
        /\ at = "launched" => moved # mine[c]

\* Neither is the one the reaper launched.
ReaperOwns ==
    at = "launched" =>
        /\ moved # 0 /\ moved \notin watched \cup halted
        /\ \A f \in Forwards : current[f] # moved

\* While the reaper moves a forward its old run is told to stop, and the
\* forward is marked; a mark on a forward that is still there is the reaper's.
Marked ==
    /\ at \in {"resolve", "move", "launched"} => moving # 0
    /\ at \in {"move", "launched"} => moving \in replacing /\ current[moving] \in halted
    /\ \A f \in replacing : Present(f) => at \in {"move", "launched"} /\ moving = f

\* A run belongs to one forward, the one its watch is for.
OneForwardEach ==
    /\ \A f, g \in Forwards : current[f] # 0 /\ current[f] = current[g] => f = g
    /\ \A f \in Forwards : current[f] \in watched => owner[current[f]] = f

\* Marks are on forwards that were registered.
OnlyRegistered == \A f \in replacing : state[f] # "unused"

\* StopAll leaves no forward there.
StoppedIsEmpty == stopped => \A f \in Forwards : ~ Present(f)

ForwardIInv ==
    /\ OnlyRegistered /\ StoppedIsEmpty
    /\ ForwardTypeOK /\ Numbered /\ StartsOwn /\ ReaperOwns /\ Marked /\ OneForwardEach
    /\ NoRunLeaks /\ RunningIsReal

-----------------------------------------------------------------------------
(* What the invariant says of runs and forwards before a step.             *)

\* Runs and forwards are numbered from one; zero stands for none.
LEMMA NumbersType ==
    /\ 0 \in 0 .. MaxRuns /\ Runs \subseteq 0 .. MaxRuns /\ \A r \in 0 .. MaxRuns : r # 0 => r \in Runs
    /\ 0 \in 0 .. MaxForwards /\ Forwards \subseteq 0 .. MaxForwards
    /\ \A f \in 0 .. MaxForwards : f # 0 => f \in Forwards
BY ForwardAssumption DEF Runs, Forwards

\* The run of a forward that is there, and those in hand, are runs; the reaper
\* is moving a forward.
LEMMA HeldRuns ==
    ASSUME ForwardIInv
    PROVE  /\ \A f \in Forwards : Present(f) => current[f] \in Runs
           /\ \A c \in Starts : pc[c] = "launching" => mine[c] \in Runs
           /\ at = "launched" => moved \in Runs
           /\ at \in {"resolve", "move", "launched"} => moving \in Forwards
BY NumbersType DEF ForwardIInv, ForwardTypeOK, Numbered, StartsOwn, ReaperOwns, Marked, Present

\* A new run has a number nothing refers to.
LEMMA NewRun ==
    ASSUME ForwardIInv, Launch
    PROVE  /\ launched' = launched + 1 /\ launched' \in Runs /\ launched' \in 0 .. MaxRuns
           /\ up' = up \cup {launched'}
           /\ launched' \notin up \cup watched \cup halted
           /\ \A f \in Forwards : current[f] # launched'
           /\ \A c \in Starts : mine[c] # launched'
           /\ moved # launched'
<1>1. launched' = launched + 1 /\ up' = up \cup {launched'} /\ launched \in 0 .. MaxRuns /\ launched < MaxRuns
  BY DEF Launch, ForwardIInv, ForwardTypeOK
<1>2. launched' \in Runs
  BY <1>1, ForwardAssumption DEF Runs
<1> QED BY <1>1, <1>2, ForwardAssumption DEF ForwardIInv, ForwardTypeOK, Numbered, Runs

\* register gives a forward a number nothing refers to ...
LEMMA Registering ==
    ASSUME ForwardIInv, NEW c \in Starts, Register(c), Registers
    PROVE  \E n \in Forwards :
             /\ n \in 0 .. MaxForwards /\ sequence' = n /\ n = sequence + 1
             /\ state[n] = "unused" /\ current[n] = 0 /\ n # moving
             /\ state' = [state EXCEPT ![n] = "running"] /\ current' = [current EXCEPT ![n] = mine[c]]
             /\ watched' = watched \cup {mine[c]} /\ owner' = [owner EXCEPT ![mine[c]] = n]
             /\ halted' = halted
<1>1. sequence < MaxForwards /\ sequence \in 0 .. MaxForwards
  BY DEF Register, ForwardIInv, ForwardTypeOK
<1>2. sequence + 1 \in Forwards /\ sequence + 1 \in 0 .. MaxForwards
  BY <1>1, ForwardAssumption DEF Forwards
<1>3. state[sequence + 1] = "unused" /\ current[sequence + 1] = 0 /\ sequence + 1 # moving
  BY <1>1, <1>2, ForwardAssumption DEF ForwardIInv, ForwardTypeOK, Numbered
<1>4. /\ sequence' = sequence + 1
      /\ state' = [state EXCEPT ![sequence + 1] = "running"] /\ current' = [current EXCEPT ![sequence + 1] = mine[c]]
      /\ watched' = watched \cup {mine[c]} /\ owner' = [owner EXCEPT ![mine[c]] = sequence + 1]
      /\ halted' = halted
  BY DEF Register, StartWatch
<1> QED BY <1>2, <1>3, <1>4

\* ... and adopt gives the forward that was moved its new run.
LEMMA Adopting ==
    ASSUME ForwardIInv, Adopt, Adopts(moving)
    PROVE  /\ moving \in Forwards /\ moving \in 0 .. MaxForwards /\ moved \in Runs /\ moved \in 0 .. MaxRuns
           /\ state' = [state EXCEPT ![moving] = "running"] /\ current' = [current EXCEPT ![moving] = moved]
           /\ replacing' = replacing \ {moving} /\ halted' = halted
           /\ watched' = watched \cup {moved} /\ owner' = [owner EXCEPT ![moved] = moving]
BY HeldRuns, NumbersType DEF Adopt, StartWatch

\* StopAll halts runs, those of all forwards that are there.
LEMMA HaltsAll ==
    ASSUME ForwardIInv, HaltAll
    PROVE  /\ halted' \subseteq Runs /\ halted \subseteq halted'
           /\ \A f \in Forwards : Present(f) => current[f] \in halted'
<1>1. halted' = halted \cup {current[f] : f \in {f \in Forwards : Present(f)}}
  BY DEF HaltAll, Halt
<1>2. \A f \in Forwards : Present(f) => current[f] \in Runs
  BY HeldRuns
<1>3. halted \subseteq Runs
  BY DEF ForwardIInv, ForwardTypeOK
<1> QED BY <1>1, <1>2, <1>3

-----------------------------------------------------------------------------
(* Each part of the invariant is kept.                                     *)

\* Every step keeps the types.
LEMMA TypeStep ==
    ASSUME ForwardIInv, [ForwardNext]_forwardVars
    PROVE  ForwardTypeOK'
<1> USE NumbersType, HeldRuns DEF ForwardIInv, ForwardTypeOK, table, runs, calls, reaper, Goto, Halt, StartWatch
<1>1. ASSUME NEW c \in Starts, Reserve(c) PROVE ForwardTypeOK'
  <2>1. starting' \in Starts \cup {None} /\ (starting' # None => pc'[starting'] \in {"resolving", "launching", "ending"})
    BY <1>1 DEF Reserve
  <2>2. pc' \in [Starts -> {"idle", "waiting", "resolving", "launching", "ending", "done"}]
        /\ leader' \in [Starts -> Starts \cup {None}]
    BY <1>1 DEF Reserve
  <2> QED BY <1>1, <2>1, <2>2 DEF Reserve
<1>2. ASSUME NEW c \in Starts, Wake(c) \/ GiveUp(c) \/ Return(c) PROVE ForwardTypeOK'
  BY <1>2, ZenonT(30) DEF Wake, GiveUp, Return, Release
<1>3. ASSUME NEW c \in Starts, Resolve(c) PROVE ForwardTypeOK'
  <2>1. CASE Launch
    <3>1. launched' \in 0 .. MaxRuns /\ up' \subseteq Runs
      BY <2>1, NewRun
    <3>2. pc' \in [Starts -> {"idle", "waiting", "resolving", "launching", "ending", "done"}]
          /\ mine' \in [Starts -> 0 .. MaxRuns]
          /\ (starting' # None => pc'[starting'] \in {"resolving", "launching", "ending"})
      BY <1>3, <3>1 DEF Resolve
    <3> QED BY <1>3, <3>1, <3>2 DEF Resolve
  <2>2. CASE UNCHANGED <<launched, up, mine>>
    BY <1>3, <2>2 DEF Resolve
  <2> QED BY <1>3, <2>1, <2>2 DEF Resolve
<1>4. ASSUME NEW c \in Starts, Register(c) PROVE ForwardTypeOK'
  <2>1. mine[c] \in Runs /\ mine[c] \in 0 .. MaxRuns
    BY <1>4 DEF Register
  <2>2. pc' \in [Starts -> {"idle", "waiting", "resolving", "launching", "ending", "done"}]
        /\ (starting' # None => pc'[starting'] \in {"resolving", "launching", "ending"})
    BY <1>4 DEF Register
  <2>3. /\ state' \in [Forwards -> {"unused", "running", "failed", "gone"}] /\ current' \in [Forwards -> 0 .. MaxRuns]
        /\ sequence' \in 0 .. MaxForwards
        /\ halted' \subseteq Runs /\ watched' \subseteq Runs /\ owner' \in [Runs -> 0 .. MaxForwards]
    <3>1. CASE Registers
      <4>1. PICK n \in Forwards :
              /\ n \in 0 .. MaxForwards /\ sequence' = n
              /\ state' = [state EXCEPT ![n] = "running"] /\ current' = [current EXCEPT ![n] = mine[c]]
              /\ watched' = watched \cup {mine[c]} /\ owner' = [owner EXCEPT ![mine[c]] = n] /\ halted' = halted
        BY <1>4, <3>1, Registering
      <4> QED BY <2>1, <4>1
    <3>2. CASE ~ Registers
      BY <1>4, <2>1, <3>2 DEF Register
    <3> QED BY <3>1, <3>2
  <2> QED BY <1>4, <2>2, <2>3 DEF Register
<1>5. ASSUME NEW c \in Starts, LaunchFails(c) PROVE ForwardTypeOK'
  BY <1>5 DEF LaunchFails
<1>6. ASSUME NEW r \in Runs, RunReturns(r) \/ Watch(r) PROVE ForwardTypeOK'
  <2>1. CASE RunReturns(r)
    BY <2>1 DEF RunReturns
  <2>2. CASE Watch(r)
    BY <2>2 DEF Watch
  <2> QED BY <1>6, <2>1, <2>2
<1>7. ASSUME NEW f \in Forwards, Probe(f) \/ Stop(f) PROVE ForwardTypeOK'
  <2>1. CASE Probe(f)
    BY <2>1 DEF Probe
  <2>2. CASE Stop(f)
    <3>1. state' \in [Forwards -> {"unused", "running", "failed", "gone"}]
      BY <2>2 DEF Stop
    <3>2. halted' \subseteq Runs
      BY <2>2 DEF Stop
    <3> QED BY <2>2, <3>1, <3>2 DEF Stop
  <2> QED BY <1>7, <2>1, <2>2
<1>8. CASE ReapBegin
  BY <1>8 DEF ReapBegin
<1>9. CASE ReplaceFails \/ MoveFails
  BY <1>9, ZenonT(30) DEF ReplaceFails, MoveFails, Fail, NextForward
<1>10. CASE BeginReplace
  BY <1>10 DEF BeginReplace, NextForward
<1>11. CASE Restart
  BY <1>11, NewRun DEF Restart
<1>12. CASE Adopt
  <2>1. moving \in Forwards /\ moving \in 0 .. MaxForwards /\ moved \in Runs /\ moved \in 0 .. MaxRuns
    BY <1>12 DEF Adopt
  <2>2. /\ state' \in [Forwards -> {"unused", "running", "failed", "gone"}] /\ current' \in [Forwards -> 0 .. MaxRuns]
        /\ replacing' \subseteq Forwards
        /\ halted' \subseteq Runs /\ watched' \subseteq Runs /\ owner' \in [Runs -> 0 .. MaxForwards]
    <3>1. CASE Adopts(moving)
      <4>1. /\ state' = [state EXCEPT ![moving] = "running"] /\ current' = [current EXCEPT ![moving] = moved]
            /\ replacing' = replacing \ {moving} /\ halted' = halted
            /\ watched' = watched \cup {moved} /\ owner' = [owner EXCEPT ![moved] = moving]
        BY <1>12, <3>1, Adopting
      <4> QED BY <2>1, <4>1
    <3>2. CASE ~ Adopts(moving)
      BY <1>12, <2>1, <3>2 DEF Adopt
    <3> QED BY <3>1, <3>2
  <2> QED BY <1>12, <2>1, <2>2 DEF Adopt, NextForward
<1>13. CASE StopAll
  <2>1. stopped' \in BOOLEAN
    BY <1>13 DEF StopAll
  <2>2. state' \in [Forwards -> {"unused", "running", "failed", "gone"}]
    BY <1>13 DEF StopAll
  <2>3. halted' \subseteq Runs
    BY <1>13, HaltsAll DEF StopAll
  <2> QED BY <1>13, <2>1, <2>2, <2>3 DEF StopAll
<1>14. CASE UNCHANGED forwardVars
  BY <1>14 DEF forwardVars
<1> QED BY <1>1, <1>2, <1>3, <1>4, <1>5, <1>6, <1>7, <1>8, <1>9, <1>10, <1>11, <1>12, <1>13, <1>14 DEF ForwardNext

\* Numbers are given out in order.
LEMMA NumberedStep ==
    ASSUME ForwardIInv, [ForwardNext]_forwardVars
    PROVE  Numbered'
<1> USE HeldRuns, NumbersType, ForwardAssumption
    DEF ForwardIInv, ForwardTypeOK, Numbered, table, runs, calls, reaper, Goto, Halt
<1>1. ASSUME NEW c \in Starts, Reserve(c) \/ Wake(c) \/ GiveUp(c) \/ LaunchFails(c) \/ Return(c) PROVE Numbered'
  <2>1. CASE Reserve(c)
    BY <2>1 DEF Reserve, Forwards, Runs
  <2>2. CASE Wake(c)
    BY <2>2 DEF Wake, Forwards, Runs
  <2>3. CASE GiveUp(c)
    BY <2>3 DEF GiveUp, Forwards, Runs
  <2>4. CASE LaunchFails(c)
    BY <2>4 DEF LaunchFails, Forwards, Runs
  <2>5. CASE Return(c)
    BY <2>5 DEF Return, Forwards, Runs
  <2> QED BY <1>1, <2>1, <2>2, <2>3, <2>4, <2>5
<1>2. ASSUME NEW c \in Starts, Resolve(c) PROVE Numbered'
  <2>1. CASE Launch
    <3>1. launched' = launched + 1 /\ up' = up \cup {launched'} /\ launched \in Nat
      BY <2>1, NewRun
    <3>2. mine' = [mine EXCEPT ![c] = launched'] \/ mine' = mine
      BY <1>2 DEF Resolve
    <3>3. \A d \in Starts : mine'[d] <= launched'
      BY <3>1, <3>2
    <3>4. \A f \in Forwards : current[f] <= launched'
      BY <3>1
    <3> QED BY <1>2, <3>1, <3>3, <3>4 DEF Resolve
  <2>2. CASE UNCHANGED <<launched, up, mine>>
    BY <1>2, <2>2 DEF Resolve
  <2> QED BY <1>2, <2>1, <2>2 DEF Resolve
<1>3. ASSUME NEW c \in Starts, Register(c) PROVE Numbered'
  <2>1. CASE Registers
    <3>1. PICK n \in Forwards :
            /\ n \in 0 .. MaxForwards /\ sequence' = n /\ n = sequence + 1
            /\ state' = [state EXCEPT ![n] = "running"] /\ current' = [current EXCEPT ![n] = mine[c]]
            /\ watched' = watched \cup {mine[c]} /\ halted' = halted
      BY <1>3, <2>1, Registering
    <3>2. mine[c] # 0 /\ mine[c] <= launched
      BY <1>3 DEF Register, StartsOwn
    <3>3. \A f \in Forwards : current'[f] <= launched
      BY <3>1, <3>2
    <3>4. \A f \in Forwards : (f <= sequence' <=> state'[f] # "unused") /\ (f <= sequence' <=> current'[f] # 0)
      BY <3>1, <3>2 DEF Forwards
    <3>5. UNCHANGED <<launched, up, mine, moved, todo, moving>>
      BY <1>3 DEF Register
    <3>6. \A f \in todo : f <= sequence'
      BY <3>1 DEF Forwards
    <3> QED BY <3>1, <3>2, <3>3, <3>4, <3>5, <3>6
  <2>2. CASE ~ Registers
    BY <1>3, <2>2 DEF Register
  <2> QED BY <2>1, <2>2
<1>4. ASSUME NEW r \in Runs, RunReturns(r) \/ Watch(r) PROVE Numbered'
  <2>1. CASE RunReturns(r)
    BY <2>1 DEF RunReturns, Forwards, Runs
  <2>2. CASE Watch(r)
    BY <2>2 DEF Watch, Forwards, Runs
  <2> QED BY <1>4, <2>1, <2>2
<1>5. ASSUME NEW f \in Forwards, Probe(f) \/ Stop(f) PROVE Numbered'
  <2>1. CASE Probe(f)
    BY <2>1 DEF Probe, Present, Forwards, Runs
  <2>2. CASE Stop(f)
    BY <2>2 DEF Stop, Present, Forwards, Runs
  <2> QED BY <1>5, <2>1, <2>2
<1>6. CASE ReapBegin
  BY <1>6 DEF ReapBegin
<1>7. CASE ReplaceFails \/ MoveFails
  <2>1. moving \in Forwards /\ (Present(moving) => current[moving] <= launched) /\ moved <= launched
    BY <1>7 DEF ReplaceFails, MoveFails
  <2>2. \A r \in halted' : r <= launched
    BY <1>7, <2>1 DEF ReplaceFails, MoveFails
  <2>3. \A f \in Forwards : state'[f] # "unused" <=> state[f] # "unused"
    BY <1>7, <2>1 DEF ReplaceFails, MoveFails, Fail, Present
  <2>4. moved' = 0 /\ moving' = 0 /\ UNCHANGED <<launched, up, watched, current, sequence, mine, todo>>
    BY <1>7 DEF ReplaceFails, MoveFails, NextForward
  <2>5. \A r \in up' \cup watched' \cup halted' : r <= launched'
    BY <2>2, <2>4
  <2> QED BY <2>3, <2>4, <2>5
<1>8. CASE BeginReplace
  BY <1>8 DEF BeginReplace, NextForward
<1>9. CASE Restart
  <2>1. launched' = launched + 1 /\ up' = up \cup {launched'} /\ moved' = launched'
    BY <1>9, NewRun DEF Restart
  <2>2. UNCHANGED <<state, watched, halted, current, sequence, mine, todo, moving>>
    BY <1>9 DEF Restart
  <2> QED BY <2>1, <2>2
<1>10. CASE Adopt
  <2>1. CASE Adopts(moving)
    <3>1. moved # 0 /\ moved <= launched /\ state[moving] # "unused"
      BY <1>10, <2>1 DEF Adopt, ReaperOwns, Adopts, Present
    <3>2. \A f \in Forwards : (f <= sequence <=> state'[f] # "unused") /\ (f <= sequence <=> current'[f] # 0)
      BY <1>10, <2>1, <3>1, Adopting
    <3>3. \A f \in Forwards : current'[f] <= launched
      BY <1>10, <2>1, <3>1, Adopting
    <3>4. \A r \in watched' : r <= launched
      BY <1>10, <2>1, <3>1, Adopting, ZenonT(30)
    <3> QED BY <1>10, <2>1, <3>1, <3>2, <3>3, <3>4, Adopting DEF Adopt, NextForward
  <2>2. CASE ~ Adopts(moving)
    BY <1>10, <2>2 DEF Adopt, NextForward
  <2> QED BY <2>1, <2>2
<1>11. CASE StopAll
  BY <1>11 DEF StopAll, HaltAll, Present, Forwards, Runs
<1>12. CASE UNCHANGED forwardVars
  BY <1>12 DEF forwardVars
<1> QED BY <1>1, <1>2, <1>3, <1>4, <1>5, <1>6, <1>7, <1>8, <1>9, <1>10, <1>11, <1>12 DEF ForwardNext

\* The run a Start has in hand is halted, watched or registered by that Start only.
LEMMA StartsOwnStep ==
    ASSUME ForwardIInv, [ForwardNext]_forwardVars
    PROVE  StartsOwn'
<1> USE HeldRuns DEF ForwardIInv, ForwardTypeOK, StartsOwn, table, runs, calls, reaper, Goto, Halt
<1>1. ASSUME NEW c \in Starts, Reserve(c) PROVE StartsOwn'
  BY <1>1 DEF Reserve
<1>2. ASSUME NEW c \in Starts, Wake(c) PROVE StartsOwn'
  BY <1>2 DEF Wake
<1>3. ASSUME NEW c \in Starts, GiveUp(c) PROVE StartsOwn'
  BY <1>3 DEF GiveUp
<1>4. ASSUME NEW c \in Starts, Return(c) PROVE StartsOwn'
  BY <1>4 DEF Return
<1>5. ASSUME NEW c \in Starts, Resolve(c) PROVE StartsOwn'
  <2>1. CASE Launch /\ mine' = [mine EXCEPT ![c] = launched'] /\ Goto(c, "launching")
    <3> DEFINE r == launched'
    <3>1. /\ r \in Runs /\ r \notin watched \cup halted /\ moved # r
          /\ \A f \in Forwards : current[f] # r
          /\ \A d \in Starts : mine[d] # r
      BY <2>1, NewRun
    <3>4. r # 0
      BY <3>1 DEF Runs
    <3>2. UNCHANGED <<watched, halted, current, at, moved>>
      BY <1>5 DEF Resolve
    <3>3. mine' = [mine EXCEPT ![c] = r] /\ pc' = [pc EXCEPT ![c] = "launching"]
      BY <2>1
    <3> HIDE DEF r
    <3> QED BY <3>1, <3>2, <3>3, <3>4
  <2>2. CASE Goto(c, "ending") /\ UNCHANGED <<launched, up, mine>>
    BY <1>5, <2>2 DEF Resolve
  <2> QED BY <1>5, <2>1, <2>2 DEF Resolve
<1>6. ASSUME NEW c \in Starts, Register(c) PROVE StartsOwn'
  <2>1. pc' = [pc EXCEPT ![c] = "ending"] /\ UNCHANGED <<mine, at, moved>>
    BY <1>6 DEF Register
  <2>2. CASE Registers
    <3>1. PICK n \in Forwards :
            /\ current' = [current EXCEPT ![n] = mine[c]]
            /\ watched' = watched \cup {mine[c]} /\ halted' = halted
      BY <1>6, <2>2, Registering
    <3>2. \A d \in Starts : pc'[d] = "launching" => pc[d] = "launching" /\ d # c /\ mine[d] # mine[c]
      BY <1>6, <2>1 DEF Register
    <3> QED BY <2>1, <3>1, <3>2
  <2>3. CASE ~ Registers
    BY <1>6, <2>1, <2>3 DEF Register
  <2> QED BY <2>2, <2>3
<1>7. ASSUME NEW c \in Starts, LaunchFails(c) PROVE StartsOwn'
  BY <1>7 DEF LaunchFails
<1>8. ASSUME NEW r \in Runs, RunReturns(r) PROVE StartsOwn'
  BY <1>8 DEF RunReturns
<1>9. ASSUME NEW r \in Runs, Watch(r) PROVE StartsOwn'
  BY <1>9 DEF Watch
<1>10. ASSUME NEW f \in Forwards, Probe(f) PROVE StartsOwn'
  BY <1>10 DEF Probe
<1>11. ASSUME NEW f \in Forwards, Stop(f) PROVE StartsOwn'
  BY <1>11 DEF Stop
<1>12. CASE ReapBegin
  BY <1>12 DEF ReapBegin
<1>13. CASE ReplaceFails
  BY <1>13 DEF ReplaceFails, NextForward
<1>14. CASE BeginReplace
  BY <1>14 DEF BeginReplace, NextForward
<1>15. CASE Restart
  BY <1>15, NewRun DEF Restart
<1>16. CASE Adopt
  <2>1. CASE Adopts(moving)
    BY <1>16, <2>1, Adopting DEF Adopt, NextForward
  <2>2. CASE ~ Adopts(moving)
    BY <1>16, <2>2 DEF Adopt, NextForward
  <2> QED BY <2>1, <2>2
<1>17. CASE MoveFails
  BY <1>17 DEF MoveFails, NextForward
<1>18. CASE StopAll
  BY <1>18 DEF StopAll, HaltAll
<1>19. CASE UNCHANGED forwardVars
  BY <1>19 DEF forwardVars
<1> QED BY <1>1, <1>2, <1>3, <1>4, <1>5, <1>6, <1>7, <1>8, <1>9, <1>10, <1>11, <1>12, <1>13, <1>14, <1>15, <1>16,
       <1>17,
     <1>18, <1>19 DEF ForwardNext

\* Likewise the run the reaper has in hand.
LEMMA ReaperOwnsStep ==
    ASSUME ForwardIInv, [ForwardNext]_forwardVars
    PROVE  ReaperOwns'
<1> USE HeldRuns DEF ForwardIInv, ForwardTypeOK, ReaperOwns, table, runs, calls, reaper, Goto, Halt
<1>1. ASSUME NEW c \in Starts, Reserve(c) \/ Wake(c) \/ GiveUp(c) \/ Resolve(c) \/ Return(c) PROVE ReaperOwns'
  BY <1>1 DEF Reserve, Wake, GiveUp, Resolve, Return
<1>2. ASSUME NEW c \in Starts, Register(c) PROVE ReaperOwns'
  <2>1. UNCHANGED <<at, moved>> /\ (at = "launched" => moved # mine[c])
    BY <1>2 DEF Register, StartsOwn
  <2>2. CASE Registers
    BY <1>2, <2>1, <2>2, Registering
  <2>3. CASE ~ Registers
    BY <1>2, <2>1, <2>3 DEF Register
  <2> QED BY <2>2, <2>3
<1>3. ASSUME NEW c \in Starts, LaunchFails(c) PROVE ReaperOwns'
  BY <1>3 DEF LaunchFails, StartsOwn
<1>4. ASSUME NEW r \in Runs, RunReturns(r) \/ Watch(r) PROVE ReaperOwns'
  BY <1>4 DEF RunReturns, Watch
<1>5. ASSUME NEW f \in Forwards, Probe(f) PROVE ReaperOwns'
  BY <1>5 DEF Probe
<1>6. ASSUME NEW f \in Forwards, Stop(f) PROVE ReaperOwns'
  BY <1>6 DEF Stop
<1>7. CASE ReapBegin
  BY <1>7 DEF ReapBegin
<1>8. CASE ReplaceFails \/ BeginReplace \/ Adopt \/ MoveFails
  <2>1. at' # "launched"
    BY <1>8 DEF ReplaceFails, BeginReplace, Adopt, MoveFails, NextForward
  <2> QED BY <2>1
<1>9. CASE Restart
  <2>1. moved' \in Runs /\ moved' \notin watched \cup halted /\ \A f \in Forwards : current[f] # moved'
    BY <1>9, NewRun DEF Restart
  <2> QED BY <1>9, <2>1 DEF Restart, Runs
<1>10. CASE StopAll
  BY <1>10 DEF StopAll, HaltAll
<1>11. CASE UNCHANGED forwardVars
  BY <1>11 DEF forwardVars
<1> QED BY <1>1, <1>2, <1>3, <1>4, <1>5, <1>6, <1>7, <1>8, <1>9, <1>10, <1>11 DEF ForwardNext

\* Marks are set and taken off by the reaper, for the forward it is moving.
LEMMA MarkedStep ==
    ASSUME ForwardIInv, [ForwardNext]_forwardVars
    PROVE  Marked'
<1> USE HeldRuns DEF ForwardIInv, ForwardTypeOK, Marked, table, runs, calls, reaper, Goto, Halt, Present
<1>1. ASSUME NEW c \in Starts, Reserve(c) \/ Wake(c) \/ GiveUp(c) \/ Resolve(c) \/ Return(c) PROVE Marked'
  BY <1>1 DEF Reserve, Wake, GiveUp, Resolve, Return
<1>2. ASSUME NEW c \in Starts, Register(c) PROVE Marked'
  <2>1. CASE Registers
    <3>1. PICK n \in Forwards :
            /\ state[n] = "unused" /\ n # moving
            /\ state' = [state EXCEPT ![n] = "running"] /\ current' = [current EXCEPT ![n] = mine[c]]
            /\ halted' = halted
      BY <1>2, <2>1, Registering
    <3>2. n \notin replacing
      BY <3>1 DEF OnlyRegistered
    <3>3. UNCHANGED <<replacing, at, moving>>
      BY <1>2 DEF Register
    <3> QED BY <3>1, <3>2, <3>3
  <2>2. CASE ~ Registers
    BY <1>2, <2>2 DEF Register
  <2> QED BY <2>1, <2>2
<1>3. ASSUME NEW c \in Starts, LaunchFails(c) PROVE Marked'
  BY <1>3 DEF LaunchFails
<1>4. ASSUME NEW r \in Runs, RunReturns(r) PROVE Marked'
  BY <1>4 DEF RunReturns
<1>5. ASSUME NEW r \in Runs, Watch(r) PROVE Marked'
  BY <1>5 DEF Watch
<1>6. ASSUME NEW f \in Forwards, Probe(f) PROVE Marked'
  BY <1>6 DEF Probe, Forwards
<1>7. ASSUME NEW f \in Forwards, Stop(f) PROVE Marked'
  BY <1>7 DEF Stop
<1>8. CASE ReapBegin
  BY <1>8 DEF ReapBegin
<1>9. CASE ReplaceFails \/ MoveFails
  <2>1. at' \in {"rest", "probe"} /\ moving \in Forwards /\ Fail(moving)
    BY <1>9 DEF ReplaceFails, MoveFails, NextForward
  <2>2. \A f \in replacing' : state'[f] \notin {"running", "failed"}
    BY <1>9, <2>1 DEF Fail, ReplaceFails, MoveFails
  <2> QED BY <2>1, <2>2
<1>10. CASE BeginReplace
  BY <1>10 DEF BeginReplace, NextForward
<1>11. CASE Restart
  BY <1>11 DEF Restart
<1>12. CASE Adopt
  <2>1. at' \in {"rest", "probe"} /\ moving \in Forwards
    BY <1>12 DEF Adopt, NextForward
  <2>2. CASE Adopts(moving)
    <3>1. \A f \in replacing' : state'[f] \notin {"running", "failed"}
      BY <1>12, <2>2, Adopting DEF Adopt
    <3> QED BY <2>1, <3>1
  <2>3. CASE ~ Adopts(moving)
    <3>1. \A f \in replacing' : state'[f] \notin {"running", "failed"}
      BY <1>12, <2>3 DEF Adopt, Adopts, StoppedIsEmpty
    <3> QED BY <2>1, <3>1
  <2> QED BY <2>2, <2>3
<1>13. CASE StopAll
  <2>1. \A f \in Forwards : state'[f] \notin {"running", "failed"}
    BY <1>13 DEF StopAll
  <2>2. halted \subseteq halted' /\ UNCHANGED <<at, moving, replacing, current>>
    BY <1>13 DEF StopAll, HaltAll
  <2> QED BY <2>1, <2>2
<1>14. CASE UNCHANGED forwardVars
  BY <1>14 DEF forwardVars
<1> QED BY <1>1, <1>2, <1>3, <1>4, <1>5, <1>6, <1>7, <1>8, <1>9, <1>10, <1>11, <1>12, <1>13, <1>14 DEF ForwardNext

\* A run is given to one forward.
LEMMA OneForwardStep ==
    ASSUME ForwardIInv, [ForwardNext]_forwardVars
    PROVE  OneForwardEach'
<1> USE HeldRuns, NumbersType DEF ForwardIInv, ForwardTypeOK, OneForwardEach, table, runs, calls, reaper
<1>1. ASSUME NEW c \in Starts, Reserve(c) \/ Wake(c) \/ GiveUp(c) \/ Resolve(c) \/ LaunchFails(c) \/ Return(c)
      PROVE  OneForwardEach'
  BY <1>1 DEF Reserve, Wake, GiveUp, Resolve, LaunchFails, Return
<1>2. ASSUME NEW c \in Starts, Register(c) PROVE OneForwardEach'
  <2>1. CASE Registers
    <3>1. PICK n \in Forwards :
            /\ current' = [current EXCEPT ![n] = mine[c]]
            /\ watched' = watched \cup {mine[c]} /\ owner' = [owner EXCEPT ![mine[c]] = n]
      BY <1>2, <2>1, Registering
    <3>2. mine[c] \in Runs /\ mine[c] \notin watched /\ \A f \in Forwards : current[f] # mine[c]
      BY <1>2 DEF Register, StartsOwn
    <3>3. \A f, g \in Forwards : current'[f] # 0 /\ current'[f] = current'[g] => f = g
      BY <3>1, <3>2
    <3>4. \A f \in Forwards : current'[f] \in watched' => owner'[current'[f]] = f
      BY <3>1, <3>2
    <3> QED BY <3>3, <3>4
  <2>2. CASE ~ Registers
    BY <1>2, <2>2 DEF Register
  <2> QED BY <2>1, <2>2
<1>3. ASSUME NEW r \in Runs, RunReturns(r) \/ Watch(r) PROVE OneForwardEach'
  BY <1>3 DEF RunReturns, Watch
<1>4. ASSUME NEW f \in Forwards, Probe(f) \/ Stop(f) PROVE OneForwardEach'
  BY <1>4 DEF Probe, Stop
<1>5. CASE ReapBegin \/ ReplaceFails \/ BeginReplace \/ Restart \/ MoveFails \/ StopAll
  BY <1>5 DEF ReapBegin, ReplaceFails, BeginReplace, Restart, MoveFails, StopAll
<1>6. CASE Adopt
  <2>1. CASE Adopts(moving)
    <3>1. /\ moving \in Forwards /\ current' = [current EXCEPT ![moving] = moved]
          /\ watched' = watched \cup {moved} /\ owner' = [owner EXCEPT ![moved] = moving]
      BY <1>6, <2>1, Adopting
    <3>2. moved \in Runs /\ moved \notin watched /\ \A f \in Forwards : current[f] # moved
      BY <1>6 DEF Adopt, ReaperOwns
    <3>3. \A f, g \in Forwards : current'[f] # 0 /\ current'[f] = current'[g] => f = g
      BY <3>1, <3>2
    <3>4. \A f \in Forwards : current'[f] \in watched' => owner'[current'[f]] = f
      BY <3>1, <3>2
    <3> QED BY <3>3, <3>4
  <2>2. CASE ~ Adopts(moving)
    BY <1>6, <2>2 DEF Adopt
  <2> QED BY <2>1, <2>2
<1>7. CASE UNCHANGED forwardVars
  BY <1>7 DEF forwardVars
<1> QED BY <1>1, <1>2, <1>3, <1>4, <1>5, <1>6, <1>7 DEF ForwardNext

\* Whoever gives a forward up, or a run out of its hand, halts the run.
LEMMA NoRunLeaksStep ==
    ASSUME ForwardIInv, [ForwardNext]_forwardVars
    PROVE  NoRunLeaks'
<1> USE DEF NoRunLeaks, table, runs, calls, reaper, Goto, Halt
<1> SUFFICES ASSUME NEW r \in up' \ halted'
             PROVE  \/ \E f \in Forwards : Present(f)' /\ current'[f] = r
                    \/ \E c \in Starts : pc'[c] = "launching" /\ mine'[c] = r
                    \/ at' = "launched" /\ moved' = r
  OBVIOUS
<1> DEFINE Told == \/ \E f \in Forwards : Present(f)' /\ current'[f] = r
                   \/ \E c \in Starts : pc'[c] = "launching" /\ mine'[c] = r
                   \/ at' = "launched" /\ moved' = r
<1>a. r \in up \ halted =>
        \/ \E f \in Forwards : Present(f) /\ current[f] = r
        \/ \E c \in Starts : pc[c] = "launching" /\ mine[c] = r
        \/ at = "launched" /\ moved = r
  BY DEF ForwardIInv
<1>b. /\ pc \in [Starts -> {"idle", "waiting", "resolving", "launching", "ending", "done"}]
      /\ mine \in [Starts -> 0 .. MaxRuns] /\ current \in [Forwards -> 0 .. MaxRuns]
      /\ state \in [Forwards -> {"unused", "running", "failed", "gone"}]
  BY DEF ForwardIInv, ForwardTypeOK
<1>1. ASSUME NEW c \in Starts, Reserve(c) \/ Wake(c) \/ GiveUp(c) \/ Return(c) PROVE Told
  BY <1>1, <1>a, <1>b DEF Reserve, Wake, GiveUp, Return, Present
<1>2. ASSUME NEW c \in Starts, Resolve(c) PROVE Told
  <2>1. pc[c] = "resolving" /\ UNCHANGED <<state, current, halted, at, moved>>
    BY <1>2 DEF Resolve
  <2>2. \A d \in Starts \ {c} : pc'[d] = pc[d] /\ mine'[d] = mine[d]
    BY <1>2, <1>b DEF Resolve
  <2>3. CASE r \in up
    BY <2>1, <2>2, <2>3, <1>a DEF Present
  <2>4. CASE r \notin up
    <3>1. Launch /\ mine' = [mine EXCEPT ![c] = launched'] /\ pc' = [pc EXCEPT ![c] = "launching"]
      BY <1>2, <2>4 DEF Resolve
    <3>2. r = launched'
      BY <2>4, <3>1 DEF Launch
    <3> QED BY <3>1, <3>2, <1>b
  <2> QED BY <2>3, <2>4
<1>3. ASSUME NEW c \in Starts, Register(c) PROVE Told
  <2>1. /\ up' = up /\ halted \subseteq halted' /\ UNCHANGED <<at, moved, mine>>
        /\ \A d \in Starts \ {c} : pc'[d] = pc[d]
    BY <1>3, <1>b DEF Register
  <2>2. CASE Registers
    <3>1. PICK n \in Forwards :
            /\ state[n] = "unused"
            /\ state' = [state EXCEPT ![n] = "running"] /\ current' = [current EXCEPT ![n] = mine[c]]
      BY <1>3, <2>2, Registering
    <3>2. state'[n] = "running" /\ current'[n] = mine[c]
      BY <3>1, <1>b
    <3>3. \A f \in Forwards : Present(f) => Present(f)' /\ current'[f] = current[f]
      BY <3>1, <1>b DEF Present
    <3> QED BY <2>1, <3>2, <3>3, <1>a DEF Present
  <2>3. CASE ~ Registers
    <3>1. mine[c] \in halted' /\ UNCHANGED <<state, current>>
      BY <1>3, <2>3 DEF Register
    <3> QED BY <2>1, <3>1, <1>a DEF Present
  <2> QED BY <2>2, <2>3
<1>4. ASSUME NEW c \in Starts, LaunchFails(c) PROVE Told
  BY <1>4, <1>a, <1>b DEF LaunchFails, Present
<1>5. ASSUME NEW q \in Runs, RunReturns(q) PROVE Told
  BY <1>5, <1>a DEF RunReturns, Present
<1>6. ASSUME NEW q \in Runs, Watch(q) PROVE Told
  <2>1. q \notin up /\ UNCHANGED <<up, halted, current, pc, mine, at, moved>>
    BY <1>6 DEF Watch
  <2>2. \A f \in Forwards : Present(f) /\ current[f] # q => Present(f)'
    BY <1>6, <1>b DEF Watch, Owns, Present
  <2> QED BY <2>1, <2>2, <1>a
<1>7. ASSUME NEW f \in Forwards, Probe(f) PROVE Told
  BY <1>7, <1>a DEF Probe, Present
<1>8. ASSUME NEW f \in Forwards, Stop(f) PROVE Told
  <2>1. /\ current[f] \in halted' /\ halted \subseteq halted' /\ state' = [state EXCEPT ![f] = "gone"]
        /\ UNCHANGED <<up, current, pc, mine, at, moved>>
    BY <1>8 DEF Stop
  <2>2. \A g \in Forwards : Present(g) /\ g # f => Present(g)'
    BY <2>1, <1>b DEF Present
  <2> QED BY <2>1, <2>2, <1>a
<1>9. CASE ReapBegin
  BY <1>9, <1>a DEF ReapBegin, Present
<1>10. CASE ReplaceFails \/ MoveFails
  <2>1. /\ Fail(moving) /\ halted \subseteq halted' /\ UNCHANGED <<up, current, pc, mine>>
        /\ at = "launched" => moved \in halted'
    BY <1>10 DEF ReplaceFails, MoveFails
  <2>2. \A g \in Forwards : Present(g) => Present(g)'
    BY <2>1, <1>b DEF Present, Fail
  <2> QED BY <2>1, <2>2, <1>a
<1>11. CASE BeginReplace
  <2>1. at = "resolve" /\ halted \subseteq halted' /\ UNCHANGED <<up, state, current, pc, mine>>
    BY <1>11 DEF BeginReplace
  <2> QED BY <2>1, <1>a DEF Present
<1>12. CASE Restart
  <2>1. /\ at = "move" /\ at' = "launched" /\ up' = up \cup {moved'}
        /\ UNCHANGED <<state, current, pc, mine, halted>>
    BY <1>12 DEF Restart, Launch
  <2> QED BY <2>1, <1>a DEF Present
<1>13. CASE Adopt
  <2>1. /\ up' = up /\ UNCHANGED <<pc, mine>> /\ moving \in Forwards /\ current[moving] \in halted
        /\ halted \subseteq halted'
    BY <1>13, HeldRuns DEF Adopt, ForwardIInv, Marked
  <2>2. CASE Adopts(moving)
    <3>1. state' = [state EXCEPT ![moving] = "running"] /\ current' = [current EXCEPT ![moving] = moved]
      BY <1>13, <2>2, Adopting
    <3>2. state'[moving] = "running" /\ current'[moving] = moved
      BY <2>1, <3>1, <1>b
    <3>3. \A f \in Forwards \ {moving} : Present(f) => Present(f)' /\ current'[f] = current[f]
      BY <3>1, <1>b DEF Present
    <3> QED BY <2>1, <3>2, <3>3, <1>a DEF Present
  <2>3. CASE ~ Adopts(moving)
    <3>1. moved \in halted' /\ UNCHANGED <<state, current>>
      BY <1>13, <2>3 DEF Adopt
    <3> QED BY <2>1, <3>1, <1>a DEF Present
  <2> QED BY <2>2, <2>3
<1>14. CASE StopAll
  <2>1. UNCHANGED <<up, current, pc, mine, at, moved>>
    BY <1>14 DEF StopAll
  <2>2. halted \subseteq halted' /\ \A f \in Forwards : Present(f) => current[f] \in halted'
    BY <1>14, HaltsAll DEF StopAll
  <2> QED BY <2>1, <2>2, <1>a
<1>15. CASE UNCHANGED forwardVars
  BY <1>15, <1>a DEF forwardVars, Present
<1> QED BY <1>1, <1>2, <1>3, <1>4, <1>5, <1>6, <1>7, <1>8, <1>9, <1>10, <1>11, <1>12, <1>13, <1>14, <1>15
       DEF ForwardNext


\* A run that is shown is halted only by whoever takes the forward off the list,
\* marks it or marks it failed; its watch leaves it failed or gone.
LEMMA RunningStep ==
    ASSUME ForwardIInv, [ForwardNext]_forwardVars
    PROVE  RunningIsReal'
<1> USE DEF table, runs, calls, reaper, Halt
<1> SUFFICES ASSUME NEW f \in Forwards, state'[f] = "running", f \notin replacing'
             PROVE  current'[f] \in watched' /\ current'[f] \notin halted'
  BY DEF RunningIsReal
<1> DEFINE Carried == current'[f] \in watched' /\ current'[f] \notin halted'
<1>a. state[f] = "running" /\ f \notin replacing => current[f] \in watched /\ current[f] \notin halted
  BY DEF ForwardIInv, RunningIsReal
<1>b. /\ state \in [Forwards -> {"unused", "running", "failed", "gone"}]
      /\ current \in [Forwards -> 0 .. MaxRuns] /\ owner \in [Runs -> 0 .. MaxForwards]
  BY DEF ForwardIInv, ForwardTypeOK
<1>c. \A g \in Forwards : Present(g) /\ g # f => current[g] # current[f]
  BY HeldRuns, ForwardAssumption DEF ForwardIInv, OneForwardEach, Runs
<1>1. ASSUME NEW c \in Starts, Reserve(c) \/ Wake(c) \/ GiveUp(c) \/ Resolve(c) \/ Return(c) PROVE Carried
  BY <1>1, <1>a DEF Reserve, Wake, GiveUp, Resolve, Return
<1>2. ASSUME NEW c \in Starts, Register(c) PROVE Carried
  <2>1. replacing' = replacing /\ mine[c] \notin halted /\ \A g \in Forwards : current[g] # mine[c]
    BY <1>2 DEF Register, ForwardIInv, StartsOwn
  <2>2. CASE Registers
    <3>1. PICK n \in Forwards :
            /\ state' = [state EXCEPT ![n] = "running"] /\ current' = [current EXCEPT ![n] = mine[c]]
            /\ watched' = watched \cup {mine[c]} /\ halted' = halted
      BY <1>2, <2>2, Registering
    <3>2. CASE f = n
      BY <2>1, <3>1, <3>2, <1>b
    <3>3. CASE f # n
      BY <2>1, <3>1, <3>3, <1>a, <1>b
    <3> QED BY <3>2, <3>3
  <2>3. CASE ~ Registers
    BY <1>2, <2>1, <2>3, <1>a DEF Register
  <2> QED BY <2>2, <2>3
<1>3. ASSUME NEW c \in Starts, LaunchFails(c) PROVE Carried
  <2>1. current[f] # mine[c]
    BY <1>3 DEF LaunchFails, ForwardIInv, StartsOwn
  <2> QED BY <1>3, <2>1, <1>a DEF LaunchFails
<1>4. ASSUME NEW r \in Runs, RunReturns(r) PROVE Carried
  BY <1>4, <1>a DEF RunReturns
<1>5. ASSUME NEW r \in Runs, Watch(r) PROVE Carried
  <2>1. /\ watched' = watched \ {r} /\ UNCHANGED <<current, replacing, halted>>
        /\ state[f] = "running"
        /\ f = owner[r] => ~ Owns(f, r)
    BY <1>5, <1>b DEF Watch
  <2>2. current[f] \in watched => owner[current[f]] = f
    BY DEF ForwardIInv, OneForwardEach
  <2> QED BY <2>1, <2>2, <1>a DEF Owns
<1>6. ASSUME NEW g \in Forwards, Probe(g) PROVE Carried
  BY <1>6, <1>a DEF Probe
<1>7. ASSUME NEW g \in Forwards, Stop(g) PROVE Carried
  <2>1. Present(g) /\ g # f /\ state[f] = "running"
    BY <1>7, <1>b DEF Stop
  <2> QED BY <1>7, <2>1, <1>a, <1>c DEF Stop
<1>8. CASE ReapBegin
  BY <1>8, <1>a DEF ReapBegin
<1>9. CASE ReplaceFails \/ MoveFails
  <2>1. /\ moving \in Forwards /\ Fail(moving) /\ UNCHANGED <<current, watched>>
        /\ at = "launched" => current[f] # moved
    BY <1>9, HeldRuns DEF ReplaceFails, MoveFails, ForwardIInv, ReaperOwns
  <2>2. state[f] = "running" /\ f \notin replacing /\ (Present(moving) => f # moving)
    BY <2>1, <1>b DEF Fail, Present
  <2>3. current[f] \notin halted'
    BY <1>9, <2>1, <2>2, <1>a, <1>c DEF ReplaceFails, MoveFails
  <2> QED BY <2>1, <2>2, <2>3, <1>a
<1>10. CASE BeginReplace
  <2>1. CASE replacing' = replacing \cup {moving} /\ halted' = halted \cup {current[moving]} /\ Present(moving)
    <3>1. moving \in Forwards /\ f # moving
      BY <1>10, <2>1, HeldRuns DEF BeginReplace
    <3> QED BY <1>10, <2>1, <3>1, <1>a, <1>c DEF BeginReplace
  <2>2. CASE UNCHANGED <<replacing, halted>>
    BY <1>10, <2>2, <1>a DEF BeginReplace
  <2> QED BY <1>10, <2>1, <2>2 DEF BeginReplace
<1>11. CASE Restart
  BY <1>11, <1>a DEF Restart
<1>12. CASE Adopt
  <2>1. moved \notin halted /\ \A g \in Forwards : current[g] # moved
    BY <1>12 DEF Adopt, ForwardIInv, ReaperOwns
  <2>2. CASE Adopts(moving)
    <3>1. /\ moving \in Forwards
          /\ state' = [state EXCEPT ![moving] = "running"] /\ current' = [current EXCEPT ![moving] = moved]
          /\ replacing' = replacing \ {moving} /\ halted' = halted /\ watched' = watched \cup {moved}
      BY <1>12, <2>2, Adopting
    <3>2. CASE f = moving
      BY <2>1, <3>1, <3>2, <1>b
    <3>3. CASE f # moving
      BY <2>1, <3>1, <3>3, <1>a, <1>b
    <3> QED BY <3>2, <3>3
  <2>3. CASE ~ Adopts(moving)
    BY <1>12, <2>1, <2>3, <1>a DEF Adopt
  <2> QED BY <2>2, <2>3
<1>13. CASE StopAll
  BY <1>13 DEF StopAll, Present
<1>14. CASE UNCHANGED forwardVars
  BY <1>14, <1>a DEF forwardVars
<1> QED BY <1>1, <1>2, <1>3, <1>4, <1>5, <1>6, <1>7, <1>8, <1>9, <1>10, <1>11, <1>12, <1>13, <1>14 DEF ForwardNext

\* A forward that is there in the next state was there, or is being registered,
\* which a stopped registry refuses; none goes back to being unused.
LEMMA PresenceStep ==
    ASSUME ForwardIInv, [ForwardNext]_forwardVars
    PROVE  /\ \A f \in Forwards : state[f] = "gone" => state'[f] = "gone"
           /\ \A f \in Forwards : state[f] # "unused" => state'[f] # "unused"
           /\ stopped' => \A f \in Forwards : ~ Present(f)'
<1> USE DEF table, runs, calls, reaper
<1> DEFINE Keeps == /\ \A f \in Forwards : state[f] = "gone" => state'[f] = "gone"
                    /\ \A f \in Forwards : state[f] # "unused" => state'[f] # "unused"
                    /\ stopped' => \A f \in Forwards : ~ Present(f)'
<1>a. stopped => \A f \in Forwards : ~ Present(f)
  BY DEF ForwardIInv, StoppedIsEmpty
<1>b. state \in [Forwards -> {"unused", "running", "failed", "gone"}]
  BY DEF ForwardIInv, ForwardTypeOK
<1>1. ASSUME NEW c \in Starts,
             Reserve(c) \/ Wake(c) \/ GiveUp(c) \/ Resolve(c) \/ LaunchFails(c) \/ Return(c)
      PROVE  Keeps
  BY <1>1, <1>a DEF Reserve, Wake, GiveUp, Resolve, LaunchFails, Return, Present
<1>2. ASSUME NEW c \in Starts, Register(c) PROVE Keeps
  <2>1. stopped' = stopped
    BY <1>2 DEF Register
  <2>2. CASE Registers
    <3>1. PICK n \in Forwards : state[n] = "unused" /\ state' = [state EXCEPT ![n] = "running"]
      BY <1>2, <2>2, Registering
    <3> QED BY <2>1, <2>2, <3>1, <1>b DEF Registers
  <2>3. CASE ~ Registers
    BY <1>2, <2>1, <2>3, <1>a DEF Register, Present
  <2> QED BY <2>2, <2>3
<1>3. ASSUME NEW r \in Runs, RunReturns(r) \/ Watch(r) PROVE Keeps
  BY <1>3, <1>a, <1>b DEF RunReturns, Watch, Present
<1>4. ASSUME NEW g \in Forwards, Probe(g) \/ Stop(g) PROVE Keeps
  BY <1>4, <1>a, <1>b DEF Probe, Stop, Present
<1>5. CASE ReapBegin \/ BeginReplace \/ Restart
  BY <1>5, <1>a DEF ReapBegin, BeginReplace, Restart, Present
<1>6. CASE ReplaceFails \/ MoveFails
  BY <1>6, <1>a, <1>b DEF ReplaceFails, MoveFails, Fail, Present
<1>7. CASE Adopt
  <2>1. CASE Adopts(moving)
    <3>1. state' = [state EXCEPT ![moving] = "running"] /\ Present(moving) /\ ~ stopped'
      BY <1>7, <2>1, Adopting DEF Adopt, Adopts
    <3> QED BY <3>1, <1>b DEF Present
  <2>2. CASE ~ Adopts(moving)
    BY <1>7, <2>2, <1>a DEF Adopt, Present
  <2> QED BY <2>1, <2>2
<1>8. CASE StopAll
  BY <1>8, <1>b DEF StopAll, Present
<1>9. CASE UNCHANGED forwardVars
  BY <1>9, <1>a DEF forwardVars, Present
<1> QED BY <1>1, <1>2, <1>3, <1>4, <1>5, <1>6, <1>7, <1>8, <1>9 DEF ForwardNext

\* Marks are set on forwards that are there.
LEMMA RegisteredStep ==
    ASSUME ForwardIInv, [ForwardNext]_forwardVars
    PROVE  OnlyRegistered'
<1>1. replacing' \subseteq replacing \cup {moving} /\ (moving \in replacing' \ replacing => Present(moving))
  BY DEF ForwardNext, forwardVars, table, runs, calls, reaper, Reserve, Wake, GiveUp, Resolve, Register, LaunchFails,
         Return, RunReturns, Watch, Probe, Stop, ReapBegin, ReplaceFails, BeginReplace, Restart, Adopt, MoveFails, StopAll,
         Fail
<1>2. \A f \in replacing' : state[f] # "unused"
  BY <1>1 DEF ForwardIInv, OnlyRegistered, Present
<1>3. replacing' \subseteq Forwards
  BY TypeStep DEF ForwardTypeOK
<1> QED BY <1>2, <1>3, PresenceStep DEF OnlyRegistered

-----------------------------------------------------------------------------
(* The invariant holds, and with it what the registry promises.            *)

\* The invariant holds initially.
LEMMA ForwardInitially == ForwardInit => ForwardIInv
<1> SUFFICES ASSUME ForwardInit PROVE ForwardIInv
  OBVIOUS
<1>1. ForwardTypeOK /\ OnlyRegistered /\ StoppedIsEmpty
  BY NumbersType, ForwardAssumption DEF ForwardInit, ForwardTypeOK, OnlyRegistered, StoppedIsEmpty, Present
<1>2. Numbered
  BY ForwardAssumption DEF ForwardInit, Numbered, Forwards
<1>3. StartsOwn /\ ReaperOwns /\ Marked /\ OneForwardEach
  BY DEF ForwardInit, StartsOwn, ReaperOwns, Marked, OneForwardEach
<1>4. NoRunLeaks /\ RunningIsReal
  BY DEF ForwardInit, NoRunLeaks, RunningIsReal
<1> QED BY <1>1, <1>2, <1>3, <1>4 DEF ForwardIInv

\* Every step keeps the invariant.
LEMMA ForwardStep ==
    ASSUME ForwardIInv, [ForwardNext]_forwardVars
    PROVE  ForwardIInv'
<1>1. StoppedIsEmpty'
  BY PresenceStep DEF StoppedIsEmpty
<1> QED BY <1>1, TypeStep, NumberedStep, StartsOwnStep, ReaperOwnsStep, MarkedStep, OneForwardStep, NoRunLeaksStep,
           RunningStep, RegisteredStep DEF ForwardIInv

\* What carries traffic is shown or in the hands of whoever launched it, and what
\* is shown as running carries traffic, however starts, stops, ends of runs and
\* moves interleave (Start, watch, reap, Stop, StopAll).
THEOREM ForwardSafety == ForwardSpec => []ForwardSound
<1>1. ForwardIInv => ForwardSound
  BY DEF ForwardIInv, ForwardSound
<1> QED BY <1>1, ForwardInitially, ForwardStep, PTL DEF ForwardSpec

\* No watch, no reaper and no Start brings a forward back that was stopped
\* (adopt, register, watch).
THEOREM StoppedForGood == ForwardSpec => StoppedStays
<1>1. ForwardIInv /\ [ForwardNext]_forwardVars
        => [\A f \in Forwards : state[f] = "gone" => state'[f] = "gone"]_forwardVars
  BY PresenceStep
<1> QED BY <1>1, ForwardInitially, ForwardStep, PTL DEF ForwardSpec, StoppedStays

=============================================================================
