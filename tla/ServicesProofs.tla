--------------------------- MODULE ServicesProofs ---------------------------
(***************************************************************************)
(* The safety of the services of MCServices, for any calls, shells, pods,  *)
(* writes and limits.  Each service has an inductive invariant that its    *)
(* own steps keep; a step of the composition is a step of one service and  *)
(* leaves the others as they are.                                          *)
(***************************************************************************)
EXTENDS MCServices, FiniteSetTheorems, TLAPS

-----------------------------------------------------------------------------
(* A step of the composition, as each service sees it.                     *)

\* The services do not write each other's variables.
LEMMA OneMoves ==
    ASSUME [ServicesNext]_servicesVars
    PROVE  /\ [Next]_vars /\ [HealthNext]_healthVars /\ [ViewNext]_viewVars /\ [RecNext]_recVars
           /\ [FileNext]_fileVars /\ [SchemaNext]_schemaVars /\ [CacheNext]_cacheVars /\ [ChartNext]_chartVars
           /\ [SignNext]_signVars /\ [BudgetNext]_budgetVars /\ [WritesNext]_writeVars /\ [DrainNext]_drainVars
           /\ [ServeNext]_serveVars /\ [TerminalsNext]_termVars /\ [TailNext]_tailVars
<1>1. CASE UNCHANGED servicesVars
  BY <1>1 DEF servicesVars
<1>2. CASE ServicesNext
  BY <1>2 DEF ServicesNext, Does, Still
<1> QED BY <1>1, <1>2

-----------------------------------------------------------------------------
(* Node shells (server/exec.go).                                           *)

\* A handler has a pod in the cluster only between making and removing it.
PodsFollow ==
    \A s \in Shells :
        shell[s] \notin {"booting", "booted", "counted", "pumping", "typing", "ending", "removing"} =>
            shellPod[s] # "there"

\* nodeShells counts the handlers between start and done.
CountedFollow ==
    counted = {s \in Shells : shell[s] \in {"counted", "pumping", "typing", "ending", "removing", "uncounting"}}

\* Whom the server waits for is counted or has uncounted itself, and all have
\* when the signal is closed: a handler that uncounts itself comes back no more.
SignalFollows ==
    /\ shutting = "waiting" => \A s \in waitedFor : s \in counted \/ shell[s] \in {"forgetting", "over"}
    /\ shutting \in {"drained", "over"} => \A s \in waitedFor : shell[s] \in {"forgetting", "over"}

TerminalsIInv == TerminalsTypeOK /\ PodsFollow /\ CountedFollow /\ SignalFollows

\* The invariant of the node shells holds initially.
LEMMA TerminalsStart == TerminalsInit => TerminalsIInv
BY DEF TerminalsInit, TerminalsIInv, TerminalsTypeOK, PodsFollow, CountedFollow, SignalFollows

\* Every step of the node shells keeps its invariant.
LEMMA TerminalsStep == TerminalsIInv /\ [TerminalsNext]_termVars => TerminalsIInv'
<1> SUFFICES ASSUME TerminalsIInv, [TerminalsNext]_termVars PROVE TerminalsIInv'
  OBVIOUS
<1> USE DEF TerminalsIInv, TerminalsTypeOK, PodsFollow, CountedFollow, SignalFollows, At, Go, Exited
<1>1. ASSUME NEW s \in Shells, Admit(s) PROVE TerminalsIInv'
  BY <1>1 DEF Admit
<1>2. ASSUME NEW s \in Shells, Accept(s) PROVE TerminalsIInv'
  BY <1>2 DEF Accept
<1>3. ASSUME NEW s \in Shells, CreatePod(s) PROVE TerminalsIInv'
  <2>1. TerminalsTypeOK' BY <1>3 DEF CreatePod
  <2>2. PodsFollow' BY <1>3, ZenonT(30) DEF CreatePod
  <2>3. CountedFollow' BY <1>3, ZenonT(30) DEF CreatePod
  <2>4. SignalFollows' BY <1>3 DEF CreatePod
  <2> QED BY <2>1, <2>2, <2>3, <2>4
<1>4. ASSUME NEW s \in Shells, AwaitPod(s) PROVE TerminalsIInv'
  <2>1. TerminalsTypeOK'
    <3>1. shellPod' \in [Shells -> {"none", "there", "gone", "stuck"}]
      BY <1>4, Zenon DEF AwaitPod
    <3> QED BY <1>4, <3>1 DEF AwaitPod
  <2>2. PodsFollow' BY <1>4, ZenonT(30) DEF AwaitPod
  <2>3. CountedFollow' BY <1>4, ZenonT(30) DEF AwaitPod
  <2>4. SignalFollows' BY <1>4 DEF AwaitPod
  <2> QED BY <2>1, <2>2, <2>3, <2>4
<1>5. ASSUME NEW s \in Shells, Count(s) PROVE TerminalsIInv'
  <2>1. TerminalsTypeOK' BY <1>5 DEF Count
  <2>2. PodsFollow' BY <1>5 DEF Count
  <2>3. CountedFollow' BY <1>5 DEF Count
  <2>4. SignalFollows' BY <1>5 DEF Count
  <2> QED BY <2>1, <2>2, <2>3, <2>4
<1>6. ASSUME NEW s \in Shells, StartSession(s) PROVE TerminalsIInv'
  <2>1. TerminalsTypeOK' BY <1>6 DEF StartSession
  <2>2. PodsFollow' BY <1>6 DEF StartSession
  <2>3. CountedFollow' BY <1>6, ZenonT(30) DEF StartSession
  <2>4. SignalFollows' BY <1>6 DEF StartSession
  <2> QED BY <2>1, <2>2, <2>3, <2>4
<1>7. ASSUME NEW s \in Shells, Type(s) PROVE TerminalsIInv'
  BY <1>7 DEF Type
<1>8. ASSUME NEW s \in Shells, Typed(s) PROVE TerminalsIInv'
  <2>1. TerminalsTypeOK' BY <1>8 DEF Typed
  <2>2. PodsFollow' BY <1>8 DEF Typed
  <2>3. CountedFollow' BY <1>8, ZenonT(30) DEF Typed
  <2>4. SignalFollows' BY <1>8 DEF Typed
  <2> QED BY <2>1, <2>2, <2>3, <2>4
<1>9. ASSUME NEW s \in Shells, PumpEnds(s) PROVE TerminalsIInv'
  BY <1>9 DEF PumpEnds
<1>10. ASSUME NEW s \in Shells, EndSession(s) PROVE TerminalsIInv'
  <2>1. TerminalsTypeOK' BY <1>10 DEF EndSession
  <2>2. PodsFollow' BY <1>10 DEF EndSession
  <2>3. CountedFollow' BY <1>10 DEF EndSession
  <2>4. SignalFollows' BY <1>10 DEF EndSession
  <2> QED BY <2>1, <2>2, <2>3, <2>4
<1>11. ASSUME NEW s \in Shells, RemovePod(s) PROVE TerminalsIInv'
  <2>1. TerminalsTypeOK'
    <3> PICK left \in {"gone", "stuck"} : shellPod' = [shellPod EXCEPT ![s] = left]
      BY <1>11 DEF RemovePod
    <3> QED BY <1>11 DEF RemovePod
  <2>2. PodsFollow' BY <1>11 DEF RemovePod
  <2>3. CountedFollow' BY <1>11 DEF RemovePod
  <2>4. SignalFollows' BY <1>11 DEF RemovePod
  <2> QED BY <2>1, <2>2, <2>3, <2>4
<1>12. ASSUME NEW s \in Shells, Uncount(s) PROVE TerminalsIInv'
  <2>1. TerminalsTypeOK' BY <1>12 DEF Uncount
  <2>2. PodsFollow' BY <1>12 DEF Uncount
  <2>3. CountedFollow' BY <1>12 DEF Uncount
  <2>4. SignalFollows' BY <1>12 DEF Uncount, LastOut
  <2> QED BY <2>1, <2>2, <2>3, <2>4
<1>13. ASSUME NEW s \in Shells, ForgetExec(s) PROVE TerminalsIInv'
  BY <1>13 DEF ForgetExec
<1>14. ASSUME NEW s \in Shells, Sever(s) \/ StreamEnds(s) \/ WatcherTells(s) PROVE TerminalsIInv'
  BY <1>14, ZenonT(30) DEF Sever, StreamEnds, WatcherTells
<1>15. CASE BeginDrain \/ EndDrain \/ DropSessions
  BY <1>15 DEF BeginDrain, EndDrain, DropSessions
<1>16. CASE BeginWait \/ Exit
  BY <1>16 DEF BeginWait, Exit
<1>17. CASE UNCHANGED termVars
  BY <1>17 DEF termVars
<1> QED BY <1>1, <1>2, <1>3, <1>4, <1>5, <1>6, <1>7, <1>8, <1>9, <1>10, <1>11, <1>12, <1>13, <1>14, <1>15, <1>16,
     <1>17 DEF TerminalsNext, HandlerStep

\* However a node shell's handler ends its pod is taken away or was tried to
\* be, and a server that closes without giving up has waited for every shell
\* that was counted, for any number of shells (server/exec.go).
THEOREM TerminalsSafety == ServicesSpec => []TerminalsSound
<1>1. ServicesInit => TerminalsIInv
  BY TerminalsStart DEF ServicesInit
<1>2. TerminalsIInv /\ [ServicesNext]_servicesVars => TerminalsIInv'
  BY OneMoves, TerminalsStep
<1>3. TerminalsIInv => TerminalsSound
  BY DEF TerminalsIInv, TerminalsSound, PodsAreTakenAway, CountedShellsAreWaitedFor, PodsFollow, SignalFollows,
       TerminalsTypeOK
<1> QED BY <1>1, <1>2, <1>3, PTL DEF ServicesSpec

-----------------------------------------------------------------------------
(* Guarded writes (server/contexts.go).                                    *)

\* A request that names its cluster was guarded, and is written and recorded,
\* under that name from the lookup on.
LookedUp ==
    \A w \in Writes : write[w].names # Unnamed =>
        /\ write[w].at \in {"passed", "writing", "wrote", "recorded"} => write[w].guard = write[w].names
        /\ write[w].at \in {"writing", "wrote", "recorded"} => write[w].on = write[w].names
        /\ write[w].at = "recorded" => write[w].told = write[w].names

WritesIInv == WritesTypeOK /\ LookedUp

WriteRecords ==
    [at : {"rest", "arrived", "passed", "writing", "wrote", "refused", "recorded"},
     names : Targets, typed : BOOLEAN, guard : Targets, on : Targets, told : Targets]

\* What a request is once it was read.
LEMMA WriteArrives ==
    ASSUME NEW r \in WriteRecords, NEW named \in Targets, NEW typed \in BOOLEAN
    PROVE  [r EXCEPT !.at = "arrived", !.names = named, !.typed = typed] \in WriteRecords
BY DEF WriteRecords

\* The invariant of the guarded writes holds initially.
LEMMA WritesStart == WritesInit => WritesIInv
BY DEF WritesInit, WritesIInv, WritesTypeOK, LookedUp, Resting, Targets

\* Every step of the guarded writes keeps its invariant.
LEMMA WritesStep == WritesIInv /\ [WritesNext]_writeVars => WritesIInv'
<1> SUFFICES ASSUME WritesIInv, [WritesNext]_writeVars PROVE WritesIInv'
  OBVIOUS
<1> USE DEF WritesIInv, WritesTypeOK, LookedUp, Targets
<1>1. ASSUME NEW w \in Writes, NEW named \in Targets, NEW typed \in BOOLEAN, ArriveWrite(w, named, typed)
      PROVE  WritesIInv'
  <2>1. WritesTypeOK'
    <3>1. write[w] \in WriteRecords
      BY DEF WriteRecords
    <3>2. [write[w] EXCEPT !.at = "arrived", !.names = named, !.typed = typed] \in WriteRecords
      BY <3>1, WriteArrives
    <3> QED BY <1>1, <3>2 DEF ArriveWrite, WriteRecords
  <2>2. LookedUp'
    BY <1>1 DEF ArriveWrite
  <2> QED BY <2>1, <2>2
<1>2. ASSUME NEW w \in Writes, CheckConfirmed(w) PROVE WritesIInv'
  BY <1>2 DEF CheckConfirmed, Lookup
<1>3. ASSUME NEW w \in Writes, PickWriter(w) PROVE WritesIInv'
  <2>1. Lookup(w) \in Targets
    BY DEF Lookup
  <2>2. WritesTypeOK'
    BY <1>3, <2>1 DEF PickWriter
  <2>3. LookedUp'
    BY <1>3 DEF PickWriter, Lookup
  <2> QED BY <2>2, <2>3
<1>4. ASSUME NEW w \in Writes, DoWrite(w) PROVE WritesIInv'
  BY <1>4 DEF DoWrite
<1>5. ASSUME NEW w \in Writes, RecordWrite(w) PROVE WritesIInv'
  BY <1>5 DEF RecordWrite, Lookup
<1>6. ASSUME NEW w \in Writes, FinishWrite(w) PROVE WritesIInv'
  BY <1>6 DEF FinishWrite, Resting
<1>7. ASSUME NEW c \in Homes, SelectHome(c) \/ CloseHome(c) PROVE WritesIInv'
  BY <1>7 DEF SelectHome, CloseHome
<1>8. ASSUME NEW named \in Targets, NEW wanted \in BOOLEAN, SetProtection(named, wanted) PROVE WritesIInv'
  BY <1>8 DEF SetProtection
<1>9. CASE UNCHANGED writeVars
  BY <1>9 DEF writeVars
<1> QED BY <1>1, <1>2, <1>3, <1>4, <1>5, <1>6, <1>7, <1>8, <1>9 DEF WritesNext, WriteStep

-----------------------------------------------------------------------------
(* The drain of a node (actions/node.go).                                  *)

\* Whom a drain may evict.
MayLeave(p) == trait[p] # "apart" /\ (~ orders.force => trait[p] = "owned")

\* Until the node is cordoned no worker runs and nothing leaves.
BeforeCordon ==
    drain \in {"listing", "cordoning", "planned", "refused"} =>
        /\ leaving = {} /\ \A p \in Pods : worker[p] = "none"
        /\ drain = "refused" \/ ~ cordoned
        /\ drain = "listing" => \A p \in Pods : outcome[p] = "none"
        /\ drain = "refused" /\ (\E p \in Pods : outcome[p] = "blocked") => ~ cordoned
        /\ drain = "cordoning" => \A p \in Pods :
               /\ outcome[p] \in {"skipped", "evict"}
               /\ outcome[p] = "evict" => MayLeave(p)

\* Afterwards every pod has a worker, and what a worker that is over noted is
\* what became of its pod.
EvictionsTold ==
    drain \in {"evicting", "done"} =>
        \A p \in Pods :
            /\ worker[p] # "none"
            /\ worker[p] # "over" => outcome[p] = "evict" /\ MayLeave(p) /\ p \notin leaving
            /\ worker[p] = "over" =>
                   /\ outcome[p] \in {"skipped", "blocked", "evicted", "failed"}
                   /\ outcome[p] = "evicted" => p \in leaving
                   /\ p \in leaving => outcome[p] \in {"evicted", "failed"}
            /\ p \in leaving => MayLeave(p)
            /\ drain = "done" => worker[p] = "over"

DrainIInv == DrainTypeOK /\ BeforeCordon /\ EvictionsTold

\* The invariant of a drain holds initially.
LEMMA DrainStart == DrainInit => DrainIInv
BY DEF DrainInit, DrainIInv, DrainTypeOK, BeforeCordon, EvictionsTold, Traits, Outcomes

\* Every step of a drain keeps its invariant.
LEMMA DrainStep == DrainIInv /\ [DrainNext]_drainVars => DrainIInv'
<1> SUFFICES ASSUME DrainIInv, [DrainNext]_drainVars PROVE DrainIInv'
  OBVIOUS
<1> USE DEF DrainIInv, DrainTypeOK, BeforeCordon, EvictionsTold, MayLeave, Outcomes, Ended
<1>1. CASE ListPods
  BY <1>1 DEF ListPods, Classify, Traits
<1>2. CASE CordonNode
  BY <1>2, ZenonT(30) DEF CordonNode
<1>3. ASSUME NEW p \in Pods, TakeSlot(p) PROVE DrainIInv'
  BY <1>3 DEF TakeSlot
<1>4. ASSUME NEW p \in Pods, Evict(p) PROVE DrainIInv'
  BY <1>4 DEF Evict, Answers, OutcomeOf
<1>5. ASSUME NEW p \in Pods, WakeWorker(p) PROVE DrainIInv'
  BY <1>5 DEF WakeWorker
<1>6. CASE Expire
  BY <1>6 DEF Expire
<1>7. CASE Finish
  BY <1>7 DEF Finish
<1>8. CASE UNCHANGED drainVars
  BY <1>8 DEF drainVars
<1> QED BY <1>1, <1>2, <1>3, <1>4, <1>5, <1>6, <1>7, <1>8 DEF DrainNext, WorkerStep

\* A write that names its cluster is guarded, written and recorded on it,
\* however the user switches meanwhile; a drain evicts what it may and tells
\* of every pod what became of it, for any requests, clusters and pods
\* (server/contexts.go, actions/node.go).
THEOREM WritesSafety == ServicesSpec => []WritesSound
<1>1. ServicesInit => WritesIInv /\ DrainIInv
  BY WritesStart, DrainStart DEF ServicesInit
<1>2. WritesIInv /\ DrainIInv /\ [ServicesNext]_servicesVars => WritesIInv' /\ DrainIInv'
  BY OneMoves, WritesStep, DrainStep
<1>3. WritesIInv /\ DrainIInv => WritesSound
  BY DEF WritesIInv, DrainIInv, WritesSound, WritesTypeOK, LookedUp, NamedWritesStay, Reached, DrainTypeOK,
       BeforeCordon, EvictionsTold, MayLeave, DrainTellsWhatItDid, NothingLeavesUnasked, Ended
<1> QED BY <1>1, <1>2, <1>3, PTL DEF ServicesSpec

-----------------------------------------------------------------------------
(* The small files (atomicfile, filetx).                                   *)

Values == [Entries -> BOOLEAN]
FileRecords == [val : Values, whole : BOOLEAN, synced : BOOLEAN]
TempRecords == [val : Values, there : BOOLEAN, whole : BOOLEAN, synced : BOOLEAN]

FileTypes ==
    /\ file \in FileRecords /\ before \in FileRecords
    /\ at \in [Procs -> {"idle", "lock", "read", "fill", "sync", "rename", "dir", "unlock"}]
    /\ job \in [Procs -> [kind : {"set", "add", "remove"}, entry : Entries, to : BOOLEAN]]
    /\ next \in [Procs -> Values]
    /\ temp \in [Procs -> TempRecords]
    /\ allowed \in [Entries -> SUBSET BOOLEAN]

\* What the path names, and what it would name without the last rename, is
\* whole and flushed.
OnDisk == file.whole /\ file.synced /\ before.whole /\ before.synced

\* Whoever is past the lock holds it.
LockHeld == \A p \in Procs : at[p] \notin {"idle", "lock"} => flock = p

\* The holder's values are those of the file with its one change, as far as it
\* has come: nobody renamed another file over the one it read.
HolderCurrent ==
    \A p \in Procs :
        /\ at[p] \in {"fill", "sync", "rename"} => next[p] = [file.val EXCEPT ![job[p].entry] = job[p].to]
        /\ at[p] \in {"sync", "rename"} => temp[p].val = next[p] /\ temp[p].whole
        /\ at[p] = "rename" => temp[p].synced
        /\ at[p] = "dir" => file.val[job[p].entry] = job[p].to

\* Both are made of values that were asked for and not yet replaced.
BothAllowed == \A e \in Entries : file.val[e] \in allowed[e] /\ before.val[e] \in allowed[e]

FileIInv == FileTypes /\ OnDisk /\ LockHeld /\ HolderCurrent /\ BothAllowed

\* What the steps of Save make of the temporary file.
LEMMA TempTypes ==
    /\ Gone \in TempRecords /\ [Gone EXCEPT !.there = TRUE] \in TempRecords
    /\ \A r \in TempRecords, v \in Values : [r EXCEPT !.val = v, !.whole = TRUE] \in TempRecords
    /\ \A r \in TempRecords : [r EXCEPT !.synced = TRUE] \in TempRecords
    /\ \A f \in FileRecords : [f EXCEPT !.whole = f.whole /\ f.synced] \in FileRecords
<1>1. Gone \in TempRecords /\ [Gone EXCEPT !.there = TRUE] \in TempRecords
  BY DEF Gone, TempRecords, Values
<1>2. \A r \in TempRecords, v \in Values : [r EXCEPT !.val = v, !.whole = TRUE] \in TempRecords
  BY DEF TempRecords
<1>3. \A r \in TempRecords : [r EXCEPT !.synced = TRUE] \in TempRecords
  BY DEF TempRecords
<1>4. \A f \in FileRecords : [f EXCEPT !.whole = f.whole /\ f.synced] \in FileRecords
  <2> SUFFICES ASSUME NEW f \in FileRecords PROVE [f EXCEPT !.whole = f.whole /\ f.synced] \in FileRecords
    OBVIOUS
  <2> DEFINE b == f.whole /\ f.synced
  <2>1. b \in BOOLEAN
    OBVIOUS
  <2> HIDE DEF b
  <2> QED BY <2>1 DEF FileRecords
<1> QED BY <1>1, <1>2, <1>3, <1>4

\* The invariant of the file store holds initially.
LEMMA FileStart == FileInit => FileIInv
<1> SUFFICES ASSUME FileInit PROVE FileIInv
  OBVIOUS
<1>1. FileTypes
  <2>1. (CHOOSE e \in Entries : TRUE) \in Entries
    BY FileAssumption
  <2>2. Empty \in FileRecords /\ Empty.val \in Values
    BY DEF Empty, FileRecords, Values
  <2> QED BY <2>1, <2>2, TempTypes DEF FileInit, FileTypes
<1> QED BY <1>1 DEF FileInit, FileIInv, OnDisk, LockHeld, HolderCurrent, BothAllowed, Empty

\* Every step of the file store keeps its invariant.
LEMMA FileStep == FileIInv /\ [FileNext]_fileVars => FileIInv'
<1> SUFFICES ASSUME FileIInv, [FileNext]_fileVars PROVE FileIInv'
  OBVIOUS
<1> USE FileAssumption DEF FileIInv, FileTypes, OnDisk, LockHeld, HolderCurrent, BothAllowed, Values, Goes
<1>1. ASSUME NEW p \in Procs, Ask(p) PROVE FileIInv'
  <2>1. FileTypes' BY <1>1 DEF Ask
  <2>2. OnDisk' BY <1>1 DEF Ask
  <2>3. LockHeld' BY <1>1 DEF Ask
  <2>4. HolderCurrent' BY <1>1 DEF Ask
  <2>5. BothAllowed' BY <1>1 DEF Ask
  <2> QED BY <2>1, <2>2, <2>3, <2>4, <2>5
<1>2. ASSUME NEW p \in Procs, Lock(p) PROVE FileIInv'
  <2>1. FileTypes' BY <1>2 DEF Lock, MayEnter
  <2>2. OnDisk' BY <1>2 DEF Lock, MayEnter
  <2>3. LockHeld' BY <1>2 DEF Lock, MayEnter
  <2>4. HolderCurrent' BY <1>2 DEF Lock, MayEnter
  <2>5. BothAllowed' BY <1>2 DEF Lock, MayEnter
  <2> QED BY <2>1, <2>2, <2>3, <2>4, <2>5
<1>3. ASSUME NEW p \in Procs, LockTimesOut(p) PROVE FileIInv'
  <2>1. FileTypes' BY <1>3 DEF LockTimesOut
  <2>2. OnDisk' BY <1>3 DEF LockTimesOut
  <2>3. LockHeld' BY <1>3 DEF LockTimesOut
  <2>4. HolderCurrent' BY <1>3 DEF LockTimesOut
  <2>5. BothAllowed' BY <1>3 DEF LockTimesOut
  <2> QED BY <2>1, <2>2, <2>3, <2>4, <2>5
<1>4. ASSUME NEW p \in Procs, Change(p) PROVE FileIInv'
  <2>1. FileTypes'
    <3>1. [file.val EXCEPT ![job[p].entry] = job[p].to] \in Values
      BY DEF FileRecords
    <3> HIDE DEF Values, OnDisk, LockHeld, HolderCurrent, BothAllowed
    <3>2. next' \in [Procs -> Values]
      BY <1>4, <3>1 DEF Change, ReadFile
    <3>3. temp' \in [Procs -> TempRecords]
      BY <1>4, TempTypes DEF Change
    <3>4. at' \in [Procs -> {"idle", "lock", "read", "fill", "sync", "rename", "dir", "unlock"}]
      BY <1>4 DEF Change
    <3> QED BY <1>4, <3>2, <3>3, <3>4 DEF Change
  <2>2. OnDisk' BY <1>4 DEF Change, ReadFile, Refused, Gone
  <2>3. LockHeld' BY <1>4 DEF Change, ReadFile, Refused, Gone
  <2>4. HolderCurrent'
    <3>1. \A q \in Procs \ {p} : at[q] \in {"idle", "lock"} /\ at'[q] = at[q]
      <4>1. \A q \in Procs \ {p} : at[q] \in {"idle", "lock"}
        BY <1>4 DEF Change
      <4>2. \A q \in Procs \ {p} : at'[q] = at[q]
        BY <1>4 DEF Change
      <4> QED BY <4>1, <4>2
    <3>2. at'[p] = "fill" => next'[p] = [file.val EXCEPT ![job[p].entry] = job[p].to]
      BY <1>4 DEF Change, ReadFile
    <3>3. at'[p] \in {"fill", "unlock"} /\ file' = file /\ job' = job
      BY <1>4 DEF Change
    <3> QED BY <3>1, <3>2, <3>3
  <2>5. BothAllowed' BY <1>4 DEF Change, ReadFile, Refused, Gone
  <2> QED BY <2>1, <2>2, <2>3, <2>4, <2>5
<1>5. ASSUME NEW p \in Procs, Fill(p) PROVE FileIInv'
  <2>1. FileTypes' BY <1>5, TempTypes DEF Fill
  <2>2. OnDisk' BY <1>5 DEF Fill
  <2>3. LockHeld' BY <1>5 DEF Fill
  <2>4. HolderCurrent' BY <1>5 DEF Fill
  <2>5. BothAllowed' BY <1>5 DEF Fill
  <2> QED BY <2>1, <2>2, <2>3, <2>4, <2>5
<1>6. ASSUME NEW p \in Procs, Sync(p) PROVE FileIInv'
  <2>1. FileTypes'
    <3>1. temp' = [temp EXCEPT ![p] = [temp[p] EXCEPT !.synced = TRUE]]
      BY <1>6 DEF Sync, Flushed
    <3> HIDE DEF Values, OnDisk, LockHeld, HolderCurrent, BothAllowed
    <3>2. temp' \in [Procs -> TempRecords]
      <4>1. [temp[p] EXCEPT !.synced = TRUE] \in TempRecords
        BY TempTypes
      <4> QED BY <3>1, <4>1
    <3>3. at' \in [Procs -> {"idle", "lock", "read", "fill", "sync", "rename", "dir", "unlock"}]
      BY <1>6 DEF Sync
    <3> QED BY <1>6, <3>2, <3>3 DEF Sync
  <2>2. OnDisk' BY <1>6 DEF Sync, Flushed
  <2>3. LockHeld' BY <1>6 DEF Sync, Flushed
  <2>4. HolderCurrent' BY <1>6 DEF Sync, Flushed
  <2>5. BothAllowed' BY <1>6 DEF Sync, Flushed
  <2> QED BY <2>1, <2>2, <2>3, <2>4, <2>5
<1>7. ASSUME NEW p \in Procs, SaveFails(p) PROVE FileIInv'
  <2>1. FileTypes' BY <1>7, TempTypes DEF SaveFails, Fault
  <2>2. OnDisk' BY <1>7 DEF SaveFails, Fault, Gone
  <2>3. LockHeld' BY <1>7 DEF SaveFails, Fault, Gone
  <2>4. HolderCurrent' BY <1>7 DEF SaveFails, Fault, Gone
  <2>5. BothAllowed' BY <1>7 DEF SaveFails, Fault, Gone
  <2> QED BY <2>1, <2>2, <2>3, <2>4, <2>5
<1>8. ASSUME NEW p \in Procs, Rename(p) PROVE FileIInv'
  <2>1. FileTypes'
    <3> HIDE DEF Values, OnDisk, LockHeld, HolderCurrent, BothAllowed
    <3>1. file' \in FileRecords
      BY <1>8 DEF Rename, FileRecords, TempRecords
    <3>2. temp' \in [Procs -> TempRecords]
      BY <1>8, TempTypes DEF Rename
    <3>3. allowed' \in [Entries -> SUBSET BOOLEAN]
      BY <1>8 DEF Rename
    <3> QED BY <1>8, <3>1, <3>2, <3>3 DEF Rename
  <2>2. OnDisk' BY <1>8 DEF Rename, Gone
  <2>3. LockHeld' BY <1>8 DEF Rename, Gone
  <2>4. HolderCurrent'
    <3>1. \A q \in Procs \ {p} : at[q] \in {"idle", "lock"} /\ at'[q] = at[q]
      BY <1>8 DEF Rename
    <3>2. at'[p] = "dir" /\ job' = job /\ file'.val = [file.val EXCEPT ![job[p].entry] = job[p].to]
      BY <1>8 DEF Rename
    <3>3. file.val \in [Entries -> BOOLEAN] /\ job[p].entry \in Entries
      BY DEF FileRecords
    <3>4. file'.val[job[p].entry] = job[p].to
      BY <3>2, <3>3
    <3>5. ASSUME NEW q \in Procs PROVE q = p \/ at'[q] \in {"idle", "lock"}
      BY <3>1
    <3> QED BY <3>2, <3>4, <3>5
  <2>5. BothAllowed' BY <1>8 DEF Rename, Gone
  <2> QED BY <2>1, <2>2, <2>3, <2>4, <2>5
<1>9. ASSUME NEW p \in Procs, SyncDir(p) PROVE FileIInv'
  <2>1. FileTypes' BY <1>9 DEF SyncDir
  <2>2. OnDisk' BY <1>9 DEF SyncDir
  <2>3. LockHeld' BY <1>9 DEF SyncDir
  <2>4. HolderCurrent' BY <1>9 DEF SyncDir
  <2>5. BothAllowed' BY <1>9 DEF SyncDir
  <2> QED BY <2>1, <2>2, <2>3, <2>4, <2>5
<1>10. ASSUME NEW p \in Procs, SyncDirFails(p) PROVE FileIInv'
  <2>1. FileTypes' BY <1>10 DEF SyncDirFails, Fault
  <2>2. OnDisk' BY <1>10 DEF SyncDirFails, Fault
  <2>3. LockHeld' BY <1>10 DEF SyncDirFails, Fault
  <2>4. HolderCurrent' BY <1>10 DEF SyncDirFails, Fault
  <2>5. BothAllowed' BY <1>10 DEF SyncDirFails, Fault
  <2> QED BY <2>1, <2>2, <2>3, <2>4, <2>5
<1>11. ASSUME NEW p \in Procs, Unlock(p) PROVE FileIInv'
  <2>1. FileTypes' BY <1>11 DEF Unlock
  <2>2. OnDisk' BY <1>11 DEF Unlock
  <2>3. LockHeld' BY <1>11 DEF Unlock
  <2>4. HolderCurrent' BY <1>11 DEF Unlock
  <2>5. BothAllowed' BY <1>11 DEF Unlock
  <2> QED BY <2>1, <2>2, <2>3, <2>4, <2>5
<1>12. ASSUME NEW p \in Procs, Refresh(p) PROVE FileIInv'
  <2>1. FileTypes' BY <1>12 DEF Refresh
  <2>2. OnDisk' BY <1>12 DEF Refresh
  <2>3. LockHeld' BY <1>12 DEF Refresh
  <2>4. HolderCurrent' BY <1>12 DEF Refresh
  <2>5. BothAllowed' BY <1>12 DEF Refresh
  <2> QED BY <2>1, <2>2, <2>3, <2>4, <2>5
<1>13. ASSUME NEW p \in Procs, Die(p) PROVE FileIInv'
  <2>1. FileTypes' BY <1>13, TempTypes DEF Die, Fault
  <2>2. OnDisk' BY <1>13 DEF Die, Fault, Gone, Empty
  <2>3. LockHeld' BY <1>13 DEF Die, Fault, Gone, Empty
  <2>4. HolderCurrent' BY <1>13 DEF Die, Fault, Gone, Empty
  <2>5. BothAllowed' BY <1>13 DEF Die, Fault, Gone, Empty
  <2> QED BY <2>1, <2>2, <2>3, <2>4, <2>5
<1>14. CASE PowerCut
  <2>1. FileTypes'
    <3> HIDE DEF Values, OnDisk, LockHeld, HolderCurrent, BothAllowed
    <3> PICK f \in {file, before} : file' = [f EXCEPT !.whole = f.whole /\ f.synced]
      BY <1>14 DEF PowerCut
    <3>1. file' \in FileRecords /\ before' = file'
      <4>1. [f EXCEPT !.whole = f.whole /\ f.synced] \in FileRecords
        BY TempTypes
      <4> QED BY <1>14, <4>1 DEF PowerCut
    <3>2. temp' \in [Procs -> TempRecords]
      BY <1>14, TempTypes DEF PowerCut
    <3>3. at' \in [Procs -> {"idle", "lock", "read", "fill", "sync", "rename", "dir", "unlock"}]
      BY <1>14 DEF PowerCut
    <3> QED BY <1>14, <3>1, <3>2, <3>3 DEF PowerCut
  <2>2. OnDisk'
    <3> PICK f \in {file, before} : file' = [f EXCEPT !.whole = f.whole /\ f.synced]
      BY <1>14 DEF PowerCut
    <3>1. f \in FileRecords /\ f.whole /\ f.synced
      OBVIOUS
    <3>2. file'.whole /\ file'.synced
      BY <3>1 DEF FileRecords
    <3> QED BY <1>14, <3>2 DEF PowerCut
  <2>3. LockHeld' BY <1>14 DEF PowerCut, Fault, Gone, Empty
  <2>4. HolderCurrent' BY <1>14 DEF PowerCut, Fault, Gone, Empty
  <2>5. BothAllowed' BY <1>14 DEF PowerCut, Fault, Gone, Empty
  <2> QED BY <2>1, <2>2, <2>3, <2>4, <2>5
<1>15. CASE UNCHANGED fileVars
  BY <1>15 DEF fileVars
<1> QED BY <1>1, <1>2, <1>3, <1>4, <1>5, <1>6, <1>7, <1>8, <1>9, <1>10, <1>11, <1>12, <1>13, <1>14, <1>15
       DEF FileNext, Saving

-----------------------------------------------------------------------------
(* The schema of the history (store/schema.go).                            *)

\* The migrations that cannot run again took effect in order.
InOrder == \A j \in ran, i \in 1..Known : i =< j /\ j =< ReadableFrom => i \in ran

\* None of them is later than what a program would take for applied, and what
\* it would take for applied took effect.
CountTrue ==
    /\ floor =< CountNow
    /\ \A j \in ran : j =< ReadableFrom => j =< CountNow
    /\ \A j \in 1..Known : j =< CountNow => j \in ran

\* What a program counted took effect, and it knows what all can read.
OpenersTrue ==
    \A p \in Openers :
        /\ opener[p].at \in {"count", "apply", "open"} => opener[p].knows >= ReadableFrom
        /\ opener[p].at = "count" => \A j \in 1..Known : j =< opener[p].floor => j \in ran
        /\ opener[p].at = "apply" => \A j \in 1..Known : j =< opener[p].next => j \in ran
        /\ opener[p].at = "open" => \A j \in 1..Known : j =< opener[p].knows => j \in ran

SchemaIInv == SchemaTypeOK /\ InOrder /\ CountTrue /\ OpenersTrue

\* The invariant of the history schema holds initially.
LEMMA SchemaStart == SchemaInit => SchemaIInv
<1> SUFFICES ASSUME SchemaInit PROVE SchemaIInv
  OBVIOUS
<1> USE SchemaAssumption DEF SchemaInit
<1>1. SchemaTypeOK
  BY DEF SchemaTypeOK, NoProgress, Away
<1>2. InOrder /\ CountTrue
  BY DEF InOrder, CountTrue, CountNow, NoProgress
<1>3. OpenersTrue
  BY DEF OpenersTrue, Away
<1> QED BY <1>1, <1>2, <1>3 DEF SchemaIInv, SchemaTypeOK

\* Every step of the history schema keeps its invariant.
LEMMA SchemaStep == SchemaIInv /\ [SchemaNext]_schemaVars => SchemaIInv'
<1> SUFFICES ASSUME SchemaIInv, [SchemaNext]_schemaVars PROVE SchemaIInv'
  OBVIOUS
<1> USE SchemaAssumption DEF SchemaIInv, SchemaTypeOK, InOrder, CountTrue, OpenersTrue, CountNow, NoProgress
<1>1. ASSUME NEW p \in Openers, NEW k \in ReadableFrom..Known, ReadFloor(p, k) PROVE SchemaIInv'
  <2>1. SchemaTypeOK' BY <1>1 DEF ReadFloor
  <2>2. InOrder' BY <1>1 DEF ReadFloor
  <2>3. CountTrue' BY <1>1 DEF ReadFloor
  <2>4. OpenersTrue' BY <1>1 DEF ReadFloor
  <2> QED BY <2>1, <2>2, <2>3, <2>4
<1>2. ASSUME NEW p \in Openers, AppliedCount(p) PROVE SchemaIInv'
  <2>1. SchemaTypeOK'
    <3> DEFINE n == IF progress # NoProgress THEN progress ELSE opener[p].floor
    <3> DEFINE b == progress # NoProgress
    <3>1. n \in 0..Known /\ b \in BOOLEAN
      OBVIOUS
    <3>2. opener' = [opener EXCEPT ![p] = [opener[p] EXCEPT !.at = "apply", !.tracked = b, !.next = n]]
      BY <1>2 DEF AppliedCount
    <3> HIDE DEF n, b, InOrder, CountTrue, OpenersTrue
    <3>3. [opener[p] EXCEPT !.at = "apply", !.tracked = b, !.next = n] \in
            [at : {"away", "count", "apply", "open", "unstamped", "failed"}, knows : 0..Known,
             floor : 0..Known, next : 0..Known, tracked : BOOLEAN]
      BY <3>1
    <3>4. opener' \in [Openers -> [at : {"away", "count", "apply", "open", "unstamped", "failed"}, knows : 0..Known,
                                   floor : 0..Known, next : 0..Known, tracked : BOOLEAN]]
      BY <3>2, <3>3
    <3> QED BY <1>2, <3>4 DEF AppliedCount
  <2>2. InOrder' BY <1>2 DEF AppliedCount
  <2>3. CountTrue' BY <1>2 DEF AppliedCount
  <2>4. OpenersTrue' BY <1>2 DEF AppliedCount
  <2> QED BY <2>1, <2>2, <2>3, <2>4
<1>3. ASSUME NEW p \in Openers, ApplyMigration(p) PROVE SchemaIInv'
  <2>1. SchemaTypeOK' BY <1>3 DEF ApplyMigration, Stamp, FloorFor, Repeatable
  <2>2. InOrder' BY <1>3 DEF ApplyMigration, Stamp, FloorFor, Repeatable
  <2>3. CountTrue' BY <1>3 DEF ApplyMigration, Stamp, FloorFor, Repeatable
  <2>4. OpenersTrue'
    <3>1. CASE opener' = [opener EXCEPT ![p].at = "failed"] /\ UNCHANGED <<floor, progress, ran>>
      BY <3>1
    <3>2. CASE ran' = ran \cup {opener[p].next + 1}
      BY <1>3, <3>2 DEF ApplyMigration
    <3> QED BY <1>3, <3>1, <3>2 DEF ApplyMigration
  <2> QED BY <2>1, <2>2, <2>3, <2>4
<1>4. ASSUME NEW p \in Openers, SettleSchema(p) PROVE SchemaIInv'
  <2>1. SchemaTypeOK' BY <1>4 DEF SettleSchema, Stamp, FloorFor
  <2>2. InOrder' BY <1>4 DEF SettleSchema, Stamp, FloorFor
  <2>3. CountTrue' BY <1>4 DEF SettleSchema, Stamp, FloorFor
  <2>4. OpenersTrue' BY <1>4 DEF SettleSchema, Stamp, FloorFor
  <2> QED BY <2>1, <2>2, <2>3, <2>4
<1>5. ASSUME NEW p \in Openers, LeaveStore(p) PROVE SchemaIInv'
  <2>1. SchemaTypeOK' BY <1>5 DEF LeaveStore, Away
  <2>2. InOrder' BY <1>5 DEF LeaveStore, Away
  <2>3. CountTrue' BY <1>5 DEF LeaveStore, Away
  <2>4. OpenersTrue' BY <1>5 DEF LeaveStore, Away
  <2> QED BY <2>1, <2>2, <2>3, <2>4
<1>6. CASE UNCHANGED schemaVars
  BY <1>6 DEF schemaVars
<1> QED BY <1>1, <1>2, <1>3, <1>4, <1>5, <1>6 DEF SchemaNext

\* Whatever fails, dies or loses power, for any processes, entries and
\* migrations: a file is whole and keeps what was acknowledged, and a history
\* file can be opened by whoever should and holds all its program knows
\* (atomicfile, filetx, store/schema.go).
THEOREM StoresSafety == ServicesSpec => []StoresSound
<1>1. ServicesInit => FileIInv /\ SchemaIInv
  BY FileStart, SchemaStart DEF ServicesInit
<1>2. FileIInv /\ SchemaIInv /\ [ServicesNext]_servicesVars => FileIInv' /\ SchemaIInv'
  BY OneMoves, FileStep, SchemaStep
<1>3. FileIInv /\ SchemaIInv => StoresSound
  <2> SUFFICES ASSUME FileIInv, SchemaIInv PROVE StoresSound
    OBVIOUS
  <2>1. NeverHalf /\ NoLostUpdate
    BY DEF FileIInv, OnDisk, BothAllowed, NeverHalf, NoLostUpdate
  <2>2. NeverWedged
    BY SchemaAssumption DEF SchemaIInv, SchemaTypeOK, CountTrue, NeverWedged, Repeatable, CountNow
  <2>3. OpenedIsComplete
    BY SchemaAssumption DEF SchemaIInv, SchemaTypeOK, OpenersTrue, OpenedIsComplete
  <2> QED BY <2>1, <2>2, <2>3 DEF StoresSound, SchemaIInv
<1> QED BY <1>1, <1>2, <1>3, PTL DEF ServicesSpec

-----------------------------------------------------------------------------
(* Health of the clusters (server/health.go).                              *)

Reports == [by : {"ping", "sink"}, site : Sites, ok : BOOLEAN, gen : Nat, of : 1..MaxDials, at : {"check", "settle"}]

Pings == [at : {"none", "begin", "look", "sent", "answered"}, gen : Nat, of : 0..MaxDials]

Verdicts == [state : {"unknown", "up", "wobbling", "down"}, of : 0..MaxDials, by : {"none", "ping", "sink"}]

\* What TypeOK leaves out: pings, reports and watched sinks.
PingTypes ==
    /\ asking \in [Sites -> Pings]
    /\ \A c \in Sites : asking[c].at = "sent" => asking[c].of # 0

WatchTypes ==
    /\ answers \in [Sites -> BOOLEAN]
    /\ sink \in [1..MaxDials -> [alive : BOOLEAN, token : BOOLEAN]]
    /\ watch \in [Sites -> [at : {"none", "sink", "on"}, gen : Nat, of : 0..MaxDials]]
    /\ \A c \in Sites : watch[c].at # "none" => watch[c].of # 0

ReportTypes == reports \subseteq Reports

\* The goroutine runs while Server.watching says so, and whoever has a feed is
\* among the sessions that keep it running.
PingerRuns ==
    /\ watching => round # "none"
    /\ \A v \in Viewers : feeds[v] # "off" => v \in tracked
    /\ \A v \in Viewers : feeds[v] = "live" => watching

\* A ping asked in the generation of now, with no close on its way to end it,
\* is about the connection of now.
PingsTold ==
    \A c \in Sites :
        /\ asking[c].at \in {"look", "sent", "answered"} => asking[c].gen =< gen[c]
        /\ asking[c].at = "sent" /\ asking[c].gen = gen[c] /\ closing[c] = 0 => asking[c].of = conn[c]

ReportsTold ==
    \A r \in reports : r.by = "ping" =>
        /\ r.gen =< gen[r.site]
        /\ r.gen = gen[r.site] /\ closing[r.site] = 0 => r.of = conn[r.site]

VerdictsTold ==
    \A c \in Sites : health[c].by = "ping" =>
        /\ health[c].of # 0
        /\ closing[c] = 0 => health[c].of = conn[c]

HealthIInv ==
    /\ HealthTypeOK /\ PingTypes /\ WatchTypes /\ ReportTypes
    /\ PingerRuns /\ PingsTold /\ ReportsTold /\ VerdictsTold

\* The invariant of cluster health holds initially.
LEMMA HealthStart == HealthInit => HealthIInv
<1> SUFFICES ASSUME HealthInit PROVE HealthIInv
  OBVIOUS
<1>1. HealthTypeOK
  <2>1. 0 \in 0..MaxDials /\ 1 \in 0..MaxDials /\ 0 \in Nat
    BY HealthAssumption
  <2>2. Unknown \in Verdicts
    BY <2>1 DEF Unknown, Verdicts
  <2> QED BY <2>1, <2>2 DEF HealthInit, HealthTypeOK, Verdicts
<1>3. PingTypes /\ WatchTypes /\ ReportTypes
  BY HealthAssumption DEF HealthInit, PingTypes, WatchTypes, ReportTypes, Pings, Idle, Fresh
<1>2. PingerRuns /\ PingsTold /\ ReportsTold /\ VerdictsTold
  BY DEF HealthInit, PingerRuns, PingsTold, ReportsTold, VerdictsTold, Unknown, Idle
<1> QED BY <1>1, <1>2, <1>3 DEF HealthIInv

\* Every step of cluster health keeps its invariant.
LEMMA HealthStep == HealthIInv /\ [HealthNext]_healthVars => HealthIInv'
<1> SUFFICES ASSUME HealthIInv, [HealthNext]_healthVars PROVE HealthIInv'
  OBVIOUS
<1> USE HealthAssumption DEF HealthIInv
<1>1. ASSUME NEW v \in Viewers, Track(v) PROVE HealthIInv'
  <2>1. HealthTypeOK' BY <1>1 DEF HealthTypeOK, Track, feedVars, siteVars, verdictVars
  <2>2. PingTypes' BY <1>1 DEF PingTypes, HealthTypeOK, Pings, Track, feedVars, siteVars, verdictVars
  <2>3. WatchTypes' BY <1>1 DEF WatchTypes, HealthTypeOK, Track, feedVars, siteVars, verdictVars
  <2>4. ReportTypes'
    BY <1>1
       DEF ReportTypes, Reports, PingTypes, Pings, WatchTypes, HealthTypeOK, Track, feedVars, siteVars, verdictVars
  <2>5. PingerRuns' BY <1>1 DEF PingerRuns, HealthTypeOK, Track, feedVars, siteVars, verdictVars
  <2>6. PingsTold' BY <1>1 DEF PingsTold, HealthTypeOK, PingTypes, Pings, Track, feedVars, siteVars, verdictVars
  <2>7. ReportsTold'
    BY <1>1
       DEF ReportsTold, HealthTypeOK, ReportTypes, Reports, PingsTold, PingTypes, Pings, Track, feedVars, siteVars,
           verdictVars
  <2>8. VerdictsTold'
    BY <1>1 DEF VerdictsTold, HealthTypeOK, ReportsTold, ReportTypes, Reports, Track, feedVars, siteVars, verdictVars
  <2> QED BY <2>1, <2>2, <2>3, <2>4, <2>5, <2>6, <2>7, <2>8 DEF HealthIInv
<1>2. ASSUME NEW v \in Viewers, WatchCluster(v) PROVE HealthIInv'
  <2>1. HealthTypeOK' BY <1>2 DEF HealthTypeOK, WatchCluster, feedVars, siteVars, verdictVars
  <2>2. PingTypes' BY <1>2 DEF PingTypes, HealthTypeOK, Pings, WatchCluster, feedVars, siteVars, verdictVars
  <2>3. WatchTypes' BY <1>2 DEF WatchTypes, HealthTypeOK, WatchCluster, feedVars, siteVars, verdictVars
  <2>4. ReportTypes'
    BY <1>2
       DEF ReportTypes, Reports, PingTypes, Pings, WatchTypes, HealthTypeOK, WatchCluster, feedVars, siteVars,
           verdictVars
  <2>5. PingerRuns' BY <1>2 DEF PingerRuns, HealthTypeOK, WatchCluster, feedVars, siteVars, verdictVars
  <2>6. PingsTold'
    BY <1>2 DEF PingsTold, HealthTypeOK, PingTypes, Pings, WatchCluster, feedVars, siteVars, verdictVars
  <2>7. ReportsTold'
    BY <1>2
       DEF ReportsTold, HealthTypeOK, ReportTypes, Reports, PingsTold, PingTypes, Pings, WatchCluster, feedVars,
           siteVars, verdictVars
  <2>8. VerdictsTold'
    BY <1>2
       DEF VerdictsTold, HealthTypeOK, ReportsTold, ReportTypes, Reports, WatchCluster, feedVars, siteVars,
           verdictVars
  <2> QED BY <2>1, <2>2, <2>3, <2>4, <2>5, <2>6, <2>7, <2>8 DEF HealthIInv
<1>3. ASSUME NEW v \in Viewers, ForgetSession(v) PROVE HealthIInv'
  <2>1. HealthTypeOK' BY <1>3 DEF HealthTypeOK, ForgetSession, feedVars, siteVars, verdictVars
  <2>2. PingTypes' BY <1>3 DEF PingTypes, HealthTypeOK, Pings, ForgetSession, feedVars, siteVars, verdictVars
  <2>3. WatchTypes' BY <1>3 DEF WatchTypes, HealthTypeOK, ForgetSession, feedVars, siteVars, verdictVars
  <2>4. ReportTypes'
    BY <1>3
       DEF ReportTypes, Reports, PingTypes, Pings, WatchTypes, HealthTypeOK, ForgetSession, feedVars, siteVars,
           verdictVars
  <2>5. PingerRuns' BY <1>3 DEF PingerRuns, HealthTypeOK, ForgetSession, feedVars, siteVars, verdictVars
  <2>6. PingsTold'
    BY <1>3 DEF PingsTold, HealthTypeOK, PingTypes, Pings, ForgetSession, feedVars, siteVars, verdictVars
  <2>7. ReportsTold'
    BY <1>3
       DEF ReportsTold, HealthTypeOK, ReportTypes, Reports, PingsTold, PingTypes, Pings, ForgetSession, feedVars,
           siteVars, verdictVars
  <2>8. VerdictsTold'
    BY <1>3
       DEF VerdictsTold, HealthTypeOK, ReportsTold, ReportTypes, Reports, ForgetSession, feedVars, siteVars,
           verdictVars
  <2> QED BY <2>1, <2>2, <2>3, <2>4, <2>5, <2>6, <2>7, <2>8 DEF HealthIInv
<1>4. CASE StopIfIdle
  <2>1. HealthTypeOK' BY <1>4 DEF HealthTypeOK, StopIfIdle, IdleNow, feedVars, siteVars, verdictVars, Idle
  <2>2. PingTypes'
    BY <1>4 DEF PingTypes, HealthTypeOK, Pings, StopIfIdle, IdleNow, feedVars, siteVars, verdictVars, Idle
  <2>3. WatchTypes' BY <1>4 DEF WatchTypes, HealthTypeOK, StopIfIdle, IdleNow, feedVars, siteVars, verdictVars, Idle
  <2>4. ReportTypes'
    BY <1>4
       DEF ReportTypes, Reports, PingTypes, Pings, WatchTypes, HealthTypeOK, StopIfIdle, IdleNow, feedVars,
           siteVars, verdictVars, Idle
  <2>5. PingerRuns' BY <1>4 DEF PingerRuns, HealthTypeOK, StopIfIdle, IdleNow, feedVars, siteVars, verdictVars, Idle
  <2>6. PingsTold'
    BY <1>4 DEF PingsTold, HealthTypeOK, PingTypes, Pings, StopIfIdle, IdleNow, feedVars, siteVars, verdictVars, Idle
  <2>7. ReportsTold'
    BY <1>4
       DEF ReportsTold, HealthTypeOK, ReportTypes, Reports, PingsTold, PingTypes, Pings, StopIfIdle, IdleNow,
           feedVars, siteVars, verdictVars, Idle
  <2>8. VerdictsTold'
    BY <1>4
       DEF VerdictsTold, HealthTypeOK, ReportsTold, ReportTypes, Reports, StopIfIdle, IdleNow, feedVars, siteVars,
           verdictVars, Idle
  <2> QED BY <2>1, <2>2, <2>3, <2>4, <2>5, <2>6, <2>7, <2>8 DEF HealthIInv
<1>5. CASE SessionChanged
  <2>1. HealthTypeOK' BY <1>5 DEF HealthTypeOK, SessionChanged, feedVars, siteVars, verdictVars
  <2>2. PingTypes' BY <1>5 DEF PingTypes, HealthTypeOK, Pings, SessionChanged, feedVars, siteVars, verdictVars
  <2>3. WatchTypes' BY <1>5 DEF WatchTypes, HealthTypeOK, SessionChanged, feedVars, siteVars, verdictVars
  <2>4. ReportTypes'
    BY <1>5
       DEF ReportTypes, Reports, PingTypes, Pings, WatchTypes, HealthTypeOK, SessionChanged, feedVars, siteVars,
           verdictVars
  <2>5. PingerRuns' BY <1>5 DEF PingerRuns, HealthTypeOK, SessionChanged, feedVars, siteVars, verdictVars
  <2>6. PingsTold'
    BY <1>5 DEF PingsTold, HealthTypeOK, PingTypes, Pings, SessionChanged, feedVars, siteVars, verdictVars
  <2>7. ReportsTold'
    BY <1>5
       DEF ReportsTold, HealthTypeOK, ReportTypes, Reports, PingsTold, PingTypes, Pings, SessionChanged, feedVars,
           siteVars, verdictVars
  <2>8. VerdictsTold'
    BY <1>5
       DEF VerdictsTold, HealthTypeOK, ReportsTold, ReportTypes, Reports, SessionChanged, feedVars, siteVars,
           verdictVars
  <2> QED BY <2>1, <2>2, <2>3, <2>4, <2>5, <2>6, <2>7, <2>8 DEF HealthIInv
<1>6. CASE Tick
  <2>1. HealthTypeOK' BY <1>6 DEF HealthTypeOK, Tick, feedVars, siteVars, verdictVars, Idle
  <2>2. PingTypes' BY <1>6 DEF PingTypes, HealthTypeOK, Pings, Tick, feedVars, siteVars, verdictVars, Idle
  <2>3. WatchTypes' BY <1>6 DEF WatchTypes, HealthTypeOK, Tick, feedVars, siteVars, verdictVars, Idle
  <2>4. ReportTypes'
    BY <1>6
       DEF ReportTypes, Reports, PingTypes, Pings, WatchTypes, HealthTypeOK, Tick, feedVars, siteVars, verdictVars,
           Idle
  <2>5. PingerRuns' BY <1>6 DEF PingerRuns, HealthTypeOK, Tick, feedVars, siteVars, verdictVars, Idle
  <2>6. PingsTold' BY <1>6 DEF PingsTold, HealthTypeOK, PingTypes, Pings, Tick, feedVars, siteVars, verdictVars, Idle
  <2>7. ReportsTold'
    BY <1>6
       DEF ReportsTold, HealthTypeOK, ReportTypes, Reports, PingsTold, PingTypes, Pings, Tick, feedVars, siteVars,
           verdictVars, Idle
  <2>8. VerdictsTold'
    BY <1>6
       DEF VerdictsTold, HealthTypeOK, ReportsTold, ReportTypes, Reports, Tick, feedVars, siteVars, verdictVars, Idle
  <2> QED BY <2>1, <2>2, <2>3, <2>4, <2>5, <2>6, <2>7, <2>8 DEF HealthIInv
<1>7. CASE PingEveryCluster
  <2>1. HealthTypeOK' BY <1>7 DEF HealthTypeOK, PingEveryCluster, feedVars, siteVars, verdictVars, Idle
  <2>2. PingTypes' BY <1>7 DEF PingTypes, HealthTypeOK, Pings, PingEveryCluster, feedVars, siteVars, verdictVars, Idle
  <2>3. WatchTypes' BY <1>7 DEF WatchTypes, HealthTypeOK, PingEveryCluster, feedVars, siteVars, verdictVars, Idle
  <2>4. ReportTypes'
    BY <1>7
       DEF ReportTypes, Reports, PingTypes, Pings, WatchTypes, HealthTypeOK, PingEveryCluster, feedVars, siteVars,
           verdictVars, Idle
  <2>5. PingerRuns' BY <1>7 DEF PingerRuns, HealthTypeOK, PingEveryCluster, feedVars, siteVars, verdictVars, Idle
  <2>6. PingsTold'
    BY <1>7 DEF PingsTold, HealthTypeOK, PingTypes, Pings, PingEveryCluster, feedVars, siteVars, verdictVars, Idle
  <2>7. ReportsTold'
    BY <1>7
       DEF ReportsTold, HealthTypeOK, ReportTypes, Reports, PingsTold, PingTypes, Pings, PingEveryCluster, feedVars,
           siteVars, verdictVars, Idle
  <2>8. VerdictsTold'
    BY <1>7
       DEF VerdictsTold, HealthTypeOK, ReportsTold, ReportTypes, Reports, PingEveryCluster, feedVars, siteVars,
           verdictVars, Idle
  <2> QED BY <2>1, <2>2, <2>3, <2>4, <2>5, <2>6, <2>7, <2>8 DEF HealthIInv
<1>8. ASSUME NEW c \in Sites, ReadGeneration(c) PROVE HealthIInv'
  <2>1. HealthTypeOK' BY <1>8 DEF HealthTypeOK, ReadGeneration, feedVars, siteVars, verdictVars, Idle
  <2>2. PingTypes' BY <1>8 DEF PingTypes, HealthTypeOK, Pings, ReadGeneration, feedVars, siteVars, verdictVars, Idle
  <2>3. WatchTypes' BY <1>8 DEF WatchTypes, HealthTypeOK, ReadGeneration, feedVars, siteVars, verdictVars, Idle
  <2>4. ReportTypes'
    BY <1>8
       DEF ReportTypes, Reports, PingTypes, Pings, WatchTypes, HealthTypeOK, ReadGeneration, feedVars, siteVars,
           verdictVars, Idle
  <2>5. PingerRuns' BY <1>8 DEF PingerRuns, HealthTypeOK, ReadGeneration, feedVars, siteVars, verdictVars, Idle
  <2>6. PingsTold'
    BY <1>8 DEF PingsTold, HealthTypeOK, PingTypes, Pings, ReadGeneration, feedVars, siteVars, verdictVars, Idle
  <2>7. ReportsTold'
    BY <1>8
       DEF ReportsTold, HealthTypeOK, ReportTypes, Reports, PingsTold, PingTypes, Pings, ReadGeneration, feedVars,
           siteVars, verdictVars, Idle
  <2>8. VerdictsTold'
    BY <1>8
       DEF VerdictsTold, HealthTypeOK, ReportsTold, ReportTypes, Reports, ReadGeneration, feedVars, siteVars,
           verdictVars, Idle
  <2> QED BY <2>1, <2>2, <2>3, <2>4, <2>5, <2>6, <2>7, <2>8 DEF HealthIInv
<1>9. ASSUME NEW c \in Sites, FindManager(c) PROVE HealthIInv'
  <2>1. HealthTypeOK' BY <1>9 DEF HealthTypeOK, FindManager, feedVars, siteVars, verdictVars, Idle
  <2>2. PingTypes' BY <1>9 DEF PingTypes, HealthTypeOK, Pings, FindManager, feedVars, siteVars, verdictVars, Idle
  <2>3. WatchTypes' BY <1>9 DEF WatchTypes, HealthTypeOK, FindManager, feedVars, siteVars, verdictVars, Idle
  <2>4. ReportTypes'
    BY <1>9
       DEF ReportTypes, Reports, PingTypes, Pings, WatchTypes, HealthTypeOK, FindManager, feedVars, siteVars,
           verdictVars, Idle
  <2>5. PingerRuns' BY <1>9 DEF PingerRuns, HealthTypeOK, FindManager, feedVars, siteVars, verdictVars, Idle
  <2>6. PingsTold'
    BY <1>9 DEF PingsTold, HealthTypeOK, PingTypes, Pings, FindManager, feedVars, siteVars, verdictVars, Idle
  <2>7. ReportsTold'
    BY <1>9
       DEF ReportsTold, HealthTypeOK, ReportTypes, Reports, PingsTold, PingTypes, Pings, FindManager, feedVars,
           siteVars, verdictVars, Idle
  <2>8. VerdictsTold'
    BY <1>9
       DEF VerdictsTold, HealthTypeOK, ReportsTold, ReportTypes, Reports, FindManager, feedVars, siteVars,
           verdictVars, Idle
  <2> QED BY <2>1, <2>2, <2>3, <2>4, <2>5, <2>6, <2>7, <2>8 DEF HealthIInv
<1>10. ASSUME NEW c \in Sites, Answered(c) PROVE HealthIInv'
  <2>1. HealthTypeOK' BY <1>10 DEF HealthTypeOK, Answered, feedVars, siteVars, verdictVars, Idle, Report, Reaches
  <2>2. PingTypes'
    BY <1>10 DEF PingTypes, HealthTypeOK, Pings, Answered, feedVars, siteVars, verdictVars, Idle, Report, Reaches
  <2>3. WatchTypes'
    BY <1>10 DEF WatchTypes, HealthTypeOK, Answered, feedVars, siteVars, verdictVars, Idle, Report, Reaches
  <2>4. ReportTypes'
    <3> DEFINE b == Reaches(c, asking[c].of)
    <3>1. b \in BOOLEAN
      BY DEF Reaches, WatchTypes
    <3>2. asking[c] \in Pings /\ asking[c].of \in 1..MaxDials /\ asking[c].gen \in Nat
      BY <1>10 DEF PingTypes, Pings, Answered
    <3> HIDE DEF b
    <3>3. Report("ping", c, b, asking[c].gen, asking[c].of) \in Reports
      BY <3>1, <3>2 DEF Report, Reports
    <3> QED BY <1>10, <3>3 DEF ReportTypes, Answered, b
  <2>5. PingerRuns'
    BY <1>10 DEF PingerRuns, HealthTypeOK, Answered, feedVars, siteVars, verdictVars, Idle, Report, Reaches
  <2>6. PingsTold'
    BY <1>10
       DEF PingsTold, HealthTypeOK, PingTypes, Pings, Answered, feedVars, siteVars, verdictVars, Idle, Report, Reaches
  <2>7. ReportsTold'
    BY <1>10
       DEF ReportsTold, HealthTypeOK, ReportTypes, Reports, PingsTold, PingTypes, Pings, Answered, feedVars,
           siteVars, verdictVars, Idle, Report, Reaches
  <2>8. VerdictsTold'
    BY <1>10
       DEF VerdictsTold, HealthTypeOK, ReportsTold, ReportTypes, Reports, Answered, feedVars, siteVars, verdictVars,
           Idle, Report, Reaches
  <2> QED BY <2>1, <2>2, <2>3, <2>4, <2>5, <2>6, <2>7, <2>8 DEF HealthIInv
<1>11. ASSUME NEW c \in Sites, PingDone(c) PROVE HealthIInv'
  <2>1. HealthTypeOK' BY <1>11 DEF HealthTypeOK, PingDone, feedVars, siteVars, verdictVars, Idle
  <2>2. PingTypes' BY <1>11 DEF PingTypes, HealthTypeOK, Pings, PingDone, feedVars, siteVars, verdictVars, Idle
  <2>3. WatchTypes' BY <1>11 DEF WatchTypes, HealthTypeOK, PingDone, feedVars, siteVars, verdictVars, Idle
  <2>4. ReportTypes'
    BY <1>11
       DEF ReportTypes, Reports, PingTypes, Pings, WatchTypes, HealthTypeOK, PingDone, feedVars, siteVars,
           verdictVars, Idle
  <2>5. PingerRuns' BY <1>11 DEF PingerRuns, HealthTypeOK, PingDone, feedVars, siteVars, verdictVars, Idle
  <2>6. PingsTold'
    BY <1>11 DEF PingsTold, HealthTypeOK, PingTypes, Pings, PingDone, feedVars, siteVars, verdictVars, Idle
  <2>7. ReportsTold'
    BY <1>11
       DEF ReportsTold, HealthTypeOK, ReportTypes, Reports, PingsTold, PingTypes, Pings, PingDone, feedVars,
           siteVars, verdictVars, Idle
  <2>8. VerdictsTold'
    BY <1>11
       DEF VerdictsTold, HealthTypeOK, ReportsTold, ReportTypes, Reports, PingDone, feedVars, siteVars, verdictVars,
           Idle
  <2> QED BY <2>1, <2>2, <2>3, <2>4, <2>5, <2>6, <2>7, <2>8 DEF HealthIInv
<1>12. CASE RoundAsked
  <2>1. HealthTypeOK' BY <1>12 DEF HealthTypeOK, RoundAsked, feedVars, siteVars, verdictVars, Idle
  <2>2. PingTypes' BY <1>12 DEF PingTypes, HealthTypeOK, Pings, RoundAsked, feedVars, siteVars, verdictVars, Idle
  <2>3. WatchTypes' BY <1>12 DEF WatchTypes, HealthTypeOK, RoundAsked, feedVars, siteVars, verdictVars, Idle
  <2>4. ReportTypes'
    BY <1>12
       DEF ReportTypes, Reports, PingTypes, Pings, WatchTypes, HealthTypeOK, RoundAsked, feedVars, siteVars,
           verdictVars, Idle
  <2>5. PingerRuns' BY <1>12 DEF PingerRuns, HealthTypeOK, RoundAsked, feedVars, siteVars, verdictVars, Idle
  <2>6. PingsTold'
    BY <1>12 DEF PingsTold, HealthTypeOK, PingTypes, Pings, RoundAsked, feedVars, siteVars, verdictVars, Idle
  <2>7. ReportsTold'
    BY <1>12
       DEF ReportsTold, HealthTypeOK, ReportTypes, Reports, PingsTold, PingTypes, Pings, RoundAsked, feedVars,
           siteVars, verdictVars, Idle
  <2>8. VerdictsTold'
    BY <1>12
       DEF VerdictsTold, HealthTypeOK, ReportsTold, ReportTypes, Reports, RoundAsked, feedVars, siteVars,
           verdictVars, Idle
  <2> QED BY <2>1, <2>2, <2>3, <2>4, <2>5, <2>6, <2>7, <2>8 DEF HealthIInv
<1>13. ASSUME NEW c \in Sites, FollowSink(c) PROVE HealthIInv'
  <2>1. HealthTypeOK' BY <1>13 DEF HealthTypeOK, FollowSink, feedVars, siteVars, verdictVars, Idle
  <2>2. PingTypes' BY <1>13 DEF PingTypes, HealthTypeOK, Pings, FollowSink, feedVars, siteVars, verdictVars, Idle
  <2>3. WatchTypes' BY <1>13 DEF WatchTypes, HealthTypeOK, FollowSink, feedVars, siteVars, verdictVars, Idle
  <2>4. ReportTypes'
    BY <1>13
       DEF ReportTypes, Reports, PingTypes, Pings, WatchTypes, HealthTypeOK, FollowSink, feedVars, siteVars,
           verdictVars, Idle
  <2>5. PingerRuns' BY <1>13 DEF PingerRuns, HealthTypeOK, FollowSink, feedVars, siteVars, verdictVars, Idle
  <2>6. PingsTold'
    BY <1>13 DEF PingsTold, HealthTypeOK, PingTypes, Pings, FollowSink, feedVars, siteVars, verdictVars, Idle
  <2>7. ReportsTold'
    BY <1>13
       DEF ReportsTold, HealthTypeOK, ReportTypes, Reports, PingsTold, PingTypes, Pings, FollowSink, feedVars,
           siteVars, verdictVars, Idle
  <2>8. VerdictsTold'
    BY <1>13
       DEF VerdictsTold, HealthTypeOK, ReportsTold, ReportTypes, Reports, FollowSink, feedVars, siteVars,
           verdictVars, Idle
  <2> QED BY <2>1, <2>2, <2>3, <2>4, <2>5, <2>6, <2>7, <2>8 DEF HealthIInv
<1>14. ASSUME NEW c \in Sites, FollowGeneration(c) PROVE HealthIInv'
  <2>1. HealthTypeOK' BY <1>14 DEF HealthTypeOK, FollowGeneration, feedVars, siteVars, verdictVars, Idle
  <2>2. PingTypes'
    BY <1>14 DEF PingTypes, HealthTypeOK, Pings, FollowGeneration, feedVars, siteVars, verdictVars, Idle
  <2>3. WatchTypes' BY <1>14 DEF WatchTypes, HealthTypeOK, FollowGeneration, feedVars, siteVars, verdictVars, Idle
  <2>4. ReportTypes'
    BY <1>14
       DEF ReportTypes, Reports, PingTypes, Pings, WatchTypes, HealthTypeOK, FollowGeneration, feedVars, siteVars,
           verdictVars, Idle
  <2>5. PingerRuns' BY <1>14 DEF PingerRuns, HealthTypeOK, FollowGeneration, feedVars, siteVars, verdictVars, Idle
  <2>6. PingsTold'
    BY <1>14 DEF PingsTold, HealthTypeOK, PingTypes, Pings, FollowGeneration, feedVars, siteVars, verdictVars, Idle
  <2>7. ReportsTold'
    BY <1>14
       DEF ReportsTold, HealthTypeOK, ReportTypes, Reports, PingsTold, PingTypes, Pings, FollowGeneration, feedVars,
           siteVars, verdictVars, Idle
  <2>8. VerdictsTold'
    BY <1>14
       DEF VerdictsTold, HealthTypeOK, ReportsTold, ReportTypes, Reports, FollowGeneration, feedVars, siteVars,
           verdictVars, Idle
  <2> QED BY <2>1, <2>2, <2>3, <2>4, <2>5, <2>6, <2>7, <2>8 DEF HealthIInv
<1>15. CASE Followed
  <2>1. HealthTypeOK' BY <1>15 DEF HealthTypeOK, Followed, feedVars, siteVars, verdictVars, Idle
  <2>2. PingTypes' BY <1>15 DEF PingTypes, HealthTypeOK, Pings, Followed, feedVars, siteVars, verdictVars, Idle
  <2>3. WatchTypes' BY <1>15 DEF WatchTypes, HealthTypeOK, Followed, feedVars, siteVars, verdictVars, Idle
  <2>4. ReportTypes'
    BY <1>15
       DEF ReportTypes, Reports, PingTypes, Pings, WatchTypes, HealthTypeOK, Followed, feedVars, siteVars,
           verdictVars, Idle
  <2>5. PingerRuns' BY <1>15 DEF PingerRuns, HealthTypeOK, Followed, feedVars, siteVars, verdictVars, Idle
  <2>6. PingsTold'
    BY <1>15 DEF PingsTold, HealthTypeOK, PingTypes, Pings, Followed, feedVars, siteVars, verdictVars, Idle
  <2>7. ReportsTold'
    BY <1>15
       DEF ReportsTold, HealthTypeOK, ReportTypes, Reports, PingsTold, PingTypes, Pings, Followed, feedVars,
           siteVars, verdictVars, Idle
  <2>8. VerdictsTold'
    BY <1>15
       DEF VerdictsTold, HealthTypeOK, ReportsTold, ReportTypes, Reports, Followed, feedVars, siteVars, verdictVars,
           Idle
  <2> QED BY <2>1, <2>2, <2>3, <2>4, <2>5, <2>6, <2>7, <2>8 DEF HealthIInv
<1>16. ASSUME NEW c \in Sites, SinkChanged(c) PROVE HealthIInv'
  <2>1. HealthTypeOK' BY <1>16 DEF HealthTypeOK, SinkChanged, feedVars, siteVars, verdictVars, Idle, Report
  <2>2. PingTypes'
    BY <1>16 DEF PingTypes, HealthTypeOK, Pings, SinkChanged, feedVars, siteVars, verdictVars, Idle, Report
  <2>3. WatchTypes' BY <1>16, ZenonT(30) DEF WatchTypes, HealthTypeOK, SinkChanged, feedVars, siteVars, verdictVars, Idle, Report
  <2>4. ReportTypes'
    BY <1>16
       DEF ReportTypes, Reports, PingTypes, Pings, WatchTypes, HealthTypeOK, SinkChanged, feedVars, siteVars,
           verdictVars, Idle, Report
  <2>5. PingerRuns' BY <1>16 DEF PingerRuns, HealthTypeOK, SinkChanged, feedVars, siteVars, verdictVars, Idle, Report
  <2>6. PingsTold'
    BY <1>16 DEF PingsTold, HealthTypeOK, PingTypes, Pings, SinkChanged, feedVars, siteVars, verdictVars, Idle, Report
  <2>7. ReportsTold'
    BY <1>16
       DEF ReportsTold, HealthTypeOK, ReportTypes, Reports, PingsTold, PingTypes, Pings, SinkChanged, feedVars,
           siteVars, verdictVars, Idle, Report
  <2>8. VerdictsTold'
    BY <1>16
       DEF VerdictsTold, HealthTypeOK, ReportsTold, ReportTypes, Reports, SinkChanged, feedVars, siteVars,
           verdictVars, Idle, Report
  <2> QED BY <2>1, <2>2, <2>3, <2>4, <2>5, <2>6, <2>7, <2>8 DEF HealthIInv
<1>17. ASSUME NEW r \in reports, CheckManager(r) PROVE HealthIInv'
  <2>1. HealthTypeOK' BY <1>17 DEF HealthTypeOK, CheckManager, feedVars, siteVars, verdictVars
  <2>2. PingTypes' BY <1>17 DEF PingTypes, HealthTypeOK, Pings, CheckManager, feedVars, siteVars, verdictVars
  <2>3. WatchTypes' BY <1>17 DEF WatchTypes, HealthTypeOK, CheckManager, feedVars, siteVars, verdictVars
  <2>4. ReportTypes'
    BY <1>17
       DEF ReportTypes, Reports, PingTypes, Pings, WatchTypes, HealthTypeOK, CheckManager, feedVars, siteVars,
           verdictVars
  <2>5. PingerRuns' BY <1>17 DEF PingerRuns, HealthTypeOK, CheckManager, feedVars, siteVars, verdictVars
  <2>6. PingsTold'
    BY <1>17 DEF PingsTold, HealthTypeOK, PingTypes, Pings, CheckManager, feedVars, siteVars, verdictVars
  <2>7. ReportsTold'
    BY <1>17, SMTT(30)
       DEF ReportsTold, HealthTypeOK, ReportTypes, Reports, PingsTold, PingTypes, Pings, CheckManager, feedVars,
           siteVars, verdictVars
  <2>8. VerdictsTold'
    BY <1>17
       DEF VerdictsTold, HealthTypeOK, ReportsTold, ReportTypes, Reports, CheckManager, feedVars, siteVars,
           verdictVars
  <2> QED BY <2>1, <2>2, <2>3, <2>4, <2>5, <2>6, <2>7, <2>8 DEF HealthIInv
<1>18. ASSUME NEW r \in reports, Settle(r) PROVE HealthIInv'
  <2>1. HealthTypeOK'
    <3>1. CASE Current(r)
      <4>1. r \in Reports /\ r.site \in Sites /\ r.of \in 0..MaxDials /\ r.by \in {"none", "ping", "sink"}
        BY DEF ReportTypes, Reports
      <4>2. MissesAfter(r.site, r.ok) \in Nat
        BY <4>1 DEF MissesAfter, HealthTypeOK
      <4>3. missed' \in [Sites -> Nat]
        BY <1>18, <3>1, <4>1, <4>2 DEF Settle, HealthTypeOK
      <4>4. PICK n : health' = [health EXCEPT ![r.site] = [state |-> VerdictHeld(r.ok, n), of |-> r.of, by |-> r.by]]
        BY <1>18, <3>1 DEF Settle
      <4>5. VerdictHeld(r.ok, n) \in {"unknown", "up", "wobbling", "down"}
        BY DEF VerdictHeld
      <4>6. [state |-> VerdictHeld(r.ok, n), of |-> r.of, by |-> r.by] \in Verdicts
        BY <4>1, <4>5 DEF Verdicts
      <4>7. health' \in [Sites -> Verdicts]
        BY <4>1, <4>4, <4>6 DEF HealthTypeOK, Verdicts
      <4> QED BY <1>18, <4>3, <4>7 DEF Settle, HealthTypeOK, Verdicts, feedVars, siteVars
    <3>2. CASE ~ Current(r)
      BY <1>18, <3>2 DEF Settle, HealthTypeOK, feedVars, siteVars
    <3> QED BY <3>1, <3>2
  <2>2. PingTypes'
    BY <1>18
       DEF PingTypes, HealthTypeOK, Pings, Settle, feedVars, siteVars, verdictVars, Current, MissesAfter, VerdictHeld
  <2>3. WatchTypes'
    BY <1>18 DEF WatchTypes, HealthTypeOK, Settle, feedVars, siteVars, verdictVars, Current, MissesAfter, VerdictHeld
  <2>4. ReportTypes'
    BY <1>18
       DEF ReportTypes, Reports, PingTypes, Pings, WatchTypes, HealthTypeOK, Settle, feedVars, siteVars,
           verdictVars, Current, MissesAfter, VerdictHeld
  <2>5. PingerRuns'
    BY <1>18 DEF PingerRuns, HealthTypeOK, Settle, feedVars, siteVars, verdictVars, Current, MissesAfter, VerdictHeld
  <2>6. PingsTold'
    BY <1>18
       DEF PingsTold, HealthTypeOK, PingTypes, Pings, Settle, feedVars, siteVars, verdictVars, Current, MissesAfter,
           VerdictHeld
  <2>7. ReportsTold'
    BY <1>18
       DEF ReportsTold, HealthTypeOK, ReportTypes, Reports, PingsTold, PingTypes, Pings, Settle, feedVars, siteVars,
           verdictVars, Current, MissesAfter, VerdictHeld
  <2>8. VerdictsTold'
    BY <1>18
       DEF VerdictsTold, HealthTypeOK, ReportsTold, ReportTypes, Reports, Settle, feedVars, siteVars, verdictVars,
           Current, MissesAfter, VerdictHeld
  <2> QED BY <2>1, <2>2, <2>3, <2>4, <2>5, <2>6, <2>7, <2>8 DEF HealthIInv
<1>19. ASSUME NEW c \in Sites, CloseSite(c) PROVE HealthIInv'
  <2>1. HealthTypeOK' BY <1>19 DEF HealthTypeOK, CloseSite, feedVars, siteVars, verdictVars, Idle
  <2>2. PingTypes' BY <1>19 DEF PingTypes, HealthTypeOK, Pings, CloseSite, feedVars, siteVars, verdictVars, Idle
  <2>3. WatchTypes' BY <1>19 DEF WatchTypes, HealthTypeOK, CloseSite, feedVars, siteVars, verdictVars, Idle
  <2>4. ReportTypes'
    BY <1>19
       DEF ReportTypes, Reports, PingTypes, Pings, WatchTypes, HealthTypeOK, CloseSite, feedVars, siteVars,
           verdictVars, Idle
  <2>5. PingerRuns' BY <1>19 DEF PingerRuns, HealthTypeOK, CloseSite, feedVars, siteVars, verdictVars, Idle
  <2>6. PingsTold'
    BY <1>19 DEF PingsTold, HealthTypeOK, PingTypes, Pings, CloseSite, feedVars, siteVars, verdictVars, Idle
  <2>7. ReportsTold'
    BY <1>19
       DEF ReportsTold, HealthTypeOK, ReportTypes, Reports, PingsTold, PingTypes, Pings, CloseSite, feedVars,
           siteVars, verdictVars, Idle
  <2>8. VerdictsTold'
    BY <1>19
       DEF VerdictsTold, HealthTypeOK, ReportsTold, ReportTypes, Reports, CloseSite, feedVars, siteVars,
           verdictVars, Idle
  <2> QED BY <2>1, <2>2, <2>3, <2>4, <2>5, <2>6, <2>7, <2>8 DEF HealthIInv
<1>20. ASSUME NEW c \in Sites, ForgetHealth(c) PROVE HealthIInv'
  <2>1. HealthTypeOK' BY <1>20 DEF HealthTypeOK, ForgetHealth, feedVars, siteVars, verdictVars, Idle, Unknown
  <2>2. PingTypes'
    BY <1>20 DEF PingTypes, HealthTypeOK, Pings, ForgetHealth, feedVars, siteVars, verdictVars, Idle, Unknown
  <2>3. WatchTypes'
    BY <1>20 DEF WatchTypes, HealthTypeOK, ForgetHealth, feedVars, siteVars, verdictVars, Idle, Unknown
  <2>4. ReportTypes'
    BY <1>20
       DEF ReportTypes, Reports, PingTypes, Pings, WatchTypes, HealthTypeOK, ForgetHealth, feedVars, siteVars,
           verdictVars, Idle, Unknown
  <2>5. PingerRuns'
    BY <1>20 DEF PingerRuns, HealthTypeOK, ForgetHealth, feedVars, siteVars, verdictVars, Idle, Unknown
  <2>6. PingsTold'
    BY <1>20
       DEF PingsTold, HealthTypeOK, PingTypes, Pings, ForgetHealth, feedVars, siteVars, verdictVars, Idle, Unknown
  <2>7. ReportsTold'
    BY <1>20
       DEF ReportsTold, HealthTypeOK, ReportTypes, Reports, PingsTold, PingTypes, Pings, ForgetHealth, feedVars,
           siteVars, verdictVars, Idle, Unknown
  <2>8. VerdictsTold'
    BY <1>20
       DEF VerdictsTold, HealthTypeOK, ReportsTold, ReportTypes, Reports, ForgetHealth, feedVars, siteVars,
           verdictVars, Idle, Unknown
  <2> QED BY <2>1, <2>2, <2>3, <2>4, <2>5, <2>6, <2>7, <2>8 DEF HealthIInv
<1>21. ASSUME NEW c \in Sites, OpenSite(c) PROVE HealthIInv'
  <2>1. HealthTypeOK' BY <1>21 DEF HealthTypeOK, OpenSite, feedVars, siteVars, verdictVars, Idle
  <2>2. PingTypes' BY <1>21 DEF PingTypes, HealthTypeOK, Pings, OpenSite, feedVars, siteVars, verdictVars, Idle
  <2>3. WatchTypes' BY <1>21 DEF WatchTypes, HealthTypeOK, OpenSite, feedVars, siteVars, verdictVars, Idle
  <2>4. ReportTypes'
    BY <1>21
       DEF ReportTypes, Reports, PingTypes, Pings, WatchTypes, HealthTypeOK, OpenSite, feedVars, siteVars,
           verdictVars, Idle
  <2>5. PingerRuns' BY <1>21 DEF PingerRuns, HealthTypeOK, OpenSite, feedVars, siteVars, verdictVars, Idle
  <2>6. PingsTold'
    BY <1>21 DEF PingsTold, HealthTypeOK, PingTypes, Pings, OpenSite, feedVars, siteVars, verdictVars, Idle
  <2>7. ReportsTold'
    BY <1>21
       DEF ReportsTold, HealthTypeOK, ReportTypes, Reports, PingsTold, PingTypes, Pings, OpenSite, feedVars,
           siteVars, verdictVars, Idle
  <2>8. VerdictsTold'
    BY <1>21
       DEF VerdictsTold, HealthTypeOK, ReportsTold, ReportTypes, Reports, OpenSite, feedVars, siteVars, verdictVars,
           Idle
  <2> QED BY <2>1, <2>2, <2>3, <2>4, <2>5, <2>6, <2>7, <2>8 DEF HealthIInv
<1>22. ASSUME NEW c \in Sites, Saw(c) PROVE HealthIInv'
  <2>1. HealthTypeOK' BY <1>22 DEF HealthTypeOK, Saw, feedVars, siteVars, verdictVars, Idle
  <2>2. PingTypes' BY <1>22 DEF PingTypes, HealthTypeOK, Pings, Saw, feedVars, siteVars, verdictVars, Idle
  <2>3. WatchTypes' BY <1>22 DEF WatchTypes, HealthTypeOK, Saw, feedVars, siteVars, verdictVars, Idle
  <2>4. ReportTypes'
    BY <1>22
       DEF ReportTypes, Reports, PingTypes, Pings, WatchTypes, HealthTypeOK, Saw, feedVars, siteVars, verdictVars,
           Idle
  <2>5. PingerRuns' BY <1>22 DEF PingerRuns, HealthTypeOK, Saw, feedVars, siteVars, verdictVars, Idle
  <2>6. PingsTold' BY <1>22 DEF PingsTold, HealthTypeOK, PingTypes, Pings, Saw, feedVars, siteVars, verdictVars, Idle
  <2>7. ReportsTold'
    BY <1>22
       DEF ReportsTold, HealthTypeOK, ReportTypes, Reports, PingsTold, PingTypes, Pings, Saw, feedVars, siteVars,
           verdictVars, Idle
  <2>8. VerdictsTold'
    BY <1>22
       DEF VerdictsTold, HealthTypeOK, ReportsTold, ReportTypes, Reports, Saw, feedVars, siteVars, verdictVars, Idle
  <2> QED BY <2>1, <2>2, <2>3, <2>4, <2>5, <2>6, <2>7, <2>8 DEF HealthIInv
<1>23. ASSUME NEW c \in Sites, Flip(c) PROVE HealthIInv'
  <2>1. HealthTypeOK' BY <1>23 DEF HealthTypeOK, Flip, feedVars, siteVars, verdictVars, Idle
  <2>2. PingTypes' BY <1>23 DEF PingTypes, HealthTypeOK, Pings, Flip, feedVars, siteVars, verdictVars, Idle
  <2>3. WatchTypes' BY <1>23 DEF WatchTypes, HealthTypeOK, Flip, feedVars, siteVars, verdictVars, Idle
  <2>4. ReportTypes'
    BY <1>23
       DEF ReportTypes, Reports, PingTypes, Pings, WatchTypes, HealthTypeOK, Flip, feedVars, siteVars, verdictVars,
           Idle
  <2>5. PingerRuns' BY <1>23 DEF PingerRuns, HealthTypeOK, Flip, feedVars, siteVars, verdictVars, Idle
  <2>6. PingsTold' BY <1>23 DEF PingsTold, HealthTypeOK, PingTypes, Pings, Flip, feedVars, siteVars, verdictVars, Idle
  <2>7. ReportsTold'
    BY <1>23
       DEF ReportsTold, HealthTypeOK, ReportTypes, Reports, PingsTold, PingTypes, Pings, Flip, feedVars, siteVars,
           verdictVars, Idle
  <2>8. VerdictsTold'
    BY <1>23
       DEF VerdictsTold, HealthTypeOK, ReportsTold, ReportTypes, Reports, Flip, feedVars, siteVars, verdictVars, Idle
  <2> QED BY <2>1, <2>2, <2>3, <2>4, <2>5, <2>6, <2>7, <2>8 DEF HealthIInv
<1>24. CASE UNCHANGED healthVars
  BY <1>24
     DEF healthVars, HealthTypeOK, PingTypes, WatchTypes, ReportTypes, PingerRuns, PingsTold, ReportsTold,
         VerdictsTold
<1> QED BY <1>1, <1>2, <1>3, <1>4, <1>5, <1>6, <1>7, <1>8, <1>9, <1>10, <1>11, <1>12, <1>13, <1>14, <1>15, <1>16,
       <1>17, <1>18, <1>19, <1>20, <1>21, <1>22, <1>23, <1>24
       DEF HealthNext, PingerStep, ReportStep

-----------------------------------------------------------------------------
(* Views and the idle exit (server/view.go).                               *)

\* The counts are natural numbers, and a program nobody looks at is leaving.
ViewIInv ==
    /\ desktop \in Nat /\ browser \in Nat /\ firing \in Nat
    /\ hidden \in BOOLEAN /\ armed \in BOOLEAN /\ given \in BOOLEAN
    /\ grace \in BOOLEAN /\ IdleIsLeaving

\* The invariant of the views holds initially.
LEMMA ViewStart == ViewInit => ViewIInv
<1>1. ViewInit => desktop \in Nat /\ browser \in Nat /\ firing \in Nat
  BY DEF ViewInit
<1>2. ViewInit => hidden \in BOOLEAN /\ armed \in BOOLEAN /\ given \in BOOLEAN /\ grace \in BOOLEAN /\ IdleIsLeaving
  BY Zenon DEF ViewInit, IdleIsLeaving
<1> QED BY <1>1, <1>2 DEF ViewIInv

\* Every step of the views keeps its invariant.
LEMMA ViewStep == ViewIInv /\ [ViewNext]_viewVars => ViewIInv'
<1> SUFFICES ASSUME ViewIInv, [ViewNext]_viewVars PROVE ViewIInv'
  OBVIOUS
<1> USE DEF ViewIInv, IdleIsLeaving, Live, Reconsider
<1>1. ASSUME NEW kind \in {"desktop", "browser"}, Opened(kind) PROVE ViewIInv'
  BY <1>1 DEF Opened
<1>2. ASSUME NEW kind \in {"desktop", "browser"}, Closed(kind) PROVE ViewIInv'
  BY <1>2 DEF Closed
<1>3. CASE Fire
  BY <1>3 DEF Fire
<1>4. CASE GiveUpTab
  <2>1. desktop' = desktop /\ browser' = browser /\ hidden' = hidden /\ armed' = armed /\ firing' \in Nat /\ grace' = FALSE
    BY <1>4 DEF GiveUpTab
  <2>2. given' \in BOOLEAN /\ (given' = (given \/ (armed /\ ~ given /\ Live(desktop, browser, hidden) = 0)))
    BY <1>4, Zenon DEF GiveUpTab, IsGone
  <2>3. ~ (armed' /\ ~ given' /\ Live(desktop', browser', hidden') = 0)
    BY <2>1, <2>2
  <2> QED BY <2>1, <2>2, <2>3
<1>5. CASE ToDesktop
  BY <1>5 DEF ToDesktop
<1>6. ASSUME NEW w \in Switches, AwaitBrowser(w) \/ BrowserNeverCame(w) PROVE ViewIInv'
  BY <1>6 DEF AwaitBrowser, BrowserNeverCame
<1>8. ASSUME NEW w \in Switches, HideWindow(w) PROVE ViewIInv'
  BY <1>8 DEF HideWindow
<1>7. CASE UNCHANGED viewVars
  BY <1>7 DEF viewVars
<1> QED BY <1>1, <1>2, <1>3, <1>4, <1>5, <1>6, <1>7, <1>8 DEF ViewNext

\* Whoever looks is pinged for, a ping of a closed connection never speaks for
\* the one that is open now, and a program nobody looks at is on its way out,
\* for any sessions, clusters, views and limits (server/health.go, view.go).
THEOREM PresenceSafety == ServicesSpec => []PresenceSound
<1>1. ServicesInit => HealthIInv /\ ViewIInv
  BY HealthStart, ViewStart DEF ServicesInit
<1>2. HealthIInv /\ ViewIInv /\ [ServicesNext]_servicesVars => HealthIInv' /\ ViewIInv'
  BY OneMoves, HealthStep, ViewStep
<1>3. HealthIInv /\ ViewIInv => PresenceSound
  BY DEF HealthIInv, PingerRuns, VerdictsTold, ViewIInv, PresenceSound, SomebodyWatches, PingsNotStale
<1> QED BY <1>1, <1>2, <1>3, PTL DEF ServicesSpec

-----------------------------------------------------------------------------
(* The logs of many pods (logs/many.go).                                   *)

\* A pod that is read is among the open ones, those are claimed, and so is one
\* that was read to its end: neither is attached again.
ClaimsHold ==
    /\ \A i \in Ids : readers[i] =< 1 /\ (readers[i] > 0 => i \in open)
    /\ open \subseteq seen
    /\ \A i \in finished : i \in seen /\ readers[i] = 0

\* The first list is worked off without asking for room: it is no longer than
\* there is.
RoomLeft ==
    /\ Cardinality(open) =< Cap
    /\ tail = "opening" => Cardinality(open) + Len(pass) =< Cap
    /\ tail = "listing" => open = {}

TailIInv == TailTypeOK /\ ClaimsHold /\ RoomLeft

\* The lives of pods are finitely many.
LEMMA IdsFinite == IsFiniteSet(Ids) /\ \A S \in SUBSET Ids : IsFiniteSet(S) /\ Cardinality(S) \in Nat
<1>1. IsFiniteSet(1..Lives)
  BY TailAssumption, FS_Interval
<1>2. IsFiniteSet(Ids)
  BY <1>1, TailAssumption, FS_Product DEF Ids
<1> QED BY <1>2, FS_Subset, FS_CardinalityType

\* A list is a sequence of pods, no longer than the cap.
LEMMA MatchingType ==
    ASSUME listed \subseteq Ids, NEW q \in PodsMatching
    PROVE  q \in Seq(Ids) /\ Len(q) =< Cap /\ Len(q) \in Nat
<1>1. Cardinality(listed) \in Nat
  BY IdsFinite
<1>2. PICK n \in Nat : n =< Cap /\ q \in [1..n -> listed]
  BY <1>1, TailAssumption DEF PodsMatching
<1>3. q \in [1..n -> Ids]
  BY <1>2
<1> QED BY <1>2, <1>3

\* What attaching a pod does: nothing, or the pod had no reader and has one.
LEMMA Attaching ==
    ASSUME TailIInv, NEW i \in Ids, Attach(i)
    PROVE  \/ UNCHANGED <<seen, open, readers, attached>>
           \/ /\ i \notin open /\ readers[i] = 0 /\ i \notin finished
              /\ seen' = seen \cup {i} /\ open' = open \cup {i} /\ attached' = TRUE
              /\ readers' = [readers EXCEPT ![i] = 1]
              /\ Cardinality(open') = Cardinality(open) + 1
<1>1. CASE UNCHANGED <<seen, open, readers, attached>>
  BY <1>1
<1>2. CASE ~ UNCHANGED <<seen, open, readers, attached>>
  <2>1. /\ i \notin seen /\ seen' = seen \cup {i} /\ open' = open \cup {i} /\ attached' = TRUE
        /\ readers' = [readers EXCEPT ![i] = readers[i] + 1]
    BY <1>2 DEF Attach
  <2>2. i \notin open /\ i \notin finished
    BY <2>1 DEF TailIInv, ClaimsHold
  <2>3. readers[i] = 0
    BY <2>2 DEF TailIInv, ClaimsHold, TailTypeOK
  <2>4. Cardinality(open \cup {i}) = Cardinality(open) + 1
    BY <2>2, IdsFinite, FS_AddElement DEF TailIInv, TailTypeOK
  <2>5. readers' = [readers EXCEPT ![i] = 1]
    <3>1. readers[i] + 1 = 1
      BY <2>3
    <3> QED BY <2>1, <3>1
  <2> QED BY <2>1, <2>2, <2>3, <2>4, <2>5
<1> QED BY <1>1, <1>2

\* The invariant of the log tails holds initially.
LEMMA TailStart == TailInit => TailIInv
<1> SUFFICES ASSUME TailInit PROVE TailIInv
  OBVIOUS
<1>1. listed \subseteq Ids
  <2> PICK some \in SUBSET LogPods : listed = {<<n, 1>> : n \in some}
    BY DEF TailInit
  <2> SUFFICES ASSUME NEW n \in some PROVE <<n, 1>> \in Ids
    OBVIOUS
  <2> QED BY TailAssumption DEF Ids
<1>2. pass \in Seq(Ids) /\ readers \in [Ids -> 0..2]
  BY DEF TailInit
<1>3. TailTypeOK
  BY <1>1, <1>2 DEF TailInit, TailTypeOK
<1>4. ClaimsHold
  BY DEF TailInit, ClaimsHold
<1>5. RoomLeft
  BY FS_EmptySet, TailAssumption DEF TailInit, RoomLeft
<1> QED BY <1>3, <1>4, <1>5 DEF TailIInv

\* Every step of the log tails keeps its invariant.
LEMMA TailKept == TailIInv /\ [TailNext]_tailVars => TailIInv'
<1> SUFFICES ASSUME TailIInv, [TailNext]_tailVars PROVE TailIInv'
  OBVIOUS
<1> USE TailAssumption DEF TailIInv
<1>1. CASE OpenMany
  <2>1. TailTypeOK'
    <3>1. listed \subseteq Ids /\ (pass' \in PodsMatching \/ pass' = pass)
      BY <1>1 DEF TailTypeOK, OpenMany
    <3>2. pass' \in Seq(Ids)
      BY <3>1, MatchingType DEF TailTypeOK
    <3> QED BY <1>1, <3>2 DEF TailTypeOK, OpenMany
  <2>2. ClaimsHold' BY <1>1 DEF ClaimsHold, TailTypeOK, OpenMany
  <2>3. RoomLeft'
    <3>1. tail' = "opening" => pass' \in PodsMatching
      BY <1>1 DEF OpenMany
    <3>2. tail' = "opening" => Len(pass') =< Cap /\ Len(pass') \in Nat
      BY <3>1, MatchingType DEF TailTypeOK
    <3>3. open' = {} /\ Cardinality(open') = 0
      BY <1>1, FS_EmptySet DEF OpenMany, RoomLeft
    <3> QED BY <1>1, <3>2, <3>3, TailAssumption DEF RoomLeft, OpenMany
  <2> QED BY <2>1, <2>2, <2>3 DEF TailIInv
<1>2. CASE AttachFirst
  <2>1. TailTypeOK'
    <3> DEFINE i == Head(pass)
    <3>1. i \in Ids /\ pass' = Tail(pass) /\ pass' \in Seq(Ids) /\ Len(pass') = Len(pass) - 1 /\ Len(pass) \in Nat
      BY <1>2 DEF TailTypeOK, AttachFirst
    <3>2. Attach(i)
      BY <1>2 DEF AttachFirst
    <3> HIDE DEF i
    <3>3. \/ UNCHANGED <<seen, open, readers, attached>>
          \/ /\ i \notin open /\ readers[i] = 0 /\ i \notin finished
             /\ seen' = seen \cup {i} /\ open' = open \cup {i} /\ attached' = TRUE
             /\ readers' = [readers EXCEPT ![i] = 1]
             /\ Cardinality(open') = Cardinality(open) + 1
      BY <3>1, <3>2, Attaching
    <3>4. readers' \in [Ids -> 0..2]
      BY <3>1, <3>3 DEF TailTypeOK
    <3>5. attached' \in BOOLEAN
      BY <3>3, Zenon DEF TailTypeOK
    <3>6. seen' \subseteq Ids /\ open' \subseteq Ids
      BY <3>1, <3>3 DEF TailTypeOK
    <3> QED BY <1>2, <3>1, <3>4, <3>5, <3>6 DEF TailTypeOK, AttachFirst
  <2>2. ClaimsHold'
    <3> DEFINE i == Head(pass)
    <3>1. i \in Ids /\ pass' = Tail(pass) /\ pass' \in Seq(Ids) /\ Len(pass') = Len(pass) - 1 /\ Len(pass) \in Nat
      BY <1>2 DEF TailTypeOK, AttachFirst
    <3>2. Attach(i)
      BY <1>2 DEF AttachFirst
    <3> HIDE DEF i
    <3>3. \/ UNCHANGED <<seen, open, readers, attached>>
          \/ /\ i \notin open /\ readers[i] = 0 /\ i \notin finished
             /\ seen' = seen \cup {i} /\ open' = open \cup {i} /\ attached' = TRUE
             /\ readers' = [readers EXCEPT ![i] = 1]
             /\ Cardinality(open') = Cardinality(open) + 1
      BY <3>1, <3>2, Attaching
    <3> QED BY <1>2, <3>1, <3>3 DEF TailTypeOK, ClaimsHold, AttachFirst
  <2>3. RoomLeft'
    <3> DEFINE i == Head(pass)
    <3>1. i \in Ids /\ pass' = Tail(pass) /\ pass' \in Seq(Ids) /\ Len(pass') = Len(pass) - 1 /\ Len(pass) \in Nat
      BY <1>2 DEF TailTypeOK, AttachFirst
    <3>2. Attach(i)
      BY <1>2 DEF AttachFirst
    <3> HIDE DEF i
    <3>3. \/ UNCHANGED <<seen, open, readers, attached>>
          \/ /\ i \notin open /\ readers[i] = 0 /\ i \notin finished
             /\ seen' = seen \cup {i} /\ open' = open \cup {i} /\ attached' = TRUE
             /\ readers' = [readers EXCEPT ![i] = 1]
             /\ Cardinality(open') = Cardinality(open) + 1
      BY <3>1, <3>2, Attaching
    <3>4. Cardinality(open) \in Nat
      BY IdsFinite DEF TailTypeOK
    <3> QED BY <1>2, <3>1, <3>3, <3>4, TailAssumption DEF RoomLeft, AttachFirst
  <2> QED BY <2>1, <2>2, <2>3 DEF TailIInv
<1>3. CASE HandOut
  <2>1. TailTypeOK' BY <1>3 DEF TailTypeOK, HandOut
  <2>2. ClaimsHold' BY <1>3 DEF ClaimsHold, TailTypeOK, HandOut
  <2>3. RoomLeft' BY <1>3 DEF RoomLeft, TailTypeOK, HandOut
  <2> QED BY <2>1, <2>2, <2>3 DEF TailIInv
<1>4. CASE ListAgain
  <2>1. TailTypeOK'
    <3>1. pass' \in Seq(Ids)
      BY <1>4, MatchingType DEF TailTypeOK, ListAgain
    <3> QED BY <1>4, <3>1 DEF TailTypeOK, ListAgain, ForgetGone
  <2>2. ClaimsHold' BY <1>4 DEF ClaimsHold, TailTypeOK, ListAgain, ForgetGone
  <2>3. RoomLeft' BY <1>4 DEF RoomLeft, TailTypeOK, ListAgain, ForgetGone
  <2> QED BY <2>1, <2>2, <2>3 DEF TailIInv
<1>5. CASE AttachMore
  <2>1. TailTypeOK'
    <3> DEFINE i == Head(pass)
    <3>0. i \in Ids /\ Tail(pass) \in Seq(Ids)
      BY <1>5 DEF TailTypeOK, AttachMore
    <3>1. pass' \in Seq(Ids)
      <4>1. pass' = Tail(pass) \/ pass' = <<>>
        BY <1>5 DEF AttachMore
      <4>2. <<>> \in Seq(Ids)
        OBVIOUS
      <4> QED BY <3>0, <4>1, <4>2
    <3>2. UNCHANGED <<seen, open, readers, attached>> \/ (Attach(i) /\ Cardinality(open) < Cap)
      BY <1>5 DEF AttachMore
    <3> HIDE DEF i
    <3>3. \/ UNCHANGED <<seen, open, readers, attached>>
          \/ /\ i \notin open /\ readers[i] = 0 /\ i \notin finished
             /\ seen' = seen \cup {i} /\ open' = open \cup {i} /\ attached' = TRUE
             /\ readers' = [readers EXCEPT ![i] = 1]
             /\ Cardinality(open') = Cardinality(open) + 1 /\ Cardinality(open) < Cap
      BY <3>0, <3>2, Attaching
    <3>4. readers' \in [Ids -> 0..2]
      BY <3>0, <3>3 DEF TailTypeOK
    <3>5. attached' \in BOOLEAN
      BY <3>3, Zenon DEF TailTypeOK
    <3>6. seen' \subseteq Ids /\ open' \subseteq Ids
      BY <3>0, <3>3 DEF TailTypeOK
    <3> QED BY <1>5, <3>1, <3>4, <3>5, <3>6 DEF TailTypeOK, AttachMore
  <2>2. ClaimsHold'
    <3> DEFINE i == Head(pass)
    <3>0. i \in Ids /\ Tail(pass) \in Seq(Ids)
      BY <1>5 DEF TailTypeOK, AttachMore
    <3>1. pass' \in Seq(Ids)
      <4>1. pass' = Tail(pass) \/ pass' = <<>>
        BY <1>5 DEF AttachMore
      <4>2. <<>> \in Seq(Ids)
        OBVIOUS
      <4> QED BY <3>0, <4>1, <4>2
    <3>2. UNCHANGED <<seen, open, readers, attached>> \/ (Attach(i) /\ Cardinality(open) < Cap)
      BY <1>5 DEF AttachMore
    <3> HIDE DEF i
    <3>3. \/ UNCHANGED <<seen, open, readers, attached>>
          \/ /\ i \notin open /\ readers[i] = 0 /\ i \notin finished
             /\ seen' = seen \cup {i} /\ open' = open \cup {i} /\ attached' = TRUE
             /\ readers' = [readers EXCEPT ![i] = 1]
             /\ Cardinality(open') = Cardinality(open) + 1 /\ Cardinality(open) < Cap
      BY <3>0, <3>2, Attaching
    <3> QED BY <1>5, <3>0, <3>3 DEF TailTypeOK, ClaimsHold, AttachMore
  <2>3. RoomLeft'
    <3> DEFINE i == Head(pass)
    <3>0. i \in Ids /\ Tail(pass) \in Seq(Ids)
      BY <1>5 DEF TailTypeOK, AttachMore
    <3>1. pass' \in Seq(Ids)
      <4>1. pass' = Tail(pass) \/ pass' = <<>>
        BY <1>5 DEF AttachMore
      <4>2. <<>> \in Seq(Ids)
        OBVIOUS
      <4> QED BY <3>0, <4>1, <4>2
    <3>2. UNCHANGED <<seen, open, readers, attached>> \/ (Attach(i) /\ Cardinality(open) < Cap)
      BY <1>5 DEF AttachMore
    <3> HIDE DEF i
    <3>3. \/ UNCHANGED <<seen, open, readers, attached>>
          \/ /\ i \notin open /\ readers[i] = 0 /\ i \notin finished
             /\ seen' = seen \cup {i} /\ open' = open \cup {i} /\ attached' = TRUE
             /\ readers' = [readers EXCEPT ![i] = 1]
             /\ Cardinality(open') = Cardinality(open) + 1 /\ Cardinality(open) < Cap
      BY <3>0, <3>2, Attaching
    <3>4. Cardinality(open) \in Nat
      BY IdsFinite DEF TailTypeOK
    <3> QED BY <1>5, <3>1, <3>3, <3>4, TailAssumption DEF RoomLeft, AttachMore
  <2> QED BY <2>1, <2>2, <2>3 DEF TailIInv
<1>6. CASE PassEnds
  <2>1. TailTypeOK' BY <1>6 DEF TailTypeOK, PassEnds
  <2>2. ClaimsHold' BY <1>6 DEF ClaimsHold, TailTypeOK, PassEnds
  <2>3. RoomLeft' BY <1>6 DEF RoomLeft, TailTypeOK, PassEnds
  <2> QED BY <2>1, <2>2, <2>3 DEF TailIInv
<1>7. ASSUME NEW i \in Ids, ReadEnds(i) PROVE TailIInv'
  <2>1. TailTypeOK' BY <1>7 DEF TailTypeOK, ReadEnds, ReleaseTail
  <2>2. ClaimsHold' BY <1>7 DEF ClaimsHold, TailTypeOK, ReadEnds, ReleaseTail
  <2>3. RoomLeft'
    <3>1. open' = open \ {i} /\ pass' = pass /\ tail' = tail
      BY <1>7 DEF ReadEnds, ReleaseTail
    <3>2. Cardinality(open') =< Cardinality(open) /\ Cardinality(open') \in Nat /\ Cardinality(open) \in Nat
      BY <3>1, IdsFinite, FS_Subset DEF TailTypeOK
    <3>3. Len(pass) \in Nat
      BY DEF TailTypeOK
    <3> QED BY <3>1, <3>2, <3>3, TailAssumption DEF RoomLeft
  <2> QED BY <2>1, <2>2, <2>3 DEF TailIInv
<1>8. ASSUME NEW i \in Ids, ReadStops(i) PROVE TailIInv'
  <2>1. TailTypeOK' BY <1>8 DEF TailTypeOK, ReadStops
  <2>2. ClaimsHold' BY <1>8 DEF ClaimsHold, TailTypeOK, ReadStops
  <2>3. RoomLeft' BY <1>8 DEF RoomLeft, TailTypeOK, ReadStops
  <2> QED BY <2>1, <2>2, <2>3 DEF TailIInv
<1>9. CASE WatchEnds
  <2>1. TailTypeOK' BY <1>9 DEF TailTypeOK, WatchEnds
  <2>2. ClaimsHold' BY <1>9 DEF ClaimsHold, TailTypeOK, WatchEnds
  <2>3. RoomLeft' BY <1>9 DEF RoomLeft, TailTypeOK, WatchEnds
  <2> QED BY <2>1, <2>2, <2>3 DEF TailIInv
<1>10. CASE TailCloses
  <2>1. TailTypeOK' BY <1>10 DEF TailTypeOK, TailCloses
  <2>2. ClaimsHold' BY <1>10 DEF ClaimsHold, TailTypeOK, TailCloses
  <2>3. RoomLeft' BY <1>10 DEF RoomLeft, TailTypeOK, TailCloses
  <2> QED BY <2>1, <2>2, <2>3 DEF TailIInv
<1>11. CASE Cancel
  <2>1. TailTypeOK' BY <1>11 DEF TailTypeOK, Cancel
  <2>2. ClaimsHold' BY <1>11 DEF ClaimsHold, TailTypeOK, Cancel
  <2>3. RoomLeft' BY <1>11 DEF RoomLeft, TailTypeOK, Cancel
  <2> QED BY <2>1, <2>2, <2>3 DEF TailIInv
<1>12. CASE StopTaking
  <2>1. TailTypeOK' BY <1>12 DEF TailTypeOK, StopTaking
  <2>2. ClaimsHold' BY <1>12 DEF ClaimsHold, TailTypeOK, StopTaking
  <2>3. RoomLeft' BY <1>12 DEF RoomLeft, TailTypeOK, StopTaking
  <2> QED BY <2>1, <2>2, <2>3 DEF TailIInv
<1>13. CASE PodsChange
  <2>1. TailTypeOK'
    <3>1. listed' \subseteq Ids
      <4> PICK n \in LogPods :
            \/ \E k \in 1..Lives : listed' = listed \ {<<n, k>>}
            \/ \E k \in 1..Lives : listed' = listed \cup {<<n, k>>}
            \/ \E k \in 1..(Lives - 1) : listed' = (listed \ {<<n, k>>}) \cup {<<n, k + 1>>}
        BY <1>13 DEF PodsChange
      <4>1. \A k \in 1..(Lives - 1) : k + 1 \in 1..Lives
        OBVIOUS
      <4>2. \A k \in 1..Lives : <<n, k>> \in Ids
        BY DEF Ids
      <4> QED BY <4>1, <4>2 DEF TailTypeOK
    <3> QED BY <1>13, <3>1 DEF TailTypeOK, PodsChange
  <2>2. ClaimsHold' BY <1>13 DEF ClaimsHold, TailTypeOK, PodsChange, Ids
  <2>3. RoomLeft' BY <1>13 DEF RoomLeft, TailTypeOK, PodsChange, Ids
  <2> QED BY <2>1, <2>2, <2>3 DEF TailIInv
<1>14. CASE UNCHANGED tailVars
  BY <1>14 DEF tailVars, TailTypeOK, ClaimsHold, RoomLeft
<1> QED BY <1>1, <1>2, <1>3, <1>4, <1>5, <1>6, <1>7, <1>8, <1>9, <1>10, <1>11, <1>12, <1>13, <1>14
       DEF TailNext, TailStep

-----------------------------------------------------------------------------
(* The MCP server on its streams (mcp/stdio.go).                           *)

\* A message is held while the loop hands it over, and at no other time; one
\* that was lost met an output that had failed.
InHandIsHeld ==
    /\ serve # "handing" => inHand = Idly
    /\ \A m \in Messages : message[m] = "held" => serve = "handing" /\ inHand = m
    /\ \A m \in Messages : message[m] = "lost" => output = "failed"
    /\ serve = "handing" => inHand \in Messages
    /\ serve = "returned" => Busy = {}

ServeIInv == McpTypeOK /\ InHandIsHeld

\* The invariant of the MCP loop holds initially.
LEMMA ServeStart == ServeInit => ServeIInv
BY DEF ServeInit, ServeIInv, McpTypeOK, InHandIsHeld

\* Every step of the MCP loop keeps its invariant.
LEMMA ServeKept == ServeIInv /\ [ServeNext]_serveVars => ServeIInv'
<1> SUFFICES ASSUME ServeIInv, [ServeNext]_serveVars PROVE ServeIInv'
  OBVIOUS
<1> USE DEF ServeIInv
<1>1. CASE Interrupt
  <2>1. McpTypeOK' BY <1>1 DEF McpTypeOK, Interrupt
  <2>2. InHandIsHeld' BY <1>1 DEF InHandIsHeld, McpTypeOK, Busy, Interrupt
  <2> QED BY <2>1, <2>2 DEF ServeIInv
<1>2. CASE SeeStopped
  <2>1. McpTypeOK' BY <1>2 DEF McpTypeOK, SeeStopped
  <2>2. InHandIsHeld' BY <1>2 DEF InHandIsHeld, McpTypeOK, Busy, SeeStopped
  <2> QED BY <2>1, <2>2 DEF ServeIInv
<1>3. CASE ReadMessage
  <2>1. McpTypeOK' BY <1>3 DEF McpTypeOK, ReadMessage, Unread
  <2>2. InHandIsHeld' BY <1>3 DEF InHandIsHeld, McpTypeOK, Busy, ReadMessage, Unread
  <2> QED BY <2>1, <2>2 DEF ServeIInv
<1>4. CASE HandOver
  <2>1. McpTypeOK' BY <1>4 DEF McpTypeOK, HandOver
  <2>2. InHandIsHeld' BY <1>4 DEF InHandIsHeld, McpTypeOK, Busy, HandOver
  <2> QED BY <2>1, <2>2 DEF ServeIInv
<1>5. CASE LookAtErrors
  <2>1. McpTypeOK' BY <1>5 DEF McpTypeOK, LookAtErrors
  <2>2. InHandIsHeld' BY <1>5 DEF InHandIsHeld, McpTypeOK, Busy, LookAtErrors
  <2> QED BY <2>1, <2>2 DEF ServeIInv
<1>6. ASSUME NEW m \in Messages, FinishWork(m) PROVE ServeIInv'
  <2>1. McpTypeOK' BY <1>6 DEF McpTypeOK, FinishWork
  <2>2. InHandIsHeld' BY <1>6 DEF InHandIsHeld, McpTypeOK, Busy, FinishWork
  <2> QED BY <2>1, <2>2 DEF ServeIInv
<1>7. ASSUME NEW m \in Messages, Send(m) PROVE ServeIInv'
  <2>1. McpTypeOK' BY <1>7 DEF McpTypeOK, Send
  <2>2. InHandIsHeld' BY <1>7 DEF InHandIsHeld, McpTypeOK, Busy, Send
  <2> QED BY <2>1, <2>2 DEF ServeIInv
<1>8. CASE Return
  <2>1. McpTypeOK' BY <1>8 DEF McpTypeOK, Return
  <2>2. InHandIsHeld' BY <1>8 DEF InHandIsHeld, McpTypeOK, Busy, Return
  <2> QED BY <2>1, <2>2 DEF ServeIInv
<1>9. CASE UNCHANGED serveVars
  BY <1>9 DEF serveVars, McpTypeOK, InHandIsHeld, Busy
<1> QED BY <1>1, <1>2, <1>3, <1>4, <1>5, <1>6, <1>7, <1>8, <1>9 DEF ServeNext, ServeLoop

\* A pod's log is read by one reader at a time and not again once it was read
\* to its end, no more pods are read than the cap allows, and the MCP server
\* returns after its replies, for any pods, messages and limits (logs/many.go,
\* mcp/stdio.go).
THEOREM StreamsSafety == ServicesSpec => []StreamsSound
<1>1. ServicesInit => TailIInv /\ ServeIInv
  BY TailStart, ServeStart DEF ServicesInit
<1>2. TailIInv /\ ServeIInv /\ [ServicesNext]_servicesVars => TailIInv' /\ ServeIInv'
  BY OneMoves, TailKept, ServeKept
<1>3. TailIInv /\ ServeIInv => StreamsSound
  <2> SUFFICES ASSUME TailIInv, ServeIInv PROVE StreamsSound
    OBVIOUS
  <2>1. OneReaderEach /\ FinishedNotReadAgain
    BY DEF TailIInv, ClaimsHold, OneReaderEach, FinishedNotReadAgain
  <2>2. TailsWithinCap
    <3> DEFINE S == {i \in Ids : readers[i] > 0}
    <3>1. S \subseteq open /\ IsFiniteSet(open)
      BY IdsFinite DEF TailIInv, ClaimsHold, TailTypeOK
    <3>2. Cardinality(S) =< Cardinality(open)
      BY <3>1, FS_Subset
    <3>3. Cardinality(S) \in Nat /\ Cardinality(open) \in Nat /\ Cardinality(open) =< Cap
      BY IdsFinite DEF TailIInv, RoomLeft, TailTypeOK
    <3> HIDE DEF S
    <3>4. Cardinality(S) =< Cap
      BY <3>2, <3>3, TailAssumption
    <3> QED BY <3>4 DEF S, TailsWithinCap
  <2>3. RepliesBeforeReturn
    BY DEF ServeIInv, InHandIsHeld, McpTypeOK, RepliesBeforeReturn, Busy
  <2> QED BY <2>1, <2>2, <2>3 DEF StreamsSound, TailIInv, ServeIInv
<1> QED BY <1>1, <1>2, <1>3, PTL DEF ServicesSpec

-----------------------------------------------------------------------------
(* Sign-in and sessions (internal/auth).                                   *)

Cookies == [sid : Sids, issued : Nat \ {0}, expires : Nat, since : Nat]

SignRequests ==
    [at : {"none", "accepted", "exchange", "revoke", "write"}, cookie : Cookies \cup {NoCookie},
     flow : Flows \cup {"none"}, sid : Sids \cup {"none"}, out : BOOLEAN, until : Nat]

SignTypes ==
    /\ now \in Nat \ {0} /\ jar \subseteq Cookies /\ keeps \in BOOLEAN
    /\ begun \in [Flows -> Nat] /\ consumed \in [Flows -> Nat] /\ logins \in [Flows -> Nat]
    /\ gone \in [Sids -> Nat] /\ kept \in [Sids -> Nat] /\ revokedAt \in [Sids -> Nat]

\* A request has what its next step uses.
RequestTypes ==
    /\ request \in [Requests -> SignRequests]
    /\ \A k \in Requests :
           /\ request[k].at = "accepted" => request[k].cookie \in Cookies
           /\ request[k].at = "exchange" => request[k].flow \in Flows
           /\ request[k].at \in {"revoke", "write"} => request[k].sid \in Sids

\* A cookie says when its owner signed in, however often it was renewed.
CookiesTrue ==
    /\ \A c \in jar : c.since = c.issued
    /\ \A k \in Requests : request[k].at = "accepted" => request[k].cookie.since = request[k].cookie.issued

\* A revocation is held for as long as a cookie of that sign-in may live.
RevocationsHeld ==
    \A s \in Sids : revokedAt[s] # 0 => gone[s] = revokedAt[s] + MaxAge \/ now >= revokedAt[s] + MaxAge

\* The flow gave a sign-in, or is about to.
FlowUsed(f) == logins[f] # 0 \/ \E k \in Requests : request[k].at = "exchange" /\ request[k].flow = f

\* It is remembered for as long as its cookie lives, and nobody else is about
\* to sign in with it.
FlowsRemembered ==
    /\ \A f \in Flows :
           /\ begun[f] =< now + FlowLife /\ logins[f] =< 1
           /\ FlowUsed(f) => begun[f] # 0 /\ (now >= begun[f] \/ consumed[f] >= begun[f])
    /\ \A k \in Requests : request[k].at = "exchange" =>
           /\ logins[request[k].flow] = 0
           /\ \A l \in Requests : request[l].at = "exchange" /\ request[l].flow = request[k].flow => l = k

SignIInv == SignTypes /\ RequestTypes /\ CookiesTrue /\ RevocationsHeld /\ FlowsRemembered

\* The limits of sign-in are numbers.
LEMMA SignNat ==
    SessionTtl \in Nat /\ MaxAge \in Nat /\ FlowLife \in Nat /\ FlowRoom \in Nat /\ MaxNow \in Nat /\ MaxRestarts \in Nat
BY SignAssumption

\* The records that requests become.
LEMMA RestingRequest == NoRequest \in SignRequests /\ NoRequest.at = "none"
BY DEF NoRequest, SignRequests

\* A request that presents a cookie.
LEMMA Accepting ==
    ASSUME NEW c \in Cookies, NEW o \in BOOLEAN
    PROVE  /\ [NoRequest EXCEPT !.at = "accepted", !.cookie = c, !.out = o] \in SignRequests
           /\ [NoRequest EXCEPT !.at = "accepted", !.cookie = c, !.out = o].at = "accepted"
           /\ [NoRequest EXCEPT !.at = "accepted", !.cookie = c, !.out = o].cookie = c
BY DEF NoRequest, SignRequests

\* A callback that exchanges its code.
LEMMA Exchanging ==
    ASSUME NEW f \in Flows
    PROVE  /\ [NoRequest EXCEPT !.at = "exchange", !.flow = f] \in SignRequests
           /\ [NoRequest EXCEPT !.at = "exchange", !.flow = f].at = "exchange"
           /\ [NoRequest EXCEPT !.at = "exchange", !.flow = f].flow = f
BY DEF NoRequest, SignRequests

\* A logout that revokes.
LEMMA Revoking ==
    ASSUME NEW s \in Sids
    PROVE  /\ [NoRequest EXCEPT !.at = "revoke", !.sid = s] \in SignRequests
           /\ [NoRequest EXCEPT !.at = "revoke", !.sid = s].at = "revoke"
           /\ [NoRequest EXCEPT !.at = "revoke", !.sid = s].sid = s
BY DEF NoRequest, SignRequests

\* A logout that writes its revocation down.
LEMMA Writing ==
    ASSUME NEW s \in Sids, NEW u \in Nat
    PROVE  /\ [NoRequest EXCEPT !.at = "write", !.sid = s, !.until = u] \in SignRequests
           /\ [NoRequest EXCEPT !.at = "write", !.sid = s, !.until = u].at = "write"
           /\ [NoRequest EXCEPT !.at = "write", !.sid = s, !.until = u].sid = s
BY DEF NoRequest, SignRequests

\* The invariant of sign-in holds initially.
LEMMA SignStart == SignInit => SignIInv
<1> SUFFICES ASSUME SignInit PROVE SignIInv
  OBVIOUS
<1>1. SignTypes
  BY DEF SignInit, SignTypes
<1>2. RequestTypes
  BY RestingRequest DEF SignInit, RequestTypes
<1>3. CookiesTrue /\ RevocationsHeld
  BY RestingRequest DEF SignInit, CookiesTrue, RevocationsHeld
<1>4. FlowsRemembered
  BY RestingRequest, SignNat DEF SignInit, FlowsRemembered, FlowUsed
<1> QED BY <1>1, <1>2, <1>3, <1>4 DEF SignIInv

\* A request that goes on, but not into an exchange, with what its next step
\* uses, keeps what is known of requests and flows.
LEMMA RequestGoesOn ==
    ASSUME SignIInv, NEW k \in Requests, NEW r \in SignRequests,
           request' = [request EXCEPT ![k] = r],
           r.at \in {"none", "accepted", "revoke", "write"},
           r.at = "accepted" => r.cookie \in Cookies /\ r.cookie.since = r.cookie.issued,
           r.at \in {"revoke", "write"} => r.sid \in Sids
    PROVE  /\ RequestTypes'
           /\ (\A c \in jar' : c.since = c.issued) => CookiesTrue'
           /\ UNCHANGED <<now, begun, consumed, logins>> => FlowsRemembered'
<1>1. request \in [Requests -> SignRequests] /\ request' \in [Requests -> SignRequests]
  BY DEF SignIInv, RequestTypes
<1>2. \A l \in Requests : request'[l] = IF l = k THEN r ELSE request[l]
  BY <1>1
<1>3. RequestTypes'
  BY <1>1, <1>2 DEF SignIInv, RequestTypes
<1>4. (\A c \in jar' : c.since = c.issued) => CookiesTrue'
  BY <1>2 DEF SignIInv, CookiesTrue
<1>5. ASSUME UNCHANGED <<now, begun, consumed, logins>> PROVE FlowsRemembered'
  <2>1. \A l \in Requests : request'[l].at = "exchange" => request[l].at = "exchange" /\ request'[l] = request[l]
    BY <1>2
  <2>2. \A f \in Flows : FlowUsed(f)' => FlowUsed(f)
    BY <1>5, <2>1 DEF FlowUsed
  <2> QED BY <1>5, <2>1, <2>2 DEF SignIInv, FlowsRemembered
<1> QED BY <1>3, <1>4, <1>5

\* A cookie that is issued or renewed is one.
LEMMA CookieIssued ==
    ASSUME SignTypes
    PROVE  /\ \A s \in Sids : [sid |-> s, issued |-> now, expires |-> Expiry(now), since |-> now] \in Cookies
           /\ \A c \in Cookies : /\ Reissued(c) \in Cookies
                                 /\ Reissued(c).since = c.since /\ Reissued(c).issued = c.issued
<1>1. \A i \in Nat : Expiry(i) \in Nat
  BY SignNat DEF Expiry, SignTypes
<1> QED BY <1>1 DEF SignTypes, Cookies, Reissued

\* Every step of sign-in keeps its invariant.
LEMMA SignStep == SignIInv /\ [SignNext]_signVars => SignIInv'
<1> SUFFICES ASSUME SignIInv, [SignNext]_signVars PROVE SignIInv'
  OBVIOUS
<1> USE SignNat DEF SignIInv
<1>1. ASSUME NEW k \in Requests, Present(k) PROVE SignIInv'
  <2>1. PICK c \in jar, o \in BOOLEAN :
          /\ Accepts(c) /\ gone' = [gone EXCEPT ![c.sid] = 0]
          /\ request' = [request EXCEPT ![k] = [NoRequest EXCEPT !.at = "accepted", !.cookie = c, !.out = o]]
    BY <1>1 DEF Present, Serves
  <2>2. UNCHANGED <<now, jar, begun, consumed, logins, kept, keeps, revokedAt>>
    BY <1>1 DEF Present
  <2>3. c \in Cookies /\ c.sid \in Sids /\ c.since = c.issued
    BY DEF SignTypes, Cookies, CookiesTrue
  <2>4. PICK r \in SignRequests : request' = [request EXCEPT ![k] = r] /\ r.at = "accepted" /\ r.cookie = c
    BY <2>1, <2>3, Accepting
  <2>5. SignTypes'
    BY <2>1, <2>2, <2>3 DEF SignTypes
  <2>6. RequestTypes' /\ CookiesTrue' /\ FlowsRemembered'
    BY <2>2, <2>3, <2>4, RequestGoesOn DEF CookiesTrue
  <2>7. RevocationsHeld'
    BY <2>1, <2>2, <2>3 DEF RevocationsHeld, SignTypes, Accepts, Revoked
  <2> QED BY <2>5, <2>6, <2>7
<1>2. ASSUME NEW k \in Requests, Renew(k) PROVE SignIInv'
  <2> DEFINE c == request[k].cookie
  <2>1. c \in Cookies /\ c.sid \in Sids /\ c.since = c.issued
    BY <1>2 DEF Renew, RequestTypes, CookiesTrue, Cookies
  <2>2. UNCHANGED <<now, begun, consumed, logins, gone, kept, keeps, revokedAt>>
    BY <1>2 DEF Renew
  <2>3. \/ request' = [request EXCEPT ![k] = NoRequest]
        \/ request' = [request EXCEPT ![k] = [NoRequest EXCEPT !.at = "revoke", !.sid = c.sid]]
    BY <1>2 DEF Renew, Serves
  <2>4. PICK r \in SignRequests :
          request' = [request EXCEPT ![k] = r] /\ r.at \in {"none", "revoke"} /\ (r.at = "revoke" => r.sid \in Sids)
    <3>1. CASE request' = [request EXCEPT ![k] = NoRequest]
      BY <3>1, RestingRequest
    <3>2. CASE request' = [request EXCEPT ![k] = [NoRequest EXCEPT !.at = "revoke", !.sid = c.sid]]
      BY <2>1, <3>2, Revoking
    <3> QED BY <2>3, <3>1, <3>2
  <2>5. jar' = jar \/ jar' = jar \cup {Reissued(c)}
    BY <1>2 DEF Renew
  <2>6. Reissued(c) \in Cookies /\ Reissued(c).since = Reissued(c).issued
    BY <2>1, CookieIssued
  <2> HIDE DEF c
  <2>7. SignTypes'
    BY <2>2, <2>5, <2>6 DEF SignTypes
  <2>8. \A d \in jar' : d.since = d.issued
    BY <2>5, <2>6 DEF CookiesTrue
  <2>9. RequestTypes' /\ CookiesTrue' /\ FlowsRemembered'
    BY <2>2, <2>4, <2>8, RequestGoesOn
  <2>10. RevocationsHeld'
    BY <2>2 DEF RevocationsHeld
  <2> QED BY <2>7, <2>9, <2>10
<1>3. ASSUME NEW f \in Flows, Login(f) PROVE SignIInv'
  <2>1. /\ begun[f] = 0 /\ begun' = [begun EXCEPT ![f] = now + FlowLife]
        /\ UNCHANGED <<now, jar, consumed, logins, gone, kept, keeps, request, revokedAt>>
    BY <1>3 DEF Login
  <2>2. SignTypes'
    BY <2>1 DEF SignTypes
  <2>3. RequestTypes' /\ CookiesTrue' /\ RevocationsHeld'
    BY <2>1 DEF RequestTypes, CookiesTrue, RevocationsHeld
  <2>4. FlowsRemembered'
    <3>1. \A g \in Flows : FlowUsed(g)' => FlowUsed(g)
      BY <2>1 DEF FlowUsed
    <3>2. ~ FlowUsed(f)
      BY <2>1 DEF FlowsRemembered
    <3>3. \A g \in Flows : begun'[g] = IF g = f THEN now + FlowLife ELSE begun[g]
      BY <2>1 DEF SignTypes
    <3> QED BY <2>1, <3>1, <3>2, <3>3 DEF FlowsRemembered, SignTypes
  <2> QED BY <2>2, <2>3, <2>4
<1>4. ASSUME NEW k \in Requests, NEW f \in Flows, Callback(k, f) PROVE SignIInv'
  <2>1. /\ request[k].at = "none" /\ now < begun[f]
        /\ UNCHANGED <<now, jar, begun, logins, gone, kept, keeps, revokedAt>>
    BY <1>4 DEF Callback
  <2>2. Swept \in [Flows -> Nat] /\ \A g \in Flows : Swept[g] = IF now < consumed[g] THEN consumed[g] ELSE 0
    BY DEF Swept, SignTypes
  <2>3. \A g \in Flows : begun[g] \in Nat /\ consumed[g] \in Nat /\ now \in Nat
    BY DEF SignTypes
  <2>4. CASE consumed' = Swept /\ UNCHANGED request
    <3>1. SignTypes'
      BY <2>1, <2>2, <2>4 DEF SignTypes
    <3>2. RequestTypes' /\ CookiesTrue' /\ RevocationsHeld'
      BY <2>1, <2>4 DEF RequestTypes, CookiesTrue, RevocationsHeld
    <3>3. FlowsRemembered'
      <4>1. \A g \in Flows : FlowUsed(g)' => FlowUsed(g)
        BY <2>1, <2>4 DEF FlowUsed
      <4>2. \A g \in Flows : FlowUsed(g) => begun[g] # 0 /\ (now >= begun[g] \/ consumed'[g] >= begun[g])
        BY <2>2, <2>3, <2>4 DEF FlowsRemembered
      <4> QED BY <2>1, <2>4, <4>1, <4>2 DEF FlowsRemembered
    <3> QED BY <3>1, <3>2, <3>3
  <2>5. CASE /\ Swept[f] = 0 /\ consumed' = [Swept EXCEPT ![f] = now + FlowLife]
             /\ request' = [request EXCEPT ![k] = [NoRequest EXCEPT !.at = "exchange", !.flow = f]]
    <3>1. PICK r \in SignRequests : request' = [request EXCEPT ![k] = r] /\ r.at = "exchange" /\ r.flow = f
      BY <2>5, Exchanging
    <3>2. \A l \in Requests : request'[l] = IF l = k THEN r ELSE request[l]
      BY <3>1 DEF RequestTypes
    <3>3. ~ FlowUsed(f)
      <4>1. consumed[f] =< now
        BY <2>2, <2>3, <2>5
      <4> QED BY <2>1, <2>3, <4>1 DEF FlowsRemembered
    <3>4. SignTypes'
      BY <2>1, <2>2, <2>5 DEF SignTypes
    <3>5. RequestTypes'
      BY <3>1, <3>2 DEF RequestTypes
    <3>6. CookiesTrue' /\ RevocationsHeld'
      BY <2>1, <3>1, <3>2 DEF CookiesTrue, RevocationsHeld
    <3>7. FlowsRemembered'
      <4>1. \A g \in Flows : g # f => (FlowUsed(g)' => FlowUsed(g))
        BY <2>1, <3>1, <3>2 DEF FlowUsed
      <4>2. \A g \in Flows : g # f => consumed'[g] = Swept[g]
        BY <2>2, <2>5
      <4>3. consumed'[f] = now + FlowLife /\ begun[f] =< now + FlowLife /\ begun[f] # 0
        BY <2>1, <2>2, <2>3, <2>5 DEF FlowsRemembered
      <4>4. \A g \in Flows : FlowUsed(g)' => begun[g] # 0 /\ (now >= begun[g] \/ consumed'[g] >= begun[g])
        BY <2>2, <2>3, <4>1, <4>2, <4>3 DEF FlowsRemembered
      <4>5. \A l \in Requests : request[l].at = "exchange" => request[l].flow # f
        BY <3>3 DEF FlowUsed
      <4>6. logins[f] = 0
        BY <3>3 DEF FlowUsed
      <4> QED BY <2>1, <3>1, <3>2, <4>4, <4>5, <4>6 DEF FlowsRemembered
    <3> QED BY <3>4, <3>5, <3>6, <3>7
  <2> QED BY <1>4, <2>4, <2>5 DEF Callback, Serves, ConsumedUntil
<1>5. ASSUME NEW k \in Requests, Exchange(k) PROVE SignIInv'
  <2> DEFINE f == request[k].flow
  <2>1. /\ request[k].at = "exchange" /\ f \in Flows /\ request' = [request EXCEPT ![k] = NoRequest]
        /\ UNCHANGED <<now, begun, consumed, gone, kept, keeps, revokedAt>>
    BY <1>5 DEF Exchange, Serves, RequestTypes
  <2>2. \/ \E s \in Sids :
             /\ jar' = jar \cup {[sid |-> s, issued |-> now, expires |-> Expiry(now), since |-> now]}
             /\ logins' = [logins EXCEPT ![f] = logins[f] + 1]
        \/ UNCHANGED <<jar, logins>>
    BY <1>5 DEF Exchange
  <2>3. \/ \E d \in Cookies : d.since = d.issued /\ jar' = jar \cup {d} /\ logins' = [logins EXCEPT ![f] = logins[f] + 1]
        \/ UNCHANGED <<jar, logins>>
    BY <2>2, CookieIssued
  <2>4. logins[f] = 0 /\ logins \in [Flows -> Nat]
    BY <2>1 DEF FlowsRemembered, SignTypes
  <2> HIDE DEF f
  <2>5. SignTypes'
    BY <2>1, <2>3, <2>4 DEF SignTypes
  <2>6. \A d \in jar' : d.since = d.issued
    BY <2>3 DEF CookiesTrue
  <2>7. RequestTypes' /\ CookiesTrue'
    BY <2>1, <2>6, RestingRequest, RequestGoesOn
  <2>8. RevocationsHeld'
    BY <2>1 DEF RevocationsHeld
  <2>9. FlowsRemembered'
    <3>1. \A l \in Requests : request'[l] = IF l = k THEN NoRequest ELSE request[l]
      BY <2>1 DEF RequestTypes
    <3>2. \A g \in Flows : g # f => logins'[g] = logins[g]
      BY <2>3, <2>4
    <3>3. logins'[f] \in {0, 1}
      BY <2>1, <2>3, <2>4
    <3>4. \A g \in Flows : FlowUsed(g)' => FlowUsed(g)
      BY <2>1, <3>1, <3>2, RestingRequest DEF FlowUsed, f
    <3>5. \A l \in Requests : request'[l].at = "exchange" => request'[l] = request[l] /\ request[l].flow # f
      BY <2>1, <3>1, RestingRequest DEF FlowsRemembered, f
    <3>6. \A l \in Requests : request'[l].at = "exchange" => request[l].flow \in Flows
      BY <3>5 DEF RequestTypes
    <3>7. \A g \in Flows : logins'[g] =< 1
      BY <3>2, <3>3 DEF FlowsRemembered
    <3> QED BY <2>1, <3>2, <3>4, <3>5, <3>6, <3>7 DEF FlowsRemembered
  <2> QED BY <2>5, <2>7, <2>8, <2>9
<1>6. ASSUME NEW k \in Requests, Announced(k) PROVE SignIInv'
  <2>1. PICK s \in Sids : request' = [request EXCEPT ![k] = [NoRequest EXCEPT !.at = "revoke", !.sid = s]]
    BY <1>6 DEF Announced, Serves
  <2>2. UNCHANGED <<now, jar, begun, consumed, logins, gone, kept, keeps, revokedAt>>
    BY <1>6 DEF Announced
  <2>3. PICK r \in SignRequests : request' = [request EXCEPT ![k] = r] /\ r.at = "revoke" /\ r.sid = s
    BY <2>1, Revoking
  <2>4. RequestTypes' /\ CookiesTrue' /\ FlowsRemembered'
    BY <2>2, <2>3, RequestGoesOn DEF CookiesTrue
  <2> QED BY <2>2, <2>4 DEF SignTypes, RevocationsHeld
<1>7. ASSUME NEW k \in Requests, RevokeInMemory(k) PROVE SignIInv'
  <2> DEFINE s == request[k].sid
  <2>1. /\ s \in Sids /\ UNCHANGED <<now, jar, begun, consumed, logins, kept, keeps>>
        /\ gone' = [t \in Sids |-> IF t = s THEN now + MaxAge ELSE IF Revoked(t) THEN gone[t] ELSE 0]
        /\ revokedAt' = [revokedAt EXCEPT ![s] = now]
    BY <1>7 DEF RevokeInMemory, Within, RequestTypes
  <2>2. \/ request' = [request EXCEPT ![k] = NoRequest]
        \/ request' = [request EXCEPT ![k] = [NoRequest EXCEPT !.at = "write", !.sid = s, !.until = now + MaxAge]]
    BY <1>7 DEF RevokeInMemory, Serves, Within
  <2> HIDE DEF s
  <2>3. now + MaxAge \in Nat
    BY DEF SignTypes
  <2>4. PICK r \in SignRequests :
          request' = [request EXCEPT ![k] = r] /\ r.at \in {"none", "write"} /\ (r.at = "write" => r.sid \in Sids)
    <3>1. CASE request' = [request EXCEPT ![k] = NoRequest]
      BY <3>1, RestingRequest
    <3>2. CASE request' = [request EXCEPT ![k] = [NoRequest EXCEPT !.at = "write", !.sid = s, !.until = now + MaxAge]]
      BY <2>1, <2>3, <3>2, Writing
    <3> QED BY <2>2, <3>1, <3>2
  <2>5. SignTypes'
    BY <2>1, <2>3 DEF SignTypes
  <2>6. RequestTypes' /\ CookiesTrue' /\ FlowsRemembered'
    BY <2>1, <2>4, RequestGoesOn DEF CookiesTrue
  <2>7. RevocationsHeld'
    BY <2>1 DEF RevocationsHeld, SignTypes, Revoked
  <2> QED BY <2>5, <2>6, <2>7
<1>8. ASSUME NEW k \in Requests, WriteDown(k) PROVE SignIInv'
  <2>1. /\ request' = [request EXCEPT ![k] = NoRequest]
        /\ UNCHANGED <<now, jar, begun, consumed, logins, gone, keeps, revokedAt>>
    BY <1>8 DEF WriteDown, Serves
  <2>2. request[k].until \in Nat
    BY DEF RequestTypes, SignRequests
  <2>3. kept' \in [Sids -> Nat]
    BY <1>8, <2>2 DEF WriteDown, SignTypes
  <2>4. SignTypes'
    BY <2>1, <2>3 DEF SignTypes
  <2>5. RequestTypes' /\ CookiesTrue' /\ FlowsRemembered'
    BY <2>1, RestingRequest, RequestGoesOn DEF CookiesTrue
  <2> QED BY <2>1, <2>4, <2>5 DEF RevocationsHeld
<1>9. CASE Restart
  <2>1. /\ keeps' \in BOOLEAN
        /\ gone' = [s \in Sids |-> IF keeps' /\ now < kept[s] THEN kept[s] ELSE 0]
        /\ revokedAt' = [s \in Sids |-> IF keeps' /\ kept[s] = revokedAt[s] + MaxAge THEN revokedAt[s] ELSE 0]
        /\ UNCHANGED <<now, jar, begun, kept>>
    BY <1>9 DEF Restart
  <2>2. /\ consumed' = [f \in Flows |-> 0] /\ logins' = [f \in Flows |-> 0]
        /\ request' = [k \in Requests |-> NoRequest]
    BY <1>9 DEF Restart
  <2>3. SignTypes'
    BY <2>1, <2>2 DEF SignTypes
  <2>4. RequestTypes' /\ CookiesTrue'
    BY <2>1, <2>2, RestingRequest DEF RequestTypes, CookiesTrue
  <2>5. RevocationsHeld'
    BY <2>1 DEF RevocationsHeld, SignTypes
  <2>6. FlowsRemembered'
    BY <2>1, <2>2, RestingRequest DEF FlowsRemembered, FlowUsed
  <2> QED BY <2>3, <2>4, <2>5, <2>6
<1>10. ASSUME NEW k \in Requests, OpenLive(k) PROVE SignIInv'
  <2>1. /\ request' = [request EXCEPT ![k] = NoRequest]
        /\ UNCHANGED <<now, jar, begun, consumed, logins, gone, kept, keeps, revokedAt>>
    BY <1>10 DEF OpenLive, Serves
  <2>2. RequestTypes' /\ CookiesTrue' /\ FlowsRemembered'
    BY <2>1, RestingRequest, RequestGoesOn DEF CookiesTrue
  <2> QED BY <2>1, <2>2 DEF SignTypes, RevocationsHeld
<1>11. CASE CheckLive \/ UNCHANGED signVars
  <2>1. UNCHANGED <<now, jar, begun, consumed, logins, gone, kept, keeps, request, revokedAt>>
    BY <1>11 DEF CheckLive, signVars
  <2>2. SignTypes'
    BY <2>1 DEF SignTypes
  <2>3. RequestTypes' /\ CookiesTrue' /\ RevocationsHeld'
    BY <2>1 DEF RequestTypes, CookiesTrue, RevocationsHeld
  <2>4. FlowsRemembered'
    BY <2>1 DEF FlowsRemembered, FlowUsed
  <2> QED BY <2>2, <2>3, <2>4
<1>12. CASE PassNow
  <2>1. /\ now' = now + 1 /\ jar' \subseteq jar
        /\ UNCHANGED <<begun, consumed, logins, gone, kept, keeps, request, revokedAt>>
    BY <1>12 DEF PassNow
  <2>2. SignTypes'
    BY <2>1 DEF SignTypes
  <2>3. RequestTypes' /\ CookiesTrue'
    BY <2>1 DEF RequestTypes, CookiesTrue
  <2>4. RevocationsHeld'
    BY <2>1 DEF RevocationsHeld, SignTypes
  <2>5. FlowsRemembered'
    <3>1. \A g \in Flows : FlowUsed(g)' => FlowUsed(g)
      BY <2>1 DEF FlowUsed
    <3> QED BY <2>1, <3>1 DEF FlowsRemembered, SignTypes
  <2> QED BY <2>2, <2>3, <2>4, <2>5
<1> QED BY <1>1, <1>2, <1>3, <1>4, <1>5, <1>6, <1>7, <1>8, <1>9, <1>10, <1>11, <1>12 DEF SignNext

-----------------------------------------------------------------------------
(* The budget of back-channel logout verifications (auth/logoutlimits.go). *)

\* The entries have their fields.  What the windows of events hold matters to
\* no count.
SourceTypes ==
    /\ verifies \in [Verifiers -> Sources \cup {NoSource}]
    /\ sources = [x \in Sources |-> sources[x]]
    /\ \A x \in Sources :
           /\ sources[x] = [known |-> sources[x].known, events |-> sources[x].events,
                            last |-> sources[x].last, used |-> sources[x].used]
           /\ sources[x].known \in BOOLEAN /\ sources[x].used \in Nat

\* Whoever has verifications under way is not forgotten.
UsedIsKnown == \A x \in Sources : sources[x].used # 0 => sources[x].known

LogoutIInv == SourceTypes /\ UsedIsKnown /\ BudgetBalanced

VerifyingFor(x) == {v \in Verifiers : verifies[v] = x}

Verifying == {v \in Verifiers : verifies[v] # NoSource}

\* What the logout budget counts is finite.
LEMMA LogoutFinite ==
    /\ IsFiniteSet(Verifying) /\ \A x \in Sources : IsFiniteSet(VerifyingFor(x))
    /\ IsFiniteSet(KnownSources) /\ Cardinality(KnownSources) \in Nat /\ Capacity \in Nat
<1>1. \A S \in SUBSET Verifiers : IsFiniteSet(S)
  BY LogoutAssumption, FS_Subset
<1>2. IsFiniteSet(KnownSources)
  BY LogoutAssumption, FS_Subset DEF KnownSources
<1>3. Cardinality(KnownSources) \in Nat
  BY <1>2, FS_CardinalityType
<1> QED BY <1>1, <1>2, <1>3, LogoutAssumption DEF Verifying, VerifyingFor

\* The invariant of the logout budget holds initially.
LEMMA LogoutStart == BudgetInit => LogoutIInv
<1> SUFFICES ASSUME BudgetInit PROVE LogoutIInv
  OBVIOUS
<1>1. \A x \in Sources : sources[x] = NoWindow
  BY DEF BudgetInit
<1>2. SourceTypes
  BY <1>1 DEF BudgetInit, SourceTypes, NoWindow, NoSource
<1>3. UsedIsKnown
  BY <1>1 DEF UsedIsKnown, NoWindow
<1>4. Verifying = {} /\ KnownSources = {} /\ \A x \in Sources : VerifyingFor(x) = {}
  BY <1>1, LogoutAssumption DEF BudgetInit, Verifying, VerifyingFor, KnownSources, NoWindow, NoSource
<1>5. inUse = 0 /\ \A x \in Sources : sources[x].used = 0
  BY <1>1 DEF BudgetInit, NoWindow
<1>6. BudgetBalanced
  BY <1>4, <1>5, FS_EmptySet, LogoutAssumption DEF BudgetBalanced, Verifying, VerifyingFor
<1> QED BY <1>2, <1>3, <1>6 DEF LogoutIInv

\* What a claim makes of the entries: the source has one more, an evicted one
\* had none, and the table has not grown past its capacity.
LEMMA ClaimedEntries ==
    ASSUME LogoutIInv, NEW v \in Verifiers, NEW x \in Sources, ClaimTurn(v, x)
    PROVE  /\ SourceTypes' /\ UsedIsKnown' /\ Cardinality(KnownSources') =< Capacity
           /\ \A z \in Sources : sources'[z].used = IF z = x THEN sources[z].used + 1 ELSE sources[z].used
<1> DEFINE t == Taken(x)
<1>1. t = [known |-> t.known, events |-> t.events, last |-> t.last, used |-> t.used]
      /\ t.known = TRUE /\ t.used = sources[x].used + 1 /\ t.used \in Nat \ {0}
  BY DEF Taken, LogoutIInv, SourceTypes
<1>2. verifies' = [verifies EXCEPT ![v] = x] /\ verifies' \in [Verifiers -> Sources \cup {NoSource}]
  BY DEF ClaimTurn, LogoutIInv, SourceTypes
<1>3. Cardinality(KnownSources) =< Capacity
  BY DEF LogoutIInv, BudgetBalanced
<1>4. CASE /\ x \in KnownSources \/ Cardinality(KnownSources) < Capacity
           /\ sources' = [sources EXCEPT ![x] = t]
  <2> HIDE DEF t
  <2>1. sources' = [z \in Sources |-> IF z = x THEN t ELSE sources[z]]
    BY <1>4 DEF LogoutIInv, SourceTypes
  <2>2. \A z \in Sources : sources'[z] = IF z = x THEN t ELSE sources[z]
    BY <2>1
  <2>3. SourceTypes'
    BY <1>1, <1>2, <2>1, <2>2 DEF LogoutIInv, SourceTypes
  <2>4. UsedIsKnown'
    BY <1>1, <2>2 DEF LogoutIInv, UsedIsKnown
  <2>5. KnownSources' = KnownSources \cup {x}
    BY <1>1, <2>2 DEF KnownSources
  <2>6. Cardinality(KnownSources \cup {x}) = IF x \in KnownSources THEN Cardinality(KnownSources)
                                             ELSE Cardinality(KnownSources) + 1
    BY LogoutFinite, FS_AddElement
  <2>7. Cardinality(KnownSources') =< Capacity
    BY <1>3, <1>4, <2>5, <2>6, LogoutFinite
  <2> QED BY <1>1, <2>2, <2>3, <2>4, <2>7
<1>5. ASSUME x \notin KnownSources,
             NEW old \in Oldest, sources' = [sources EXCEPT ![old] = NoWindow, ![x] = t]
      PROVE  /\ SourceTypes' /\ UsedIsKnown' /\ Cardinality(KnownSources') =< Capacity
             /\ \A z \in Sources : sources'[z].used = IF z = x THEN sources[z].used + 1 ELSE sources[z].used
  <2> HIDE DEF t
  <2>1. old \in KnownSources /\ old \in Sources /\ sources[old].used = 0 /\ old # x
    BY <1>5 DEF Oldest, Evictable, KnownSources
  <2>2. sources' = [z \in Sources |-> IF z = x THEN t ELSE IF z = old THEN NoWindow ELSE sources[z]]
    BY <1>5, <2>1 DEF LogoutIInv, SourceTypes
  <2>3. \A z \in Sources : sources'[z] = IF z = x THEN t ELSE IF z = old THEN NoWindow ELSE sources[z]
    BY <2>2
  <2>4. SourceTypes'
    BY <1>1, <1>2, <2>2, <2>3 DEF LogoutIInv, SourceTypes, NoWindow
  <2>5. UsedIsKnown'
    BY <1>1, <2>3 DEF LogoutIInv, UsedIsKnown, NoWindow
  <2>6. KnownSources' = (KnownSources \ {old}) \cup {x}
    BY <1>1, <2>1, <2>3 DEF KnownSources, NoWindow
  <2>7. IsFiniteSet(KnownSources \ {old}) /\ Cardinality(KnownSources \ {old}) = Cardinality(KnownSources) - 1
    BY <2>1, LogoutFinite, FS_RemoveElement
  <2>8. Cardinality((KnownSources \ {old}) \cup {x}) = Cardinality(KnownSources \ {old}) + 1
    BY <1>5, <2>7, FS_AddElement
  <2>9. Cardinality(KnownSources') =< Capacity
    BY <1>3, <2>6, <2>7, <2>8, LogoutFinite
  <2> QED BY <1>1, <2>1, <2>3, <2>4, <2>5, <2>9 DEF NoWindow
<1> QED BY <1>4, <1>5 DEF ClaimTurn

\* Every step of the logout budget keeps its invariant.
LEMMA LogoutStep == LogoutIInv /\ [BudgetNext]_budgetVars => LogoutIInv'
<1> SUFFICES ASSUME LogoutIInv, [BudgetNext]_budgetVars PROVE LogoutIInv'
  OBVIOUS
<1>1. ASSUME NEW v \in Verifiers, NEW x \in Sources, ClaimTurn(v, x) PROVE LogoutIInv'
  <2>1. /\ verifies[v] = NoSource /\ inUse' = inUse + 1 /\ verifies' = [verifies EXCEPT ![v] = x]
        /\ x # NoSource
    BY <1>1, LogoutAssumption DEF ClaimTurn, NoSource
  <2>2. /\ SourceTypes' /\ UsedIsKnown' /\ Cardinality(KnownSources') =< Capacity
        /\ \A z \in Sources : sources'[z].used = IF z = x THEN sources[z].used + 1 ELSE sources[z].used
    BY <1>1, ClaimedEntries
  <2>3. /\ Verifying' = Verifying \cup {v} /\ v \notin Verifying
        /\ VerifyingFor(x)' = VerifyingFor(x) \cup {v} /\ v \notin VerifyingFor(x)
        /\ \A z \in Sources : z # x => VerifyingFor(z)' = VerifyingFor(z)
    BY <2>1, LogoutAssumption DEF LogoutIInv, SourceTypes, Verifying, VerifyingFor, NoSource
  <2>4. Cardinality(Verifying \cup {v}) = Cardinality(Verifying) + 1
    BY <2>3, LogoutFinite, FS_AddElement
  <2>5. Cardinality(VerifyingFor(x) \cup {v}) = Cardinality(VerifyingFor(x)) + 1
    BY <2>3, LogoutFinite, FS_AddElement
  <2>6. /\ inUse = Cardinality(Verifying)
        /\ \A z \in Sources : sources[z].used = Cardinality(VerifyingFor(z))
    BY DEF LogoutIInv, BudgetBalanced, Verifying, VerifyingFor
  <2>7. inUse' = Cardinality(Verifying')
    BY <2>1, <2>3, <2>4, <2>6
  <2>8. \A z \in Sources : sources'[z].used = Cardinality(VerifyingFor(z)')
    BY <2>2, <2>3, <2>5, <2>6
  <2>9. BudgetBalanced'
    BY <2>2, <2>7, <2>8 DEF BudgetBalanced, Verifying, VerifyingFor
  <2> QED BY <2>2, <2>9 DEF LogoutIInv
<1>2. ASSUME NEW v \in Verifiers, Verified(v) PROVE LogoutIInv'
  <2>1. PICK x \in Sources :
        /\ verifies[v] = x /\ x # NoSource /\ inUse' = inUse - 1 /\ verifies' = [verifies EXCEPT ![v] = NoSource]
        /\ sources' = [sources EXCEPT ![x].used = @ - 1, ![x].known = TRUE]
    BY <1>2 DEF Verified, LogoutIInv, SourceTypes
  <2>2. /\ inUse = Cardinality(Verifying) /\ Cardinality(KnownSources) =< Capacity
        /\ \A z \in Sources : sources[z].used = Cardinality(VerifyingFor(z))
    BY DEF LogoutIInv, BudgetBalanced, Verifying, VerifyingFor
  <2>3. v \in Verifying /\ v \in VerifyingFor(x)
    BY <2>1 DEF Verifying, VerifyingFor
  <2>4. Cardinality(Verifying \ {v}) = Cardinality(Verifying) - 1
    BY <2>3, LogoutFinite, FS_RemoveElement
  <2>5. Cardinality(VerifyingFor(x) \ {v}) = Cardinality(VerifyingFor(x)) - 1
        /\ Cardinality(VerifyingFor(x) \ {v}) \in Nat
    BY <2>1, <2>3, LogoutFinite, FS_RemoveElement, FS_CardinalityType
  <2>6. sources[x].used \in Nat /\ sources[x].used - 1 \in Nat /\ sources[x].used # 0 /\ sources[x].known
    BY <2>1, <2>2, <2>5 DEF LogoutIInv, SourceTypes, UsedIsKnown
  <2>7. sources' = [z \in Sources |-> IF z = x THEN [sources[x] EXCEPT !.used = @ - 1, !.known = TRUE] ELSE sources[z]]
    BY <2>1 DEF LogoutIInv, SourceTypes
  <2>8. \A z \in Sources : z # x => sources'[z] = sources[z]
    BY <2>7
  <2>9. sources'[x] = [known |-> TRUE, events |-> sources[x].events, last |-> sources[x].last, used |-> sources[x].used - 1]
    <3>1. sources[x] = [known |-> sources[x].known, events |-> sources[x].events,
                        last |-> sources[x].last, used |-> sources[x].used]
      BY DEF LogoutIInv, SourceTypes
    <3>2. sources'[x] = [sources[x] EXCEPT !.used = @ - 1, !.known = TRUE]
      BY <2>7
    <3> QED BY <3>1, <3>2
  <2>9a. sources'[x].known /\ sources'[x].known \in BOOLEAN /\ sources'[x].used = sources[x].used - 1
    BY <2>9
  <2>10. verifies' \in [Verifiers -> Sources \cup {NoSource}]
    BY <2>1 DEF LogoutIInv, SourceTypes
  <2>11. SourceTypes'
    <3>1. sources' = [z \in Sources |-> sources'[z]]
      BY <2>7
    <3>2. \A z \in Sources :
             /\ sources'[z] = [known |-> sources'[z].known, events |-> sources'[z].events,
                               last |-> sources'[z].last, used |-> sources'[z].used]
             /\ sources'[z].known \in BOOLEAN /\ sources'[z].used \in Nat
      <4>1. ASSUME NEW z \in Sources
            PROVE  /\ sources'[z] = [known |-> sources'[z].known, events |-> sources'[z].events,
                                     last |-> sources'[z].last, used |-> sources'[z].used]
                   /\ sources'[z].known \in BOOLEAN /\ sources'[z].used \in Nat
        <5>1. CASE z = x
          BY <2>6, <2>9, <2>9a, <5>1
        <5>2. CASE z # x
          BY <2>8, <5>2 DEF LogoutIInv, SourceTypes
        <5> QED BY <5>1, <5>2
      <4> QED BY <4>1
    <3> QED BY <2>10, <3>1, <3>2 DEF SourceTypes
  <2>12. UsedIsKnown'
    BY <2>8, <2>9 DEF LogoutIInv, UsedIsKnown
  <2>13. KnownSources' = KnownSources
    BY <2>1, <2>6, <2>8, <2>9a DEF KnownSources
  <2>14. /\ Verifying' = Verifying \ {v} /\ VerifyingFor(x)' = VerifyingFor(x) \ {v}
         /\ \A z \in Sources : z # x => VerifyingFor(z)' = VerifyingFor(z)
    BY <2>1, <2>10, LogoutAssumption DEF LogoutIInv, SourceTypes, Verifying, VerifyingFor, NoSource
  <2>15. \A z \in Sources : sources'[z].used = Cardinality(VerifyingFor(z)')
    BY <2>2, <2>5, <2>8, <2>14, <2>9a
  <2>16. inUse' = Cardinality(Verifying')
    BY <2>1, <2>2, <2>4, <2>14
  <2>17. BudgetBalanced'
    BY <2>2, <2>13, <2>15, <2>16 DEF BudgetBalanced, Verifying, VerifyingFor
  <2> QED BY <2>11, <2>12, <2>17 DEF LogoutIInv
<1>3. CASE BudgetTick \/ UNCHANGED budgetVars
  <2>1. UNCHANGED <<inUse, sources, verifies>>
    BY <1>3 DEF BudgetTick, budgetVars
  <2> QED BY <2>1 DEF LogoutIInv, SourceTypes, UsedIsKnown, BudgetBalanced, KnownSources
<1> QED BY <1>1, <1>2, <1>3 DEF BudgetNext

\* A session that was revoked is not let in again, not with a cookie renewed
\* meanwhile and not after a restart that read the revocation back, nobody is
\* let in on a sign-in older than the cap, a login flow signs in once, and the
\* logout budget counts what is under way, for any sessions, flows, requests,
\* sources and limits (internal/auth).
THEOREM AccountsSafety == ServicesSpec => []AccountsSound
<1>1. ServicesInit => SignIInv /\ LogoutIInv
  BY SignStart, LogoutStart DEF ServicesInit
<1>2. SignIInv /\ LogoutIInv /\ [ServicesNext]_servicesVars => SignIInv' /\ LogoutIInv'
  BY OneMoves, SignStep, LogoutStep
<1>3. SignIInv /\ LogoutIInv => AccountsSound
  <2> SUFFICES ASSUME SignIInv, LogoutIInv PROVE AccountsSound
    OBVIOUS
  <2>1. \A c \in jar : /\ c.issued \in Nat \ {0} /\ c.since = c.issued /\ c.sid \in Sids
                       /\ revokedAt[c.sid] \in Nat /\ gone[c.sid] \in Nat /\ now \in Nat
    BY DEF SignIInv, SignTypes, Cookies, CookiesTrue
  <2>2. RevokedStaysOut
    <3> SUFFICES ASSUME NEW c \in jar, revokedAt[c.sid] >= c.issued, Accepts(c) PROVE FALSE
      BY DEF RevokedStaysOut
    <3>1. now < c.issued + MaxAge /\ ~ (gone[c.sid] # 0 /\ now < gone[c.sid])
      BY DEF Accepts, Decodes, Revoked
    <3>2. gone[c.sid] = revokedAt[c.sid] + MaxAge \/ now >= revokedAt[c.sid] + MaxAge
      BY <2>1 DEF SignIInv, RevocationsHeld
    <3> QED BY <2>1, <3>1, <3>2, SignNat
  <2>3. CapHolds
    BY <2>1 DEF CapHolds, Accepts, Decodes
  <2>4. FlowUsedOnce
    BY DEF SignIInv, FlowsRemembered, FlowUsedOnce
  <2> QED BY <2>2, <2>3, <2>4 DEF AccountsSound, LogoutIInv
<1> QED BY <1>1, <1>2, <1>3, PTL DEF ServicesSpec

-----------------------------------------------------------------------------
(* The work budget (server/budget.go): the budget is never passed and no   *)
(* waiter sleeps through a release that made room for it.                  *)

\* What each step keeps.  That a call holds a natural number of units, and
\* none after its release, is what makes a release only ever make room.
WorkIInv == TypeOK /\ WithinBudget /\ NoLostWakeup

\* The empty budget satisfies the invariant.
LEMMA WorkStart == Init => WorkIInv
  BY BudgetAssumption DEF Init, WorkIInv, TypeOK, WithinBudget, NoLostWakeup

\* Taking units (attempt) keeps both limits, and leaves less room for those
\* who sleep.
LEMMA HoldKeepsLimits ==
    ASSUME WorkIInv, NEW w \in Workers, NEW units \in Nat \ {0}, pc[w] \in {"idle", "trying"}, Hold(w, units)
    PROVE  WorkIInv'
<1> USE BudgetAssumption DEF WorkIInv
<1>1. TypeOK'
  <2>1. used' \in Int /\ byIdentity' \in [Identities -> Int]
    <3>1. identity[w] \in Identities /\ byIdentity[identity[w]] + units \in Int
      BY DEF TypeOK
    <3> QED BY <3>1 DEF TypeOK, Hold
  <2>2. held' \in [Workers -> Nat] /\ pc' \in [Workers -> {"idle", "trying", "waiting", "holding"}]
    BY DEF TypeOK, Hold
  <2>3. parked' \subseteq {v \in Workers : pc'[v] = "waiting"}
    BY DEF TypeOK, Hold
  <2>4. \A v \in Workers : held'[v] > 0 => pc'[v] = "holding"
    BY DEF TypeOK, Hold
  <2> QED BY <2>1, <2>2, <2>3, <2>4 DEF TypeOK
<1>2. WithinBudget'
  BY DEF TypeOK, Hold, Fits, WithinBudget
<1>3. NoLostWakeup'
  BY DEF TypeOK, Hold, Fits, NoLostWakeup
<1> QED BY <1>1, <1>2, <1>3

\* Every step of a call keeps the invariant.
LEMMA WorkStep == WorkIInv /\ [Next]_vars => WorkIInv'
<1> SUFFICES ASSUME WorkIInv, [Next]_vars PROVE WorkIInv'
  OBVIOUS
<1>1. ASSUME NEW w \in Workers, NEW units \in Units, Claim(w, units) PROVE WorkIInv'
  BY <1>1, HoldKeepsLimits, BudgetAssumption DEF Claim
<1>2. ASSUME NEW w \in Workers, Begin(w) PROVE WorkIInv'
  <2>1. TypeOK' BY <1>2 DEF Begin, WorkIInv, TypeOK
  <2> QED BY <1>2, <2>1 DEF Begin, WorkIInv, WithinBudget, NoLostWakeup, Fits
<1>3. ASSUME NEW w \in Workers, Attempt(w) PROVE WorkIInv'
  <2>1. CASE Hold(w, 1)
    BY <1>3, <2>1, HoldKeepsLimits DEF Attempt
  <2>2. CASE ~ Fits(w, 1) /\ Park(w) /\ pc' = [pc EXCEPT ![w] = "waiting"]
    <3>1. TypeOK' BY <1>3, <2>2 DEF Attempt, Park, WorkIInv, TypeOK
    <3>2. WithinBudget' BY <2>2 DEF Park, WorkIInv, WithinBudget
    <3>3. NoLostWakeup' BY <2>2 DEF Park, WorkIInv, NoLostWakeup, Fits
    <3> QED BY <3>1, <3>2, <3>3 DEF WorkIInv
  <2> QED BY <1>3, <2>1, <2>2 DEF Attempt
<1>4. ASSUME NEW w \in Workers, Wake(w) PROVE WorkIInv'
  <2>1. TypeOK' BY <1>4 DEF Wake, WorkIInv, TypeOK
  <2> QED BY <1>4, <2>1 DEF Wake, WorkIInv, WithinBudget, NoLostWakeup, Fits
<1>5. ASSUME NEW w \in Workers, GiveUp(w) PROVE WorkIInv'
  <2>1. TypeOK' BY <1>5 DEF GiveUp, WorkIInv, TypeOK
  <2> QED BY <1>5, <2>1 DEF GiveUp, WorkIInv, WithinBudget, NoLostWakeup, Fits
<1>6. ASSUME NEW w \in Workers, Release(w) PROVE WorkIInv'
  <2>1. TypeOK'
    <3>1. used' \in Int /\ byIdentity' \in [Identities -> Int]
      <4>1. identity[w] \in Identities /\ byIdentity[identity[w]] - held[w] \in Int
        BY BudgetAssumption DEF WorkIInv, TypeOK
      <4> QED BY <1>6, <4>1 DEF Release, Share, WorkIInv, TypeOK
    <3>2. held' \in [Workers -> Nat] /\ pc' \in [Workers -> {"idle", "trying", "waiting", "holding"}]
      BY <1>6 DEF Release, WorkIInv, TypeOK
    <3>3. parked' \subseteq {v \in Workers : pc'[v] = "waiting"}
      BY <1>6 DEF Release, WakeAll
    <3>4. \A v \in Workers : held'[v] > 0 => pc'[v] = "holding"
      BY <1>6 DEF Release, WorkIInv, TypeOK
    <3> QED BY <3>1, <3>2, <3>3, <3>4 DEF TypeOK
  <2>2. WithinBudget' BY <1>6, BudgetAssumption DEF Release, Share, WorkIInv, TypeOK, WithinBudget
  <2>3. NoLostWakeup' BY <1>6 DEF Release, WakeAll, NoLostWakeup
  <2> QED BY <2>1, <2>2, <2>3 DEF WorkIInv
<1>7. CASE UNCHANGED vars
  BY <1>7 DEF vars, WorkIInv, TypeOK, WithinBudget, NoLostWakeup, Fits
<1> QED BY <1>1, <1>2, <1>3, <1>4, <1>5, <1>6, <1>7 DEF Next

\* A budget is never passed, and no waiter sleeps while its unit fits: the
\* limits and the wakeups of attempt, await and release, for every value of
\* the constants.
THEOREM BudgetSafety == Spec => []BudgetSound
<1>1. Spec => []WorkIInv
  BY WorkStart, WorkStep, PTL DEF Spec
<1>2. WorkIInv => BudgetSound
  BY DEF WorkIInv, BudgetSound
<1> QED BY <1>1, <1>2, PTL


\* The units in use are the ones held.  A call holds no more than there are.
UnitsIInv == WorkIInv /\ Balanced /\ \A w \in Workers : held[w] =< Global

UnitsOf(i) == {unit \in UnitsHeld : identity[unit[1]] = i}

Batch(w, n) == {w} \X (1..n)

\* The units held are finitely many.
LEMMA UnitsFinite ==
    /\ IsFiniteSet(UnitsHeld) /\ Cardinality(UnitsHeld) \in Nat
    /\ \A i \in Identities : IsFiniteSet(UnitsOf(i)) /\ Cardinality(UnitsOf(i)) \in Nat
<1>1. IsFiniteSet(1..Global)
  BY FS_Interval, BudgetAssumption
<1>2. IsFiniteSet(Workers \X (1..Global))
  BY <1>1, FS_Product, BudgetAssumption
<1>3. UnitsHeld \subseteq Workers \X (1..Global)
  BY DEF UnitsHeld
<1>4. IsFiniteSet(UnitsHeld)
  BY <1>2, <1>3, FS_Subset
<1>5. \A i \in Identities : UnitsOf(i) \subseteq UnitsHeld
  BY DEF UnitsOf
<1>6. \A i \in Identities : IsFiniteSet(UnitsOf(i))
  BY <1>4, <1>5, FS_Subset
<1> QED BY <1>4, <1>6, FS_CardinalityType

\* A claim of n units is n units.
LEMMA BatchSize ==
    ASSUME NEW w, NEW n \in Nat
    PROVE  IsFiniteSet(Batch(w, n)) /\ Cardinality(Batch(w, n)) = n
<1>1. IsFiniteSet(1..n) /\ Cardinality(1..n) = n
  <2>1. Cardinality(1..n) = IF 1 > n THEN 0 ELSE n - 1 + 1
    BY FS_Interval
  <2> QED BY <2>1, FS_Interval
<1>2. IsFiniteSet({w}) /\ Cardinality({w}) = 1
  BY FS_Singleton
<1>3. IsFiniteSet(Batch(w, n)) /\ Cardinality(Batch(w, n)) = 1 * n
  BY <1>1, <1>2, FS_Product, ZenonT(30) DEF Batch
<1> QED BY <1>3

\* Units that come and units that go are counted once.
LEMMA SetsApart ==
    ASSUME NEW S, NEW T, IsFiniteSet(S), IsFiniteSet(T), S \cap T = {}
    PROVE  Cardinality(S \cup T) = Cardinality(S) + Cardinality(T)
<1>1. Cardinality(S \cup T) = Cardinality(S) + Cardinality(T) - Cardinality(S \cap T)
  BY FS_Union
<1>2. Cardinality(S) \in Nat /\ Cardinality(T) \in Nat /\ Cardinality(S \cap T) = 0
  BY FS_CardinalityType, FS_EmptySet
<1> QED BY <1>1, <1>2

\* What is left of a finite set when a part of it is taken out.
LEMMA SetsWithin ==
    ASSUME NEW S, NEW T, IsFiniteSet(S), T \subseteq S
    PROVE  Cardinality(S \ T) = Cardinality(S) - Cardinality(T)
<1>1. S \cap T = T
  OBVIOUS
<1> QED BY <1>1, FS_Difference

\* The invariant of the work budget holds initially.
LEMMA UnitsStart == Init => UnitsIInv
<1> SUFFICES ASSUME Init PROVE UnitsIInv
  OBVIOUS
<1>1. UnitsHeld = {} /\ \A i \in Identities : UnitsOf(i) = {}
  BY DEF Init, UnitsHeld, UnitsOf
<1>2. used = 0 /\ (\A i \in Identities : byIdentity[i] = 0) /\ \A w \in Workers : held[w] = 0
  BY DEF Init
<1>3. Balanced
  BY <1>1, <1>2, FS_EmptySet DEF Balanced, UnitsOf
<1> QED BY <1>2, <1>3, WorkStart, BudgetAssumption DEF UnitsIInv

\* Taking units keeps the counts.
LEMMA HoldBalances ==
    ASSUME UnitsIInv, NEW w \in Workers, NEW units \in Nat \ {0}, held[w] = 0, Hold(w, units)
    PROVE  Balanced' /\ \A v \in Workers : held'[v] =< Global
<1> DEFINE B == Batch(w, units)
<1>1. held \in [Workers -> Nat] /\ byIdentity \in [Identities -> Int] /\ identity[w] \in Identities
  BY BudgetAssumption DEF UnitsIInv, WorkIInv, TypeOK
<1>2. /\ used = Cardinality(UnitsHeld) /\ used \in Nat
      /\ \A i \in Identities : byIdentity[i] = Cardinality(UnitsOf(i))
  BY UnitsFinite DEF UnitsIInv, Balanced, UnitsOf
<1>3. /\ units =< Global /\ used' = used + units
      /\ held' = [held EXCEPT ![w] = units]
      /\ byIdentity' = [byIdentity EXCEPT ![identity[w]] = byIdentity[identity[w]] + units]
  BY <1>2, BudgetAssumption DEF Hold, Fits
<1>4. UnitsHeld' = UnitsHeld \cup B /\ UnitsHeld \cap B = {}
  <2>0. \A n \in 1..Global : n \in Nat /\ n > 0
    BY BudgetAssumption
  <2>1. \A v \in Workers : held'[v] = IF v = w THEN units ELSE held[v]
    BY <1>1, <1>3
  <2>2. \A v \in Workers, n \in 1..Global : <<v, n>> \in UnitsHeld' <=> n =< held'[v]
    BY DEF UnitsHeld
  <2>3. \A v \in Workers, n \in 1..Global : <<v, n>> \in UnitsHeld <=> n =< held[v]
    BY DEF UnitsHeld
  <2>4. \A v \in Workers, n \in 1..Global : <<v, n>> \in B <=> v = w /\ n =< units
    BY BudgetAssumption DEF Batch
  <2>5. B \subseteq Workers \X (1..Global)
    BY <1>3, BudgetAssumption DEF Batch
  <2>6. UnitsHeld \subseteq Workers \X (1..Global) /\ UnitsHeld' \subseteq Workers \X (1..Global)
    BY DEF UnitsHeld
  <2> HIDE DEF B
  <2>7. \A v \in Workers, n \in 1..Global : <<v, n>> \in UnitsHeld' <=> <<v, n>> \in UnitsHeld \/ <<v, n>> \in B
    <3> SUFFICES ASSUME NEW v \in Workers, NEW n \in 1..Global
                 PROVE  <<v, n>> \in UnitsHeld' <=> <<v, n>> \in UnitsHeld \/ <<v, n>> \in B
      OBVIOUS
    <3>1. n \in Nat /\ n > 0 /\ held[v] \in Nat
      BY <1>1, <2>0
    <3>2. <<v, n>> \in UnitsHeld <=> n =< held[v]
      BY <2>3
    <3>3. <<v, n>> \in B <=> v = w /\ n =< units
      BY <2>4
    <3>4. <<v, n>> \in UnitsHeld' <=> n =< held'[v]
      BY <2>2
    <3> QED BY <2>1, <3>1, <3>2, <3>3, <3>4
  <2>8. \A v \in Workers, n \in 1..Global : ~ (<<v, n>> \in UnitsHeld /\ <<v, n>> \in B)
    <3> SUFFICES ASSUME NEW v \in Workers, NEW n \in 1..Global
                 PROVE  ~ (<<v, n>> \in UnitsHeld /\ <<v, n>> \in B)
      OBVIOUS
    <3>1. n \in Nat /\ n > 0 /\ held[v] \in Nat
      BY <1>1, <2>0
    <3>2. <<v, n>> \in UnitsHeld <=> n =< held[v]
      BY <2>3
    <3>3. <<v, n>> \in B <=> v = w /\ n =< units
      BY <2>4
    <3>4. <<v, n>> \in UnitsHeld' <=> n =< held'[v]
      BY <2>2
    <3> QED BY <2>1, <3>1, <3>2, <3>3, <3>4
  <2> QED BY <2>5, <2>6, <2>7, <2>8
<1>5. \A unit \in B : unit[1] = w
  BY DEF Batch
<1> HIDE DEF B
<1>6. \A i \in Identities : UnitsOf(i)' = IF i = identity[w] THEN UnitsOf(i) \cup B ELSE UnitsOf(i)
  BY <1>4, <1>5 DEF UnitsOf
<1>7. UnitsOf(identity[w]) \cap B = {}
  BY <1>4 DEF UnitsOf
<1>8. IsFiniteSet(B) /\ Cardinality(B) = units
  BY BatchSize DEF B
<1>9. Cardinality(UnitsHeld \cup B) = used + units
  BY <1>2, <1>4, <1>8, UnitsFinite, SetsApart
<1>10. Cardinality(UnitsOf(identity[w]) \cup B) = byIdentity[identity[w]] + units
  BY <1>1, <1>2, <1>7, <1>8, UnitsFinite, SetsApart
<1>11. \A i \in Identities : byIdentity'[i] = Cardinality(UnitsOf(i)')
  BY <1>1, <1>2, <1>3, <1>6, <1>10
<1>12. used' = Cardinality(UnitsHeld')
  BY <1>3, <1>4, <1>9
<1>13. Balanced'
  BY <1>11, <1>12 DEF Balanced, UnitsOf
<1>14. \A v \in Workers : held'[v] =< Global
  BY <1>1, <1>3 DEF UnitsIInv
<1> QED BY <1>13, <1>14

\* Giving them back keeps the counts.
LEMMA ReleaseBalances ==
    ASSUME UnitsIInv, NEW w \in Workers, Release(w)
    PROVE  Balanced' /\ \A v \in Workers : held'[v] =< Global
<1> DEFINE B == Batch(w, held[w])
<1>1. /\ held \in [Workers -> Nat] /\ byIdentity \in [Identities -> Int] /\ identity[w] \in Identities
      /\ held[w] =< Global
  BY BudgetAssumption DEF UnitsIInv, WorkIInv, TypeOK
<1>2. /\ used = Cardinality(UnitsHeld) /\ used \in Nat
      /\ \A i \in Identities : byIdentity[i] = Cardinality(UnitsOf(i))
  BY UnitsFinite DEF UnitsIInv, Balanced, UnitsOf
<1>3. /\ used' = used - held[w] /\ held' = [held EXCEPT ![w] = 0]
      /\ byIdentity' = [byIdentity EXCEPT ![identity[w]] = byIdentity[identity[w]] - held[w]]
  BY DEF Release, Share
<1>4. UnitsHeld' = UnitsHeld \ B /\ B \subseteq UnitsHeld
  <2>0. \A n \in 1..Global : n \in Nat /\ n > 0
    BY BudgetAssumption
  <2>1. \A v \in Workers : held'[v] = IF v = w THEN 0 ELSE held[v]
    BY <1>1, <1>3
  <2>2. \A v \in Workers, n \in 1..Global : <<v, n>> \in UnitsHeld' <=> n =< held'[v]
    BY DEF UnitsHeld
  <2>3. \A v \in Workers, n \in 1..Global : <<v, n>> \in UnitsHeld <=> n =< held[v]
    BY DEF UnitsHeld
  <2>4. \A v \in Workers, n \in 1..Global : <<v, n>> \in B <=> v = w /\ n =< held[w]
    BY <1>1, BudgetAssumption DEF Batch
  <2>5. B \subseteq Workers \X (1..Global)
    BY <1>1, BudgetAssumption DEF Batch
  <2>6. UnitsHeld \subseteq Workers \X (1..Global) /\ UnitsHeld' \subseteq Workers \X (1..Global)
    BY DEF UnitsHeld
  <2> HIDE DEF B
  <2>7. \A v \in Workers, n \in 1..Global : <<v, n>> \in UnitsHeld' <=> <<v, n>> \in UnitsHeld /\ <<v, n>> \notin B
    <3> SUFFICES ASSUME NEW v \in Workers, NEW n \in 1..Global
                 PROVE  <<v, n>> \in UnitsHeld' <=> <<v, n>> \in UnitsHeld /\ <<v, n>> \notin B
      OBVIOUS
    <3>1. n \in Nat /\ n > 0 /\ held[v] \in Nat
      BY <1>1, <2>0
    <3>2. <<v, n>> \in UnitsHeld <=> n =< held[v]
      BY <2>3
    <3>3. <<v, n>> \in B <=> v = w /\ n =< held[w]
      BY <2>4
    <3>4. <<v, n>> \in UnitsHeld' <=> n =< held'[v]
      BY <2>2
    <3> QED BY <2>1, <3>1, <3>2, <3>3, <3>4
  <2>8. \A v \in Workers, n \in 1..Global : <<v, n>> \in B => <<v, n>> \in UnitsHeld
    BY <2>3, <2>4
  <2> QED BY <2>5, <2>6, <2>7, <2>8
<1>5. \A unit \in B : unit[1] = w
  BY DEF Batch
<1>6. IsFiniteSet(B) /\ Cardinality(B) = held[w]
  BY <1>1, BatchSize
<1> HIDE DEF B
<1>7. \A i \in Identities : UnitsOf(i)' = IF i = identity[w] THEN UnitsOf(i) \ B ELSE UnitsOf(i)
  BY <1>4, <1>5 DEF UnitsOf
<1>8. B \subseteq UnitsOf(identity[w])
  BY <1>4, <1>5 DEF UnitsOf
<1>9. Cardinality(UnitsHeld \ B) = used - held[w]
  BY <1>2, <1>4, <1>6, UnitsFinite, SetsWithin
<1>10. Cardinality(UnitsOf(identity[w]) \ B) = byIdentity[identity[w]] - held[w]
  BY <1>1, <1>2, <1>6, <1>8, UnitsFinite, SetsWithin
<1>11. \A i \in Identities : byIdentity'[i] = Cardinality(UnitsOf(i)')
  BY <1>1, <1>2, <1>3, <1>7, <1>10
<1>12. used' = Cardinality(UnitsHeld')
  BY <1>3, <1>4, <1>9
<1>13. Balanced'
  BY <1>11, <1>12 DEF Balanced, UnitsOf
<1>14. \A v \in Workers : held'[v] =< Global
  BY <1>1, <1>3, BudgetAssumption DEF UnitsIInv
<1> QED BY <1>13, <1>14

\* Every step of the work budget keeps its invariant.
LEMMA UnitsStep == UnitsIInv /\ [Next]_vars => UnitsIInv'
<1> SUFFICES ASSUME UnitsIInv, [Next]_vars PROVE UnitsIInv'
  OBVIOUS
<1>1. WorkIInv'
  BY WorkStep DEF UnitsIInv
<1>2. \A w \in Workers : pc[w] # "holding" => held[w] = 0
  BY DEF UnitsIInv, WorkIInv, TypeOK
<1>3. ASSUME UNCHANGED <<used, byIdentity, held>> PROVE UnitsIInv'
  BY <1>1, <1>3 DEF UnitsIInv, Balanced, UnitsHeld
<1>4. ASSUME NEW w \in Workers, NEW units \in Units, Claim(w, units) PROVE UnitsIInv'
  BY <1>1, <1>2, <1>4, HoldBalances, BudgetAssumption DEF Claim, UnitsIInv
<1>5. ASSUME NEW w \in Workers, Attempt(w) PROVE UnitsIInv'
  <2>1. CASE Hold(w, 1)
    BY <1>1, <1>2, <1>5, <2>1, HoldBalances DEF Attempt, UnitsIInv
  <2>2. CASE Park(w)
    BY <1>3, <2>2 DEF Park
  <2> QED BY <1>5, <2>1, <2>2 DEF Attempt
<1>6. ASSUME NEW w \in Workers, Release(w) PROVE UnitsIInv'
  BY <1>1, <1>6, ReleaseBalances DEF UnitsIInv
<1>7. ASSUME NEW w \in Workers, Begin(w) \/ Wake(w) \/ GiveUp(w) PROVE UnitsIInv'
  BY <1>3, <1>7 DEF Begin, Wake, GiveUp
<1>8. CASE UNCHANGED vars
  BY <1>3, <1>8 DEF vars
<1> QED BY <1>4, <1>5, <1>6, <1>7, <1>8 DEF Next

-----------------------------------------------------------------------------
(* Short caches (resources/cache.go).                                      *)

ReaderTypes ==
    /\ reader \in [Readers -> [at : {"off", "look", "build", "wait", "served", "left"},
                               asked : Nat, ch : Nat, from : Nat]]
    /\ clock \in Nat /\ chans \in Nat /\ building \in Nat
    /\ value \in [at : Nat, from : Nat]

\* Who builds has its channel in recent.building, and nobody else has.
BuildIsClaimed ==
    /\ \A r \in Readers : reader[r].at = "build" => building # 0
    /\ \A r, q \in Readers : reader[r].at = "build" /\ reader[q].at = "build" => r = q

CacheIInv == ReaderTypes /\ BuildIsClaimed

\* The invariant of the short cache holds initially.
LEMMA CacheStart == CacheInit => CacheIInv
BY DEF CacheInit, CacheIInv, ReaderTypes, BuildIsClaimed

\* Every step of the short cache keeps its invariant.
LEMMA CacheKept == CacheIInv /\ [CacheNext]_cacheVars => CacheIInv'
<1> SUFFICES ASSUME CacheIInv, [CacheNext]_cacheVars PROVE CacheIInv'
  OBVIOUS
<1> USE DEF CacheIInv
<1>1. ASSUME NEW r \in Readers, ReadClock(r) PROVE CacheIInv'
  <2>1. ReaderTypes' BY <1>1 DEF ReaderTypes, ReadClock
  <2>2. BuildIsClaimed' BY <1>1 DEF BuildIsClaimed, ReaderTypes, ReadClock
  <2> QED BY <2>1, <2>2 DEF CacheIInv
<1>2. ASSUME NEW r \in Readers, Look(r) PROVE CacheIInv'
  <2>1. ReaderTypes' BY <1>2 DEF ReaderTypes, Look, NobodyBuilds
  <2>2. BuildIsClaimed' BY <1>2 DEF BuildIsClaimed, ReaderTypes, Look, NobodyBuilds
  <2> QED BY <2>1, <2>2 DEF CacheIInv
<1>3. ASSUME NEW r \in Readers, Built(r) PROVE CacheIInv'
  <2>1. ReaderTypes' BY <1>3 DEF ReaderTypes, Built
  <2>2. BuildIsClaimed' BY <1>3 DEF BuildIsClaimed, ReaderTypes, Built
  <2> QED BY <2>1, <2>2 DEF CacheIInv
<1>4. ASSUME NEW r \in Readers, WokenUp(r) PROVE CacheIInv'
  <2>1. ReaderTypes' BY <1>4 DEF ReaderTypes, WokenUp
  <2>2. BuildIsClaimed' BY <1>4 DEF BuildIsClaimed, ReaderTypes, WokenUp
  <2> QED BY <2>1, <2>2 DEF CacheIInv
<1>5. ASSUME NEW r \in Readers, GoesAway(r) PROVE CacheIInv'
  <2>1. ReaderTypes' BY <1>5 DEF ReaderTypes, GoesAway
  <2>2. BuildIsClaimed' BY <1>5 DEF BuildIsClaimed, ReaderTypes, GoesAway
  <2> QED BY <2>1, <2>2 DEF CacheIInv
<1>6. CASE PassTime
  <2>1. ReaderTypes' BY <1>6 DEF ReaderTypes, PassTime
  <2>2. BuildIsClaimed' BY <1>6 DEF BuildIsClaimed, ReaderTypes, PassTime
  <2> QED BY <2>1, <2>2 DEF CacheIInv
<1>7. CASE UNCHANGED cacheVars
  BY <1>7 DEF cacheVars, ReaderTypes, BuildIsClaimed
<1> QED BY <1>1, <1>2, <1>3, <1>4, <1>5, <1>6, <1>7 DEF CacheNext, ReaderStep

-----------------------------------------------------------------------------
(* Chart versions (charts/charts.go).                                      *)

ChartAskers == [at : {"out", "begin", "lead", "wait", "read"}, unit : ChartUnits, warms : BOOLEAN]

\* A chart that is being fetched has one leader, and whoever waits waits for
\* one of those.
LeadsFollow ==
    /\ \A a \in Askers : asker[a].at \in {"lead", "wait"} => asker[a].unit \in flying
    /\ \A u \in flying : \E a \in Askers : asker[a].at = "lead" /\ asker[a].unit = u
    /\ \A a, b \in Askers :
           asker[a].at = "lead" /\ asker[b].at = "lead" /\ asker[a].unit = asker[b].unit => a = b

ChartIInv == ChartTypeOK /\ LeadsFollow /\ ChartsWithinRoom /\ WarmSlotsReturn

\* Who has a slot of warmSlots.
Warmers == {a \in Askers : asker[a].warms /\ asker[a].at \in {"begin", "lead"}}

\* One warmer more, one fewer.
LEMMA ChartSlots ==
    /\ IsFiniteSet(Warmers) /\ Cardinality(Warmers) \in Nat
    /\ \A a \in Askers : /\ Cardinality(Warmers \cup {a}) = IF a \in Warmers THEN Cardinality(Warmers)
                                                            ELSE Cardinality(Warmers) + 1
                         /\ Cardinality(Warmers \ {a}) = IF a \in Warmers THEN Cardinality(Warmers) - 1
                                                         ELSE Cardinality(Warmers)
                         /\ Cardinality(Warmers \ {a}) \in Nat
<1>1. IsFiniteSet(Warmers)
  BY ChartAssumption, FS_Subset DEF Warmers
<1> QED BY <1>1, FS_CardinalityType, FS_AddElement, FS_RemoveElement

\* A call that ends gives back the warm slot it holds, if it holds one.
LEMMA SlotGivenBack ==
    ASSUME NEW a \in Askers, a \in Warmers <=> asker[a].warms,
           warming = Cardinality(Warmers), warming =< WarmRoom,
           warming' = IF asker[a].warms THEN warming - 1 ELSE warming, Warmers' = Warmers \ {a}
    PROVE  warming' = Cardinality(Warmers') /\ warming' \in Nat /\ warming' =< WarmRoom
<1>1. Cardinality(Warmers \ {a}) = IF a \in Warmers THEN Cardinality(Warmers) - 1 ELSE Cardinality(Warmers)
  BY ChartSlots
<1>2. Cardinality(Warmers \ {a}) \in Nat /\ Cardinality(Warmers) \in Nat
  BY ChartSlots
<1>3. warming' = Cardinality(Warmers \ {a})
  BY <1>1
<1>4. Cardinality(Warmers \ {a}) =< Cardinality(Warmers)
  BY <1>1, <1>2
<1> QED BY <1>2, <1>3, <1>4, ChartAssumption

\* The invariant of the chart cache holds initially.
LEMMA ChartStart == ChartInit => ChartIInv
<1> SUFFICES ASSUME ChartInit PROVE ChartIInv
  OBVIOUS
<1>1. Out \in ChartAskers /\ Out.at = "out" /\ Out.warms = FALSE
  BY ChartAssumption DEF Out, ChartAskers
<1>2. \A a \in Askers : asker[a] = Out
  BY DEF ChartInit
<1>3. asker \in [Askers -> ChartAskers]
  BY <1>1 DEF ChartInit
<1>4. ChartTypeOK
  BY <1>3, ChartAssumption DEF ChartInit, ChartTypeOK, NeverYet, ChartAskers
<1>5. LeadsFollow
  BY <1>1, <1>2 DEF ChartInit, LeadsFollow
<1>6. {u \in ChartUnits : Touched(fetchedAt, failedAt)[u] # NeverYet} = {}
  BY DEF ChartInit, Touched, NeverYet
<1>7. ChartsWithinRoom
  BY <1>6, FS_EmptySet, ChartAssumption DEF ChartInit, ChartsWithinRoom
<1>8. Warmers = {}
  BY <1>1, <1>2 DEF Warmers
<1>9. WarmSlotsReturn
  BY <1>8, FS_EmptySet DEF ChartInit, WarmSlotsReturn, Warmers
<1> QED BY <1>4, <1>5, <1>7, <1>9 DEF ChartIInv

\* Once the oldest are evicted the rest fits.
LEMMA RestFits ==
    ASSUME NEW fetched \in [ChartUnits -> 0..MaxMoment], NEW failed \in [ChartUnits -> 0..MaxMoment],
           NEW dropped \in Evicted(fetched, failed),
           fetchedAt' = [v \in ChartUnits |-> IF v \in dropped THEN NeverYet ELSE fetched[v]],
           failedAt' = [v \in ChartUnits |-> IF v \in dropped THEN NeverYet ELSE failed[v]]
    PROVE  Cardinality({u \in ChartUnits : Touched(fetchedAt', failedAt')[u] # NeverYet}) =< ChartRoom
<1> DEFINE ages == Touched(fetched, failed)
           inCache == {u \in ChartUnits : ages[u] # NeverYet}
<1>1. /\ dropped \subseteq inCache
      /\ Cardinality(dropped) = IF Cardinality(inCache) > ChartRoom THEN Cardinality(inCache) - ChartRoom ELSE 0
  BY DEF Evicted
<1>2. {u \in ChartUnits : Touched(fetchedAt', failedAt')[u] # NeverYet} = inCache \ dropped
  BY <1>1 DEF Touched, NeverYet
<1>3. IsFiniteSet(inCache)
  BY ChartAssumption, FS_Subset
<1> HIDE DEF inCache
<1>4. Cardinality(inCache) \in Nat /\ Cardinality(inCache \ dropped) = Cardinality(inCache) - Cardinality(dropped)
  BY <1>1, <1>3, FS_CardinalityType, SetsWithin
<1>5. Cardinality(inCache \ dropped) =< ChartRoom
  BY <1>1, <1>4, ChartAssumption
<1> QED BY <1>2, <1>5

\* Forgetting a failure makes no chart count that did not.
LEMMA FewerTouched ==
    ASSUME ChartIInv, fetchedAt' = fetchedAt, versioned' = versioned,
           \/ failedAt' = failedAt
           \/ \E u \in ChartUnits : failedAt' = [failedAt EXCEPT ![u] = NeverYet]
    PROVE  ChartsWithinRoom'
<1> DEFINE S == {u \in ChartUnits : Touched(fetchedAt, failedAt)[u] # NeverYet}
           T == {u \in ChartUnits : Touched(fetchedAt', failedAt')[u] # NeverYet}
<1>1. T \subseteq S
  BY DEF Touched, ChartIInv, ChartTypeOK, NeverYet
<1>2. IsFiniteSet(S) /\ Cardinality(S) =< ChartRoom
  BY ChartAssumption, FS_Subset DEF ChartIInv, ChartsWithinRoom
<1> HIDE DEF S, T
<1>3. Cardinality(T) =< Cardinality(S) /\ IsFiniteSet(T)
  BY <1>1, <1>2, FS_Subset
<1>4. Cardinality(T) \in Nat /\ Cardinality(S) \in Nat
  BY <1>2, <1>3, FS_CardinalityType
<1>5. Cardinality(T) =< ChartRoom
  BY <1>2, <1>3, <1>4, ChartAssumption
<1>6. \A u \in versioned : fetchedAt[u] # NeverYet
  BY DEF ChartIInv, ChartsWithinRoom
<1> QED BY <1>5, <1>6 DEF ChartsWithinRoom, T

\* Every step of the chart cache keeps its invariant.
LEMMA ChartStep == ChartIInv /\ [ChartNext]_chartVars => ChartIInv'
<1> SUFFICES ASSUME ChartIInv, [ChartNext]_chartVars PROVE ChartIInv'
  OBVIOUS
<1> USE ChartAssumption
<1>0. /\ asker \in [Askers -> ChartAskers] /\ warming = Cardinality(Warmers)
      /\ warming \in Nat /\ warming =< WarmRoom
  BY DEF ChartIInv, ChartTypeOK, ChartAskers, WarmSlotsReturn, Warmers
<1>1. ASSUME NEW a \in Askers, NEW u \in ChartUnits, AskChart(a, u) PROVE ChartIInv'
  <2> DEFINE r == [at |-> "begin", unit |-> u, warms |-> FALSE]
  <2>1. /\ asker[a].at = "out" /\ asker' = [asker EXCEPT ![a] = r]
        /\ UNCHANGED <<fetchedAt, failedAt, versioned, flying, warming, moment>>
    BY <1>1 DEF AskChart
  <2>2. r \in ChartAskers /\ r.at = "begin" /\ r.warms = FALSE
    BY DEF ChartAskers
  <2> HIDE DEF r
  <2>3. asker' \in [Askers -> ChartAskers] /\ \A b \in Askers : asker'[b] = IF b = a THEN r ELSE asker[b]
    BY <1>0, <2>1, <2>2
  <2>4. ChartTypeOK'
    BY <2>1, <2>3 DEF ChartIInv, ChartTypeOK, ChartAskers
  <2>5. LeadsFollow'
    BY <2>1, <2>2, <2>3 DEF ChartIInv, LeadsFollow
  <2>6. ChartsWithinRoom'
    BY <2>1, FewerTouched
  <2>7. Warmers' = Warmers
    BY <2>1, <2>2, <2>3 DEF Warmers
  <2>8. WarmSlotsReturn'
    BY <1>0, <2>1, <2>7 DEF WarmSlotsReturn, Warmers
  <2> QED BY <2>4, <2>5, <2>6, <2>8 DEF ChartIInv
<1>2. ASSUME NEW a \in Askers, NEW u \in ChartUnits, WarmChart(a, u) PROVE ChartIInv'
  <2> DEFINE r == [at |-> "begin", unit |-> u, warms |-> TRUE]
  <2>1. /\ asker[a].at = "out" /\ asker' = [asker EXCEPT ![a] = r]
        /\ warming < WarmRoom /\ warming' = warming + 1
        /\ UNCHANGED <<fetchedAt, failedAt, versioned, flying, moment>>
    BY <1>2 DEF WarmChart
  <2>2. r \in ChartAskers /\ r.at = "begin" /\ r.warms = TRUE
    BY DEF ChartAskers
  <2> HIDE DEF r
  <2>3. asker' \in [Askers -> ChartAskers] /\ \A b \in Askers : asker'[b] = IF b = a THEN r ELSE asker[b]
    BY <1>0, <2>1, <2>2
  <2>4. ChartTypeOK'
    BY <1>0, <2>1, <2>3 DEF ChartIInv, ChartTypeOK, ChartAskers
  <2>5. LeadsFollow'
    BY <2>1, <2>2, <2>3 DEF ChartIInv, LeadsFollow
  <2>6. ChartsWithinRoom'
    BY <2>1, FewerTouched
  <2>7. Warmers' = Warmers \cup {a} /\ a \notin Warmers
    BY <2>1, <2>2, <2>3 DEF Warmers
  <2>8. warming' = Cardinality(Warmers')
    BY <1>0, <2>1, <2>7, ChartSlots
  <2>9. WarmSlotsReturn'
    BY <2>8 DEF WarmSlotsReturn, Warmers
  <2> QED BY <2>4, <2>5, <2>6, <2>9 DEF ChartIInv
<1>3. ASSUME NEW a \in Askers, BeginFetch(a) PROVE ChartIInv'
  <2>1. PICK u \in ChartUnits, place \in {"lead", "out", "read", "wait"} :
          /\ u = asker[a].unit /\ asker[a].at = "begin" /\ asker' = [asker EXCEPT ![a].at = place]
          /\ place = "lead" => u \notin flying /\ flying' = flying \cup {u} /\ warming' = warming
          /\ place # "lead" => flying' = flying /\ warming' = IF asker[a].warms THEN warming - 1 ELSE warming
          /\ place = "wait" => u \in flying
          /\ failedAt' = failedAt \/ failedAt' = [failedAt EXCEPT ![u] = NeverYet]
          /\ UNCHANGED <<fetchedAt, versioned, moment>>
    <3> DEFINE u == asker[a].unit
               known == FreshChart(u) \/ FailedLately(u)
               leads == ~ known /\ u \notin flying
               place == CASE leads -> "lead"
                          [] ~ leads /\ asker[a].warms -> "out"
                          [] known /\ ~ asker[a].warms -> IF FreshChart(u) THEN "read" ELSE "out"
                          [] OTHER -> "wait"
    <3>1. /\ asker[a].at = "begin" /\ asker' = [asker EXCEPT ![a].at = place]
          /\ flying' = IF leads THEN flying \cup {u} ELSE flying
          /\ failedAt' = IF known THEN failedAt ELSE [failedAt EXCEPT ![u] = NeverYet]
          /\ warming' = IF asker[a].warms /\ ~ leads THEN warming - 1 ELSE warming
          /\ UNCHANGED <<fetchedAt, versioned, moment>>
      BY <1>3 DEF BeginFetch, SlotBack
    <3>2. u \in ChartUnits
      BY <1>0 DEF ChartAskers
    <3> HIDE DEF u, known
    <3>3. \/ leads /\ place = "lead"
          \/ ~ leads /\ place \in {"out", "read"}
          \/ ~ leads /\ ~ known /\ place = "wait"
      OBVIOUS
    <3>4. leads <=> ~ known /\ u \notin flying
      OBVIOUS
    <3> HIDE DEF leads, place
    <3>5. failedAt' = failedAt \/ failedAt' = [failedAt EXCEPT ![u] = NeverYet]
      BY <3>1
    <3>6. CASE leads /\ place = "lead"
      <4>1. u \notin flying /\ flying' = flying \cup {u} /\ warming' = warming
        BY <3>1, <3>4, <3>6
      <4> QED BY <3>1, <3>2, <3>5, <3>6, <4>1 DEF u
    <3>7. CASE ~ leads /\ place \in {"out", "read"}
      <4>1. flying' = flying /\ warming' = IF asker[a].warms THEN warming - 1 ELSE warming
        BY <3>1, <3>7
      <4> QED BY <3>1, <3>2, <3>5, <3>7, <4>1 DEF u
    <3>8. CASE ~ leads /\ ~ known /\ place = "wait"
      <4>1. flying' = flying /\ warming' = IF asker[a].warms THEN warming - 1 ELSE warming
        BY <3>1, <3>8
      <4>2. u \in flying
        BY <3>4, <3>8
      <4> QED BY <3>1, <3>2, <3>5, <3>8, <4>1, <4>2 DEF u
    <3> QED BY <3>3, <3>6, <3>7, <3>8
  <2>2. /\ asker' \in [Askers -> ChartAskers]
        /\ \A b \in Askers : b # a => asker'[b] = asker[b]
        /\ asker'[a].at = place /\ asker'[a].unit = u /\ asker'[a].warms = asker[a].warms
    BY <1>0, <2>1 DEF ChartAskers
  <2>3. a \in Warmers <=> asker[a].warms
    BY <2>1 DEF Warmers
  <2>4. Warmers' = IF place = "lead" THEN Warmers ELSE Warmers \ {a}
    <3>1. \A b \in Askers : b \in Warmers' <=> asker'[b].warms /\ asker'[b].at \in {"begin", "lead"}
      BY DEF Warmers
    <3>2. \A b \in Askers : b \in Warmers <=> asker[b].warms /\ asker[b].at \in {"begin", "lead"}
      BY DEF Warmers
    <3>3. \A b \in Askers : b # a => (b \in Warmers' <=> b \in Warmers)
      BY <2>2, <3>1, <3>2
    <3>4. a \in Warmers' <=> a \in Warmers /\ place = "lead"
      BY <2>1, <2>2, <2>3, <3>1
    <3>5. Warmers \subseteq Askers /\ Warmers' \subseteq Askers
      BY DEF Warmers
    <3> QED BY <3>3, <3>4, <3>5
  <2>5. warming' = Cardinality(Warmers') /\ warming' \in Nat /\ warming' =< WarmRoom
    <3>1. CASE place = "lead"
      BY <1>0, <2>1, <2>4, <3>1
    <3>2. CASE place # "lead"
      <4>1. warming' = IF asker[a].warms THEN warming - 1 ELSE warming
        BY <2>1, <3>2
      <4>2. Warmers' = Warmers \ {a}
        BY <2>4, <3>2
      <4> QED BY <4>1, <4>2, <1>0, <2>3, SlotGivenBack
    <3> QED BY <3>1, <3>2
  <2>6. failedAt' \in [ChartUnits -> 0..MaxMoment] /\ flying' \subseteq ChartUnits
    BY <2>1 DEF ChartIInv, ChartTypeOK, NeverYet
  <2>7. ChartTypeOK'
    BY <2>1, <2>2, <2>5, <2>6 DEF ChartIInv, ChartTypeOK, ChartAskers
  <2>8. LeadsFollow'
    <3>1. CASE place = "lead"
      BY <2>1, <2>2, <3>1 DEF ChartIInv, LeadsFollow
    <3>2. CASE place # "lead"
      BY <2>1, <2>2, <3>2 DEF ChartIInv, LeadsFollow
    <3> QED BY <3>1, <3>2
  <2>9. ChartsWithinRoom'
    BY <2>1, FewerTouched
  <2>10. WarmSlotsReturn'
    BY <2>5 DEF WarmSlotsReturn, Warmers
  <2> QED BY <2>7, <2>8, <2>9, <2>10 DEF ChartIInv
<1>4. ASSUME NEW a \in Askers, ReadVersions(a) \/ GiveUpWaiting(a) PROVE ChartIInv'
  <2>1. /\ asker[a].at \in {"read", "wait"} /\ asker' = [asker EXCEPT ![a].at = "out"]
        /\ UNCHANGED <<fetchedAt, failedAt, versioned, flying, warming, moment>>
    BY <1>4 DEF ReadVersions, GiveUpWaiting
  <2>2. /\ asker' \in [Askers -> ChartAskers]
        /\ \A b \in Askers : b # a => asker'[b] = asker[b]
        /\ asker'[a].at = "out"
    BY <1>0, <2>1 DEF ChartAskers
  <2>3. ChartTypeOK'
    BY <2>1, <2>2 DEF ChartIInv, ChartTypeOK, ChartAskers
  <2>4. LeadsFollow'
    BY <2>1, <2>2 DEF ChartIInv, LeadsFollow
  <2>5. ChartsWithinRoom'
    BY <2>1, FewerTouched
  <2>6. Warmers' = Warmers
    BY <2>1, <2>2 DEF Warmers
  <2>7. WarmSlotsReturn'
    BY <1>0, <2>1, <2>6 DEF WarmSlotsReturn, Warmers
  <2> QED BY <2>3, <2>4, <2>5, <2>7 DEF ChartIInv
<1>5. ASSUME NEW a \in Askers, NEW worked \in BOOLEAN, Complete(a, worked) PROVE ChartIInv'
  <2>1. PICK u \in ChartUnits : u = asker[a].unit
    BY <1>0 DEF ChartAskers
  <2>1a. PICK fetched : fetched = IF worked THEN [fetchedAt EXCEPT ![u] = moment] ELSE fetchedAt
    OBVIOUS
  <2>1b. PICK failed : failed = [failedAt EXCEPT ![u] = IF worked THEN NeverYet ELSE moment]
    OBVIOUS
  <2>1c. PICK told : told = {b \in Askers : asker[b].at = "wait" /\ asker[b].unit = u} \cup {a}
    OBVIOUS
  <2>1d. PICK dropped \in Evicted(fetched, failed) :
           /\ fetchedAt' = [v \in ChartUnits |-> IF v \in dropped THEN NeverYet ELSE fetched[v]]
           /\ failedAt' = [v \in ChartUnits |-> IF v \in dropped THEN NeverYet ELSE failed[v]]
           /\ versioned' = (IF worked THEN versioned \cup {u} ELSE versioned) \ dropped
    BY <1>5, <2>1, <2>1a, <2>1b DEF Complete
  <2>2. /\ asker[a].at = "lead" /\ flying' = flying \ {u} /\ moment' = moment
        /\ warming' = IF asker[a].warms THEN warming - 1 ELSE warming
    BY <1>5, <2>1 DEF Complete, SlotBack
  <2>2a. asker' = [b \in Askers |-> IF b \notin told THEN asker[b]
                     ELSE [asker[b] EXCEPT !.at = IF worked /\ ~ asker[b].warms THEN "read" ELSE "out"]]
    BY <1>5, <2>1, <2>1c DEF Complete
  <2>3. /\ fetchedAt \in [ChartUnits -> 0..MaxMoment] /\ failedAt \in [ChartUnits -> 0..MaxMoment]
        /\ moment \in 1..MaxMoment /\ versioned \subseteq ChartUnits /\ flying \subseteq ChartUnits
    BY DEF ChartIInv, ChartTypeOK
  <2>4. /\ fetched \in [ChartUnits -> 0..MaxMoment] /\ failed \in [ChartUnits -> 0..MaxMoment]
        /\ worked => fetched[u] # NeverYet
        /\ \A v \in ChartUnits : v # u \/ ~ worked => fetched[v] = fetchedAt[v]
    BY <2>1a, <2>1b, <2>3 DEF NeverYet
  <2>5. /\ asker' \in [Askers -> ChartAskers]
        /\ \A b \in Askers : b \notin told => asker'[b] = asker[b]
        /\ \A b \in Askers : b \in told => asker'[b].at \in {"read", "out"}
    BY <1>0, <2>2a DEF ChartAskers
  <2>6. \A b \in Askers : b \in told <=> b = a \/ (asker[b].at = "wait" /\ asker[b].unit = u)
    BY <2>1c
  <2>7. a \in Warmers <=> asker[a].warms
    BY <2>2 DEF Warmers
  <2>8. Warmers' = Warmers \ {a}
    <3>1. \A b \in Askers : b \in Warmers' <=> asker'[b].warms /\ asker'[b].at \in {"begin", "lead"}
      BY DEF Warmers
    <3>2. \A b \in Askers : b \in Warmers <=> asker[b].warms /\ asker[b].at \in {"begin", "lead"}
      BY DEF Warmers
    <3>3. \A b \in Askers : b \notin told => (b \in Warmers' <=> b \in Warmers) /\ b # a
      BY <2>5, <2>6, <3>1, <3>2
    <3>4. \A b \in Askers : b \in told => b \notin Warmers' /\ (b = a \/ b \notin Warmers)
      BY <2>5, <2>6, <3>1, <3>2
    <3>5. Warmers \subseteq Askers /\ Warmers' \subseteq Askers
      BY DEF Warmers
    <3> QED BY <3>3, <3>4, <3>5
  <2>9. warming' = Cardinality(Warmers') /\ warming' \in Nat /\ warming' =< WarmRoom
    BY <1>0, <2>2, <2>7, <2>8, SlotGivenBack
  <2>10. WarmSlotsReturn'
    BY <2>9 DEF WarmSlotsReturn, Warmers
  <2>11. ChartTypeOK'
    <3>1. fetchedAt' \in [ChartUnits -> 0..MaxMoment] /\ failedAt' \in [ChartUnits -> 0..MaxMoment]
      BY <2>1d, <2>4 DEF NeverYet
    <3>2. versioned' \subseteq ChartUnits /\ flying' \subseteq ChartUnits
      BY <2>1d, <2>2, <2>3
    <3>3. warming' \in 0..WarmRoom /\ moment' \in 1..MaxMoment
      BY <2>2, <2>3, <2>9
    <3> QED BY <2>5, <3>1, <3>2, <3>3 DEF ChartTypeOK, ChartAskers
  <2>12. LeadsFollow'
    <3>1. \A b \in Askers : asker[b].at = "lead" /\ asker[b].unit = u => b = a
      BY <2>1, <2>2 DEF ChartIInv, LeadsFollow
    <3>2. \A b \in Askers : asker'[b].at \in {"lead", "wait"} => b \notin told /\ asker'[b] = asker[b]
      BY <2>5
    <3>3. \A b \in Askers : asker'[b].at \in {"lead", "wait"} => asker[b].unit # u
      BY <2>6, <3>1, <3>2
    <3>4. \A b \in Askers : asker[b].at = "lead" /\ asker[b].unit # u => asker'[b] = asker[b]
      BY <2>1, <2>5, <2>6
    <3>5. \A b \in Askers : asker'[b].at \in {"lead", "wait"} => asker'[b].unit \in flying'
      BY <2>2, <3>2, <3>3 DEF ChartIInv, LeadsFollow
    <3>6. \A v \in flying' : \E b \in Askers : asker'[b].at = "lead" /\ asker'[b].unit = v
      <4> SUFFICES ASSUME NEW v \in flying' PROVE \E b \in Askers : asker'[b].at = "lead" /\ asker'[b].unit = v
        OBVIOUS
      <4>1. v \in flying /\ v # u
        BY <2>2
      <4>2. PICK b \in Askers : asker[b].at = "lead" /\ asker[b].unit = v
        BY <4>1 DEF ChartIInv, LeadsFollow
      <4>3. asker'[b] = asker[b]
        BY <3>4, <4>1, <4>2
      <4> QED BY <4>2, <4>3
    <3>7. \A b, c \in Askers :
            asker'[b].at = "lead" /\ asker'[c].at = "lead" /\ asker'[b].unit = asker'[c].unit => b = c
      BY <3>2 DEF ChartIInv, LeadsFollow
    <3> QED BY <3>5, <3>6, <3>7 DEF LeadsFollow
  <2>13. Cardinality({v \in ChartUnits : Touched(fetchedAt', failedAt')[v] # NeverYet}) =< ChartRoom
    <3>1. /\ fetchedAt' = [v \in ChartUnits |-> IF v \in dropped THEN NeverYet ELSE fetched[v]]
          /\ failedAt' = [v \in ChartUnits |-> IF v \in dropped THEN NeverYet ELSE failed[v]]
          /\ dropped \in Evicted(fetched, failed)
      BY <2>1d
    <3>2. fetched \in [ChartUnits -> 0..MaxMoment] /\ failed \in [ChartUnits -> 0..MaxMoment]
      BY <2>4
    <3> QED BY <3>1, <3>2, RestFits, Zenon
  <2>14. \A v \in versioned' : fetchedAt'[v] # NeverYet
    <3>1. \A v \in versioned : fetchedAt[v] # NeverYet
      BY DEF ChartIInv, ChartsWithinRoom
    <3>2. \A v \in versioned' : v \in ChartUnits /\ v \notin dropped /\ (v \in versioned \/ (worked /\ v = u))
      BY <2>1d, <2>3
    <3>3. \A v \in versioned' : fetched[v] # NeverYet
      BY <2>3, <2>4, <3>1, <3>2
    <3> QED BY <2>1d, <3>2, <3>3
  <2>15. ChartsWithinRoom'
    BY <2>13, <2>14 DEF ChartsWithinRoom
  <2> QED BY <2>10, <2>11, <2>12, <2>15 DEF ChartIInv
<1>6. CASE PassMoment \/ UNCHANGED chartVars
  <2>1. /\ moment' \in 1..MaxMoment
        /\ UNCHANGED <<fetchedAt, failedAt, versioned, flying, asker, warming>>
    BY <1>6 DEF PassMoment, chartVars, ChartIInv, ChartTypeOK
  <2>2. ChartTypeOK' /\ LeadsFollow'
    BY <2>1 DEF ChartIInv, ChartTypeOK, LeadsFollow
  <2>3. ChartsWithinRoom'
    BY <2>1, FewerTouched
  <2>4. WarmSlotsReturn'
    BY <2>1 DEF ChartIInv, WarmSlotsReturn
  <2> QED BY <2>2, <2>3, <2>4 DEF ChartIInv
<1> QED BY <1>1, <1>2, <1>3, <1>4, <1>5, <1>6 DEF ChartNext

\* However many ask for a value at once one of them builds it and one fetches
\* a chart, a cache keeps to its room and its slots, and the work budget has in
\* use what calls hold, for any callers, charts, identities and limits
\* (resources/cache.go, charts/charts.go, server/budget.go).
THEOREM CachesSafety == ServicesSpec => []CachesSound
<1>1. ServicesInit => UnitsIInv /\ CacheIInv /\ ChartIInv
  BY UnitsStart, CacheStart, ChartStart DEF ServicesInit
<1>2. UnitsIInv /\ CacheIInv /\ ChartIInv /\ [ServicesNext]_servicesVars => UnitsIInv' /\ CacheIInv' /\ ChartIInv'
  BY OneMoves, UnitsStep, CacheKept, ChartStep
<1>3. UnitsIInv /\ CacheIInv /\ ChartIInv => CachesSound
  <2> SUFFICES ASSUME UnitsIInv, CacheIInv, ChartIInv PROVE CachesSound
    OBVIOUS
  <2>1. OneBuild
    <3> DEFINE S == {r \in Readers : reader[r].at = "build"}
    <3>1. S = {} \/ \E r \in Readers : S = {r}
      BY DEF CacheIInv, BuildIsClaimed
    <3> HIDE DEF S
    <3>2. Cardinality(S) \in {0, 1}
      BY <3>1, FS_EmptySet, FS_Singleton
    <3>3. Cardinality(S) <= 1
      BY <3>2
    <3> QED BY <3>3 DEF OneBuild, S
  <2>2. OneFetchPerChart
    <3>1. ASSUME NEW u \in ChartUnits
          PROVE  Cardinality({a \in Askers : asker[a].at = "lead" /\ asker[a].unit = u}) = IF u \in flying THEN 1 ELSE 0
      <4> DEFINE S == {a \in Askers : asker[a].at = "lead" /\ asker[a].unit = u}
      <4>1. IF u \in flying THEN \E a \in Askers : S = {a} ELSE S = {}
        BY DEF ChartIInv, LeadsFollow
      <4> HIDE DEF S
      <4>2. Cardinality(S) = IF u \in flying THEN 1 ELSE 0
        BY <4>1, FS_EmptySet, FS_Singleton
      <4> QED BY <4>2 DEF S
    <3> QED BY <3>1 DEF OneFetchPerChart, ChartIInv, LeadsFollow
  <2> QED BY <2>1, <2>2 DEF CachesSound, UnitsIInv, ChartIInv
<1> QED BY <1>1, <1>2, <1>3, PTL DEF ServicesSpec

-----------------------------------------------------------------------------
(* Recordings (server/timeline.go).                                        *)

ClosingSteps == {"cancel", "await", "backend", "request", "stop"}

TapeStates == [writer : {"none", "run", "stopped"}, asked : BOOLEAN, cancelled : BOOLEAN, started : BOOLEAN]

RecTypes ==
    /\ tapeMu \in Stops \cup {Nil} /\ taping \in Tapes \cup {Nil} /\ fed \in Tapes \cup {Nil}
    /\ ended \in BOOLEAN /\ tape \in [Tapes -> TapeStates] /\ prey \in [Calls -> SUBSET Tapes]
    /\ step \in [Calls -> {"off", "hold", "record", "warm", "done"} \cup ClosingSteps]
    /\ \A k \in Stops \cup {Shutdown} : step[k] \in {"off", "done"} \cup ClosingSteps

\* The life of a recording: it is started, asked to stop and stopped in this
\* order, after the call that makes it is over.
TapeLife ==
    \A r \in Tapes :
        /\ step[r] \in {"off", "hold"} => tape[r].writer = "none"
        /\ step[r] \in {"record", "warm"} \cup ClosingSteps => tape[r].writer = "run" /\ ~ tape[r].started
        /\ tape[r].writer = "none" => ~ tape[r].started
        /\ tape[r].writer = "stopped" => tape[r].asked
        /\ tape[r].asked => tape[r].started
        /\ tape[r].started => step[r] = "done"

\* Who holds tapeMu, and who has ended the recordings, left none to be held.
TapingHeld ==
    /\ tapeMu # Nil => taping = Nil
    /\ \A k \in Stops : step[k] \in ClosingSteps <=> tapeMu = k
    /\ ended <=> step[Shutdown] # "off"
    /\ ended => taping = Nil
    /\ taping # Nil => tape[taping].writer # "none"

\* A call closes at most one recording, which was started by the time its
\* notes are taken away and is given none after that.
PreyFollows ==
    \A k \in Calls :
        /\ prey[k] # {} => step[k] \in ClosingSteps
        /\ k \in Tapes /\ step[k] \in ClosingSteps => prey[k] # {}
        /\ \A p \in prey[k] :
               /\ tape[p].writer # "none" /\ prey[k] = {p}
               /\ step[k] \in {"backend", "request", "stop"} => tape[p].started
               /\ step[k] \in {"request", "stop"} => fed # p

\* What is given changes is not asked to stop, and what is held is given them
\* once its call has recorded.
FedFollows ==
    /\ fed # Nil => tape[fed].writer = "run" /\ ~ tape[fed].asked
    /\ taping # Nil /\ step[taping] \in {"warm", "done"} => fed = taping

\* The pairs of `turn` are recordings, the first held before the second.
InTurn(turn) ==
    /\ \A q, r \in Tapes : <<q, r>> \in turn => tape[q].writer # "none" /\ tape[r].writer # "none" /\ q # r
    /\ taping # Nil => \A q \in Tapes : tape[q].writer # "none" /\ q # taping => <<q, taping>> \in turn

\* q is p, or was held before it.
UpTo(turn, q, p) == q = p \/ <<q, p>> \in turn

\* A recording records only when those before it have stopped; until then its
\* call closes the last of them.
EachInTurn(turn) ==
    \A r, q \in Tapes : <<q, r>> \in turn =>
        /\ step[r] \in {"record", "warm", "done"} => tape[q].writer = "stopped"
        /\ \A p \in prey[r] : UpTo(turn, q, p)

\* All that was held has stopped, or is what the call k closes, or was held
\* before that.
StoppedBut(turn, k) ==
    \A q \in Tapes : tape[q].writer = "run" => \E p \in prey[k] : UpTo(turn, q, p)

\* Nothing held escapes a stop or the end.
NoneEscapes(turn) ==
    /\ taping = Nil /\ tapeMu = Nil /\ ~ ended => \A q \in Tapes : tape[q].writer # "run"
    /\ tapeMu # Nil /\ ~ ended => StoppedBut(turn, tapeMu)
    /\ ended => StoppedBut(turn, Shutdown)

RecOrder(turn) == InTurn(turn) /\ EachInTurn(turn) /\ NoneEscapes(turn)

RecBase == RecTypes /\ TapeLife /\ TapingHeld /\ PreyFollows /\ FedFollows

RecIInv == RecBase /\ \E turn \in SUBSET (Tapes \X Tapes) : RecOrder(turn)

\* The calls are the starts, the stops and the shutdown.
LEMMA RecCalls ==
    /\ Shutdown \in Calls /\ Shutdown \notin Tapes /\ Shutdown \notin Stops
    /\ Tapes \subseteq Calls /\ Stops \subseteq Calls /\ \A k \in Stops : k \notin Tapes
    /\ Nil \notin Tapes /\ Nil \notin Stops
BY RecAssumption DEF Calls

\* A call that goes on.
LEMMA CallMoves ==
    ASSUME RecTypes, NEW k \in Calls, NEW s \in {"off", "hold", "record", "warm", "done"} \cup ClosingSteps,
           k \notin Tapes => s \in {"off", "done"} \cup ClosingSteps, Moves(k, s)
    PROVE  /\ step' \in [Calls -> {"off", "hold", "record", "warm", "done"} \cup ClosingSteps]
           /\ \A l \in Stops \cup {Shutdown} : step'[l] \in {"off", "done"} \cup ClosingSteps
           /\ \A l \in Calls : step'[l] = IF l = k THEN s ELSE step[l]
BY RecCalls DEF RecTypes, Moves

\* A recording that changes.
LEMMA TapeChanges ==
    ASSUME NEW t \in TapeStates
    PROVE  /\ \A w \in {"none", "run", "stopped"} :
                  /\ [t EXCEPT !.writer = w] \in TapeStates /\ [t EXCEPT !.writer = w].writer = w
                  /\ [t EXCEPT !.writer = w].asked = t.asked /\ [t EXCEPT !.writer = w].started = t.started
           /\ [t EXCEPT !.started = TRUE] \in TapeStates /\ [t EXCEPT !.started = TRUE].writer = t.writer
           /\ [t EXCEPT !.started = TRUE].asked = t.asked /\ [t EXCEPT !.started = TRUE].started
           /\ [t EXCEPT !.asked = TRUE] \in TapeStates /\ [t EXCEPT !.asked = TRUE].writer = t.writer
           /\ [t EXCEPT !.asked = TRUE].started = t.started /\ [t EXCEPT !.asked = TRUE].asked
           /\ [t EXCEPT !.cancelled = TRUE] \in TapeStates /\ [t EXCEPT !.cancelled = TRUE].writer = t.writer
           /\ [t EXCEPT !.cancelled = TRUE].asked = t.asked /\ [t EXCEPT !.cancelled = TRUE].started = t.started
BY DEF TapeStates

\* The invariant of the recordings holds initially.
LEMMA RecStart == RecInit => RecIInv
<1> SUFFICES ASSUME RecInit PROVE RecIInv
  OBVIOUS
<1> USE RecCalls DEF RecInit
<1>1. RecTypes
  BY DEF RecTypes, TapeStates
<1>2. \A r \in Tapes : tape[r].writer = "none" /\ ~ tape[r].asked /\ ~ tape[r].started
  OBVIOUS
<1>3. TapeLife
  BY <1>2 DEF TapeLife, ClosingSteps
<1>4. TapingHeld /\ FedFollows
  BY DEF TapingHeld, FedFollows, ClosingSteps
<1>5. PreyFollows
  BY DEF PreyFollows, ClosingSteps
<1>6. RecOrder({})
  BY <1>2 DEF RecOrder, InTurn, EachInTurn, NoneEscapes
<1> QED BY <1>1, <1>3, <1>4, <1>5, <1>6 DEF RecIInv, RecBase

\* StartRecording keeps the invariant of the recordings.
LEMMA StartRecordingKeeps ==
    ASSUME RecBase, NEW turn \in SUBSET (Tapes \X Tapes), RecOrder(turn), NEW r \in Tapes, StartRecording(r)
    PROVE  RecBase' /\ RecOrder(turn)'
<1> USE RecCalls DEF RecBase, RecOrder, ClosingSteps
<1>0. /\ taping \in Tapes \cup {Nil} /\ tapeMu \in Stops \cup {Nil} /\ fed \in Tapes \cup {Nil}
      /\ \A l \in Calls : prey[l] \subseteq Tapes
  BY DEF RecTypes
<1>1. /\ step[r] = "off" /\ UNCHANGED <<tapeMu, taping, ended, fed, tape, prey>>
      /\ \E s \in {"hold", "done"} : step' \in [Calls -> {"off", "hold", "record", "warm", "done"} \cup ClosingSteps]
           /\ (\A l \in Stops \cup {Shutdown} : step'[l] \in {"off", "done"} \cup ClosingSteps)
           /\ \A l \in Calls : step'[l] = IF l = r THEN s ELSE step[l]
  BY CallMoves DEF StartRecording
<1>2. RecTypes'
  BY <1>0, <1>1 DEF RecTypes
<1>3. TapeLife'
  BY <1>0, <1>1 DEF TapeLife, PreyFollows
<1>4. TapingHeld'
  BY <1>0, <1>1 DEF TapingHeld
<1>5. PreyFollows'
  BY <1>0, <1>1 DEF PreyFollows, TapeLife
<1>6. FedFollows'
  BY <1>0, <1>1 DEF FedFollows, TapeLife, TapingHeld
<1>7. InTurn(turn)'
  BY <1>0, <1>1 DEF InTurn, TapeLife
<1>8. EachInTurn(turn)'
  BY <1>0, <1>1 DEF EachInTurn, InTurn, TapeLife, UpTo
<1>9. NoneEscapes(turn)'
  BY <1>0, <1>1 DEF NoneEscapes, StoppedBut, UpTo, TapeLife
<1> QED BY <1>2, <1>3, <1>4, <1>5, <1>6, <1>7, <1>8, <1>9

\* Record keeps the invariant of the recordings.
LEMMA RecordKeeps ==
    ASSUME RecBase, NEW turn \in SUBSET (Tapes \X Tapes), RecOrder(turn), NEW r \in Tapes, Record(r)
    PROVE  RecBase' /\ RecOrder(turn)'
<1> USE RecCalls DEF RecBase, RecOrder, ClosingSteps
<1>0. /\ taping \in Tapes \cup {Nil} /\ tapeMu \in Stops \cup {Nil} /\ fed \in Tapes \cup {Nil}
      /\ \A l \in Calls : prey[l] \subseteq Tapes
  BY DEF RecTypes
<1>1. /\ step[r] = "record" /\ fed' = r /\ UNCHANGED <<tapeMu, taping, ended, tape, prey>>
      /\ step' \in [Calls -> {"off", "hold", "record", "warm", "done"} \cup ClosingSteps]
      /\ \A l \in Stops \cup {Shutdown} : step'[l] \in {"off", "done"} \cup ClosingSteps
      /\ \A l \in Calls : step'[l] = IF l = r THEN "warm" ELSE step[l]
  BY CallMoves DEF Record
<1>2. RecTypes'
  BY <1>0, <1>1 DEF RecTypes
<1>3. TapeLife'
  BY <1>0, <1>1 DEF TapeLife, PreyFollows
<1>4. TapingHeld'
  BY <1>0, <1>1 DEF TapingHeld
<1>5. PreyFollows'
  BY <1>0, <1>1 DEF PreyFollows, TapeLife
<1>6. FedFollows'
  <2>1. tape[r].writer = "run" /\ ~ tape[r].asked
    BY <1>1 DEF TapeLife
  <2>2. \A t \in Tapes : taping = t /\ t # r => <<r, t>> \in turn
    BY <1>0, <2>1 DEF InTurn
  <2>3. \A t \in Tapes : taping = t /\ t # r => step[t] \notin {"warm", "done"}
    BY <2>1, <2>2 DEF EachInTurn
  <2> QED BY <1>0, <1>1, <2>1, <2>3 DEF FedFollows
<1>7. InTurn(turn)'
  BY <1>0, <1>1 DEF InTurn, TapeLife
<1>8. EachInTurn(turn)'
  BY <1>0, <1>1 DEF EachInTurn, TapeLife, UpTo
<1>9. NoneEscapes(turn)'
  BY <1>0, <1>1 DEF NoneEscapes, StoppedBut, UpTo, TapeLife
<1> QED BY <1>2, <1>3, <1>4, <1>5, <1>6, <1>7, <1>8, <1>9

\* Started keeps the invariant of the recordings.
LEMMA StartedKeeps ==
    ASSUME RecBase, NEW turn \in SUBSET (Tapes \X Tapes), RecOrder(turn), NEW r \in Tapes, Started(r)
    PROVE  RecBase' /\ RecOrder(turn)'
<1> USE RecCalls DEF RecBase, RecOrder, ClosingSteps
<1>0. /\ taping \in Tapes \cup {Nil} /\ tapeMu \in Stops \cup {Nil} /\ fed \in Tapes \cup {Nil}
      /\ \A l \in Calls : prey[l] \subseteq Tapes
  BY DEF RecTypes
<1>1. /\ step[r] = "warm" /\ UNCHANGED <<tapeMu, taping, ended, fed, prey>>
      /\ tape' \in [Tapes -> TapeStates] /\ \A q \in Tapes : q # r => tape'[q] = tape[q]
      /\ tape'[r].writer = tape[r].writer /\ tape'[r].asked = tape[r].asked /\ tape'[r].started
      /\ step' \in [Calls -> {"off", "hold", "record", "warm", "done"} \cup ClosingSteps]
      /\ \A l \in Stops \cup {Shutdown} : step'[l] \in {"off", "done"} \cup ClosingSteps
      /\ \A l \in Calls : step'[l] = IF l = r THEN "done" ELSE step[l]
  <2>1. /\ step[r] = "warm" /\ Moves(r, "done") /\ UNCHANGED <<tapeMu, taping, ended, fed, prey>>
        /\ tape' = [tape EXCEPT ![r] = [tape[r] EXCEPT !.started = TRUE]] /\ tape \in [Tapes -> TapeStates]
    BY DEF Started, RecTypes
  <2>2. /\ tape' \in [Tapes -> TapeStates] /\ (\A q \in Tapes : q # r => tape'[q] = tape[q])
        /\ tape'[r] = [tape[r] EXCEPT !.started = TRUE]
    BY <2>1, TapeChanges
  <2>3. tape'[r].writer = tape[r].writer /\ tape'[r].asked = tape[r].asked /\ tape'[r].started
    BY <2>1, <2>2, TapeChanges
  <2> QED BY <2>1, <2>2, <2>3, CallMoves
<1>2. RecTypes'
  BY <1>0, <1>1 DEF RecTypes
<1>3. TapeLife'
  BY <1>0, <1>1 DEF TapeLife, PreyFollows
<1>4. TapingHeld'
  BY <1>0, <1>1 DEF TapingHeld
<1>5. PreyFollows'
  BY <1>0, <1>1 DEF PreyFollows, TapeLife
<1>6. FedFollows'
  BY <1>0, <1>1 DEF FedFollows, TapeLife, TapingHeld
<1>7. InTurn(turn)'
  BY <1>0, <1>1 DEF InTurn, TapeLife
<1>8. EachInTurn(turn)'
  BY <1>0, <1>1 DEF EachInTurn, TapeLife, UpTo
<1>9. NoneEscapes(turn)'
  BY <1>0, <1>1, SMTT(30) DEF NoneEscapes, StoppedBut, UpTo, TapeLife
<1> QED BY <1>2, <1>3, <1>4, <1>5, <1>6, <1>7, <1>8, <1>9

\* CancelStart keeps the invariant of the recordings.
LEMMA CancelStartKeeps ==
    ASSUME RecBase, NEW turn \in SUBSET (Tapes \X Tapes), RecOrder(turn), NEW k \in Calls, CancelStart(k)
    PROVE  RecBase' /\ RecOrder(turn)'
<1> USE RecCalls DEF RecBase, RecOrder, ClosingSteps
<1>0. /\ taping \in Tapes \cup {Nil} /\ tapeMu \in Stops \cup {Nil} /\ fed \in Tapes \cup {Nil}
      /\ \A l \in Calls : prey[l] \subseteq Tapes
  BY DEF RecTypes
<1>1. /\ step[k] = "cancel" /\ UNCHANGED <<tapeMu, taping, ended, fed, prey>>
      /\ tape' \in [Tapes -> TapeStates]
      /\ \A q \in Tapes : /\ tape'[q].writer = tape[q].writer /\ tape'[q].asked = tape[q].asked
                          /\ tape'[q].started = tape[q].started
      /\ step' \in [Calls -> {"off", "hold", "record", "warm", "done"} \cup ClosingSteps]
      /\ \A l \in Stops \cup {Shutdown} : step'[l] \in {"off", "done"} \cup ClosingSteps
      /\ \A l \in Calls : step'[l] = IF l = k THEN "await" ELSE step[l]
  <2>1. /\ step[k] = "cancel" /\ Moves(k, "await") /\ UNCHANGED <<tapeMu, taping, ended, fed, prey>>
        /\ tape' = [q \in Tapes |-> IF q \in prey[k] THEN [tape[q] EXCEPT !.cancelled = TRUE] ELSE tape[q]]
        /\ tape \in [Tapes -> TapeStates]
    BY DEF CancelStart, Cancelled, RecTypes
  <2>2. \A q \in Tapes : tape'[q] = tape[q] \/ tape'[q] = [tape[q] EXCEPT !.cancelled = TRUE]
    BY <2>1
  <2>3. \A q \in Tapes : /\ tape'[q].writer = tape[q].writer /\ tape'[q].asked = tape[q].asked
                         /\ tape'[q].started = tape[q].started
    BY <2>1, <2>2, TapeChanges
  <2>4. tape' \in [Tapes -> TapeStates]
    BY <2>1, TapeChanges
  <2> QED BY <2>1, <2>3, <2>4, CallMoves
<1>2. RecTypes'
  BY <1>0, <1>1 DEF RecTypes
<1>3. TapeLife'
  BY <1>0, <1>1 DEF TapeLife, PreyFollows
<1>4. TapingHeld'
  BY <1>0, <1>1 DEF TapingHeld
<1>5. PreyFollows'
  BY <1>0, <1>1 DEF PreyFollows, TapeLife
<1>6. FedFollows'
  BY <1>0, <1>1 DEF FedFollows, TapeLife, TapingHeld
<1>7. InTurn(turn)'
  BY <1>0, <1>1 DEF InTurn, TapeLife
<1>8. EachInTurn(turn)'
  BY <1>0, <1>1 DEF EachInTurn, TapeLife, UpTo
<1>9. NoneEscapes(turn)'
  BY <1>0, <1>1 DEF NoneEscapes, StoppedBut, UpTo, TapeLife
<1> QED BY <1>2, <1>3, <1>4, <1>5, <1>6, <1>7, <1>8, <1>9

\* WaitForStart keeps the invariant of the recordings.
LEMMA WaitForStartKeeps ==
    ASSUME RecBase, NEW turn \in SUBSET (Tapes \X Tapes), RecOrder(turn), NEW k \in Calls, WaitForStart(k)
    PROVE  RecBase' /\ RecOrder(turn)'
<1> USE RecCalls DEF RecBase, RecOrder, ClosingSteps
<1>0. /\ taping \in Tapes \cup {Nil} /\ tapeMu \in Stops \cup {Nil} /\ fed \in Tapes \cup {Nil}
      /\ \A l \in Calls : prey[l] \subseteq Tapes
  BY DEF RecTypes
<1>1. /\ step[k] = "await" /\ UNCHANGED <<tapeMu, taping, ended, fed, tape, prey>>
      /\ \A p \in prey[k] : tape[p].started
      /\ step' \in [Calls -> {"off", "hold", "record", "warm", "done"} \cup ClosingSteps]
      /\ \A l \in Stops \cup {Shutdown} : step'[l] \in {"off", "done"} \cup ClosingSteps
      /\ \A l \in Calls : step'[l] = IF l = k THEN "backend" ELSE step[l]
  BY CallMoves DEF WaitForStart, StartsOver
<1>2. RecTypes'
  BY <1>0, <1>1 DEF RecTypes
<1>3. TapeLife'
  BY <1>0, <1>1 DEF TapeLife, PreyFollows
<1>4. TapingHeld'
  BY <1>0, <1>1 DEF TapingHeld
<1>5. PreyFollows'
  BY <1>0, <1>1 DEF PreyFollows, TapeLife
<1>6. FedFollows'
  BY <1>0, <1>1 DEF FedFollows, TapeLife, TapingHeld
<1>7. InTurn(turn)'
  BY <1>0, <1>1 DEF InTurn, TapeLife
<1>8. EachInTurn(turn)'
  BY <1>0, <1>1 DEF EachInTurn, TapeLife, UpTo
<1>9. NoneEscapes(turn)'
  BY <1>0, <1>1 DEF NoneEscapes, StoppedBut, UpTo, TapeLife
<1> QED BY <1>2, <1>3, <1>4, <1>5, <1>6, <1>7, <1>8, <1>9

\* StopBackend keeps the invariant of the recordings.
LEMMA StopBackendKeeps ==
    ASSUME RecBase, NEW turn \in SUBSET (Tapes \X Tapes), RecOrder(turn), NEW k \in Calls, StopBackend(k)
    PROVE  RecBase' /\ RecOrder(turn)'
<1> USE RecCalls DEF RecBase, RecOrder, ClosingSteps
<1>0. /\ taping \in Tapes \cup {Nil} /\ tapeMu \in Stops \cup {Nil} /\ fed \in Tapes \cup {Nil}
      /\ \A l \in Calls : prey[l] \subseteq Tapes
  BY DEF RecTypes
<1>1. /\ step[k] = "backend" /\ UNCHANGED <<tapeMu, taping, ended, tape, prey>>
      /\ fed' = IF prey[k] = {} THEN fed ELSE Nil
      /\ step' \in [Calls -> {"off", "hold", "record", "warm", "done"} \cup ClosingSteps]
      /\ \A l \in Stops \cup {Shutdown} : step'[l] \in {"off", "done"} \cup ClosingSteps
      /\ \A l \in Calls : step'[l] = IF l = k THEN "request" ELSE step[l]
  BY CallMoves DEF StopBackend
<1>2. RecTypes'
  BY <1>0, <1>1 DEF RecTypes
<1>3. TapeLife'
  BY <1>0, <1>1 DEF TapeLife, PreyFollows
<1>4. TapingHeld'
  BY <1>0, <1>1 DEF TapingHeld
<1>5. PreyFollows'
  BY <1>0, <1>1 DEF PreyFollows, TapeLife
<1>6. FedFollows'
  <2>1. CASE prey[k] = {}
    BY <1>0, <1>1, <2>1 DEF FedFollows
  <2>2. CASE prey[k] # {}
    <3>1. ASSUME NEW t \in Tapes, taping = t, step[t] \in {"warm", "done"} PROVE FALSE
      <4>1. k \notin Stops /\ k # Shutdown
        BY <1>1, <3>1 DEF TapingHeld
      <4>2. k \in Tapes /\ k # t /\ tape[k].writer = "run"
        BY <1>1, <3>1, <4>1 DEF Calls, TapeLife
      <4>3. <<k, t>> \in turn
        BY <3>1, <4>2 DEF InTurn
      <4> QED BY <3>1, <4>2, <4>3 DEF EachInTurn
    <3>2. fed' = Nil /\ taping' = taping
      BY <1>1, <2>2
    <3>3. \A t \in Tapes : taping = t => step'[t] \notin {"warm", "done"}
      BY <1>1, <3>1
    <3> QED BY <1>0, <3>2, <3>3 DEF FedFollows
  <2> QED BY <2>1, <2>2
<1>7. InTurn(turn)'
  BY <1>0, <1>1 DEF InTurn, TapeLife
<1>8. EachInTurn(turn)'
  BY <1>0, <1>1 DEF EachInTurn, TapeLife, UpTo
<1>9. NoneEscapes(turn)'
  BY <1>0, <1>1 DEF NoneEscapes, StoppedBut, UpTo, TapeLife
<1> QED BY <1>2, <1>3, <1>4, <1>5, <1>6, <1>7, <1>8, <1>9

\* RequestStop keeps the invariant of the recordings.
LEMMA RequestStopKeeps ==
    ASSUME RecBase, NEW turn \in SUBSET (Tapes \X Tapes), RecOrder(turn), NEW k \in Calls, RequestStop(k)
    PROVE  RecBase' /\ RecOrder(turn)'
<1> USE RecCalls DEF RecBase, RecOrder, ClosingSteps
<1>0. /\ taping \in Tapes \cup {Nil} /\ tapeMu \in Stops \cup {Nil} /\ fed \in Tapes \cup {Nil}
      /\ \A l \in Calls : prey[l] \subseteq Tapes
  BY DEF RecTypes
<1>1. /\ step[k] = "request" /\ UNCHANGED <<tapeMu, taping, ended, fed, prey>>
      /\ tape' \in [Tapes -> TapeStates] /\ \A q \in Tapes : q \notin prey[k] => tape'[q] = tape[q]
      /\ \A q \in prey[k] : tape'[q].asked
      /\ \A q \in Tapes : tape'[q].writer = tape[q].writer /\ tape'[q].started = tape[q].started
      /\ step' \in [Calls -> {"off", "hold", "record", "warm", "done"} \cup ClosingSteps]
      /\ \A l \in Stops \cup {Shutdown} : step'[l] \in {"off", "done"} \cup ClosingSteps
      /\ \A l \in Calls : step'[l] = IF l = k THEN "stop" ELSE step[l]
  <2>1. /\ step[k] = "request" /\ Moves(k, "stop") /\ UNCHANGED <<tapeMu, taping, ended, fed, prey>>
        /\ tape' = [q \in Tapes |-> IF q \in prey[k] THEN [tape[q] EXCEPT !.asked = TRUE] ELSE tape[q]]
        /\ tape \in [Tapes -> TapeStates]
    BY DEF RequestStop, RecTypes
  <2>2. \A q \in Tapes : tape'[q] = IF q \in prey[k] THEN [tape[q] EXCEPT !.asked = TRUE] ELSE tape[q]
    BY <2>1
  <2>3. \A q \in Tapes : tape'[q].writer = tape[q].writer /\ tape'[q].started = tape[q].started
    BY <2>1, <2>2, TapeChanges
  <2>4. \A q \in prey[k] : tape'[q].asked
    BY <1>0, <2>1, <2>2, TapeChanges
  <2>5. tape' \in [Tapes -> TapeStates]
    BY <2>1, TapeChanges
  <2>6. \A q \in Tapes : q \notin prey[k] => tape'[q] = tape[q]
    BY <2>2
  <2> QED BY <2>1, <2>3, <2>4, <2>5, <2>6, CallMoves
<1>2. RecTypes'
  BY <1>0, <1>1 DEF RecTypes
<1>3. TapeLife'
  BY <1>0, <1>1 DEF TapeLife, PreyFollows
<1>4. TapingHeld'
  BY <1>0, <1>1 DEF TapingHeld
<1>5. PreyFollows'
  BY <1>0, <1>1 DEF PreyFollows, TapeLife
<1>6. FedFollows'
  <2>1. fed # Nil => fed \in Tapes /\ fed \notin prey[k] /\ tape'[fed] = tape[fed]
    BY <1>0, <1>1 DEF PreyFollows
  <2> QED BY <1>0, <1>1, <2>1 DEF FedFollows, TapingHeld
<1>7. InTurn(turn)'
  BY <1>0, <1>1 DEF InTurn, TapeLife
<1>8. EachInTurn(turn)'
  BY <1>0, <1>1 DEF EachInTurn, TapeLife, UpTo
<1>9. NoneEscapes(turn)'
  BY <1>0, <1>1, ZenonT(30) DEF NoneEscapes, StoppedBut, UpTo, TapeLife
<1> QED BY <1>2, <1>3, <1>4, <1>5, <1>6, <1>7, <1>8, <1>9

\* WriterStops keeps the invariant of the recordings.
LEMMA WriterStopsKeeps ==
    ASSUME RecBase, NEW turn \in SUBSET (Tapes \X Tapes), RecOrder(turn), NEW r \in Tapes, WriterStops(r)
    PROVE  RecBase' /\ RecOrder(turn)'
<1> USE RecCalls DEF RecBase, RecOrder, ClosingSteps
<1>0. /\ taping \in Tapes \cup {Nil} /\ tapeMu \in Stops \cup {Nil} /\ fed \in Tapes \cup {Nil}
      /\ \A l \in Calls : prey[l] \subseteq Tapes
  BY DEF RecTypes
<1>1. /\ tape[r].writer = "run" /\ tape[r].asked /\ UNCHANGED <<tapeMu, taping, ended, fed, step, prey>>
      /\ tape' \in [Tapes -> TapeStates] /\ \A q \in Tapes : q # r => tape'[q] = tape[q]
      /\ tape'[r].writer = "stopped" /\ tape'[r].asked = tape[r].asked /\ tape'[r].started = tape[r].started
  BY TapeChanges, ZenonT(30) DEF WriterStops, RecTypes
<1>2. RecTypes'
  BY <1>0, <1>1 DEF RecTypes
<1>3. TapeLife'
  <2>1. tape[r].started /\ step[r] = "done"
    BY <1>1 DEF TapeLife
  <2>2. tape'[r].started /\ tape'[r].asked /\ tape'[r].writer = "stopped" /\ step'[r] = "done"
    BY <1>1, <2>1
  <2>3. \A q \in Tapes : q # r => tape'[q] = tape[q] /\ step'[q] = step[q]
    BY <1>1
  <2> QED BY <2>2, <2>3 DEF TapeLife
<1>4. TapingHeld'
  BY <1>0, <1>1 DEF TapingHeld
<1>5. PreyFollows'
  BY <1>0, <1>1 DEF PreyFollows, TapeLife
<1>6. FedFollows'
  BY <1>0, <1>1 DEF FedFollows, TapeLife, TapingHeld
<1>7. InTurn(turn)'
  BY <1>0, <1>1 DEF InTurn, TapeLife
<1>8. EachInTurn(turn)'
  BY <1>0, <1>1 DEF EachInTurn, TapeLife, UpTo
<1>9. NoneEscapes(turn)'
  BY <1>0, <1>1 DEF NoneEscapes, StoppedBut, UpTo, TapeLife
<1> QED BY <1>2, <1>3, <1>4, <1>5, <1>6, <1>7, <1>8, <1>9

\* WaitForStop keeps the invariant of the recordings.
LEMMA WaitForStopKeeps ==
    ASSUME RecBase, NEW turn \in SUBSET (Tapes \X Tapes), RecOrder(turn), NEW k \in Calls, WaitForStop(k)
    PROVE  RecBase' /\ RecOrder(turn)'
<1> USE RecCalls DEF RecBase, RecOrder, ClosingSteps
<1>0. /\ taping \in Tapes \cup {Nil} /\ tapeMu \in Stops \cup {Nil} /\ fed \in Tapes \cup {Nil}
      /\ \A l \in Calls : prey[l] \subseteq Tapes
  BY DEF RecTypes
<1>1. /\ step[k] = "stop" /\ UNCHANGED <<taping, ended, fed, tape>>
      /\ \A p \in prey[k] : tape[p].writer = "stopped"
      /\ prey' \in [Calls -> SUBSET Tapes] /\ \A l \in Calls : prey'[l] = IF l = k THEN {} ELSE prey[l]
      /\ tapeMu' = IF k \in Stops THEN Nil ELSE tapeMu
      /\ step' \in [Calls -> {"off", "hold", "record", "warm", "done"} \cup ClosingSteps]
      /\ \A l \in Stops \cup {Shutdown} : step'[l] \in {"off", "done"} \cup ClosingSteps
      /\ \A l \in Calls : step'[l] = IF l = k THEN IF k \in Tapes THEN "record" ELSE "done" ELSE step[l]
  BY CallMoves DEF WaitForStop, AfterClose, RecTypes
<1>2. RecTypes'
  BY <1>0, <1>1 DEF RecTypes
<1>3. TapeLife'
  BY <1>0, <1>1 DEF TapeLife, PreyFollows
<1>4. TapingHeld'
  BY <1>0, <1>1 DEF TapingHeld
<1>5. PreyFollows'
  BY <1>0, <1>1 DEF PreyFollows, TapeLife
<1>6. FedFollows'
  BY <1>0, <1>1 DEF FedFollows, TapeLife, TapingHeld
<1>7. InTurn(turn)'
  BY <1>0, <1>1 DEF InTurn, TapeLife
<1>8. EachInTurn(turn)'
  <2>1. \A p \in prey[k], q \in Tapes : UpTo(turn, q, p) => tape[q].writer = "stopped"
    BY <1>0, <1>1 DEF UpTo, EachInTurn, TapeLife
  <2>2. k \in Tapes => \E p \in prey[k] : TRUE
    BY <1>1 DEF PreyFollows
  <2>3. k \in Tapes => \A q \in Tapes : <<q, k>> \in turn => tape[q].writer = "stopped"
    BY <2>1, <2>2 DEF EachInTurn
  <2> QED BY <1>0, <1>1, <2>3 DEF EachInTurn
<1>9. NoneEscapes(turn)'
  <2>1. \A p \in prey[k], q \in Tapes : UpTo(turn, q, p) => tape[q].writer = "stopped"
    BY <1>0, <1>1 DEF UpTo, EachInTurn, TapeLife
  <2>2. StoppedBut(turn, k) => \A q \in Tapes : tape[q].writer # "run"
    BY <2>1 DEF StoppedBut
  <2>3. k \in Stops => tapeMu = k
    BY <1>1 DEF TapingHeld
  <2>4. \A l \in Calls : l # k => (StoppedBut(turn, l) => StoppedBut(turn, l)')
    BY <1>1 DEF StoppedBut, UpTo
  <2>5. (\A q \in Tapes : tape[q].writer # "run") => \A l \in Calls : StoppedBut(turn, l)'
    BY <1>1 DEF StoppedBut
  <2>6. CASE k \in Stops
    BY <1>0, <1>1, <2>2, <2>3, <2>4, <2>6 DEF NoneEscapes
  <2>7. CASE k \in Tapes
    BY <1>0, <1>1, <2>4, <2>7 DEF NoneEscapes
  <2>8. CASE k = Shutdown
    BY <1>0, <1>1, <2>2, <2>4, <2>5, <2>8 DEF NoneEscapes, TapingHeld
  <2> QED BY <2>6, <2>7, <2>8 DEF Calls
<1> QED BY <1>2, <1>3, <1>4, <1>5, <1>6, <1>7, <1>8, <1>9

\* StopRecording keeps the invariant of the recordings.
LEMMA StopRecordingKeeps ==
    ASSUME RecBase, NEW turn \in SUBSET (Tapes \X Tapes), RecOrder(turn), NEW k \in Stops, StopRecording(k)
    PROVE  RecBase' /\ RecOrder(turn)'
<1> USE RecCalls DEF RecBase, RecOrder, ClosingSteps
<1>0. /\ taping \in Tapes \cup {Nil} /\ tapeMu \in Stops \cup {Nil} /\ fed \in Tapes \cup {Nil}
      /\ \A l \in Calls : prey[l] \subseteq Tapes
  BY DEF RecTypes
<1>1. /\ step[k] = "off" /\ tapeMu = Nil /\ tapeMu' = k /\ taping' = Nil /\ UNCHANGED <<ended, fed, tape>>
      /\ prey' \in [Calls -> SUBSET Tapes]
      /\ \A l \in Calls : prey'[l] = IF l = k THEN IF taping = Nil THEN {} ELSE {taping} ELSE prey[l]
      /\ step' \in [Calls -> {"off", "hold", "record", "warm", "done"} \cup ClosingSteps]
      /\ \A l \in Stops \cup {Shutdown} : step'[l] \in {"off", "done"} \cup ClosingSteps
      /\ \A l \in Calls : step'[l] = IF l = k THEN "cancel" ELSE step[l]
  BY <1>0, CallMoves DEF StopRecording, RecTypes
<1>2. RecTypes'
  BY <1>0, <1>1 DEF RecTypes
<1>3. TapeLife'
  BY <1>0, <1>1 DEF TapeLife, PreyFollows
<1>4. TapingHeld'
  BY <1>0, <1>1 DEF TapingHeld
<1>5. PreyFollows'
  BY <1>0, <1>1 DEF PreyFollows, TapeLife, TapingHeld
<1>6. FedFollows'
  BY <1>0, <1>1 DEF FedFollows, TapeLife, TapingHeld
<1>7. InTurn(turn)'
  BY <1>0, <1>1 DEF InTurn, TapeLife
<1>8. EachInTurn(turn)'
  BY <1>0, <1>1 DEF EachInTurn, TapeLife, UpTo
<1>9. NoneEscapes(turn)'
  <2>1. ASSUME taping # Nil PROVE StoppedBut(turn, k)'
    <3>1. taping \in Tapes /\ prey'[k] = {taping}
      BY <1>0, <1>1, <2>1
    <3>2. \A q \in Tapes : tape[q].writer = "run" => UpTo(turn, q, taping)
      BY <2>1 DEF InTurn, UpTo
    <3> QED BY <1>1, <3>1, <3>2 DEF StoppedBut, UpTo
  <2>2. ASSUME taping = Nil, ~ ended PROVE StoppedBut(turn, k)'
    BY <1>1, <2>2 DEF NoneEscapes, StoppedBut
  <2>3. ASSUME ended, k # Shutdown PROVE StoppedBut(turn, Shutdown)'
    BY <1>1, <2>3 DEF NoneEscapes, StoppedBut, UpTo
  <2>4. step[Shutdown] = "off" => ~ ended
    BY DEF TapingHeld
  <2> QED BY <1>0, <1>1, <2>1, <2>2, <2>3, <2>4 DEF NoneEscapes
<1> QED BY <1>2, <1>3, <1>4, <1>5, <1>6, <1>7, <1>8, <1>9

\* CloseRecordings keeps the invariant of the recordings.
LEMMA CloseRecordingsKeeps ==
    ASSUME RecBase, NEW turn \in SUBSET (Tapes \X Tapes), RecOrder(turn), CloseRecordings
    PROVE  RecBase' /\ RecOrder(turn)'
<1> USE RecCalls DEF RecBase, RecOrder, ClosingSteps
<1>0. /\ taping \in Tapes \cup {Nil} /\ tapeMu \in Stops \cup {Nil} /\ fed \in Tapes \cup {Nil}
      /\ \A l \in Calls : prey[l] \subseteq Tapes
  BY DEF RecTypes
<1>1. /\ step[Shutdown] = "off" /\ tapeMu = Nil /\ ended' = TRUE /\ taping' = Nil /\ UNCHANGED <<tapeMu, fed, tape>>
      /\ prey' \in [Calls -> SUBSET Tapes]
      /\ \A l \in Calls : prey'[l] = IF l = Shutdown THEN IF taping = Nil THEN {} ELSE {taping} ELSE prey[l]
      /\ step' \in [Calls -> {"off", "hold", "record", "warm", "done"} \cup ClosingSteps]
      /\ \A l \in Stops \cup {Shutdown} : step'[l] \in {"off", "done"} \cup ClosingSteps
      /\ \A l \in Calls : step'[l] = IF l = Shutdown THEN "cancel" ELSE step[l]
  BY <1>0, CallMoves DEF CloseRecordings, RecTypes
<1>2. RecTypes'
  BY <1>0, <1>1 DEF RecTypes
<1>3. TapeLife'
  BY <1>0, <1>1 DEF TapeLife, PreyFollows
<1>4. TapingHeld'
  BY <1>0, <1>1 DEF TapingHeld
<1>5. PreyFollows'
  BY <1>0, <1>1 DEF PreyFollows, TapeLife, TapingHeld
<1>6. FedFollows'
  BY <1>0, <1>1 DEF FedFollows, TapeLife, TapingHeld
<1>7. InTurn(turn)'
  BY <1>0, <1>1 DEF InTurn, TapeLife
<1>8. EachInTurn(turn)'
  BY <1>0, <1>1 DEF EachInTurn, TapeLife, UpTo
<1>9. NoneEscapes(turn)'
  <2>1. ASSUME taping # Nil PROVE StoppedBut(turn, Shutdown)'
    <3>1. taping \in Tapes /\ prey'[Shutdown] = {taping}
      BY <1>0, <1>1, <2>1
    <3>2. \A q \in Tapes : tape[q].writer = "run" => UpTo(turn, q, taping)
      BY <2>1 DEF InTurn, UpTo
    <3> QED BY <1>1, <3>1, <3>2 DEF StoppedBut, UpTo
  <2>2. ASSUME taping = Nil, ~ ended PROVE StoppedBut(turn, Shutdown)'
    BY <1>1, <2>2 DEF NoneEscapes, StoppedBut
  <2>3. ASSUME ended, Shutdown # Shutdown PROVE StoppedBut(turn, Shutdown)'
    BY <1>1, <2>3 DEF NoneEscapes, StoppedBut, UpTo
  <2>4. step[Shutdown] = "off" => ~ ended
    BY DEF TapingHeld
  <2> QED BY <1>0, <1>1, <2>1, <2>2, <2>3, <2>4 DEF NoneEscapes
<1> QED BY <1>2, <1>3, <1>4, <1>5, <1>6, <1>7, <1>8, <1>9

\* The recording that is held now comes after all that were.
LEMMA HoldRecordingKeeps ==
    ASSUME RecBase, NEW turn \in SUBSET (Tapes \X Tapes), RecOrder(turn), NEW r \in Tapes, HoldRecording(r)
    PROVE  RecIInv'
<1> USE RecCalls DEF RecBase, RecOrder, ClosingSteps
<1>0. /\ taping \in Tapes \cup {Nil} /\ tapeMu \in Stops \cup {Nil} /\ fed \in Tapes \cup {Nil}
      /\ \A l \in Calls : prey[l] \subseteq Tapes
  BY DEF RecTypes
<1>1. CASE /\ ended /\ step[r] = "hold" /\ Moves(r, "done") /\ UNCHANGED <<tapeMu, taping, ended, fed, tape, prey>>
  <2>1. /\ step' \in [Calls -> {"off", "hold", "record", "warm", "done"} \cup ClosingSteps]
        /\ \A l \in Stops \cup {Shutdown} : step'[l] \in {"off", "done"} \cup ClosingSteps
        /\ \A l \in Calls : step'[l] = IF l = r THEN "done" ELSE step[l]
    BY <1>1, CallMoves
  <2>2. RecTypes' BY <1>1, <2>1 DEF RecTypes
  <2>3. TapeLife' BY <1>1, <2>1 DEF TapeLife
  <2>4. TapingHeld' BY <1>0, <1>1, <2>1 DEF TapingHeld
  <2>5. PreyFollows' BY <1>0, <1>1, <2>1 DEF PreyFollows, TapeLife
  <2>6. FedFollows' BY <1>0, <1>1, <2>1 DEF FedFollows, TapingHeld
  <2>7. InTurn(turn)' BY <1>1, <2>1 DEF InTurn
  <2>8. EachInTurn(turn)' BY <1>0, <1>1, <2>1 DEF EachInTurn, InTurn, TapeLife, UpTo
  <2>9. NoneEscapes(turn)' BY <1>0, <1>1, <2>1 DEF NoneEscapes, StoppedBut, UpTo
  <2> QED BY <2>2, <2>3, <2>4, <2>5, <2>6, <2>7, <2>8, <2>9 DEF RecIInv
<1>2. ASSUME ~ ended, step[r] = "hold", tapeMu = Nil,
             taping' = r, tape' = [tape EXCEPT ![r].writer = "run"],
             prey' = [prey EXCEPT ![r] = IF taping = Nil THEN {} ELSE {taping}],
             Moves(r, IF taping = Nil THEN "record" ELSE "cancel"), UNCHANGED <<tapeMu, ended, fed>>
      PROVE  RecIInv'
  <2>0. PICK after : after = turn \cup {<<q, r>> : q \in {p \in Tapes : tape[p].writer # "none"}}
    OBVIOUS
  <2>1. /\ step' \in [Calls -> {"off", "hold", "record", "warm", "done"} \cup ClosingSteps]
        /\ \A l \in Stops \cup {Shutdown} : step'[l] \in {"off", "done"} \cup ClosingSteps
        /\ \A l \in Calls : step'[l] = IF l = r THEN IF taping = Nil THEN "record" ELSE "cancel" ELSE step[l]
    BY <1>2, CallMoves
  <2>2. /\ tape' \in [Tapes -> TapeStates] /\ \A q \in Tapes : q # r => tape'[q] = tape[q]
        /\ tape'[r].writer = "run" /\ tape'[r].asked = tape[r].asked /\ tape'[r].started = tape[r].started
    <3>1. tape \in [Tapes -> TapeStates] /\ tape' = [tape EXCEPT ![r] = [tape[r] EXCEPT !.writer = "run"]]
      BY <1>2 DEF RecTypes
    <3>2. tape'[r] = [tape[r] EXCEPT !.writer = "run"] /\ \A q \in Tapes : q # r => tape'[q] = tape[q]
      BY <3>1
    <3>3. tape' \in [Tapes -> TapeStates]
      BY <3>1, TapeChanges
    <3> QED BY <3>1, <3>2, <3>3, TapeChanges
  <2>3. /\ prey' \in [Calls -> SUBSET Tapes]
        /\ \A l \in Calls : prey'[l] = IF l = r THEN IF taping = Nil THEN {} ELSE {taping} ELSE prey[l]
    BY <1>0, <1>2 DEF RecTypes
  <2>4. tape[r].writer = "none" /\ ~ tape[r].started /\ ~ tape[r].asked /\ taping # r /\ fed # r
    BY <1>2 DEF TapeLife, TapingHeld, FedFollows
  <2>5. \A l \in Calls : r \notin prey[l]
    BY <2>4 DEF PreyFollows
  <2>6. /\ after \subseteq Tapes \X Tapes
        /\ \A q, p \in Tapes : <<q, p>> \in after <=> <<q, p>> \in turn \/ (p = r /\ tape[q].writer # "none")
    BY <2>0
  <2>7. \A q \in Tapes : <<q, r>> \notin turn /\ <<r, q>> \notin turn
    BY <2>4 DEF InTurn
  <2>8. RecTypes'
    BY <1>2, <2>1, <2>2, <2>3 DEF RecTypes
  <2>9. TapeLife'
    BY <2>1, <2>2, <2>4 DEF TapeLife
  <2>10. TapingHeld'
    BY <1>0, <1>2, <2>1, <2>2 DEF TapingHeld
  <2>11. PreyFollows'
    <3>1. ASSUME NEW k \in Calls, k # r
          PROVE  /\ prey'[k] = prey[k] /\ step'[k] = step[k]
                 /\ \A p \in prey[k] : p \in Tapes /\ tape'[p] = tape[p]
      BY <1>0, <2>1, <2>2, <2>3, <2>5, <3>1
    <3>2. taping # Nil => taping \in Tapes /\ taping # r /\ tape'[taping].writer # "none"
      BY <1>0, <2>2, <2>4 DEF TapingHeld
    <3> QED BY <1>2, <2>1, <2>3, <3>1, <3>2 DEF PreyFollows
  <2>12. FedFollows'
    BY <1>0, <1>2, <2>1, <2>2, <2>4 DEF FedFollows
  <2>13. InTurn(after)'
    BY <1>0, <1>2, <2>2, <2>4, <2>6 DEF InTurn
  <2>14. \A q \in Tapes : tape[q].writer # "none" /\ taping # Nil => UpTo(turn, q, taping)
    BY <1>0 DEF InTurn, UpTo
  <2>15. EachInTurn(after)'
    <3> SUFFICES ASSUME NEW p \in Tapes, NEW q \in Tapes, <<q, p>> \in after
                 PROVE  /\ step'[p] \in {"record", "warm", "done"} => tape'[q].writer = "stopped"
                        /\ \A l \in prey'[p] : UpTo(after, q, l)
      BY DEF EachInTurn, UpTo
    <3>1. CASE p # r
      <4>1. <<q, p>> \in turn /\ q # r /\ step'[p] = step[p] /\ prey'[p] = prey[p] /\ tape'[q] = tape[q]
        BY <2>1, <2>2, <2>3, <2>6, <2>7, <3>1
      <4> QED BY <1>0, <2>6, <4>1 DEF EachInTurn, UpTo
    <3>2. CASE p = r
      <4>1. tape[q].writer # "none" /\ q # r /\ tape'[q] = tape[q]
        BY <2>2, <2>4, <2>6, <2>7, <3>2
      <4>2. CASE taping = Nil
        <5>1. tape[q].writer = "stopped"
          BY <1>2, <4>1, <4>2 DEF NoneEscapes, RecTypes, TapeStates
        <5> QED BY <2>3, <3>2, <4>1, <4>2, <5>1
      <4>3. CASE taping # Nil
        <5>1. prey'[p] = {taping} /\ step'[p] = "cancel" /\ taping \in Tapes
          BY <1>0, <2>1, <2>3, <3>2, <4>3
        <5>2. UpTo(after, q, taping)
          BY <2>6, <2>14, <4>1, <4>3, <5>1 DEF UpTo
        <5> QED BY <5>1, <5>2
      <4> QED BY <4>2, <4>3
    <3> QED BY <3>1, <3>2
  <2>16. NoneEscapes(after)'
    BY <1>2 DEF NoneEscapes
  <2> QED BY <2>6, <2>8, <2>9, <2>10, <2>11, <2>12, <2>13, <2>15, <2>16 DEF RecIInv
<1> QED BY <1>1, <1>2 DEF HoldRecording, TapingClosed

\* Every step of the recordings keeps its invariant.
LEMMA RecStep == RecIInv /\ [RecNext]_recVars => RecIInv'
<1> SUFFICES ASSUME RecIInv, [RecNext]_recVars PROVE RecIInv'
  OBVIOUS
<1>1. PICK turn \in SUBSET (Tapes \X Tapes) : RecOrder(turn)
  BY DEF RecIInv
<1>2. RecBase' /\ RecOrder(turn)' => RecIInv'
  BY DEF RecIInv
<1>3. RecBase
  BY DEF RecIInv
<1>4. ASSUME NEW k \in Calls, Closing(k) PROVE RecIInv'
  BY <1>1, <1>2, <1>3, <1>4, CancelStartKeeps, WaitForStartKeeps, StopBackendKeeps, RequestStopKeeps, WaitForStopKeeps
     DEF Closing
<1>5. ASSUME NEW r \in Tapes, StartRecording(r) \/ HoldRecording(r) \/ TapeStep(r) \/ Started(r) PROVE RecIInv'
  <2>1. CASE HoldRecording(r)
    BY <1>1, <1>3, <2>1, HoldRecordingKeeps
  <2>2. CASE Closing(r)
    BY <1>4, <2>2, RecCalls
  <2>3. CASE StartRecording(r) \/ Record(r) \/ WriterStops(r) \/ Started(r)
    BY <1>1, <1>2, <1>3, <2>3, StartRecordingKeeps, RecordKeeps, WriterStopsKeeps, StartedKeeps
  <2> QED BY <1>5, <2>1, <2>2, <2>3 DEF TapeStep
<1>6. ASSUME NEW k \in Stops, StopRecording(k) PROVE RecIInv'
  BY <1>1, <1>2, <1>3, <1>6, StopRecordingKeeps
<1>7. CASE CloseRecordings
  BY <1>1, <1>2, <1>3, <1>7, CloseRecordingsKeeps
<1>8. CASE UNCHANGED recVars
  BY <1>1, <1>2, <1>3, <1>8
     DEF recVars, RecBase, RecTypes, TapeLife, TapingHeld, PreyFollows, FedFollows, RecOrder, InTurn, EachInTurn,
         NoneEscapes, StoppedBut, UpTo
<1>9. Stops \cup {Shutdown} \subseteq Calls
  BY RecCalls
<1> QED BY <1>4, <1>5, <1>6, <1>7, <1>8, <1>9 DEF RecNext

\* Whatever starts, switches, stops and shuts down recordings at once: what is
\* given changes is written, what the cluster holds is given them once all
\* calls are over, and nothing is written after the end, for any number of
\* recordings and calls (startRecording, stopRecording, closeRecordings of
\* server/timeline.go).
THEOREM RecordingsSafety == ServicesSpec => []RecordingsSound
<1>1. ServicesInit => RecIInv
  BY RecStart DEF ServicesInit
<1>2. RecIInv /\ [ServicesNext]_servicesVars => RecIInv'
  BY OneMoves, RecStep
<1>3. RecIInv => RecordingsSound
  <2> SUFFICES ASSUME RecIInv PROVE RecordingsSound
    OBVIOUS
  <2>1. PICK turn \in SUBSET (Tapes \X Tapes) : RecOrder(turn)
    BY DEF RecIInv
  <2>2. FedIsWritten
    BY DEF RecIInv, RecBase, FedFollows, FedIsWritten
  <2>3. HeldIsFed
    <3> SUFFICES ASSUME \A k \in Calls : step[k] \in {"off", "done"}, taping # Nil PROVE fed = taping
      BY DEF HeldIsFed
    <3>1. taping \in Tapes /\ tape[taping].writer # "none" /\ step[taping] \in {"off", "done"}
      BY RecCalls DEF RecIInv, RecBase, RecTypes, TapingHeld
    <3>2. step[taping] = "done"
      BY <3>1 DEF RecIInv, RecBase, TapeLife
    <3> QED BY <3>2 DEF RecIInv, RecBase, FedFollows
  <2>4. NoneAfterEnd
    <3> SUFFICES ASSUME step[Shutdown] = "done" PROVE \A r \in Tapes : tape[r].writer # "run"
      BY DEF NoneAfterEnd
    <3>1. ended
      BY DEF RecIInv, RecBase, TapingHeld
    <3>2. prey[Shutdown] = {}
      BY RecCalls DEF RecIInv, RecBase, PreyFollows, ClosingSteps
    <3> QED BY <2>1, <3>1, <3>2 DEF RecOrder, NoneEscapes, StoppedBut
  <2> QED BY <2>2, <2>3, <2>4 DEF RecordingsSound
<1> QED BY <1>1, <1>2, <1>3, PTL DEF ServicesSpec

=============================================================================
