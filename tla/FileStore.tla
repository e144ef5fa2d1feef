----------------------------- MODULE FileStore ------------------------------
(***************************************************************************)
(* The small files spinoza keeps (internal/settings, protect, kubeconfig)  *)
(* and the two packages they are written through: filetx, which holds a    *)
(* lock file for a read, a change and a write, and atomicfile, which       *)
(* writes beside the file and renames. Several processes share one file,   *)
(* each step may fail, a process may die and the machine may lose power.   *)
(* The second half is the one large file, the history database, as         *)
(* programs of several ages migrate its schema.                            *)
(***************************************************************************)
EXTENDS Naturals, FiniteSets

CONSTANTS
    Procs,          \* processes that opened the store
    Entries,        \* keys of the file: a setting, a server, a kubeconfig path
    MaxWrites,      \* bound on changes asked for
    MaxFaults       \* bound on failing steps, deaths and power cuts

VARIABLES
    file,           \* what the path names: its values, and are they whole and on disk
    before,         \* what it names should the directory entry be lost
    flock,          \* the process that holds the lock file
    at,             \* where a process is in Merge, Set, Add or Remove
    job,            \* the change it makes
    next,           \* the values it will write
    temp,           \* its temporary file
    mem,            \* Store.values, Store.clusters, Store.paths
    allowed,        \* history: the values an entry may have
    writes, faults

fileVars == <<file, before, flock, at, job, next, temp, mem, allowed, writes, faults>>

Nobody == "nobody"

ASSUME FileAssumption == Nobody \notin Procs /\ Entries # {} /\ MaxWrites \in Nat /\ MaxFaults \in Nat

Gone == [val |-> [e \in Entries |-> FALSE], there |-> FALSE, whole |-> FALSE, synced |-> FALSE]
Empty == [val |-> [e \in Entries |-> FALSE], whole |-> TRUE, synced |-> TRUE]

FileInit ==
    /\ file = Empty /\ before = Empty /\ flock = Nobody
    /\ at = [p \in Procs |-> "idle"]
    /\ job = [p \in Procs |-> [kind |-> "set", entry |-> CHOOSE e \in Entries : TRUE, to |-> FALSE]]
    /\ next = [p \in Procs |-> Empty.val] /\ temp = [p \in Procs |-> Gone]
    /\ mem = [p \in Procs |-> Empty.val] /\ allowed = [e \in Entries |-> {FALSE}]
    /\ writes = 0 /\ faults = 0

Goes(p, a) == at' = [at EXCEPT ![p] = a]
Fault == faults < MaxFaults /\ faults' = faults + 1

\* Merge and Set give an entry a value; Add and Remove refuse one that is
\* there, or is not.
Ask(p) ==
    /\ at[p] = "idle" /\ writes < MaxWrites
    /\ \E k \in {"set", "add", "remove"}, e \in Entries, v \in BOOLEAN :
           /\ k # "set" => v = (k = "add")
           /\ job' = [job EXCEPT ![p] = [kind |-> k, entry |-> e, to |-> v]]
    /\ writes' = writes + 1
    /\ Goes(p, "lock")
    /\ UNCHANGED <<file, before, flock, next, temp, mem, allowed, faults>>

MayEnter(p) == flock = Nobody

Lock(p) ==
    /\ at[p] = "lock" /\ MayEnter(p)
    /\ flock' = p
    /\ Goes(p, "read")
    /\ UNCHANGED <<file, before, job, next, temp, mem, allowed, writes, faults>>

LockTimesOut(p) ==
    /\ at[p] = "lock" /\ flock # Nobody
    /\ Goes(p, "idle")
    /\ UNCHANGED <<file, before, flock, job, next, temp, mem, allowed, writes, faults>>

Refused(p, values) == job[p].kind # "set" /\ values[job[p].entry] = job[p].to

\* A slip: the values held in memory are changed, not those of the file.
FromMemory(p) == mem[p]

ReadFile(p) == file.val

\* Only what parses is changed; the kubeconfig list keeps what it read even
\* when it then refuses the change.
Change(p) ==
    /\ at[p] = "read"
    /\ IF ~ file.whole \/ Refused(p, ReadFile(p))
       THEN /\ mem' = [mem EXCEPT ![p] = IF file.whole THEN ReadFile(p) ELSE @]
            /\ Goes(p, "unlock") /\ UNCHANGED <<next, temp>>
       ELSE /\ next' = [next EXCEPT ![p] = [ReadFile(p) EXCEPT ![job[p].entry] = job[p].to]]
            /\ mem' = [mem EXCEPT ![p] = IF job[p].kind = "set" THEN @ ELSE ReadFile(p)]
            /\ temp' = [temp EXCEPT ![p] = [Gone EXCEPT !.there = TRUE]]
            /\ Goes(p, "fill")
    /\ UNCHANGED <<file, before, flock, job, allowed, writes, faults>>

Fill(p) ==
    /\ at[p] = "fill"
    /\ temp' = [temp EXCEPT ![p] = [@ EXCEPT !.val = next[p], !.whole = TRUE]]
    /\ Goes(p, "sync")
    /\ UNCHANGED <<file, before, flock, job, next, mem, allowed, writes, faults>>

Flushed(p) == [temp EXCEPT ![p].synced = TRUE]

Sync(p) ==
    /\ at[p] = "sync"
    /\ temp' = Flushed(p)
    /\ Goes(p, "rename")
    /\ UNCHANGED <<file, before, flock, job, next, mem, allowed, writes, faults>>

\* A short write, or a failing sync, close, chmod or rename: the temporary
\* file is removed and the old one stays.
SaveFails(p) ==
    /\ at[p] \in {"fill", "sync", "rename"} /\ Fault
    /\ temp' = [temp EXCEPT ![p] = Gone]
    /\ Goes(p, "unlock")
    /\ UNCHANGED <<file, before, flock, job, next, mem, allowed, writes>>

Rename(p) ==
    /\ at[p] = "rename"
    /\ file' = [val |-> temp[p].val, whole |-> temp[p].whole, synced |-> temp[p].synced]
    /\ temp' = [temp EXCEPT ![p] = Gone]
    /\ allowed' = [allowed EXCEPT ![job[p].entry] = @ \cup {job[p].to}]
    /\ Goes(p, "dir")
    /\ UNCHANGED <<before, flock, job, next, mem, writes, faults>>

\* The change is acknowledged once the directory is on disk too.
SyncDir(p) ==
    /\ at[p] = "dir"
    /\ before' = file
    /\ mem' = [mem EXCEPT ![p] = next[p]]
    /\ allowed' = [allowed EXCEPT ![job[p].entry] = {job[p].to}]
    /\ Goes(p, "unlock")
    /\ UNCHANGED <<file, flock, job, next, temp, writes, faults>>

SyncDirFails(p) ==
    /\ at[p] = "dir" /\ Fault
    /\ Goes(p, "unlock")
    /\ UNCHANGED <<file, before, flock, job, next, temp, mem, allowed, writes>>

Unlock(p) ==
    /\ at[p] = "unlock"
    /\ flock' = IF flock = p THEN Nobody ELSE flock
    /\ Goes(p, "idle")
    /\ UNCHANGED <<file, before, job, next, temp, mem, allowed, writes, faults>>

\* All, On, Verdict and Paths read the file again, and keep what they had
\* when they cannot.
Refresh(p) ==
    /\ at[p] = "idle" /\ file.whole /\ mem[p] # file.val
    /\ mem' = [mem EXCEPT ![p] = file.val]
    /\ UNCHANGED <<file, before, flock, at, job, next, temp, allowed, writes, faults>>

\* The operating system releases the lock of a process that dies, and the
\* process that takes its place opens the store anew.
Die(p) ==
    /\ at[p] # "idle" /\ Fault
    /\ Goes(p, "idle")
    /\ flock' = IF flock = p THEN Nobody ELSE flock
    /\ temp' = [temp EXCEPT ![p] = Gone]
    /\ mem' = [mem EXCEPT ![p] = IF file.whole THEN file.val ELSE Empty.val]
    /\ UNCHANGED <<file, before, job, next, allowed, writes>>

\* Without power a rename may be lost, and so may bytes nobody flushed.
PowerCut ==
    /\ Fault
    /\ \E f \in {file, before} : file' = [f EXCEPT !.whole = f.whole /\ f.synced]
    /\ before' = file' /\ flock' = Nobody
    /\ at' = [p \in Procs |-> "idle"] /\ temp' = [p \in Procs |-> Gone]
    /\ mem' = [p \in Procs |-> IF file'.whole THEN file'.val ELSE Empty.val]
    /\ UNCHANGED <<job, next, allowed, writes>>

Saving(p) ==
    Lock(p) \/ LockTimesOut(p) \/ Change(p) \/ Fill(p) \/ Sync(p) \/ Rename(p) \/ SyncDir(p) \/ Unlock(p)

FileNext ==
    \/ PowerCut
    \/ \E p \in Procs : Ask(p) \/ Saving(p) \/ SaveFails(p) \/ SyncDirFails(p) \/ Refresh(p) \/ Die(p)

-----------------------------------------------------------------------------
(* Properties.                                                             *)

\* Whatever fails, dies or loses power between the steps of Save, the path
\* names a whole file: the old one or the new one.
NeverHalf == file.whole

\* A change that was acknowledged stays until another is asked for that
\* entry: no process writes back values it read before it, and no power cut
\* takes it away. (A change that failed after its rename may or may not show.)
NoLostUpdate == \A e \in Entries : file.val[e] \in allowed[e]

-----------------------------------------------------------------------------
(* The schema of the history database (internal/store/schema.go, history.go) *)
(* as programs of several ages open it.  A program knows the first K         *)
(* migrations.  `floor` is PRAGMA user_version, the number of migrations a   *)
(* program has to know to read the file; `progress` the row of               *)
(* schema_progress, the number that was applied.  The file may have been     *)
(* left by a program from before schema_progress, which wrote only the       *)
(* former.  Programs migrate at once and die between their transactions.     *)

CONSTANTS Openers,        \* processes that open the file
          Known,          \* migrations the newest program knows
          ReadableFrom,   \* the first schema every later program can read
          MaxOpens        \* bound: how often the file is opened

ASSUME SchemaAssumption == ReadableFrom \in Nat /\ Known \in Nat /\ MaxOpens \in Nat

NoProgress == 0

VARIABLES floor, progress, ran,   \* the file: pragma, row, migrations that took effect
          opener,                 \* process -> its place in migrate
          opens

schemaVars == <<floor, progress, ran, opener, opens>>

\* Those from ReadableFrom on say IF NOT EXISTS and can run again.
Repeatable(m) == m > ReadableFrom

Away == [at |-> "away", knows |-> 0, floor |-> 0, next |-> 0, tracked |-> FALSE]

SchemaTypeOK ==
  /\ floor \in 0..Known
  /\ progress \in 0..Known
  /\ ran \subseteq 1..Known
  /\ opener \in [Openers -> [at : {"away", "count", "apply", "open", "unstamped", "failed"}, knows : 0..Known,
                             floor : 0..Known, next : 0..Known, tracked : BOOLEAN]]
  /\ opens \in 0..MaxOpens

SchemaInit ==
  /\ floor \in 0..Known
  /\ progress = NoProgress
  /\ ran = 1..floor
  /\ opener = [p \in Openers |-> Away]
  /\ opens = 0

FloorFor(applied) == IF applied < ReadableFrom THEN applied ELSE ReadableFrom

\* schemaFloor: a file that needs more migrations than are known is refused.
ReadFloor(p, knows) ==
  /\ opener[p].at = "away"
  /\ opens < MaxOpens
  /\ opens' = opens + 1
  /\ opener' = [opener EXCEPT ![p] = [at |-> IF floor > knows THEN "failed" ELSE "count", knows |-> knows,
                                      floor |-> floor, next |-> 0, tracked |-> FALSE]]
  /\ UNCHANGED <<floor, progress, ran>>

\* appliedCount: without a row the floor is all that is known.
AppliedCount(p) ==
  /\ opener[p].at = "count"
  /\ opener' = [opener EXCEPT ![p].at = "apply", ![p].tracked = progress # NoProgress,
                              ![p].next = IF progress # NoProgress THEN progress ELSE opener[p].floor]
  /\ UNCHANGED <<floor, progress, ran, opens>>

\* What a program writes beside a migration, in the same transaction.
Stamp(applied) ==
  /\ progress' = applied
  /\ floor' = FloorFor(applied)

\* A migration that cannot run again fails when it has: the program goes on
\* without a history.
ApplyMigration(p) ==
  LET m == opener[p].next + 1 IN
  /\ opener[p].at = "apply"
  /\ m =< opener[p].knows
  /\ IF m \in ran /\ ~ Repeatable(m)
     THEN opener' = [opener EXCEPT ![p].at = "failed"] /\ UNCHANGED <<floor, progress, ran>>
     ELSE /\ ran' = ran \cup {m}
          /\ Stamp(m)
          /\ opener' = [opener EXCEPT ![p].next = m, ![p].floor = floor', ![p].tracked = TRUE]
  /\ UNCHANGED opens

\* With nothing left to apply the count is written down, unless it is there.
SettleSchema(p) ==
  LET me == opener[p] IN
  /\ me.at = "apply"
  /\ me.next >= me.knows
  /\ IF me.tracked /\ me.floor = FloorFor(me.next)
     THEN UNCHANGED <<floor, progress>> ELSE Stamp(me.next)
  /\ opener' = [opener EXCEPT ![p].at = "open"]
  /\ UNCHANGED <<ran, opens>>

\* Closing the store, or dying between two transactions.
LeaveStore(p) ==
  /\ opener[p].at # "away"
  /\ opener' = [opener EXCEPT ![p] = Away]
  /\ UNCHANGED <<floor, progress, ran, opens>>

SchemaNext ==
  \/ \E p \in Openers, k \in ReadableFrom..Known : ReadFloor(p, k)
  \/ \E p \in Openers : AppliedCount(p) \/ ApplyMigration(p) \/ SettleSchema(p) \/ LeaveStore(p)

\* What a program would take for applied, were it started now.
CountNow == IF progress # NoProgress THEN progress ELSE floor

\* Whenever and wherever the programs before it stopped, a program that is
\* let in finds every migration it still has to run runnable: the history is
\* never lost to a migration that is half done (apply, schema.go).
NeverWedged ==
  \A k \in ReadableFrom..Known : floor =< k =>
    \A m \in (CountNow + 1)..k : m \notin ran \/ Repeatable(m)

\* A store that was opened has every table its program knows, although
\* another program may have stamped a smaller count meanwhile.
OpenedIsComplete ==
  \A p \in Openers : opener[p].at = "open" => 1..opener[p].knows \subseteq ran
=============================================================================
