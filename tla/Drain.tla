-------------------------------- MODULE Drain --------------------------------
(* The drain of a node (internal/actions/node.go): the pods are listed and   *)
(* sorted out, the node is cordoned, and each pod is evicted by a worker of  *)
(* its own that takes one of a few slots, asks again while a disruption      *)
(* budget forbids it, and gives up when the drain's time is over.  The       *)
(* cluster answers as it pleases; pods leave by themselves meanwhile.        *)
EXTENDS Integers, FiniteSets

CONSTANTS Pods,    \* the pods listed on the node
          EvictRoom     \* evictConcurrency

ASSUME DrainAssumption == IsFiniteSet(Pods) /\ EvictRoom \in Nat \ {0}

VARIABLES trait,     \* what each pod is, as classify sees it
          orders,    \* the request: force, dryRun
          drain,     \* where drain() stands
          outcome,   \* the outcome noted for each pod
          worker,    \* the goroutine of each pod
          expired,   \* whether the eviction budget is over
          cordoned,  \* the node, in the cluster
          leaving    \* the pods whose eviction the cluster accepted

drainVars == <<trait, orders, drain, outcome, worker, expired, cordoned, leaving>>

Traits == {"owned", "unowned", "scratch", "apart"}
Outcomes == {"none", "evict", "skipped", "blocked", "evicted", "failed"}
Ended == {"planned", "refused", "done"}

DrainTypeOK ==
  /\ trait \in [Pods -> Traits]
  /\ orders \in [force : BOOLEAN, dryRun : BOOLEAN]
  /\ drain \in {"listing", "cordoning", "evicting"} \cup Ended
  /\ outcome \in [Pods -> Outcomes]
  /\ worker \in [Pods -> {"none", "waiting", "asking", "sleeping", "over"}]
  /\ expired \in BOOLEAN /\ cordoned \in BOOLEAN
  /\ leaving \subseteq Pods

DrainInit ==
  /\ trait \in [Pods -> Traits]
  /\ orders \in [force : BOOLEAN, dryRun : BOOLEAN]
  /\ drain = "listing"
  /\ outcome = [p \in Pods |-> "none"]
  /\ worker = [p \in Pods |-> "none"]
  /\ expired = FALSE /\ cordoned = FALSE
  /\ leaving = {}

-----------------------------------------------------------------------------

\* classify: pods that are ending, finished, static or of a DaemonSet are left
\* apart; without force, one nobody would make again and one with an emptyDir
\* block the drain.
Classify(t, force) ==
  CASE t = "apart" -> "skipped"
    [] t \in {"unowned", "scratch"} /\ ~ force -> "blocked"
    [] OTHER -> "evict"

\* planFor, and what drain returns at once: a list that failed, a dry run, a
\* pod that blocks.
ListPods ==
  /\ drain = "listing"
  /\ \/ /\ outcome' = [p \in Pods |-> Classify(trait[p], orders.force)]
        /\ drain' = IF orders.dryRun THEN "planned"
                    ELSE IF \E p \in Pods : outcome'[p] = "blocked" THEN "refused"
                    ELSE "cordoning"
     \/ drain' = "refused" /\ UNCHANGED outcome
  /\ UNCHANGED <<trait, orders, worker, expired, cordoned, leaving>>

\* patchSchedulable, and evictAll starting a worker for each pod to evict; a
\* patch that fails may still have reached the cluster.
CordonNode ==
  /\ drain = "cordoning"
  /\ \/ /\ cordoned' = TRUE
        /\ drain' = "evicting"
        /\ worker' = [p \in Pods |-> IF outcome[p] = "evict" THEN "waiting" ELSE "over"]
     \/ drain' = "refused" /\ cordoned' \in BOOLEAN /\ UNCHANGED worker
  /\ UNCHANGED <<trait, orders, outcome, expired, leaving>>

InSlots == {p \in Pods : worker[p] \in {"asking", "sleeping"}}

\* A worker takes a slot, or finds the time over: select picks either when both
\* are there.
TakeSlot(p) ==
  /\ worker[p] = "waiting"
  /\ \/ Cardinality(InSlots) < EvictRoom /\ worker' = [worker EXCEPT ![p] = "asking"] /\ UNCHANGED outcome
     \/ expired /\ worker' = [worker EXCEPT ![p] = "over"] /\ outcome' = [outcome EXCEPT ![p] = "failed"]
  /\ UNCHANGED <<trait, orders, drain, expired, cordoned, leaving>>

\* EvictV1: the answers it may have.  Once the time is over the call fails,
\* and the cluster may have accepted the eviction it was about ("lost").
Answers == IF expired THEN {"refused", "lost"} ELSE {"accepted", "gone", "forbidden", "refused", "lost", "panic"}

\* A slip: a worker that panics leaves the outcome as it was planned.
OutcomeUnlessPanic(answer) ==
  CASE answer = "accepted" -> "evicted" [] answer = "gone" -> "skipped" [] answer = "panic" -> "evict" [] OTHER -> "failed"

\* evictOne's result, or what the recover in evictAll notes.
OutcomeOf(answer) == CASE answer = "accepted" -> "evicted" [] answer = "gone" -> "skipped" [] OTHER -> "failed"

\* One round of evictOne.
Evict(p) ==
  /\ worker[p] = "asking"
  /\ \E answer \in Answers :
       /\ leaving' = IF answer \in {"accepted", "lost"} THEN leaving \cup {p} ELSE leaving
       /\ IF answer = "forbidden"
          THEN worker' = [worker EXCEPT ![p] = "sleeping"] /\ UNCHANGED outcome
          ELSE worker' = [worker EXCEPT ![p] = "over"] /\ outcome' = [outcome EXCEPT ![p] = OutcomeOf(answer)]
  /\ UNCHANGED <<trait, orders, drain, expired, cordoned>>

\* sleep: the retry delay, or the end of the time.
WakeWorker(p) ==
  /\ worker[p] = "sleeping"
  /\ \/ worker' = [worker EXCEPT ![p] = "asking"] /\ UNCHANGED outcome
     \/ expired /\ worker' = [worker EXCEPT ![p] = "over"] /\ outcome' = [outcome EXCEPT ![p] = "blocked"]
  /\ UNCHANGED <<trait, orders, drain, expired, cordoned, leaving>>

\* The eviction budget ends, or the caller goes away.
Expire ==
  /\ drain = "evicting" /\ ~ expired
  /\ expired' = TRUE
  /\ UNCHANGED <<trait, orders, drain, outcome, worker, cordoned, leaving>>

\* group.Wait, and the answer.
Finish ==
  /\ drain = "evicting" /\ \A p \in Pods : worker[p] = "over"
  /\ drain' = "done"
  /\ UNCHANGED <<trait, orders, outcome, worker, expired, cordoned, leaving>>

WorkerStep(p) == TakeSlot(p) \/ Evict(p) \/ WakeWorker(p)

DrainNext == ListPods \/ CordonNode \/ Expire \/ Finish \/ \E p \in Pods : WorkerStep(p)

-----------------------------------------------------------------------------
\* A drain that answers tells every pod's fate: none is left "to evict", one it
\* calls evicted is leaving, and one that is leaving is never called blocked or
\* left in place, also when the time ran out under an eviction.
DrainTellsWhatItDid ==
  drain = "done" =>
    /\ \A p \in Pods : outcome[p] \in {"skipped", "blocked", "evicted", "failed"}
    /\ \A p \in Pods : outcome[p] = "evicted" => p \in leaving
    /\ \A p \in leaving : outcome[p] \in {"evicted", "failed"}

\* Without force no pod leaves that nothing would make again or whose emptyDir
\* would be lost; a drain that is refused evicts nothing, and one that is only
\* planned, or that a pod blocks, leaves the node as it was.
NothingLeavesUnasked ==
  /\ ~ orders.force => \A p \in leaving : trait[p] = "owned"
  /\ \A p \in leaving : trait[p] # "apart"
  /\ drain \in {"planned", "refused"} => leaving = {}
  /\ drain = "planned" \/ (\E p \in Pods : outcome[p] = "blocked" /\ worker[p] = "none") => ~ cordoned

\* A drain that found its pods ends, also when a disruption budget forbids an
\* eviction for ever.
DrainEnds == (drain \in {"cordoning", "evicting"}) ~> (drain \in Ended)
=============================================================================
