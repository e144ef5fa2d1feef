---------------------------- MODULE AuditWorkload ---------------------------
(* The rules that judge a workload by its own manifest, the patches they    *)
(* suggest and the verdict of the upstream pod security policy              *)
(* (internal/checks: security.go, hardening.go, pss.go, patch.go,           *)
(* lifecycle.go, reliability.go, efficiency.go, batch.go, supply.go).       *)
(*                                                                          *)
(* A setting is "unset" or has a value; a container's own setting decides   *)
(* before its pod's.  A finding is <<check, what it says>>.                 *)
EXTENDS Question, Integers, Sequences, FiniteSets

CONSTANTS
  Manifests,   \* pods with one of their containers, as their manifests set them
  Figures,     \* requests, limits and rollouts
  JobHistories,\* how many jobs a CronJob keeps, of each outcome
  Probings,    \* workloads with their probes
  Images,      \* images, with what their containers ask for and use
  Hosts,       \* the names of nodes
  Spreads      \* the nodes the pods of a workload run on

Blank == ""
Off == "unset"
Flag == {Off, "true", "false"}
NoUser == -1

\* What a pod mounts from its node: runtime sockets, sensitive directories and
\* other paths, in the order of its volumes; a path may be left empty.
Paths == {"socket", "sensitive", "plain", Blank}

PodSettings ==
  [nonRoot : Flag, user : Int, seccomp : {Off, "default", "unconfined"}, hostProcess : Flag,
   hostUsers : Flag, volumes : Seq(Paths)]

ContainerSettings ==
  [privileged : Flag, escalation : Flag, nonRoot : Flag, user : Int, readOnlyRoot : Flag,
   add : SUBSET STRING, drop : SUBSET STRING, seccomp : {Off, "default", "unconfined"},
   procMount : {Off, "Default", "Unmasked"}, hostProcess : Flag]

ASSUME ManifestAssumption == Manifests \subseteq [pod : PodSettings, container : ContainerSettings]

\* What a container runs with: its own setting, or else its pod's.
Effective(own, inherited) == IF own # Off THEN own ELSE inherited

UserIDOf(p, c) == IF c.user # NoUser THEN c.user ELSE p.user

If(test, finding) == IF test THEN {finding} ELSE {}

-----------------------------------------------------------------------------
(* Containers.                                                              *)

RootDetail(p, c) ==
  IF UserIDOf(p, c) = 0 THEN "user 0"
  ELSE IF Effective(c.nonRoot, p.nonRoot) = "true" THEN Blank
  ELSE IF UserIDOf(p, c) # NoUser THEN Blank
  ELSE IF Effective(c.nonRoot, p.nonRoot) = "false" THEN "root allowed" ELSE "root not refused"

AddedCapabilities(c) == c.add \ {"NET_BIND_SERVICE"}

Security(p, c) ==
  If(c.privileged = "true", <<"privileged-containers", "true">>) \cup
  If(c.escalation # "false", <<"privilege-escalation", c.escalation>>) \cup
  If(RootDetail(p, c) # Blank, <<"run-as-root", RootDetail(p, c)>>) \cup
  If(c.readOnlyRoot # "true", <<"writable-root-filesystem", c.readOnlyRoot>>) \cup
  If(AddedCapabilities(c) # {}, <<"dangerous-capabilities", "added">>)

SeccompUnset(p, c) == c.seccomp = Off /\ p.seccomp = Off

Unconfined(p, c) == Effective(c.seccomp, p.seccomp) = "unconfined"

NotDropped(c) == "ALL" \notin c.drop

NetRawKept(c) == c.drop \cap {"ALL", "NET_RAW"} = {}

HostProcess(p, c) == "true" \in {p.hostProcess, c.hostProcess}

Hardening(p, c) ==
  If(SeccompUnset(p, c), <<"seccomp-unset", Blank>>) \cup
  If(Unconfined(p, c), <<"seccomp-unconfined", Blank>>) \cup
  If(c.procMount = "Unmasked", <<"proc-mount-unmasked", Blank>>) \cup
  If(NotDropped(c), <<"capabilities-not-dropped", Blank>>) \cup
  If(NetRawKept(c), <<"net-raw-kept", Blank>>) \cup
  If(HostProcess(p, c), <<"host-process", Blank>>)

ContainerFindings(p, c) == Security(p, c) \cup Hardening(p, c)

\* A slip: the lists of the patch are taken to be merged with those there.
CapabilitiesMerged(check, c) ==
  [c EXCEPT !.drop = @ \cup IF check = "net-raw-kept" THEN {"NET_RAW"} ELSE {"ALL"}]

\* A list in a patch replaces the one that is there.
PatchedCapabilities(check, c) ==
  CASE check = "dangerous-capabilities" -> [c EXCEPT !.add = {}, !.drop = {"ALL"}]
    [] check = "capabilities-not-dropped" -> [c EXCEPT !.drop = {"ALL"}]
    [] check = "net-raw-kept" -> [c EXCEPT !.drop = {"NET_RAW"}]

\* The container as the suggested patch leaves it.
Patched(check, c) ==
  CASE check = "privileged-containers" -> [c EXCEPT !.privileged = "false"]
    [] check = "privilege-escalation" ->
         [c EXCEPT !.escalation = "false", !.privileged = IF @ = "true" THEN "false" ELSE @]
    [] check = "run-as-root" -> [c EXCEPT !.nonRoot = "true"]
    [] check = "writable-root-filesystem" -> [c EXCEPT !.readOnlyRoot = "true"]
    [] check \in {"seccomp-unset", "seccomp-unconfined"} -> [c EXCEPT !.seccomp = "default"]
    [] check = "proc-mount-unmasked" -> [c EXCEPT !.procMount = "Default"]
    [] check = "host-process" -> [c EXCEPT !.hostProcess = "false"]
    [] OTHER -> PatchedCapabilities(check, c)

-----------------------------------------------------------------------------
(* Volumes.                                                                 *)

\* Some volume is of that class; the others are skipped.
FirstHostPath(p, class) == \E i \in DOMAIN p.volumes : p.volumes[i] = class

HasHostPath(p) == \E i \in DOMAIN p.volumes : p.volumes[i] # Blank

OutsideUserNamespace(p) == p.hostUsers # "false"

SubjectFindings(p) ==
  If(FirstHostPath(p, "socket"), <<"runtime-socket-mounted", Blank>>) \cup
  If(FirstHostPath(p, "plain"), <<"host-path-volume", Blank>>) \cup
  If(FirstHostPath(p, "sensitive"), <<"sensitive-host-path", Blank>>)

Findings(p, c) == ContainerFindings(p, c) \cup SubjectFindings(p)

-----------------------------------------------------------------------------
(* The upstream policy.  A check that has a control upstream reports what   *)
(* upstream rejects, in its own words when it has any.                      *)

Control(check) ==
  CASE check = "privileged-containers" -> "privileged"
    [] check = "privilege-escalation" -> "allowPrivilegeEscalation"
    [] check = "run-as-root" -> "runAsNonRoot"
    [] check = "dangerous-capabilities" -> "capabilities_baseline"
    [] check = "capabilities-not-dropped" -> "capabilities_restricted"
    [] check = "seccomp-unset" -> "seccompProfile_restricted"
    [] check = "seccomp-unconfined" -> "seccompProfile_baseline"
    [] check = "proc-mount-unmasked" -> "procMount"
    [] check = "proc-mount-in-user-namespace" -> "procMount_restricted"
    [] check = "host-path-volume" -> "hostPathVolumes"
    [] OTHER -> "none"

\* The policy's own rules, as Kubernetes states them.
UpstreamRejects(control, p, c) ==
  CASE control = "privileged" -> c.privileged = "true"
    [] control = "allowPrivilegeEscalation" -> c.escalation # "false"
    [] control = "runAsNonRoot" ->
         "false" \in {c.nonRoot, p.nonRoot} \/ Effective(c.nonRoot, p.nonRoot) = Off
    [] control = "capabilities_baseline" -> AddedCapabilities(c) # {}
    [] control = "capabilities_restricted" -> NotDropped(c) \/ AddedCapabilities(c) # {}
    [] control = "seccompProfile_restricted" ->
         "unconfined" \in {c.seccomp, p.seccomp} \/ Effective(c.seccomp, p.seccomp) = Off
    [] control = "seccompProfile_baseline" -> "unconfined" \in {c.seccomp, p.seccomp}
    [] control = "procMount" -> c.procMount = "Unmasked" /\ OutsideUserNamespace(p)
    [] control = "procMount_restricted" -> c.procMount = "Unmasked"
    [] control = "hostPathVolumes" -> p.volumes # <<>>
    [] OTHER -> FALSE

\* What other checks say for a check when it has no words of its own.
PresentedBy(check, p) ==
  CASE check = "host-path-volume" -> HasHostPath(p)
    [] check = "proc-mount-in-user-namespace" -> OutsideUserNamespace(p)
    [] OTHER -> FALSE

UpstreamChecks ==
  {"privileged-containers", "privilege-escalation", "run-as-root", "dangerous-capabilities",
   "capabilities-not-dropped", "seccomp-unset", "seccomp-unconfined", "proc-mount-unmasked",
   "proc-mount-in-user-namespace", "host-path-volume"}

DecidedUpstream(check, p, c, decided) ==
  LET own == {f \in Findings(p, c) : f[1] = check}
  IN IF ~ decided THEN own
     ELSE IF ~ UpstreamRejects(Control(check), p, c) THEN {}
     ELSE IF own # {} \/ PresentedBy(check, p) THEN own
     ELSE {<<check, "upstream">>}

\* Everything the audit says of a pod; a pod that cannot be decoded is left to
\* the checks' own rules.
Reported(p, c, decided) ==
  (UNION {DecidedUpstream(check, p, c, decided) : check \in UpstreamChecks})
    \cup {f \in Findings(p, c) : f[1] \notin UpstreamChecks}

-----------------------------------------------------------------------------
(* Numbers.                                                                 *)

OverprovisionRatio == 10

RatioDetail(asked, allowed) == asked > 0 /\ allowed \div asked >= OverprovisionRatio

\* What the pods use together, unit by unit.
UnitsUsed(used) == UNION {{i} \X (1 .. used[i]) : i \in DOMAIN used}

\* The mean over the pods that were measured; none measured, none judged.
MeanUsage(used) == IF used = <<>> THEN 0 ELSE Cardinality(UnitsUsed(used)) \div Len(used)

RequestsAboveUsage(asked, used) ==
  used # <<>> /\ MeanUsage(used) > 0 /\ asked \div MeanUsage(used) >= OverprovisionRatio

PercentSign == 1000

\* How a rollout would take every replica down: a count that reaches them all,
\* or all of a hundred percent (PercentSign + p stands for p%).
TakesEverything(raw, replicas) ==
  IF raw >= PercentSign THEN raw = PercentSign + 100 ELSE replicas > 0 /\ raw >= replicas

\* All pods of a workload on one node.
SharedNode(pods) ==
  Len(pods) >= 2 /\ pods[1] # Blank /\ \A i \in DOMAIN pods : pods[i] = pods[1]

LongRunning(w) == ~ w.init /\ w.kind \notin {"Job", "CronJob"} /\ w.restart \in {Off, "Always"}

WrongRestartPolicy(w) ==
  IF w.kind \in {"Job", "CronJob"} THEN w.restart \notin {"Never", "OnFailure"}
  ELSE w.kind \in {"Deployment", "StatefulSet", "DaemonSet"} /\ w.restart \notin {Off, "Always"}

\* Probes: the same handler twice, a port nobody declared, no time to start.
ProbesIdentical(w) == w.live # Blank /\ w.live = w.ready

ProbePortUndeclared(w) == w.ports # {} /\ w.live # Blank /\ w.live \notin w.ports

LivenessWithoutGrace(w) == w.live # Blank /\ ~ w.startup /\ w.delay = 0

ProbesMissing(w) == LongRunning(w) /\ w.live = Blank /\ w.ready = Blank

\* The kept history of a CronJob, one field after the other.
KeptJobsCeiling == 10

CronHistory(w) ==
  LET loose == {i \in DOMAIN w.kept : w.kept[i] = NoUser \/ w.kept[i] > KeptJobsCeiling}
  IN IF loose = {} THEN 0 ELSE CHOOSE i \in loose : \A j \in loose : i =< j

LatestImage(image) == ~ image.digest /\ image.tag \in {Blank, "latest"}

PullPolicyNotAlways(image) == ~ image.digest /\ image.tag \notin {Blank, "latest"} /\ image.pull # "Always"

-----------------------------------------------------------------------------
(* Questions.                                                               *)

\* No rollout may be set to more than all of the replicas.
ASSUME FigureAssumption ==
  Figures \subseteq [asked : Nat, allowed : Nat, replicas : Nat, raw : 0 .. (PercentSign + 100)]

ASSUME HistoryAssumption == JobHistories \subseteq Seq(Int)

ASSUME UsageAssumption == \A image \in Images : image.asked \in Nat /\ image.used \in Seq(Nat)

ASSUME HostAssumption == Blank \notin Hosts /\ Spreads \subseteq Seq(Hosts \cup {Blank})

AskContainer ==
  Ready /\ \E m \in Manifests, decided \in BOOLEAN :
    Put([about |-> "workload.container", pod |-> m.pod, container |-> m.container, decided |-> decided])

AskNumbers == Ready /\ \E figures \in Figures : Put([about |-> "workload.numbers", figures |-> figures])

AskHistory == Ready /\ \E kept \in JobHistories : Put([about |-> "workload.history", kept |-> kept])

AskProbes == Ready /\ \E workload \in Probings : Put([about |-> "workload.probes", workload |-> workload])

AskImage == Ready /\ \E image \in Images : Put([about |-> "workload.image", image |-> image])

AskNodes == Ready /\ \E pods \in Spreads : Put([about |-> "workload.nodes", pods |-> pods])

AskWorkload ==
  \/ AskContainer
  \/ AskNumbers
  \/ AskHistory
  \/ AskProbes
  \/ AskImage
  \/ AskNodes

-----------------------------------------------------------------------------
(* Properties.                                                              *)

\* Two findings are not the container's to mend: a user of 0, which the patch
\* of run-as-root leaves in place, and a pod that asks for the host's process
\* for all its containers.
BeyondPatch(f, p) ==
  f = <<"run-as-root", "user 0">> \/ (f[1] = "host-process" /\ p.hostProcess = "true")

\* Whoever applies the patch a finding suggests does not meet that finding
\* again (containerPatch and the rule that suggests it).
PatchClears ==
  /\ Asks("workload.container") =>
       \A f \in ContainerFindings(ask.pod, ask.container) :
         ~ BeyondPatch(f, ask.pod) =>
           \A g \in ContainerFindings(ask.pod, Patched(f[1], ask.container)) : g[1] # f[1]
  /\ Asks("workload.history") =>
       LET at == CronHistory(ask)
       IN at # 0 => CronHistory([ask EXCEPT !.kept[at] = 3]) # at

\* Which checks speak of what a control rejects.
Speakers(check) ==
  {check} \cup
  CASE check = "host-path-volume" -> {"sensitive-host-path", "runtime-socket-mounted"}
    [] check = "proc-mount-in-user-namespace" -> {"proc-mount-unmasked"}
    [] OTHER -> {}

\* A pod that the upstream policy rejects is never left unreported because a
\* check has no words of its own for it, or leaves it to another check
\* (decidedUpstream, presentedBy).
RejectedIsTold ==
  Asks("workload.container") /\ ask.decided =>
    \A check \in UpstreamChecks :
      UpstreamRejects(Control(check), ask.pod, ask.container) =>
        \E f \in Reported(ask.pod, ask.container, ask.decided) : f[1] \in Speakers(check)

\* Every sort of path mounted from the node is told by its own check, in
\* whatever order the volumes come (firstHostPath, mountedSocket).
NodePathsAreTold ==
  Asks("workload.container") =>
    LET told == {f[1] : f \in Reported(ask.pod, ask.container, ask.decided)}
        mounted == {ask.pod.volumes[i] : i \in DOMAIN ask.pod.volumes}
    IN /\ "socket" \in mounted => "runtime-socket-mounted" \in told
       /\ "sensitive" \in mounted => "sensitive-host-path" \in told
       /\ "plain" \in mounted => "host-path-volume" \in told

\* A limit is reported exactly when it is ten times the request or more, a
\* rollout exactly when the API's arithmetic lets it take every replica, and a
\* shared node exactly when its loss takes several pods and leaves none.
NumbersAreReal ==
  /\ Asks("workload.nodes") =>
       (SharedNode(ask.pods) <=> Len(ask.pods) > 1 /\ \E n \in Hosts : \A i \in DOMAIN ask.pods : ask.pods[i] = n)
  /\ Asks("workload.numbers") =>
       LET f == ask.figures IN
       /\ RatioDetail(f.asked, f.allowed) <=> (f.asked > 0 /\ f.allowed >= 10 * f.asked)
       /\ f.replicas > 0 =>
            (TakesEverything(f.raw, f.replicas) <=>
               f.replicas =< IF f.raw >= PercentSign THEN ((f.raw - PercentSign) * f.replicas) \div 100 ELSE f.raw)

\* Two rules never blame a workload for opposite reasons, so that mending one
\* finding cannot be what the other forbids: a probe is not both missing and
\* wrong, an image not both floating and pulled too rarely, and a workload is
\* asked for probes only where its restart policy is a right one.  Requests are
\* called too high only when some pod uses a tenth of them or less.
AdviceAgrees ==
  /\ Asks("workload.probes") =>
       LET w == ask.workload IN
       ProbesMissing(w) => ~ (ProbesIdentical(w) \/ ProbePortUndeclared(w) \/ LivenessWithoutGrace(w) \/ WrongRestartPolicy(w))
  /\ Asks("workload.image") =>
       /\ ~ (LatestImage(ask.image) /\ PullPolicyNotAlways(ask.image))
       /\ RequestsAboveUsage(ask.image.asked, ask.image.used) =>
            \E i \in DOMAIN ask.image.used : ask.image.used[i] * OverprovisionRatio =< ask.image.asked
=============================================================================
