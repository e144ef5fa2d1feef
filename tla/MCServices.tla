------------------------------ MODULE MCServices ------------------------------
(* The services that share no state with each other, side by side in one     *)
(* state space: `part` says which of them moves, so that their states add up *)
(* instead of multiplying.  A run names the Parts it is about.               *)
EXTENDS WorkBudget, Health, Views, Recordings, FileStore, SharedCaches, SignIn,
        GuardedWrites, Drain, McpServe, Terminals, LogTails, TLC

CONSTANTS Parts, wa, wb, wc, wd, ida, idb

MCIdentity == wa :> ida @@ wb :> ida @@ wc :> idb @@ wd :> idb

VARIABLE part

servicesVars ==
  <<part, vars, healthVars, viewVars, recVars, fileVars, schemaVars, cacheVars, chartVars, signVars, budgetVars,
    writeVars, drainVars, serveVars, termVars, tailVars>>

\* The components that do not move stand in one initial state each.
ServicesInit ==
  /\ part \in Parts
  /\ Init /\ ViewInit /\ RecInit /\ FileInit /\ CacheInit /\ ChartInit /\ BudgetInit /\ ServeInit /\ TerminalsInit
  /\ HealthInit /\ (part # "health" => \A s \in Sites : answers[s])
  /\ SchemaInit /\ (part # "schema" => floor = 0)
  /\ SignInit /\ (part # "signin" => keeps)
  /\ WritesInit /\ (part # "writes" => guarded = {} /\ current = CHOOSE h \in Homes : TRUE)
  /\ DrainInit /\ (part # "drain" => orders = [force |-> TRUE, dryRun |-> FALSE] /\ \A p \in Pods : trait[p] = "owned")
  /\ TailInit /\ (part # "tails" => follow /\ listed = {})

Still ==
  /\ UNCHANGED part
  /\ part # "budget" => UNCHANGED vars
  /\ part # "health" => UNCHANGED healthVars
  /\ part # "views" => UNCHANGED viewVars
  /\ part # "recordings" => UNCHANGED recVars
  /\ part # "files" => UNCHANGED fileVars
  /\ part # "schema" => UNCHANGED schemaVars
  /\ part # "cache" => UNCHANGED cacheVars
  /\ part # "charts" => UNCHANGED chartVars
  /\ part # "signin" => UNCHANGED signVars
  /\ part # "logout" => UNCHANGED budgetVars
  /\ part # "writes" => UNCHANGED writeVars
  /\ part # "drain" => UNCHANGED drainVars
  /\ part # "serve" => UNCHANGED serveVars
  /\ part # "terminals" => UNCHANGED termVars
  /\ part # "tails" => UNCHANGED tailVars

\* One component takes a step.
Does(name, A) == part = name /\ A /\ Still

ServicesNext ==
  \/ Does("budget", Next)
  \/ Does("health", HealthNext)
  \/ Does("views", ViewNext)
  \/ Does("recordings", RecNext)
  \/ Does("files", FileNext)
  \/ Does("schema", SchemaNext)
  \/ Does("cache", CacheNext)
  \/ Does("charts", ChartNext)
  \/ Does("signin", SignNext)
  \/ Does("logout", BudgetNext)
  \/ Does("writes", WritesNext)
  \/ Does("drain", DrainNext)
  \/ Does("serve", ServeNext)
  \/ Does("terminals", TerminalsNext)
  \/ Does("tails", TailNext)

ServicesSpec == ServicesInit /\ [][ServicesNext]_servicesVars

\* The goroutines of the program run; the cluster, the browsers, the clients
\* and the users need do nothing.  A start that waits for tapeMu gets it in
\* the end.
FairServicesSpec ==
  /\ ServicesSpec
  /\ \A w \in Workers :
       /\ WF_vars(part = "budget" /\ Attempt(w))
       /\ WF_vars(part = "budget" /\ Wake(w))
       /\ WF_vars(part = "budget" /\ Release(w))
  /\ WF_healthVars(part = "health" /\ PingerStep /\ ~ SessionChanged) /\ WF_healthVars(part = "health" /\ ReportStep)
  /\ \A s \in Sites : WF_healthVars(part = "health" /\ SinkChanged(s)) /\ WF_healthVars(part = "health" /\ ForgetHealth(s))
  /\ \A r \in Tapes :
       SF_recVars(part = "recordings" /\ HoldRecording(r)) /\ WF_recVars(part = "recordings" /\ TapeStep(r))
  /\ \A k \in Stops \cup {Shutdown} : WF_recVars(part = "recordings" /\ Closing(k))
  /\ \A r \in Readers : WF_cacheVars(part = "cache" /\ ReaderStep(r))
  /\ WF_signVars(part = "signin" /\ CheckLive)
  /\ WF_drainVars(part = "drain" /\ (ListPods \/ CordonNode \/ Finish)) /\ WF_drainVars(part = "drain" /\ Expire)
  /\ \A p \in Pods : WF_drainVars(part = "drain" /\ WorkerStep(p))
  /\ WF_serveVars(part = "serve" /\ ServeLoop)
  /\ \A m \in Messages : WF_serveVars(part = "serve" /\ (FinishWork(m) \/ Send(m)))
  /\ \A s \in Shells : WF_termVars(part = "terminals" /\ HandlerStep(s))
  /\ WF_tailVars(part = "tails" /\ TailStep)

-----------------------------------------------------------------------------
(* What the services promise, their parts stated in their own modules.       *)

\* Whoever looks is pinged for, no ping of a closed connection speaks for the
\* one that is open now, and a program nobody looks at is on its way out
\* (server/health.go, server/view.go).
PresenceSound == HealthTypeOK /\ SomebodyWatches /\ PingsNotStale /\ IdleIsLeaving

\* Recordings that are started, switched, stopped and shut down at once: what
\* is fed is written, what is held is fed, and nothing is written after the end
\* (server/timeline.go).
RecordingsSound == FedIsWritten /\ HeldIsFed /\ NoneAfterEnd

\* What is on disk outlives failures, crashes and power cuts between any two
\* steps, of any process and any version of the program: files are whole and
\* lose no acknowledged change, and a history file is never left so that a
\* program that should read it cannot (atomicfile, store/schema.go).
StoresSound == NeverHalf /\ NoLostUpdate /\ SchemaTypeOK /\ NeverWedged /\ OpenedIsComplete

\* However many ask for a value at once one of them builds it, a cache keeps to
\* its room and its workers, and the work budget has in use what calls hold
\* (resources/cache.go, charts/charts.go, server/budget.go).
CachesSound == Balanced /\ OneBuild /\ ChartTypeOK /\ OneFetchPerChart /\ ChartsWithinRoom /\ WarmSlotsReturn

\* A session that was revoked or is too old is not let in by any interleaving
\* of renewals, logouts and restarts, a login flow signs in once, and what the
\* provider's logouts may use is counted right (internal/auth).
AccountsSound == RevokedStaysOut /\ CapHolds /\ FlowUsedOnce /\ BudgetBalanced

\* A write that names its cluster stays on it, whatever the user switches to
\* meanwhile; a drain evicts what it was asked to and says of every pod what
\* happened to it (server/contexts.go, actions/node.go).
WritesSound == WritesTypeOK /\ NamedWritesStay /\ DrainTypeOK /\ DrainTellsWhatItDid /\ NothingLeavesUnasked

\* The pod of a node shell is taken away when its handler ends, however it ends,
\* and closing the server waits for every shell that is counted
\* (server/exec.go).
TerminalsSound == TerminalsTypeOK /\ PodsAreTakenAway /\ CountedShellsAreWaitedFor

\* A pod's log is read by one reader at a time, never again once it was read to
\* its end, and never by more readers than the cap; the MCP server returns
\* after its replies (logs/many.go, mcp/stdio.go).
StreamsSound ==
  /\ TailTypeOK /\ OneReaderEach /\ TailsWithinCap /\ FinishedNotReadAgain
  /\ McpTypeOK /\ RepliesBeforeReturn

\* Nobody waits for ever: a waiter of the budget is woken or gives up, a reader
\* of a shared value is answered also when its builder fails, and a message
\* that was read is answered though all slots were taken (server/budget.go,
\* resources/cache.go, mcp/stdio.go).
WaitersAreServed == WaiterWoken /\ EveryoneAnswered /\ ReadIsAnswered

\* What is told to end ends, also when the cluster, the shell or the reader on
\* the other side does nothing: stopped recordings, drains, severed terminals,
\* closed log tails, connections of accounts that signed out.
WhatIsEndedEnds == RecordingsEnd /\ DrainEnds /\ SeveredTerminalsEnd /\ TailEnds /\ LiveEnds
===============================================================================
