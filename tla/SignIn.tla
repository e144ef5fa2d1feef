------------------------------- MODULE SignIn -------------------------------
(***************************************************************************)
(* Signing in and out (internal/auth): login flows that are used once,     *)
(* signed cookies that are renewed up to a cap, sessions that are revoked  *)
(* by a sign-out or by the identity provider, the store that keeps the     *)
(* revocations over a restart, and the live connections that are checked   *)
(* again while they are open (internal/server/ws.go). The second part is   *)
(* the budget of back-channel logout verifications (logoutlimits.go),      *)
(* which shares no state with the first.                                   *)
(***************************************************************************)
EXTENDS Naturals, Sequences, FiniteSets

CONSTANTS
    Requests,       \* requests the server handles at a time
    Sids,           \* session ids of the identity provider
    Flows,          \* login flows
    SessionTtl, MaxAge,    \* Config.SessionTTL, Config.SessionMaxAge
    FlowLife,       \* flowLifetime
    FlowRoom,       \* maxConsumedFlows
    MaxNow,         \* bound on the clock
    MaxRestarts     \* bound on restarts

ASSUME SignAssumption ==
    {SessionTtl, MaxAge, FlowLife, FlowRoom, MaxNow, MaxRestarts} \subseteq Nat

VARIABLES
    now,
    jar,            \* the session cookies handed out that have not expired; `since` is history:
                    \* when the person signed in
    begun,          \* when the cookie of a login flow expires, 0 for none
    consumed,           \* consumedFlows.used
    logins,         \* history: the sign-ins a flow gave, in this process
    gone,           \* revocations.gone
    kept,           \* the rows of revoked_sessions
    keeps,          \* revocations.kept # nil
    request,        \* a request under way
    live,           \* the cookie of an open live connection
    revokedAt,          \* history: when a session was last revoked, 0 for never
    restarts

signVars == <<now, jar, begun, consumed, logins, gone, kept, keeps, request, live, revokedAt, restarts>>

NoCookie == [sid |-> "none", issued |-> 0, expires |-> 0, since |-> 0]
NoRequest == [at |-> "none", cookie |-> NoCookie, flow |-> "none", sid |-> "none", out |-> FALSE, until |-> 0]

SignInit ==
    /\ now = 1 /\ jar = {} /\ restarts = 0
    /\ begun = [f \in Flows |-> 0] /\ consumed = [f \in Flows |-> 0] /\ logins = [f \in Flows |-> 0]
    /\ gone = [s \in Sids |-> 0] /\ kept = [s \in Sids |-> 0] /\ keeps \in BOOLEAN
    /\ request = [k \in Requests |-> NoRequest] /\ live = NoCookie /\ revokedAt = [s \in Sids |-> 0]

Serves(k, r) == request' = [request EXCEPT ![k] = r]

-----------------------------------------------------------------------------
(* Cookies.                                                                *)

\* The life of a cookie ends with its own time or with the cap on the sign-in.
Expiry(issued) == IF issued + MaxAge < now + SessionTtl THEN issued + MaxAge ELSE now + SessionTtl

Decodes(c) == c # NoCookie /\ now < c.expires /\ now < c.issued + MaxAge

Revoked(s) == gone[s] # 0 /\ now < gone[s]

\* StillValid asks both; so does fromSession, which may renew the cookie.
StillValid(c) == Decodes(c) /\ ~ Revoked(c.sid)

Accepts(c) == Decodes(c) /\ ~ Revoked(c.sid)

HalfSpent(c) == 2 * c.expires < 2 * now + SessionTtl

Renewable(c) == now < c.issued + MaxAge

\* A slip: a renewed cookie is a new sign-in.
ReissuedNow(c) == [c EXCEPT !.issued = now, !.expires = now + SessionTtl]

Reissued(c) == [c EXCEPT !.expires = Expiry(c.issued)]

\* An expired revocation is dropped when it is looked at.
Present(k) ==
    /\ request[k].at = "none"
    /\ \E c \in jar, out \in BOOLEAN :
           /\ Accepts(c)
           /\ Serves(k, [NoRequest EXCEPT !.at = "accepted", !.cookie = c, !.out = out])
           /\ gone' = [gone EXCEPT ![c.sid] = 0]
    /\ UNCHANGED <<now, jar, begun, consumed, logins, kept, keeps, live, revokedAt, restarts>>

\* The renewal comes after the check, and the revocation of a sign-out after
\* the renewal.
Renew(k) ==
    /\ request[k].at = "accepted"
    /\ LET c == request[k].cookie
       IN /\ jar' = IF HalfSpent(c) /\ Renewable(c) THEN jar \cup {Reissued(c)} ELSE jar
          /\ Serves(k, IF request[k].out THEN [NoRequest EXCEPT !.at = "revoke", !.sid = c.sid] ELSE NoRequest)
    /\ UNCHANGED <<now, begun, consumed, logins, gone, kept, keeps, live, revokedAt, restarts>>

-----------------------------------------------------------------------------
(* Login flows.                                                            *)

Login(f) ==
    /\ begun[f] = 0
    /\ begun' = [begun EXCEPT ![f] = now + FlowLife]
    /\ UNCHANGED <<now, jar, consumed, logins, gone, kept, keeps, request, live, revokedAt, restarts>>

Swept == [f \in Flows |-> IF now < consumed[f] THEN consumed[f] ELSE 0]

\* A flow is remembered for longer than its cookie lives.
ConsumedUntil == now + FlowLife

Callback(k, f) ==
    /\ request[k].at = "none" /\ now < begun[f]
    /\ IF Swept[f] # 0 \/ Cardinality({g \in Flows : Swept[g] # 0}) >= FlowRoom
       THEN consumed' = Swept /\ UNCHANGED request
       ELSE /\ consumed' = [Swept EXCEPT ![f] = ConsumedUntil]
            /\ Serves(k, [NoRequest EXCEPT !.at = "exchange", !.flow = f])
    /\ UNCHANGED <<now, jar, begun, logins, gone, kept, keeps, live, revokedAt, restarts>>

\* The identity provider refuses, or names a session, perhaps one it has
\* named before.
Exchange(k) ==
    /\ request[k].at = "exchange"
    /\ \/ \E s \in Sids :
              /\ jar' = jar \cup {[sid |-> s, issued |-> now, expires |-> Expiry(now), since |-> now]}
              /\ logins' = [logins EXCEPT ![request[k].flow] = @ + 1]
       \/ UNCHANGED <<jar, logins>>
    /\ Serves(k, NoRequest)
    /\ UNCHANGED <<now, begun, consumed, gone, kept, keeps, live, revokedAt, restarts>>

-----------------------------------------------------------------------------
(* Revocations.                                                            *)

\* BackchannelLogout, once its token is verified.
Announced(k) ==
    /\ request[k].at = "none"
    /\ \E s \in Sids : Serves(k, [NoRequest EXCEPT !.at = "revoke", !.sid = s])
    /\ UNCHANGED <<now, jar, begun, consumed, logins, gone, kept, keeps, live, revokedAt, restarts>>

\* Held for as long as any cookie of that sign-in may live.
Within == now + MaxAge

RevokeInMemory(k) ==
    /\ request[k].at = "revoke"
    /\ LET s == request[k].sid
       IN /\ gone' = [t \in Sids |-> IF t = s THEN Within ELSE IF Revoked(t) THEN gone[t] ELSE 0]
          /\ revokedAt' = [revokedAt EXCEPT ![s] = now]
          /\ Serves(k, IF keeps THEN [NoRequest EXCEPT !.at = "write", !.sid = s, !.until = Within] ELSE NoRequest)
    /\ UNCHANGED <<now, jar, begun, consumed, logins, kept, keeps, live, restarts>>

\* Rows that have run out go in the same transaction.
WriteDown(k) ==
    /\ request[k].at = "write"
    /\ LET at == request[k].until - MaxAge
       IN \/ kept' = [s \in Sids |-> IF s = request[k].sid THEN request[k].until
                                     ELSE IF kept[s] =< at THEN 0 ELSE kept[s]]
          \/ UNCHANGED kept
    /\ Serves(k, NoRequest)
    /\ UNCHANGED <<now, jar, begun, consumed, logins, gone, keeps, live, revokedAt, restarts>>

\* The secret is configured, so the cookies outlive the process; a store that
\* cannot be read at the start is not written to either.
Restart ==
    /\ restarts < MaxRestarts
    /\ restarts' = restarts + 1
    /\ keeps' \in BOOLEAN
    /\ gone' = [s \in Sids |-> IF keeps' /\ now < kept[s] THEN kept[s] ELSE 0]
    /\ revokedAt' = [s \in Sids |-> IF keeps' /\ kept[s] = revokedAt[s] + MaxAge THEN revokedAt[s] ELSE 0]
    /\ consumed' = [f \in Flows |-> 0] /\ logins' = [f \in Flows |-> 0]
    /\ request' = [k \in Requests |-> NoRequest] /\ live' = NoCookie
    /\ UNCHANGED <<now, jar, begun, kept>>

-----------------------------------------------------------------------------
(* Live connections.                                                       *)

OpenLive(k) ==
    /\ request[k].at = "accepted" /\ ~ request[k].out /\ live = NoCookie
    /\ live' = request[k].cookie
    /\ Serves(k, NoRequest)
    /\ UNCHANGED <<now, jar, begun, consumed, logins, gone, kept, keeps, revokedAt, restarts>>

CheckLive ==
    /\ live # NoCookie /\ ~ StillValid(live)
    /\ live' = NoCookie
    /\ UNCHANGED <<now, jar, begun, consumed, logins, gone, kept, keeps, request, revokedAt, restarts>>

PassNow ==
    /\ now < MaxNow
    /\ now' = now + 1
    /\ jar' = {c \in jar : now' < c.expires}
    /\ UNCHANGED <<begun, consumed, logins, gone, kept, keeps, request, live, revokedAt, restarts>>

SignNext ==
    \/ PassNow \/ Restart \/ CheckLive
    \/ \E f \in Flows : Login(f)
    \/ \E k \in Requests :
           \/ Present(k) \/ Renew(k) \/ Exchange(k) \/ Announced(k) \/ RevokeInMemory(k) \/ WriteDown(k) \/ OpenLive(k)
           \/ \E f \in Flows : Callback(k, f)

-----------------------------------------------------------------------------
(* Properties.                                                             *)

\* A session that was revoked is not accepted again: not with a cookie that
\* a request in flight renewed after the revocation, and not after a restart
\* that read the revocation back (fromSession, revoke, keep).
RevokedStaysOut == \A c \in jar : revokedAt[c.sid] >= c.issued => ~ Accepts(c)

\* However often a cookie is renewed, by requests that overlap in any way, no
\* request is let in on a sign-in that is older than the cap.
CapHolds == \A c \in jar : Accepts(c) => now < c.since + MaxAge

\* One login flow gives one sign-in, however often and how close together its
\* callback is sent, until its cookie has expired (consume).
FlowUsedOnce == \A f \in Flows : logins[f] =< 1

\* Whoever is signed out does not stay connected.
LiveEnds == \A s \in Sids : (live.sid = s /\ revokedAt[s] >= live.issued) ~> live = NoCookie

-----------------------------------------------------------------------------
(* The budget of back-channel logout verifications: how many may run at    *)
(* once and in a window of time, in all and for one source, for a bounded  *)
(* number of sources. The budget of login exchanges (flowlimits.go) and    *)
(* the one of live connections (claimLiveConnection) are this one without  *)
(* the window and the eviction.                                            *)

CONSTANTS
    Verifiers,      \* logout requests under way at a time
    Sources,        \* the addresses they come from
    GlobalRoom, SourceRoom,     \* logoutGlobalConcurrent, logoutSourceConcurrent
    GlobalRate, SourceRate,     \* logoutGlobalRate, logoutSourceRate
    Capacity,       \* logoutSourceCapacity
    Window, Cooldown,
    MaxTime         \* bound on the clock

ASSUME LogoutAssumption ==
    /\ IsFiniteSet(Verifiers) /\ IsFiniteSet(Sources) /\ "none" \notin Sources
    /\ Capacity \in Nat

VARIABLES
    time,
    inUse,          \* logoutVerificationBudget.used
    events,         \* ... events
    sources,        \* ... sources: the known ones have an entry
    failureUntil,
    verifies        \* the source a verification came from

budgetVars == <<time, inUse, events, sources, failureUntil, verifies>>

NoSource == "none"
NoWindow == [known |-> FALSE, events |-> <<>>, last |-> 0, used |-> 0]

BudgetInit ==
    /\ time = 1 /\ inUse = 0 /\ events = <<>> /\ failureUntil = 0
    /\ sources = [x \in Sources |-> NoWindow]
    /\ verifies = [v \in Verifiers |-> NoSource]

\* The events are in the order of time: the old ones are a prefix.
Recent(es) == SelectSeq(es, LAMBDA e : e + Window > time)

KnownSources == {x \in Sources : sources[x].known}

\* Only a source with nothing under way may be forgotten.
Evictable == {x \in KnownSources : sources[x].used = 0}

Oldest == {x \in Evictable : \A y \in Evictable : sources[x].last =< sources[y].last}

MayClaim(x) ==
    /\ time >= failureUntil
    /\ inUse < GlobalRoom /\ sources[x].used < SourceRoom
    /\ Len(Recent(events)) < GlobalRate /\ Len(Recent(sources[x].events)) < SourceRate

Taken(x) ==
    [known |-> TRUE, last |-> time, used |-> sources[x].used + 1, events |-> Append(Recent(sources[x].events), time)]

ClaimTurn(v, x) ==
    /\ verifies[v] = NoSource /\ MayClaim(x)
    /\ IF x \in KnownSources \/ Cardinality(KnownSources) < Capacity
       THEN sources' = [sources EXCEPT ![x] = Taken(x)]
       ELSE \E old \in Oldest : sources' = [sources EXCEPT ![old] = NoWindow, ![x] = Taken(x)]
    /\ inUse' = inUse + 1
    /\ events' = Append(Recent(events), time)
    /\ verifies' = [verifies EXCEPT ![v] = x]
    /\ UNCHANGED <<time, failureUntil>>

\* The token is bad: nobody is verified for a while. The claim is given back
\* either way.
Verified(v) ==
    /\ verifies[v] # NoSource
    /\ failureUntil' \in {failureUntil, time + Cooldown}
    /\ inUse' = inUse - 1
    /\ sources' = [sources EXCEPT ![verifies[v]].used = @ - 1, ![verifies[v]].known = TRUE]
    /\ verifies' = [verifies EXCEPT ![v] = NoSource]
    /\ UNCHANGED <<time, events>>

BudgetTick ==
    /\ time < MaxTime
    /\ time' = time + 1
    /\ UNCHANGED <<inUse, events, sources, failureUntil, verifies>>

BudgetNext ==
    \/ BudgetTick
    \/ \E v \in Verifiers : Verified(v) \/ \E x \in Sources : ClaimTurn(v, x)

-----------------------------------------------------------------------------
(* Properties.                                                             *)

\* What the budget counts is what is under way, in all and for each source,
\* whatever was evicted meanwhile: nothing is given back twice or to a source
\* that was forgotten, and the table of sources stays within its capacity.
BudgetBalanced ==
    /\ inUse = Cardinality({v \in Verifiers : verifies[v] # NoSource})
    /\ \A x \in Sources : sources[x].used = Cardinality({v \in Verifiers : verifies[v] = x})
    /\ Cardinality(KnownSources) =< Capacity
=============================================================================
