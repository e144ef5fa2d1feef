---------------------------- MODULE RulesProofs -----------------------------
(* What the answers of Admission and of the audit's rules promise, proved    *)
(* for every selection, fleet, history, set of roles, manifest and reading   *)
(* of a cluster: AccessSound is an invariant of AccessSpec, AuditRulesSound  *)
(* one of AuditRulesSpec.                                                    *)
(*                                                                           *)
(* The bench asks one question at a time, so the invariants are not about    *)
(* how questions follow each other: each part of them is a fact about the    *)
(* operators, for every question the constants allow.  Most of them need     *)
(* counting (how many questions stand before a row's, how many replicas a    *)
(* domain is dealt) or the least of a set of numbers.                        *)
EXTENDS Admission, AuditCorpus, FiniteSetTheorems, TLAPS

-----------------------------------------------------------------------------
(* Numbers and sets.                                                         *)

\* A set of numbers has a least one.
LEMMA NatLeast ==
  ASSUME NEW S, S \subseteq Nat, S # {}
  PROVE  \E m \in S : \A n \in S : m =< n
<1> DEFINE Before(x) == {y \in S : y < x}
           T == {Before(x) : x \in S}
<1>1. IsWellFoundedOn(StrictSubsetOrdering(S), FiniteSubsetsOf(S))
  BY FS_StrictSubsetOrderingWellFounded
<1>2. ASSUME NEW x \in S PROVE IsFiniteSet(Before(x)) /\ Before(x) \subseteq S
  <2>1. Before(x) \in SUBSET Nat /\ x \in Nat
    OBVIOUS
  <2>3. \A y \in Before(x) : y =< x
    BY <2>1
  <2>2. IsFiniteSet(Before(x))
    <3> HIDE DEF Before
    <3> QED BY <2>1, <2>3, FS_BoundedSetOfNaturals
  <2> QED BY <2>2
<1>3. T \subseteq FiniteSubsetsOf(S) /\ T # {}
  BY <1>2 DEF FiniteSubsetsOf
<1>4. PICK x \in S : \A y \in S : ~ (<<Before(y), Before(x)>> \in StrictSubsetOrdering(S))
  <2>1. \E X \in T : \A Y \in T : ~ (<<Y, X>> \in StrictSubsetOrdering(S))
    <3> HIDE DEF T
    <3> QED BY <1>1, <1>3, WFMin
  <2> QED BY <2>1
<1>5. ASSUME NEW y \in S, y < x PROVE FALSE
  <2>1. (\A z \in S : z < y => z < x) /\ ~ (y < y)
    BY <1>5
  <2>2. Before(y) \subseteq Before(x) /\ y \in Before(x) /\ y \notin Before(y)
    BY <1>5, <2>1, Zenon
  <2>3. <<Before(y), Before(x)>> \in StrictSubsetOrdering(S)
    BY <2>2 DEF StrictSubsetOrdering
  <2> QED BY <1>4, <2>3
<1>6. \A n \in S : x =< n
  BY <1>5
<1> QED BY <1>6

\* The least number as CHOOSE finds it.
LEMMA LeastChosen ==
  ASSUME NEW S, S \subseteq Nat, S # {}
  PROVE  LET m == CHOOSE i \in S : \A j \in S : i =< j
         IN m \in S /\ \A j \in S : m =< j
BY NatLeast

-----------------------------------------------------------------------------
(* Requests and roles.                                                       *)

\* A page of another site that wants something changed or opened is refused.
LEMMA ForeignRefused ==
  ASSUME NEW r, NEW publicURL, r.upgrade => r.method = "GET" /\ r.dest = "empty"
  PROVE  r.from \in {"foreign", "opaque"} /\ (r.method = "POST" \/ Upgrading(r))
           => AdmitLocal(r) # 200 /\ AdmitServed(r, publicURL) # 200
<1> SUFFICES ASSUME r.from \in {"foreign", "opaque"}, r.method = "POST" \/ Upgrading(r)
             PROVE  AdmitLocal(r) # 200 /\ AdmitServed(r, publicURL) # 200
  OBVIOUS
<1>1. r.method = "POST" \/ (r.method = "GET" /\ r.upgrade)
  BY Zenon DEF Upgrading
<1>2. Origin(r) = IF r.from = "opaque" THEN "null" ELSE "foreign"
  BY <1>1 DEF Origin, Navigates
<1>3. FetchSite(r) # "same-origin"
  BY DEF FetchSite
<1>4. ~ FromOurPage(r)
  BY <1>2, <1>3 DEF FromOurPage, NullIsOurs, AllowedOrigin
<1>5. ~ OwnAddress(r, publicURL)
  BY <1>2, <1>4 DEF OwnAddress
<1>6. ~ IsLocal(r)
  BY <1>4 DEF IsLocal
<1>7. AdmitLocal(r) = 403
  BY <1>6, Zenon DEF AdmitLocal
<1>8. AdmitServed(r, publicURL) = 403
  BY <1>5, Zenon DEF AdmitServed
<1> QED BY <1>7, <1>8

\* Whatever such a page asks for, nothing is changed for it.
LEMMA ForeignPages ==
  ASSUME AskRequest PROVE ForeignPagesChangeNothing'
<1>1. PICK from \in Sites, method \in {"GET", "POST"}, dest \in {"document", "empty"}, modern \in BOOLEAN,
            upgrade \in BOOLEAN, loopback \in BOOLEAN, public \in BOOLEAN,
            path \in {"asset", "feed", "exec", "object", "login", "logout", "index"},
            header \in Tokens, query \in Tokens, cookie \in Tokens :
        /\ upgrade => method = "GET" /\ dest = "empty"
        /\ ask' = [about |-> "admission.request", publicURL |-> public,
            r |-> [from |-> from, method |-> method, dest |-> dest, modern |-> modern, upgrade |-> upgrade,
                   loopback |-> loopback, path |-> path, header |-> header, query |-> query, cookie |-> cookie,
                   role |-> IF cookie = "good" THEN "viewer" ELSE "nobody"]]
  BY Zenon DEF AskRequest, Put
<1>2. ask'.r.upgrade => ask'.r.method = "GET" /\ ask'.r.dest = "empty"
  BY <1>1
<1>3. PICK r, publicURL : r = ask'.r /\ publicURL = ask'.publicURL
  OBVIOUS
<1>4. r.upgrade => r.method = "GET" /\ r.dest = "empty"
  BY <1>2, <1>3
<1>5. r.from \in {"foreign", "opaque"} /\ (r.method = "POST" \/ Upgrading(r))
        => AdmitLocal(r) # 200 /\ AdmitServed(r, publicURL) # 200
  BY <1>4, ForeignRefused
<1> QED BY <1>3, <1>5 DEF ForeignPagesChangeNothing

\* The strongest of the groups somebody is in decides.
LEMMA Strongest ==
  ASSUME AskGroups PROVE StrongestGroupWins'
<1>1. PICK admin \in SUBSET Groups, editor \in SUBSET Groups, viewer \in SUBSET Groups, held \in SUBSET Groups,
            fallback \in {"viewer", "editor", "admin"} :
        ask' = [about |-> "admission.role", groups |-> [admin |-> admin, editor |-> editor, viewer |-> viewer],
                held |-> held, fallback |-> fallback]
  BY DEF AskGroups, Put
<1>2. PICK groups : groups = [admin |-> admin, editor |-> editor, viewer |-> viewer]
  OBVIOUS
<1> DEFINE given == {role \in {"viewer", "editor", "admin"} : held \cap groups[role] # {}}
           role == ForGroups(groups, fallback, held)
<1>3. SUFFICES IF given = {} THEN role = fallback
               ELSE role \in given /\ \A other \in given : Strength(other) =< Strength(role)
  BY <1>1, <1>2 DEF StrongestGroupWins
<1>4. /\ "admin" \in given <=> held \cap admin # {}
      /\ "editor" \in given <=> held \cap editor # {}
      /\ "viewer" \in given <=> held \cap viewer # {}
      /\ given \subseteq {"viewer", "editor", "admin"}
  BY <1>2
<1>5. NamesGroups(groups) <=> admin \cup editor \cup viewer # {}
  BY <1>2 DEF NamesGroups
<1>6. role = CASE ~ NamesGroups(groups) -> fallback
    [] NamesGroups(groups) /\ held \cap admin # {} -> "admin"
    [] NamesGroups(groups) /\ held \cap admin = {} /\ held \cap editor # {} -> "editor"
    [] NamesGroups(groups) /\ held \cap (admin \cup editor) = {} /\ held \cap viewer # {} -> "viewer"
    [] OTHER -> fallback
  BY <1>2 DEF ForGroups
<1>7. Strength("viewer") = 1 /\ Strength("editor") = 2 /\ Strength("admin") = 3
  BY DEF Strength
<1> HIDE DEF given, role
<1>8. CASE held \cap admin # {}
  <2>1. role = "admin"
    BY <1>5, <1>6, <1>8
  <2> QED BY <1>4, <1>7, <1>8, <2>1
<1>9. CASE held \cap admin = {} /\ held \cap editor # {}
  <2>1. role = "editor"
    BY <1>5, <1>6, <1>9
  <2> QED BY <1>4, <1>7, <1>9, <2>1
<1>10. CASE held \cap admin = {} /\ held \cap editor = {} /\ held \cap viewer # {}
  <2>1. role = "viewer"
    BY <1>5, <1>6, <1>10
  <2> QED BY <1>4, <1>7, <1>10, <2>1
<1>11. CASE held \cap admin = {} /\ held \cap editor = {} /\ held \cap viewer = {}
  <2>1. role = fallback
    BY <1>6, <1>11
  <2> QED BY <1>4, <1>11, <2>1
<1> QED BY <1>8, <1>9, <1>10, <1>11

-----------------------------------------------------------------------------
(* Whole pages.                                                              *)

\* All is said to be allowed only when all of it is.
LEMMA DecidedYes ==
  ASSUME NEW standing, Decide(ReviewAnswers(standing, Everywhere)) = "yes"
  PROVE  MayList(standing)
<1> DEFINE A == ReviewAnswers(standing, Everywhere)
<1>1. "no" \notin A /\ "unsaid" \notin A
  <2>1. CASE "no" \in A
    BY <2>1, Zenon DEF Decide
  <2>2. CASE "no" \notin A /\ "unsaid" \in A
    <3>1. Decide(A) = "unsaid"
      BY <2>2, Zenon DEF Decide
    <3> QED BY <3>1
  <2> QED BY <2>1, <2>2
<1>2. ASSUME NEW c \in ListChecks PROVE <<Everywhere, c>> \in standing.may
  <2> DEFINE a == IF <<Everywhere, c>> \notin standing.heard THEN "unsaid"
                  ELSE IF <<Everywhere, c>> \in standing.may THEN "yes" ELSE "no"
  <2>1. a \in A
    BY Zenon DEF ReviewAnswers
  <2> QED BY <1>1, <2>1
<1> QED BY <1>2 DEF MayList

\* A plain no is somebody's answer to one of the questions.
LEMMA DecidedNo ==
  ASSUME NEW standing, Decide(ReviewAnswers(standing, Everywhere)) = "no"
  PROVE  \E c \in ListChecks : <<Everywhere, c>> \in standing.heard \ standing.may
<1> DEFINE A == ReviewAnswers(standing, Everywhere)
<1>1. "no" \in A
  <2>1. CASE "no" \notin A /\ ("unsaid" \in A \/ A = {})
    <3>1. Decide(A) = "unsaid"
      BY <2>1, Zenon DEF Decide
    <3> QED BY <3>1
  <2>2. CASE "no" \notin A /\ "unsaid" \notin A /\ A # {}
    <3>1. Decide(A) = "yes"
      BY <2>2, Zenon DEF Decide
    <3> QED BY <3>1
  <2> QED BY <2>1, <2>2
<1>2. PICK c \in ListChecks :
        "no" = IF <<Everywhere, c>> \notin standing.heard THEN "unsaid"
               ELSE IF <<Everywhere, c>> \in standing.may THEN "yes" ELSE "no"
  BY <1>1 DEF ReviewAnswers
<1> QED BY <1>2

\* A scope is refused unless it is everywhere, and never with what stands for
\* an answer.
LEMMA RefusalKinds ==
  ASSUME NEW scope
  PROVE  /\ Refusal(scope) \in {0, 403, 503}
         /\ Refusal(scope) = 0 => scope.everywhere
<1>1. CASE scope.everywhere
  <2>1. Refusal(scope) = 0
    BY <1>1, Zenon DEF Refusal
  <2> QED BY <1>1, <2>1
<1>2. CASE ~ scope.everywhere /\ scope.namespaces = {} /\ scope.undecided # {}
  <2>1. Refusal(scope) = 503
    BY <1>2, Zenon DEF Refusal
  <2> QED BY <2>1
<1>3. CASE ~ scope.everywhere /\ ~ (scope.namespaces = {} /\ scope.undecided # {})
  <2>1. Refusal(scope) = 403
    BY <1>3, ZenonT(30) DEF Refusal
  <2> QED BY <2>1
<1> QED BY <1>1, <1>2, <1>3

\* The fleet is shown when none of its clusters refuses.
LEMMA FleetRefusalKinds ==
  ASSUME NEW n \in Nat, NEW scopes, DOMAIN scopes = 1 .. n
  PROVE  /\ FleetRefusal(scopes) \in {0, 403, 503}
         /\ FleetRefusal(scopes) = 0 => \A i \in 1 .. n : scopes[i].everywhere
<1> DEFINE refused == {i \in DOMAIN scopes : Refusal(scopes[i]) # 0}
<1>1. CASE refused = {}
  <2>1. FleetRefusal(scopes) = 0
    BY <1>1 DEF FleetRefusal
  <2> QED BY <1>1, <2>1, RefusalKinds
<1>2. CASE refused # {}
  <2>1. refused \subseteq Nat
    OBVIOUS
  <2>2. PICK m : m = CHOOSE i \in refused : \A j \in refused : i =< j
    OBVIOUS
  <2>3. m \in refused
    <3> HIDE DEF refused
    <3> QED BY <1>2, <2>1, <2>2, LeastChosen
  <2>4. FleetRefusal(scopes) = Refusal(scopes[m])
    BY <1>2, <2>2, Zenon DEF FleetRefusal
  <2>5. Refusal(scopes[m]) # 0
    BY <2>3
  <2> QED BY <2>4, <2>5, RefusalKinds
<1> QED BY <1>1, <1>2

\* A page that is served to somebody was not refused for what it shows.
LEMMA PermittedIsWhole ==
  ASSUME NEW n \in Nat, NEW scopes, DOMAIN scopes = 1 .. n, NEW path, NEW role,
         Permitted(path, TRUE, role, scopes) = 200
  PROVE  WholeRefusal(path, scopes) = 0
<1>1. WholeRefusal(path, scopes) \in {0, 403, 503}
  <2>1. CASE NeedsWholeFleet(path)
    <3>1. WholeRefusal(path, scopes) = FleetRefusal(scopes)
      BY <2>1, Zenon DEF WholeRefusal
    <3> QED BY <3>1, FleetRefusalKinds
  <2>2. CASE ~ NeedsWholeFleet(path) /\ NeedsWholeCluster(path) /\ scopes # <<>>
    <3>1. WholeRefusal(path, scopes) = Refusal(scopes[1])
      BY <2>2, Zenon DEF WholeRefusal
    <3> QED BY <3>1, RefusalKinds
  <2>3. CASE ~ NeedsWholeFleet(path) /\ ~ (NeedsWholeCluster(path) /\ scopes # <<>>)
    <3>1. WholeRefusal(path, scopes) = 0
      BY <2>3, Zenon DEF WholeRefusal
    <3> QED BY <3>1
  <2> QED BY <2>1, <2>2, <2>3
<1>5. PICK status : status = Permitted(path, TRUE, role, scopes)
  OBVIOUS
<1>6. status = 200
  BY <1>5, Zenon
<1>2. CASE OnlyWhenLocal(path)
  <2>1. status = 403
    BY <1>2, <1>5, Zenon DEF Permitted
  <2> QED BY <1>6, <2>1
<1>3. CASE ~ OnlyWhenLocal(path) /\ ~ Allows(role, NeededRole(path))
  <2>1. status = 403
    BY <1>3, <1>5, Zenon DEF Permitted
  <2> QED BY <1>6, <2>1
<1>4. CASE ~ OnlyWhenLocal(path) /\ Allows(role, NeededRole(path)) /\ WholeRefusal(path, scopes) # 0
  <2>1. status = WholeRefusal(path, scopes)
    BY <1>4, <1>5, Zenon DEF Permitted
  <2> QED BY <1>1, <1>6, <2>1
<1> QED BY <1>2, <1>3, <1>4

\* Who sees the whole may list the whole, in every cluster it is of.
LEMMA WholePages ==
  ASSUME AskRoute PROVE WholePagesForWholeReaders'
<1> DEFINE fleet == ask'.fleet
           path == ask'.path
           role == ask'.role
<1>1. fleet \in Fleets
  BY DEF AskRoute, Put
<1> DEFINE In(i, place) == ReviewAnswers(fleet[i], place)
           Spaces(i) == [s \in Namespaces |-> In(i, s)]
           scopes == [i \in DOMAIN fleet |-> Scope(TRUE, In(i, Everywhere), Namespaces, Spaces(i))]
<1>2. SUFFICES ASSUME fleet # <<>>
               PROVE  /\ \A i \in DOMAIN fleet :
                           \/ OwnScope(In(i, Everywhere), Namespaces, Spaces(i)).everywhere
                           \/ \E c \in ListChecks : <<Everywhere, c>> \in fleet[i].heard \ fleet[i].may
                      /\ Permitted(path, TRUE, role, scopes) = 200 =>
                           /\ NeedsWholeCluster(path) => MayList(fleet[1])
                           /\ NeedsWholeFleet(path) => \A i \in DOMAIN fleet : MayList(fleet[i])
  BY Zenon DEF WholePagesForWholeReaders, WholeForWhole
<1> HIDE DEF fleet, path, role
<1>3. fleet \in Seq(Standing) /\ Len(fleet) \in Nat /\ DOMAIN fleet = 1 .. Len(fleet) /\ 1 \in DOMAIN fleet
  BY <1>1, <1>2, FleetAssumption
<1>4. ASSUME NEW i \in DOMAIN fleet, ~ OwnScope(In(i, Everywhere), Namespaces, Spaces(i)).everywhere
      PROVE  \E c \in ListChecks : <<Everywhere, c>> \in fleet[i].heard \ fleet[i].may
  <2>1. Decide(ReviewAnswers(fleet[i], Everywhere)) = "no"
    BY <1>4 DEF OwnScope
  <2> QED BY <2>1, DecidedNo
<1>5. ASSUME NEW i \in DOMAIN fleet, scopes[i].everywhere
      PROVE  MayList(fleet[i])
  <2>1. scopes[i] = Scope(TRUE, In(i, Everywhere), Namespaces, Spaces(i))
    OBVIOUS
  <2>2. Decide(ReviewAnswers(fleet[i], Everywhere)) = "yes"
    BY <1>5, <2>1 DEF Scope, Where
  <2> QED BY <2>2, DecidedYes
<1>6. DOMAIN scopes = 1 .. Len(fleet)
  BY <1>3
<1>7. ASSUME Permitted(path, TRUE, role, scopes) = 200
      PROVE  /\ NeedsWholeCluster(path) => MayList(fleet[1])
             /\ NeedsWholeFleet(path) => \A i \in DOMAIN fleet : MayList(fleet[i])
  <2> HIDE DEF scopes
  <2>1. WholeRefusal(path, scopes) = 0
    BY <1>3, <1>6, <1>7, PermittedIsWhole
  <2>2. CASE NeedsWholeFleet(path)
    <3>1. FleetRefusal(scopes) = 0
      BY <2>1, <2>2, Zenon DEF WholeRefusal
    <3>2. \A i \in 1 .. Len(fleet) : scopes[i].everywhere
      BY <1>3, <1>6, <3>1, FleetRefusalKinds
    <3> QED BY <1>3, <1>5, <3>2
  <2>3. CASE ~ NeedsWholeFleet(path) /\ NeedsWholeCluster(path)
    <3>1. scopes # <<>>
      BY <1>3, <1>6
    <3>2. Refusal(scopes[1]) = 0
      BY <2>1, <2>3, <3>1, Zenon DEF WholeRefusal
    <3> QED BY <1>3, <1>5, <2>3, <3>2, RefusalKinds
  <2> QED BY <2>2, <2>3
<1> QED BY <1>4, <1>7

-----------------------------------------------------------------------------
(* One list of questions for many rows.                                      *)

Rows(wanted, n) == DOMAIN wanted = 1 .. n /\ \A i \in 1 .. n : wanted[i] \in Seq(CheckVerbs)

\* The questions of a row.
LEMMA OwnQuestions ==
  ASSUME NEW n \in Nat, NEW wanted, Rows(wanted, n), NEW i \in 1 .. n
  PROVE  LET own == {i} \X DOMAIN wanted[i]
         IN /\ Len(wanted[i]) \in Nat /\ DOMAIN wanted[i] = 1 .. Len(wanted[i])
            /\ IsFiniteSet(own) /\ Cardinality(own) = Len(wanted[i]) /\ own \subseteq Asked(wanted)
<1>1. wanted[i] \in Seq(CheckVerbs)
  BY DEF Rows
<1>2. PICK m : m = Len(wanted[i])
  OBVIOUS
<1>3. m \in Nat /\ DOMAIN wanted[i] = 1 .. m
  BY <1>1, <1>2
<1>4. IsFiniteSet({i}) /\ Cardinality({i}) = 1
  BY FS_Singleton
<1>5. IsFiniteSet(1 .. m) /\ Cardinality(1 .. m) = m
  <2>1. IsFiniteSet(1 .. m) /\ Cardinality(1 .. m) = IF 1 > m THEN 0 ELSE m - 1 + 1
    BY <1>3, FS_Interval
  <2> QED BY <1>3, <2>1
<1>6. IsFiniteSet({i} \X (1 .. m)) /\ Cardinality({i} \X (1 .. m)) = 1 * m
  BY <1>4, <1>5, FS_Product, ZenonT(30)
<1>7. {i} \X DOMAIN wanted[i] \subseteq Asked(wanted)
  BY DEF Asked, Rows
<1> QED BY <1>2, <1>3, <1>6, <1>7

\* There are finitely many questions, each of a row and a place in it.
LEMMA AskedFinite ==
  ASSUME NEW n \in Nat, NEW wanted, Rows(wanted, n)
  PROVE  /\ IsFiniteSet(Asked(wanted))
         /\ \A q \in Asked(wanted) :
              /\ q[1] \in 1 .. n /\ q[2] \in 1 .. Len(wanted[q[1]]) /\ q = <<q[1], q[2]>>
              /\ Len(wanted[q[1]]) \in Nat
<1> DEFINE own == [i \in 1 .. n |-> {i} \X DOMAIN wanted[i]]
           all == {{i} \X DOMAIN wanted[i] : i \in 1 .. n}
<1>1. \A i \in 1 .. n : IsFiniteSet(own[i]) /\ DOMAIN wanted[i] = 1 .. Len(wanted[i]) /\ Len(wanted[i]) \in Nat
  BY OwnQuestions
<1>2. own \in Surjection(1 .. n, all)
  BY DEF Surjection
<1>3. IsFiniteSet(1 .. n)
  BY FS_Interval
<1>4. IsFiniteSet(all)
  <2> HIDE DEF own, all
  <2> QED BY <1>2, <1>3, FS_Surjection
<1>5. \A T \in all : IsFiniteSet(T)
  BY <1>1
<1>6. IsFiniteSet(UNION all)
  <2> HIDE DEF all
  <2> QED BY <1>4, <1>5, FS_UNION
<1>7. Asked(wanted) = UNION all
  BY DEF Asked, Rows
<1>8. ASSUME NEW q \in Asked(wanted)
      PROVE  q[1] \in 1 .. n /\ q[2] \in 1 .. Len(wanted[q[1]]) /\ q = <<q[1], q[2]>> /\ Len(wanted[q[1]]) \in Nat
  <2>1. PICK i \in 1 .. n : q \in {i} \X DOMAIN wanted[i]
    BY <1>7, <1>8
  <2>2. q[1] = i /\ q[2] \in DOMAIN wanted[i] /\ q = <<q[1], q[2]>>
    BY <2>1
  <2> QED BY <1>1, <2>1, <2>2
<1> QED BY <1>6, <1>7, <1>8

\* The questions of a row stand in the list before those of the next rows.
LEMMA StartsInOrder ==
  ASSUME NEW n \in Nat, NEW wanted, Rows(wanted, n), NEW i \in 1 .. n
  PROVE  /\ StartsAt(wanted, i) \in Nat
         /\ StartsAt(wanted, i) + Len(wanted[i]) =< Cardinality(Asked(wanted))
         /\ \A k \in 1 .. n : i < k => StartsAt(wanted, i) + Len(wanted[i]) =< StartsAt(wanted, k)
<1> DEFINE before(k) == {q \in Asked(wanted) : q[1] < k}
           own == {i} \X DOMAIN wanted[i]
<1>1. IsFiniteSet(Asked(wanted)) /\ \A q \in Asked(wanted) : q[1] \in 1 .. n
  BY AskedFinite
<1>2. IsFiniteSet(own) /\ Cardinality(own) = Len(wanted[i]) /\ own \subseteq Asked(wanted) /\ Len(wanted[i]) \in Nat
  BY OwnQuestions
<1>3. \A k : IsFiniteSet(before(k)) /\ before(k) \subseteq Asked(wanted)
  BY <1>1, FS_Subset
<1>4. \A k : Cardinality(before(k)) \in Nat
  <2> HIDE DEF before
  <2> QED BY <1>3, FS_CardinalityType
<1>5. before(i) \cap own = {}
  <2> SUFFICES ASSUME NEW q \in before(i), q \in own PROVE FALSE
    OBVIOUS
  <2>1. q[1] = i /\ q[1] < i
    OBVIOUS
  <2> QED BY <2>1
<1>6. IsFiniteSet(before(i) \cup own) /\ Cardinality(before(i) \cup own) = Cardinality(before(i)) + Len(wanted[i])
  <2>1. Cardinality(before(i) \cap own) = 0
    BY <1>5, FS_EmptySet
  <2>2. IsFiniteSet(before(i))
    BY <1>3
  <2>3. /\ IsFiniteSet(before(i) \cup own)
        /\ Cardinality(before(i) \cup own) = Cardinality(before(i)) + Cardinality(own) - Cardinality(before(i) \cap own)
    <3> HIDE DEF before, own
    <3> QED BY <1>2, <2>2, FS_Union
  <2>4. Cardinality(before(i)) \in Nat
    BY <1>4
  <2> HIDE DEF before, own
  <2> QED BY <1>2, <2>1, <2>3, <2>4
<1>7. Cardinality(before(i) \cup own) =< Cardinality(Asked(wanted))
  <2>1. before(i) \cup own \in SUBSET Asked(wanted)
    BY <1>2
  <2> HIDE DEF before, own
  <2> QED BY <1>1, <2>1, FS_Subset
<1>8. ASSUME NEW k \in 1 .. n, i < k
      PROVE  Cardinality(before(i) \cup own) =< Cardinality(before(k))
  <2>1. before(i) \cup own \in SUBSET before(k)
    <3>1. ASSUME NEW q \in before(i) PROVE q \in before(k)
      <4>1. q \in Asked(wanted) /\ q[1] \in 1 .. n /\ q[1] < i
        BY <1>1
      <4> QED BY <1>8, <4>1
    <3>2. ASSUME NEW q \in own PROVE q \in before(k)
      <4>1. q \in Asked(wanted) /\ q[1] = i
        BY <1>2
      <4> QED BY <1>8, <4>1
    <3> QED BY <3>1, <3>2
  <2>2. IsFiniteSet(before(k))
    BY <1>3
  <2> HIDE DEF before, own
  <2> QED BY <2>1, <2>2, FS_Subset
<1>9. StartsAt(wanted, i) = Cardinality(before(i)) /\ \A k : StartsAt(wanted, k) = Cardinality(before(k))
  BY DEF StartsAt
<1>10. Cardinality(before(i)) \in Nat
  BY <1>4
<1> HIDE DEF before, own
<1> QED BY <1>6, <1>7, <1>8, <1>9, <1>10

\* No two questions have the same place in the list.
LEMMA StartsOnce ==
  ASSUME NEW n \in Nat, NEW wanted, Rows(wanted, n), NEW q \in Asked(wanted), NEW r \in Asked(wanted),
         StartsAt(wanted, q[1]) + q[2] = StartsAt(wanted, r[1]) + r[2]
  PROVE  q = r
<1>1. /\ q[1] \in 1 .. n /\ q[2] \in 1 .. Len(wanted[q[1]]) /\ q = <<q[1], q[2]>> /\ Len(wanted[q[1]]) \in Nat
      /\ r[1] \in 1 .. n /\ r[2] \in 1 .. Len(wanted[r[1]]) /\ r = <<r[1], r[2]>> /\ Len(wanted[r[1]]) \in Nat
  BY AskedFinite
<1>2. StartsAt(wanted, q[1]) \in Nat /\ StartsAt(wanted, r[1]) \in Nat
  BY <1>1, StartsInOrder
<1>3. ~ (q[1] < r[1])
  <2> SUFFICES ASSUME q[1] < r[1] PROVE FALSE
    OBVIOUS
  <2>1. StartsAt(wanted, q[1]) + Len(wanted[q[1]]) =< StartsAt(wanted, r[1])
    BY <1>1, StartsInOrder
  <2> QED BY <1>1, <1>2, <2>1
<1>4. ~ (r[1] < q[1])
  <2> SUFFICES ASSUME r[1] < q[1] PROVE FALSE
    OBVIOUS
  <2>1. StartsAt(wanted, r[1]) + Len(wanted[r[1]]) =< StartsAt(wanted, q[1])
    BY <1>1, StartsInOrder
  <2> QED BY <1>1, <1>2, <2>1
<1>5. q[1] = r[1]
  BY <1>1, <1>3, <1>4
<1>6. q[2] = r[2]
  BY <1>1, <1>2, <1>5
<1> QED BY <1>1, <1>5, <1>6

\* The rows that are stopped are those with an answer of their own that is not
\* a yes.
LEMMA StoppedByTheirOwn ==
  ASSUME NEW n \in Nat, NEW wanted, Rows(wanted, n), NEW said
  PROVE  Stopped(wanted, said) = {i \in 1 .. n : \E j \in DOMAIN wanted[i] : said[<<i, j>>] # "yes"}
<1> DEFINE at == [i \in DOMAIN wanted |-> StartsAt(wanted, i)]
           there(p) == CHOOSE q \in Asked(wanted) : at[q[1]] + q[2] = p
           total == Cardinality(Asked(wanted))
           decisions == [p \in 1 .. total |-> said[there(p)]]
<1>1. DOMAIN wanted = 1 .. n
  BY DEF Rows
<1>2. Stopped(wanted, said) = {i \in 1 .. n : \E j \in DOMAIN wanted[i] : decisions[at[i] + j] # "yes"}
  BY <1>1 DEF Stopped, Decisions, Bounds
<1>3. ASSUME NEW i \in 1 .. n, NEW j \in DOMAIN wanted[i]
      PROVE  decisions[at[i] + j] = said[<<i, j>>]
  <2>1. Len(wanted[i]) \in Nat /\ DOMAIN wanted[i] = 1 .. Len(wanted[i])
    BY OwnQuestions
  <2>2. StartsAt(wanted, i) \in Nat /\ StartsAt(wanted, i) + Len(wanted[i]) =< Cardinality(Asked(wanted))
    BY StartsInOrder
  <2>3. at[i] = StartsAt(wanted, i)
    BY <1>1
  <2>4. total \in Nat
    BY AskedFinite, FS_CardinalityType
  <2>5. at[i] + j \in 1 .. total
    BY <2>1, <2>2, <2>3, <2>4
  <2>6. <<i, j>> \in Asked(wanted)
    BY <1>1 DEF Asked
  <2>7. PICK q : q = there(at[i] + j)
    OBVIOUS
  <2>8. q \in Asked(wanted) /\ at[q[1]] + q[2] = at[i] + j
    <3>1. at[<<i, j>>[1]] + <<i, j>>[2] = at[i] + j
      OBVIOUS
    <3> HIDE DEF at
    <3> QED BY <2>6, <2>7, <3>1, Zenon
  <2>9. q[1] \in 1 .. n
    BY <2>8, AskedFinite
  <2>10. StartsAt(wanted, q[1]) + q[2] = StartsAt(wanted, <<i, j>>[1]) + <<i, j>>[2]
    BY <1>1, <2>3, <2>8, <2>9
  <2>11. q = <<i, j>>
    BY <2>6, <2>8, <2>10, StartsOnce
  <2> QED BY <2>5, <2>7, <2>11
<1> HIDE DEF decisions, at
<1> QED BY <1>2, <1>3

-----------------------------------------------------------------------------
(* Capabilities.                                                             *)

ButtonNames == {"edit", "delete", "scale", "restart", "undo", "reconcile", "suspend", "trigger", "cordon", "drain",
                "logs", "exec", "portForward"}
Capability == [name : ButtonNames, checks : Seq(CheckVerbs)]

Lists(held, c) == \E i \in DOMAIN held : held[i] = c

\* What is appended is listed, and what was there still is.
LEMMA ListsJoined ==
  ASSUME NEW s \in Seq(Capability), NEW t \in Seq(Capability)
  PROVE  /\ s \o t \in Seq(Capability)
         /\ \A c : Lists(s, c) \/ Lists(t, c) => Lists(s \o t, c)
<1>1. s \o t \in Seq(Capability) /\ Len(s \o t) = Len(s) + Len(t) /\ Len(s) \in Nat /\ Len(t) \in Nat
  OBVIOUS
<1>2. ASSUME NEW i \in DOMAIN s PROVE i \in DOMAIN (s \o t) /\ (s \o t)[i] = s[i]
  OBVIOUS
<1>3. ASSUME NEW i \in DOMAIN t PROVE Len(s) + i \in DOMAIN (s \o t) /\ (s \o t)[Len(s) + i] = t[i]
  OBVIOUS
<1> QED BY <1>1, <1>2, <1>3 DEF Lists

\* One capability in a list of its own.
LEMMA NeedsListed ==
  ASSUME NEW name \in ButtonNames, NEW checks \in Seq(CheckVerbs)
  PROVE  /\ Needs(name, checks) \in Seq(Capability)
         /\ Lists(Needs(name, checks), [name |-> name, checks |-> checks])
<1>1. [name |-> name, checks |-> checks] \in Capability
  BY DEF Capability
<1>2. PICK c \in Capability : c = [name |-> name, checks |-> checks]
  BY <1>1
<1>3. <<c>> \in Seq(Capability) /\ 1 \in DOMAIN <<c>> /\ <<c>>[1] = c
  OBVIOUS
<1> QED BY <1>2, <1>3 DEF Needs, Lists

\* The same, with one check.
LEMMA NeedsOne ==
  ASSUME NEW name \in ButtonNames, NEW x \in CheckVerbs
  PROVE  /\ Needs(name, <<x>>) \in Seq(Capability)
         /\ Lists(Needs(name, <<x>>), [name |-> name, checks |-> <<x>>])
<1>1. <<x>> \in Seq(CheckVerbs)
  OBVIOUS
<1> QED BY <1>1, NeedsListed

\* The same, with two checks.
LEMMA NeedsTwo ==
  ASSUME NEW name \in ButtonNames, NEW x \in CheckVerbs, NEW y \in CheckVerbs
  PROVE  /\ Needs(name, <<x, y>>) \in Seq(Capability)
         /\ Lists(Needs(name, <<x, y>>), [name |-> name, checks |-> <<x, y>>])
<1>1. <<x, y>> \in Seq(CheckVerbs)
  OBVIOUS
<1> QED BY <1>1, NeedsListed

\* The buttons of a kind, with the checks each takes.
LEMMA CapabilitiesListed ==
  ASSUME NEW kind
  PROVE  LET held == CapabilitiesFor(kind)
         IN /\ held \in Seq(Capability)
            /\ kind \in Scalable => Lists(held, [name |-> "scale", checks |-> <<"patch scale">>])
            /\ kind \in Restartable =>
                 /\ Lists(held, [name |-> "restart", checks |-> <<"patch">>])
                 /\ Lists(held, [name |-> "undo", checks |-> <<"patch", "list history">>])
            /\ kind = "cronjobs" =>
                 /\ Lists(held, [name |-> "suspend", checks |-> <<"patch">>])
                 /\ Lists(held, [name |-> "trigger", checks |-> <<"create jobs">>])
            /\ kind = "nodes" =>
                 /\ Lists(held, [name |-> "cordon", checks |-> <<"patch">>])
                 /\ Lists(held, [name |-> "drain", checks |-> <<"list pods", "patch">>])
<1> DEFINE scale == Needs("scale", <<"patch scale">>)
           restart == Needs("restart", <<"patch">>)
           undo == Needs("undo", <<"patch", "list history">>)
           suspend == Needs("suspend", <<"patch">>)
           trigger == Needs("trigger", <<"create jobs">>)
           cordon == Needs("cordon", <<"patch">>)
           drain == Needs("drain", <<"list pods", "patch">>)
           s1 == Needs("edit", <<"update">>) \o Needs("delete", <<"delete">>)
           p2 == Held(kind \in Scalable, scale)
           p3 == Held(kind \in Restartable, restart \o undo)
           p4 == Held(kind = "kustomizations", Needs("reconcile", <<"patch">>))
           p5 == Held(kind = "cronjobs", suspend \o trigger)
           p6 == Held(kind = "nodes", cordon \o drain)
           p7 == Held(kind = "pods", Needs("logs", <<"get log">>) \o Needs("exec", <<"create exec">>)
                                       \o Needs("portForward", <<"create portforward">>))
           p8 == Held(kind \in OwnsPods, Needs("logs", <<"get log">>))
           p9 == Held(kind = "services", Needs("portForward", <<"create portforward">>))
           s2 == s1 \o p2
           s3 == s2 \o p3
           s4 == s3 \o p4
           s5 == s4 \o p5
           s6 == s5 \o p6
           s7 == s6 \o p7
           s8 == s7 \o p8
           s9 == s8 \o p9
<1>1. /\ {"edit", "delete", "scale", "restart", "undo", "reconcile", "suspend", "trigger", "cordon", "drain", "logs",
          "exec", "portForward"} \subseteq ButtonNames
      /\ {"update", "delete", "patch", "patch scale", "list history", "create jobs", "list pods", "get log",
          "create exec", "create portforward"} \subseteq CheckVerbs
  BY DEF ButtonNames, CheckVerbs
<1>2. scale \in Seq(Capability) /\ Lists(scale, [name |-> "scale", checks |-> <<"patch scale">>])
  BY <1>1, NeedsOne
<1>3. restart \in Seq(Capability) /\ Lists(restart, [name |-> "restart", checks |-> <<"patch">>])
  BY <1>1, NeedsOne
<1>4. undo \in Seq(Capability) /\ Lists(undo, [name |-> "undo", checks |-> <<"patch", "list history">>])
  BY <1>1, NeedsTwo
<1>30. suspend \in Seq(Capability) /\ Lists(suspend, [name |-> "suspend", checks |-> <<"patch">>])
  BY <1>1, NeedsOne
<1>31. trigger \in Seq(Capability) /\ Lists(trigger, [name |-> "trigger", checks |-> <<"create jobs">>])
  BY <1>1, NeedsOne
<1>32. cordon \in Seq(Capability) /\ Lists(cordon, [name |-> "cordon", checks |-> <<"patch">>])
  BY <1>1, NeedsOne
<1>33. drain \in Seq(Capability) /\ Lists(drain, [name |-> "drain", checks |-> <<"list pods", "patch">>])
  BY <1>1, NeedsTwo
<1>5. /\ Needs("edit", <<"update">>) \in Seq(Capability)
      /\ Needs("delete", <<"delete">>) \in Seq(Capability)
      /\ Needs("reconcile", <<"patch">>) \in Seq(Capability)
      /\ Needs("logs", <<"get log">>) \in Seq(Capability)
      /\ Needs("exec", <<"create exec">>) \in Seq(Capability)
      /\ Needs("portForward", <<"create portforward">>) \in Seq(Capability)
  BY <1>1, NeedsOne
<1>6. <<>> \in Seq(Capability)
  OBVIOUS
<1>7. s1 \in Seq(Capability) /\ p2 \in Seq(Capability) /\ (kind \in Scalable => p2 = scale)
  <2>1. s1 \in Seq(Capability)
    BY <1>5, ListsJoined
  <2> HIDE DEF scale
  <2>2. (kind \in Scalable => p2 = scale) /\ (kind \notin Scalable => p2 = <<>>)
    BY Zenon DEF Held
  <2> QED BY <1>2, <1>6, <2>1, <2>2, Zenon
<1>8. p3 \in Seq(Capability) /\ (kind \in Restartable => p3 = restart \o undo)
  <2> HIDE DEF restart, undo
  <2>1. restart \o undo \in Seq(Capability)
    BY <1>3, <1>4, ListsJoined
  <2>2. (kind \in Restartable => p3 = restart \o undo) /\ (kind \notin Restartable => p3 = <<>>)
    BY Zenon DEF Held
  <2> QED BY <1>6, <2>1, <2>2, Zenon
<1>9. p5 \in Seq(Capability) /\ (kind = "cronjobs" => p5 = suspend \o trigger)
  <2> HIDE DEF suspend, trigger
  <2>1. suspend \o trigger \in Seq(Capability)
    BY <1>30, <1>31, ListsJoined
  <2>2. (kind = "cronjobs" => p5 = suspend \o trigger) /\ (kind # "cronjobs" => p5 = <<>>)
    BY Zenon DEF Held
  <2> QED BY <1>6, <2>1, <2>2, Zenon
<1>10. p6 \in Seq(Capability) /\ (kind = "nodes" => p6 = cordon \o drain)
  <2> HIDE DEF cordon, drain
  <2>1. cordon \o drain \in Seq(Capability)
    BY <1>32, <1>33, ListsJoined
  <2>2. (kind = "nodes" => p6 = cordon \o drain) /\ (kind # "nodes" => p6 = <<>>)
    BY Zenon DEF Held
  <2> QED BY <1>6, <2>1, <2>2, Zenon
<1>11. p4 \in Seq(Capability) /\ p7 \in Seq(Capability) /\ p8 \in Seq(Capability) /\ p9 \in Seq(Capability)
  <2>1. Needs("logs", <<"get log">>) \o Needs("exec", <<"create exec">>) \in Seq(Capability)
    BY <1>5, ListsJoined
  <2>2. PICK lead \in Seq(Capability) : lead = Needs("logs", <<"get log">>) \o Needs("exec", <<"create exec">>)
    BY <2>1
  <2>3. PICK last \in Seq(Capability) : last = Needs("portForward", <<"create portforward">>)
    BY <1>5
  <2>4. lead \o last \in Seq(Capability)
    BY ListsJoined
  <2>5. p7 = lead \o last \/ p7 = <<>>
    BY <2>2, <2>3, Zenon DEF Held
  <2>6. p4 = Needs("reconcile", <<"patch">>) \/ p4 = <<>>
    BY Zenon DEF Held
  <2>7. p8 = Needs("logs", <<"get log">>) \/ p8 = <<>>
    BY Zenon DEF Held
  <2>8. p9 = last \/ p9 = <<>>
    BY <2>3, Zenon DEF Held
  <2> HIDE DEF p4, p7, p8, p9
  <2> QED BY <1>5, <1>6, <2>4, <2>5, <2>6, <2>7, <2>8, Zenon
<1>12. CapabilitiesFor(kind) = s9
  BY DEF CapabilitiesFor
<1> HIDE DEF scale, restart, undo, suspend, trigger, cordon, drain, s1, p2, p3, p4, p5, p6, p7, p8, p9
<1>14. s2 \in Seq(Capability) /\ \A c : Lists(s1, c) \/ Lists(p2, c) => Lists(s2, c)
  BY <1>7, ListsJoined
<1> HIDE DEF s2
<1>15. s3 \in Seq(Capability) /\ \A c : Lists(s2, c) \/ Lists(p3, c) => Lists(s3, c)
  BY <1>8, <1>14, ListsJoined
<1> HIDE DEF s3
<1>16. s4 \in Seq(Capability) /\ \A c : Lists(s3, c) \/ Lists(p4, c) => Lists(s4, c)
  BY <1>11, <1>15, ListsJoined
<1> HIDE DEF s4
<1>17. s5 \in Seq(Capability) /\ \A c : Lists(s4, c) \/ Lists(p5, c) => Lists(s5, c)
  BY <1>9, <1>16, ListsJoined
<1> HIDE DEF s5
<1>18. s6 \in Seq(Capability) /\ \A c : Lists(s5, c) \/ Lists(p6, c) => Lists(s6, c)
  BY <1>10, <1>17, ListsJoined
<1> HIDE DEF s6
<1>19. s7 \in Seq(Capability) /\ \A c : Lists(s6, c) \/ Lists(p7, c) => Lists(s7, c)
  BY <1>11, <1>18, ListsJoined
<1> HIDE DEF s7
<1>20. s8 \in Seq(Capability) /\ \A c : Lists(s7, c) \/ Lists(p8, c) => Lists(s8, c)
  BY <1>11, <1>19, ListsJoined
<1> HIDE DEF s8
<1>21. s9 \in Seq(Capability) /\ \A c : Lists(s8, c) \/ Lists(p9, c) => Lists(s9, c)
  BY <1>11, <1>20, ListsJoined
<1> HIDE DEF s9
<1>22. \A c : Lists(p2, c) \/ Lists(p3, c) \/ Lists(p5, c) \/ Lists(p6, c) => Lists(s9, c)
  BY <1>14, <1>15, <1>16, <1>17, <1>18, <1>19, <1>20, <1>21, Zenon
<1>23. kind \in Restartable =>
         /\ Lists(p3, [name |-> "restart", checks |-> <<"patch">>])
         /\ Lists(p3, [name |-> "undo", checks |-> <<"patch", "list history">>])
  BY <1>3, <1>4, <1>8, ListsJoined
<1>24. kind = "cronjobs" =>
         /\ Lists(p5, [name |-> "suspend", checks |-> <<"patch">>])
         /\ Lists(p5, [name |-> "trigger", checks |-> <<"create jobs">>])
  BY <1>30, <1>31, <1>9, ListsJoined
<1>25. kind = "nodes" =>
         /\ Lists(p6, [name |-> "cordon", checks |-> <<"patch">>])
         /\ Lists(p6, [name |-> "drain", checks |-> <<"list pods", "patch">>])
  BY <1>32, <1>33, <1>10, ListsJoined
<1>26. kind \in Scalable => Lists(p2, [name |-> "scale", checks |-> <<"patch scale">>])
  BY <1>2, <1>7
<1> QED BY <1>12, <1>21, <1>22, <1>23, <1>24, <1>25, <1>26, Zenon

\* A button that is refused has a check of its own that is denied.
LEMMA AnsweredByTheirOwn ==
  ASSUME NEW held \in Seq(Capability), NEW denied
  PROVE  AccessAnswer(held, denied)
           = {held[i].name : i \in {i \in DOMAIN held : ToSet(held[i].checks) \cap denied # {}}}
<1> DEFINE wanted == [i \in DOMAIN held |-> held[i].checks]
           said == [q \in Asked(wanted) |-> IF wanted[q[1]][q[2]] \in denied THEN "no" ELSE "yes"]
<1>0. Len(held) \in Nat /\ DOMAIN held = 1 .. Len(held) /\ \A i \in 1 .. Len(held) : held[i] \in Capability
  OBVIOUS
<1>1. Len(held) \in Nat /\ DOMAIN held = 1 .. Len(held) /\ \A i \in 1 .. Len(held) : held[i].checks \in Seq(CheckVerbs)
  BY <1>0 DEF Capability
<1>2. Rows(wanted, Len(held))
  BY <1>1 DEF Rows
<1>3. Stopped(wanted, said) = {i \in 1 .. Len(held) : \E j \in DOMAIN wanted[i] : said[<<i, j>>] # "yes"}
  <2> HIDE DEF wanted, said
  <2>1. PICK n \in Nat : n = Len(held)
    BY <1>1
  <2>2. Stopped(wanted, said) = {i \in 1 .. n : \E j \in DOMAIN wanted[i] : said[<<i, j>>] # "yes"}
    <3>1. PICK w, s : w = wanted /\ s = said
      OBVIOUS
    <3>2. Rows(w, n)
      BY <1>2, <2>1, <3>1
    <3>3. Stopped(w, s) = {i \in 1 .. n : \E j \in DOMAIN w[i] : s[<<i, j>>] # "yes"}
      BY <3>2, StoppedByTheirOwn
    <3> QED BY <3>1, <3>3
  <2> QED BY <2>1, <2>2
<1>4. ASSUME NEW i \in 1 .. Len(held)
      PROVE  (\E j \in DOMAIN wanted[i] : said[<<i, j>>] # "yes") <=> ToSet(held[i].checks) \cap denied # {}
  <2>1. wanted[i] = held[i].checks
    BY <1>1
  <2>2. ASSUME NEW j \in DOMAIN wanted[i]
        PROVE  said[<<i, j>>] # "yes" <=> held[i].checks[j] \in denied
    <3>1. <<i, j>> \in Asked(wanted)
      BY <1>1 DEF Asked
    <3> QED BY <2>1, <3>1
  <2>3. ToSet(held[i].checks) = {held[i].checks[j] : j \in DOMAIN wanted[i]}
    BY <2>1 DEF ToSet
  <2> HIDE DEF said, wanted
  <2> QED BY <2>2, <2>3
<1>5. Stopped(wanted, said) = {i \in DOMAIN held : ToSet(held[i].checks) \cap denied # {}}
  <2> HIDE DEF said, wanted
  <2> QED BY <1>1, <1>3, <1>4
<1>6. AccessAnswer(held, denied) = {held[i].name : i \in Stopped(wanted, said)}
  BY Zenon DEF AccessAnswer
<1> HIDE DEF said, wanted
<1> QED BY <1>5, <1>6, Zenon

\* A button one of whose checks is denied is refused.
LEMMA ListedIsRefused ==
  ASSUME NEW held \in Seq(Capability), NEW denied, NEW name, NEW checks, NEW j \in DOMAIN checks,
         Lists(held, [name |-> name, checks |-> checks])
  PROVE  /\ name \in CapabilityNames(held)
         /\ checks[j] \in denied => name \in AccessAnswer(held, denied)
<1>1. PICK i \in DOMAIN held : held[i] = [name |-> name, checks |-> checks]
  BY DEF Lists
<1>2. held[i].name = name /\ held[i].checks = checks
  BY <1>1
<1>3. name \in CapabilityNames(held)
  BY <1>2 DEF CapabilityNames
<1>4. checks[j] \in denied => ToSet(held[i].checks) \cap denied # {}
  BY <1>2 DEF ToSet
<1> QED BY <1>2, <1>3, <1>4, AnsweredByTheirOwn


-----------------------------------------------------------------------------
(* Rows and actions.                                                         *)

\* The checks of a button are a list of checks, none where it is lacking.
LEMMA ChecksTyped ==
  ASSUME NEW name, NEW kind
  PROVE  ChecksOf(name, kind) \in Seq(CheckVerbs)
<1> DEFINE held == CapabilitiesFor(kind)
           found == {i \in DOMAIN held : held[i].name = name}
           least == CHOOSE i \in found : \A j \in found : i =< j
<1>1. held \in Seq(Capability)
  BY CapabilitiesListed
<1>2. ChecksOf(name, kind) = IF found = {} THEN <<>> ELSE held[least].checks
  BY Zenon DEF ChecksOf
<1> HIDE DEF held
<1>3. Len(held) \in Nat /\ DOMAIN held = 1 .. Len(held)
  BY <1>1
<1>4. found \subseteq Nat
  BY <1>3
<1>5. ASSUME found # {} PROVE held[least].checks \in Seq(CheckVerbs)
  <2>1. least \in found
    <3> HIDE DEF found
    <3> QED BY <1>4, <1>5, LeastChosen
  <2>2. PICK i \in DOMAIN held : i = least
    BY <2>1
  <2>3. held[i] \in Capability
    BY <1>1, <1>3
  <2> QED BY <2>2, <2>3 DEF Capability
<1>6. <<>> \in Seq(CheckVerbs)
  OBVIOUS
<1> HIDE DEF found, least
<1> QED BY <1>2, <1>5, <1>6, Zenon

\* An action is stopped by an answer that is not a yes.
LEMMA RequireStops ==
  ASSUME NEW answers
  PROVE  Require(TRUE, answers) # "ok" <=> \E j \in DOMAIN answers : answers[j] # "yes"
<1> DEFINE stops == {i \in DOMAIN answers : answers[i] # "yes"}
           first == answers[CHOOSE i \in stops : \A j \in stops : i =< j]
<1>1. PICK status : status = Require(TRUE, answers)
  OBVIOUS
<1>2. stops = {} => status = "ok"
  BY <1>1, Zenon DEF Require
<1>3. stops # {} => status = IF first = "no" THEN "denied" ELSE "unanswered"
  BY <1>1, Zenon DEF Require
<1>4. status # "ok" <=> stops # {}
  <2> HIDE DEF stops, first
  <2> QED BY <1>2, <1>3
<1>5. stops # {} <=> \E j \in DOMAIN answers : answers[j] # "yes"
  OBVIOUS
<1> QED BY <1>1, <1>4, <1>5, Zenon

\* Every row of a selection gets the answers to its own questions.
LEMMA OwnRows ==
  ASSUME AskRows PROVE RowsGetTheirOwnAnswers'
<1>1. PICK name \in Buttons, kinds \in Selections :
        \E said \in [Asked(WantedOf(name, kinds)) -> {"yes", "no", "unsaid"}] :
          ask' = [about |-> "admission.rows", name |-> name, kinds |-> kinds, said |-> said]
  BY Zenon DEF AskRows, Put
<1>2. PICK said : ask' = [about |-> "admission.rows", name |-> name, kinds |-> kinds, said |-> said]
  BY <1>1
<1>3. PICK n \in Nat : DOMAIN kinds = 1 .. n
  BY SelectionAssumption
<1>4. PICK wanted : wanted = WantedOf(name, kinds)
  OBVIOUS
<1>5. DOMAIN wanted = 1 .. n /\ \A i \in 1 .. n : wanted[i] = ChecksOf(name, kinds[i])
  BY <1>3, <1>4 DEF WantedOf
<1>6. Rows(wanted, n)
  BY <1>5, ChecksTyped DEF Rows
<1>7. ReviewEach(name, kinds, said) = {i \in 1 .. n : \E j \in DOMAIN wanted[i] : said[<<i, j>>] # "yes"}
  BY <1>4, <1>6, StoppedByTheirOwn DEF ReviewEach
<1>8. ASSUME NEW i \in DOMAIN kinds
      PROVE  LET own == [j \in DOMAIN ChecksOf(name, kinds[i]) |-> said[<<i, j>>]]
             IN i \in ReviewEach(name, kinds, said) <=> Require(TRUE, own) # "ok"
  <2>1. PICK own : own = [j \in DOMAIN ChecksOf(name, kinds[i]) |-> said[<<i, j>>]]
    OBVIOUS
  <2>2. Require(TRUE, own) # "ok" <=> \E j \in DOMAIN own : own[j] # "yes"
    BY RequireStops, Zenon
  <2>3. (\E j \in DOMAIN own : own[j] # "yes") <=> \E j \in DOMAIN wanted[i] : said[<<i, j>>] # "yes"
    BY <1>3, <1>5, <2>1
  <2>4. i \in ReviewEach(name, kinds, said) <=> \E j \in DOMAIN wanted[i] : said[<<i, j>>] # "yes"
    BY <1>3, <1>7
  <2> QED BY <2>1, <2>2, <2>3, <2>4, Zenon
<1>9. ask'.name = name /\ ask'.kinds = kinds /\ ask'.said = said
  BY <1>2
<1> QED BY <1>8, <1>9, Zenon DEF RowsGetTheirOwnAnswers


\* What has to be allowed for an action.
Decisive(action) ==
  CASE action = "scale" -> "patch scale" [] action = "trigger" -> "create jobs" [] OTHER -> "patch"

\* Every action a kind supports has a button among the kind's, and the check
\* that decides is one of the button's.
LEMMA SupportedIsListed ==
  ASSUME NEW kind, NEW action \in ActionVerbs \cup {"other"}, ActionSupported(kind, action)
  PROVE  \E checks : /\ Lists(CapabilitiesFor(kind), [name |-> CapabilityOf(action), checks |-> checks])
                     /\ \E j \in DOMAIN checks : checks[j] = Decisive(action)
<1>1. /\ 1 \in DOMAIN <<"patch">> /\ <<"patch">>[1] = "patch"
      /\ 1 \in DOMAIN <<"patch scale">> /\ <<"patch scale">>[1] = "patch scale"
      /\ 1 \in DOMAIN <<"create jobs">> /\ <<"create jobs">>[1] = "create jobs"
      /\ 1 \in DOMAIN <<"patch", "list history">> /\ <<"patch", "list history">>[1] = "patch"
      /\ 2 \in DOMAIN <<"list pods", "patch">> /\ <<"list pods", "patch">>[2] = "patch"
  OBVIOUS
<1>2. action \in {"scale", "restart", "cordon", "uncordon", "drain", "suspend", "resume", "trigger", "undo", "other"}
  BY DEF ActionVerbs
<1>3. CASE action = "scale"
  <2>1. kind \in Scalable /\ CapabilityOf(action) = "scale" /\ Decisive(action) = "patch scale"
    BY <1>3 DEF ActionSupported, CapabilityOf, Decisive
  <2> QED BY <1>1, <2>1, CapabilitiesListed, Zenon
<1>4. CASE action = "restart"
  <2>1. kind \in Restartable /\ CapabilityOf(action) = "restart" /\ Decisive(action) = "patch"
    BY <1>4 DEF ActionSupported, CapabilityOf, Decisive
  <2> QED BY <1>1, <2>1, CapabilitiesListed, Zenon
<1>5. CASE action = "undo"
  <2>1. kind \in Restartable /\ CapabilityOf(action) = "undo" /\ Decisive(action) = "patch"
    BY <1>5 DEF ActionSupported, CapabilityOf, Decisive
  <2> QED BY <1>1, <2>1, CapabilitiesListed, Zenon
<1>6. CASE action \in {"cordon", "uncordon"}
  <2>1. kind = "nodes" /\ CapabilityOf(action) = "cordon" /\ Decisive(action) = "patch"
    BY <1>6 DEF ActionSupported, CapabilityOf, Decisive
  <2> QED BY <1>1, <2>1, CapabilitiesListed, Zenon
<1>7. CASE action = "drain"
  <2>1. kind = "nodes" /\ CapabilityOf(action) = "drain" /\ Decisive(action) = "patch"
    BY <1>7 DEF ActionSupported, CapabilityOf, Decisive
  <2> QED BY <1>1, <2>1, CapabilitiesListed, Zenon
<1>8. CASE action \in {"suspend", "resume"}
  <2>1. kind = "cronjobs" /\ CapabilityOf(action) = "suspend" /\ Decisive(action) = "patch"
    BY <1>8 DEF ActionSupported, CapabilityOf, Decisive
  <2> QED BY <1>1, <2>1, CapabilitiesListed, Zenon
<1>9. CASE action = "trigger"
  <2>1. kind = "cronjobs" /\ CapabilityOf(action) = "trigger" /\ Decisive(action) = "create jobs"
    BY <1>9 DEF ActionSupported, CapabilityOf, Decisive
  <2> QED BY <1>1, <2>1, CapabilitiesListed, Zenon
<1>10. CASE action = "other"
  BY <1>10 DEF ActionSupported
<1> QED BY <1>2, <1>3, <1>4, <1>5, <1>6, <1>7, <1>8, <1>9, <1>10

\* What is performed is what the account may do.
LEMMA RefusedActions ==
  ASSUME AskActions PROVE RefusalsAreTheirOwn' /\ RefusedIsNotPerformed'
<1>1. PICK kind \in ActionKinds, action \in ActionVerbs \cup {"other"}, denied \in Denials :
        ask' = [about |-> "actions", kind |-> kind, action |-> action, denied |-> denied]
  BY Zenon DEF AskActions, Put
<1>2. ask'.kind = kind /\ ask'.action = action /\ ask'.denied = denied
  BY <1>1
<1>3. PICK held \in Seq(Capability) : held = CapabilitiesFor(kind)
  BY CapabilitiesListed
<1>4. RefusalsAreTheirOwn'
  <2>1. AccessAnswer(held, denied)
          = {held[i].name : i \in {i \in DOMAIN held : ToSet(held[i].checks) \cap denied # {}}}
    BY AnsweredByTheirOwn
  <2> QED BY <1>2, <1>3, <2>1 DEF RefusalsAreTheirOwn
<1>5. ASSUME ActionSupported(kind, action)
      PROVE  /\ CapabilityOf(action) \in CapabilityNames(held)
             /\ CapabilityOf(action) \notin AccessAnswer(held, denied) => Decisive(action) \notin denied
  <2>1. PICK checks : /\ Lists(held, [name |-> CapabilityOf(action), checks |-> checks])
                      /\ \E j \in DOMAIN checks : checks[j] = Decisive(action)
    BY <1>3, <1>5, SupportedIsListed
  <2>2. PICK j \in DOMAIN checks : checks[j] = Decisive(action)
    BY <2>1
  <2> QED BY <2>1, <2>2, ListedIsRefused
<1>6. Performed(kind, action, denied) =>
        /\ CapabilityOf(action) \notin AccessAnswer(held, denied) /\ ActionSupported(kind, action)
        /\ Decisive(action) \notin denied
  BY <1>3, <1>5 DEF Performed
<1>7. ActionSupported(kind, action) => CapabilityOf(action) \in CapabilityNames(CapabilitiesFor(kind))
  BY <1>3, <1>5
<1>8. Performed(kind, action, denied) =>
        CASE action = "scale" -> "patch scale" \notin denied
          [] action = "trigger" -> "create jobs" \notin denied
          [] OTHER -> "patch" \notin denied
  BY <1>6 DEF Decisive
<1>9. RefusedIsNotPerformed'
  BY <1>2, <1>7, <1>8, Zenon DEF RefusedIsNotPerformed
<1> QED BY <1>4, <1>9


-----------------------------------------------------------------------------
(* Answers that are remembered.                                              *)

\* What Remember may leave behind, with room for what was learnt.
LEMMA RoomKept ==
  ASSUME NEW clock \in Clocks, NEW q \in Remembered, NEW seen \in [Remembered -> 0 .. clock],
         Cardinality({p \in Remembered : seen[p] # 0}) =< RememberRoom
  PROVE  LET outcomes == Remember(seen, q, clock)
         IN /\ outcomes # {}
            /\ \A after \in outcomes :
                 /\ Recall(after, q, clock)
                 /\ Cardinality({p \in DOMAIN after : after[p] # 0}) =< RememberRoom
                 /\ \A p, o \in DOMAIN after \ {q} :
                      Recall(seen, p, clock) /\ after[p] = 0 =>
                        seen[o] = 0 \/ after[o] = 0 \/ seen[o] >= seen[p]
<1> DEFINE kept == [p \in Remembered |-> IF seen[p] # 0 /\ clock - seen[p] > RememberTtl THEN 0 ELSE seen[p]]
           Live(f) == {p \in Remembered : f[p] # 0}
           full == Cardinality({p \in DOMAIN kept : kept[p] # 0}) >= RememberRoom
           eldest == Eldest(kept)
           outcomes == Remember(seen, q, clock)
<1>1. clock \in Nat \ {0} /\ RememberTtl \in Nat /\ RememberRoom \in Nat \ {0} /\ IsFiniteSet(Remembered)
  BY RememberAssumption
<1>2. DOMAIN seen = Remembered /\ \A p \in Remembered : seen[p] \in 0 .. clock
  OBVIOUS
<1>3. DOMAIN kept = Remembered /\ \A p \in Remembered : kept[p] \in 0 .. clock /\ (kept[p] # 0 => kept[p] = seen[p])
  BY <1>1, <1>2
<1>4. \A p \in Remembered : Recall(seen, p, clock) => kept[p] # 0
  BY <1>1, <1>2 DEF Recall
<1>5. outcomes = IF kept[q] # 0 \/ ~ full THEN {[kept EXCEPT ![q] = clock]}
                 ELSE {[kept EXCEPT ![old] = 0, ![q] = clock] : old \in eldest}
  BY <1>2, Zenon DEF Remember
<1>6. /\ IsFiniteSet(Live(kept)) /\ IsFiniteSet(Live(seen)) /\ Live(kept) \subseteq Live(seen)
      /\ Cardinality(Live(kept)) \in Nat /\ Cardinality(Live(kept)) =< RememberRoom
  <2>1. Live(kept) \subseteq Live(seen) /\ Live(seen) \subseteq Remembered
    BY <1>3
  <2>2. IsFiniteSet(Live(seen)) /\ IsFiniteSet(Live(kept))
    <3> HIDE DEF Live
    <3> QED BY <1>1, <2>1, FS_Subset
  <2>3. Cardinality(Live(kept)) =< Cardinality(Live(seen)) /\ Cardinality(Live(kept)) \in Nat
          /\ Cardinality(Live(seen)) \in Nat
    <3> HIDE DEF Live
    <3> QED BY <2>1, <2>2, FS_Subset, FS_CardinalityType
  <2>4. Cardinality(Live(seen)) =< RememberRoom
    OBVIOUS
  <2> QED BY <1>1, <2>1, <2>2, <2>3, <2>4
<1>7. full <=> Cardinality(Live(kept)) >= RememberRoom
  BY <1>3
<1>8. eldest = {p \in Remembered : kept[p] # 0 /\ \A o \in Remembered : kept[o] # 0 => kept[p] =< kept[o]}
  BY <1>3 DEF Eldest
<1> HIDE DEF full, eldest, kept, outcomes
<1>9. \A after : after = [kept EXCEPT ![q] = clock] =>
        DOMAIN after = Remembered /\ after[q] = clock /\ \A p \in Remembered \ {q} : after[p] = kept[p]
  BY <1>3
<1>10. \A after : Recall(after, q, clock) <=> after[q] # 0 /\ clock - after[q] =< RememberTtl
  BY DEF Recall
<1>11. CASE kept[q] # 0 \/ ~ full
  <2>0. outcomes = {[kept EXCEPT ![q] = clock]}
    BY <1>5, <1>11, Zenon
  <2> SUFFICES ASSUME NEW after \in outcomes
               PROVE  /\ Recall(after, q, clock)
                      /\ Cardinality({p \in DOMAIN after : after[p] # 0}) =< RememberRoom
                      /\ \A p, o \in DOMAIN after \ {q} :
                           Recall(seen, p, clock) /\ after[p] = 0 =>
                             seen[o] = 0 \/ after[o] = 0 \/ seen[o] >= seen[p]
    BY <2>0, Zenon DEF outcomes
  <2>1. after = [kept EXCEPT ![q] = clock]
    BY <2>0
  <2>2. DOMAIN after = Remembered /\ after[q] = clock /\ \A p \in Remembered \ {q} : after[p] = kept[p]
    BY <1>9, <2>1
  <2>3. Recall(after, q, clock)
    BY <1>1, <1>10, <2>2
  <2>4. Cardinality(Live(after)) =< RememberRoom
    <3>1. CASE kept[q] # 0
      <4>1. Live(after) = Live(kept)
        BY <1>1, <2>2, <3>1
      <4> QED BY <1>6, <4>1
    <3>2. CASE kept[q] = 0
      <4>1. Live(after) = Live(kept) \cup {q} /\ q \notin Live(kept)
        BY <1>1, <2>2, <3>2
      <4>2. Cardinality(Live(kept) \cup {q}) = Cardinality(Live(kept)) + 1
        <5> HIDE DEF Live
        <5> QED BY <1>6, <4>1, FS_AddElement
      <4>3. Cardinality(Live(kept)) < RememberRoom
        BY <1>1, <1>6, <1>7, <1>11, <3>2
      <4>4. Cardinality(Live(after)) = Cardinality(Live(kept)) + 1
        BY <4>1, <4>2, Zenon
      <4> HIDE DEF Live
      <4> QED BY <1>1, <1>6, <4>3, <4>4
    <3> QED BY <3>1, <3>2
  <2>5. \A p \in Remembered \ {q} : Recall(seen, p, clock) => after[p] # 0
    BY <1>4, <2>2
  <2>6. {p \in DOMAIN after : after[p] # 0} = Live(after)
    BY <2>2
  <2> HIDE DEF Live
  <2> QED BY <2>2, <2>3, <2>4, <2>5, <2>6, Zenon
<1>12. CASE kept[q] = 0 /\ full
  <2>1. outcomes = {[kept EXCEPT ![old] = 0, ![q] = clock] : old \in eldest}
    BY <1>5, <1>12
  <2>2. Live(kept) # {}
    <3>1. Cardinality({}) = 0
      BY FS_EmptySet
    <3> HIDE DEF Live
    <3> QED BY <1>1, <1>6, <1>7, <1>12, <3>1
  <2>3. eldest # {}
    <3> DEFINE ages == {kept[p] : p \in Live(kept)}
    <3>1. ages \subseteq Nat /\ ages # {}
      BY <1>3, <2>2
    <3>2. PICK m \in ages : \A n \in ages : m =< n
      <4> HIDE DEF ages
      <4> QED BY <3>1, NatLeast
    <3>3. PICK p \in Live(kept) : m = kept[p]
      OBVIOUS
    <3>4. p \in eldest
      BY <1>8, <3>2, <3>3
    <3> QED BY <3>4
  <2>4. ASSUME NEW after \in outcomes
        PROVE  /\ Recall(after, q, clock)
               /\ Cardinality({p \in DOMAIN after : after[p] # 0}) =< RememberRoom
               /\ \A p, o \in DOMAIN after \ {q} :
                    Recall(seen, p, clock) /\ after[p] = 0 =>
                      seen[o] = 0 \/ after[o] = 0 \/ seen[o] >= seen[p]
    <3>1. PICK old \in eldest : after = [kept EXCEPT ![old] = 0, ![q] = clock]
      BY <2>1
    <3>2. old \in Remembered /\ kept[old] # 0 /\ old # q
      BY <1>8, <1>12
    <3>3. /\ DOMAIN after = Remembered /\ after[q] = clock /\ after[old] = 0
          /\ \A p \in Remembered \ {q, old} : after[p] = kept[p]
      BY <1>3, <3>1, <3>2
    <3>4. Recall(after, q, clock)
      BY <1>1, <1>10, <3>3
    <3>5. Cardinality(Live(after)) =< RememberRoom
      <4>1. Live(after) = (Live(kept) \ {old}) \cup {q} /\ q \notin Live(kept) \ {old} /\ old \in Live(kept)
        BY <1>1, <1>12, <3>2, <3>3
      <4>2. /\ IsFiniteSet(Live(kept) \ {old})
            /\ Cardinality(Live(kept) \ {old}) = Cardinality(Live(kept)) - 1
        <5> HIDE DEF Live
        <5> QED BY <1>6, <4>1, FS_RemoveElement
      <4>3. Cardinality((Live(kept) \ {old}) \cup {q}) = Cardinality(Live(kept) \ {old}) + 1
        <5>1. PICK rest : rest = Live(kept) \ {old}
          OBVIOUS
        <5>2. IsFiniteSet(rest) /\ q \notin rest
          BY <4>1, <4>2, <5>1
        <5>3. Cardinality(rest \cup {q}) = Cardinality(rest) + 1
          BY <5>2, FS_AddElement
        <5> QED BY <5>1, <5>3
      <4> QED BY <1>1, <1>6, <4>1, <4>2, <4>3
    <3>6. ASSUME NEW p \in Remembered \ {q}, NEW o \in Remembered \ {q}, Recall(seen, p, clock), after[p] = 0,
                 after[o] # 0
          PROVE  seen[o] >= seen[p]
      <4>1. kept[p] # 0 /\ p = old
        BY <1>4, <3>3, <3>6
      <4>2. o # old /\ kept[o] # 0
        BY <3>3, <3>6
      <4>3. kept[p] =< kept[o] /\ kept[p] = seen[p] /\ kept[o] = seen[o]
        BY <1>3, <1>8, <4>1, <4>2
      <4> QED BY <1>2, <4>3
    <3>7. {p \in DOMAIN after : after[p] # 0} = Live(after)
      BY <3>3
    <3> HIDE DEF Live
    <3> QED BY <3>3, <3>4, <3>5, <3>6, <3>7, Zenon
  <2>5. outcomes # {}
    BY <2>1, <2>3
  <2> QED BY <2>4, <2>5, Zenon DEF outcomes
<1> QED BY <1>11, <1>12, Zenon

\* What was just learnt is recalled, and the oldest makes room for it.
LEMMA Recalled ==
  ASSUME AskMemory PROVE RememberedIsRecalled'
<1>1. PICK clock \in Clocks, q \in Remembered : \E seen \in [Remembered -> 0 .. clock] :
        /\ Cardinality({p \in Remembered : seen[p] # 0}) =< RememberRoom
        /\ ask' = [about |-> "admission.memory", seen |-> seen, q |-> q, clock |-> clock]
  BY Zenon DEF AskMemory, Put
<1>2. PICK seen \in [Remembered -> 0 .. clock] :
        /\ Cardinality({p \in Remembered : seen[p] # 0}) =< RememberRoom
        /\ ask' = [about |-> "admission.memory", seen |-> seen, q |-> q, clock |-> clock]
  BY <1>1
<1>3. ask'.seen = seen /\ ask'.q = q /\ ask'.clock = clock
  BY <1>2
<1> DEFINE outcomes == Remember(seen, q, clock)
<1>4. /\ outcomes # {}
      /\ \A after \in outcomes :
           /\ Recall(after, q, clock)
           /\ Cardinality({p \in DOMAIN after : after[p] # 0}) =< RememberRoom
           /\ \A p, o \in DOMAIN after \ {q} :
                Recall(seen, p, clock) /\ after[p] = 0 =>
                  seen[o] = 0 \/ after[o] = 0 \/ seen[o] >= seen[p]
  BY <1>2, RoomKept
<1> QED BY <1>3, <1>4, Zenon DEF RememberedIsRecalled


-----------------------------------------------------------------------------
(* Revisions.                                                                *)

\* The template an undo finds is that of a revision of this workload.
LEMMA RevisionPicked ==
  ASSUME NEW held, NEW number, PickRevision(held, number) # NoTemplate
  PROVE  \E r \in held : r.owned /\ r.number = number /\ r.template = PickRevision(held, number)
<1> DEFINE found == {r \in RevisionHistory(held) : r.number = number}
           chosen == CHOOSE r \in found : TRUE
<1>1. PickRevision(held, number) = IF found = {} THEN NoTemplate ELSE chosen.template
  BY Zenon DEF PickRevision
<1>2. found # {} /\ PickRevision(held, number) = chosen.template
  <2> HIDE DEF found, chosen
  <2> QED BY <1>1, Zenon
<1>3. chosen \in found
  <2> HIDE DEF found
  <2> QED BY <1>2, Zenon
<1>4. PICK r : r = chosen
  OBVIOUS
<1>5. r \in held /\ r.owned /\ r.number = number
  <2> HIDE DEF chosen
  <2> QED BY <1>3, <1>4, Zenon DEF RevisionHistory
<1> HIDE DEF found, chosen
<1> QED BY <1>2, <1>4, <1>5, Zenon

\* An undo sets what the revision set, or changes nothing.
LEMMA UndoSets ==
  ASSUME AskUndo PROVE UndoSetsWhatWasSet'
<1>1. PICK live \in PodTemplates, held \in Histories, number \in RevisionNumbers, dryRun \in BOOLEAN :
        ask' = [about |-> "undo", live |-> live, held |-> held, number |-> number, dryRun |-> dryRun]
  BY Zenon DEF AskUndo, Put
<1>2. ask'.live = live /\ ask'.held = held /\ ask'.number = number /\ ask'.dryRun = dryRun
  BY <1>1
<1> DEFINE got == Undone(live, held, number, dryRun)
           template == PickRevision(held, number)
<1>3. SUFFICES IF got.ok /\ ~ dryRun
               THEN \E r \in held :
                      /\ r.owned /\ r.number = number
                      /\ r.template # NoTemplate
                      /\ \A field \in DOMAIN r.template : got.live[field] = r.template[field]
               ELSE got.live = live
  BY <1>2, Zenon DEF UndoSetsWhatWasSet
<1>4. CASE number = 0 \/ template = NoTemplate
  <2>1. got = [ok |-> FALSE, live |-> live]
    BY <1>4, Zenon DEF Undone
  <2>2. got.ok = FALSE /\ got.live = live
    <3> HIDE DEF got
    <3> QED BY <2>1
  <2> HIDE DEF got
  <2> QED BY <2>2
<1>5. CASE ~ (number = 0 \/ template = NoTemplate)
  <2>1. got = [ok |-> TRUE, live |-> IF dryRun THEN live ELSE MergePatched(live, template)]
    BY <1>5, Zenon DEF Undone
  <2>2. got.live = IF dryRun THEN live ELSE MergePatched(live, template)
    <3> HIDE DEF got
    <3> QED BY <2>1
  <2>3. PICK r \in held : r.owned /\ r.number = number /\ r.template = template
    <3>1. PickRevision(held, number) # NoTemplate
      BY <1>5
    <3> QED BY <3>1, RevisionPicked, Zenon
  <2> HIDE DEF got, template
  <2>4. \A field \in DOMAIN template : MergePatched(live, template)[field] = template[field]
    BY DEF MergePatched
  <2>5. r.template # NoTemplate
    BY <1>5, <2>3
  <2>6. CASE dryRun
    BY <2>2, <2>6
  <2>7. CASE ~ dryRun
    <3>1. got.live = MergePatched(live, template)
      BY <2>2, <2>7
    <3>2. \A field \in DOMAIN r.template : got.live[field] = r.template[field]
      BY <2>3, <2>4, <3>1
    <3> QED BY <2>1, <2>3, <2>5, <2>7, <3>2
  <2> QED BY <2>6, <2>7
<1> QED BY <1>4, <1>5


-----------------------------------------------------------------------------
(* Permissions.                                                              *)

\* What the index says, from what could be read.
LEMMA IndexRead ==
  ASSUME NEW cluster, NEW index, index = RbacIndex(cluster)
  PROVE  /\ DOMAIN index.holders = {SubjectOf(b) : b \in HeldBindings(cluster)}
         /\ \A s \in DOMAIN index.holders :
              index.holders[s] = {GrantOf(HeldRoles(cluster), b) : b \in {b \in HeldBindings(cluster) : SubjectOf(b) = s}}
         /\ index.absent = {b \in HeldBindings(cluster) : GrantOf(HeldRoles(cluster), b).missing}
         /\ index.error = RbacKinds \ cluster.readable
<1> DEFINE roles == HeldRoles(cluster)
           bindings == HeldBindings(cluster)
           holders == [s \in {SubjectOf(b) : b \in bindings} |-> {GrantOf(roles, b) : b \in {b \in bindings : SubjectOf(b) = s}}]
           absent == {b \in bindings : GrantOf(roles, b).missing}
<1>1. index = [holders |-> holders, absent |-> absent, error |-> RbacKinds \ cluster.readable]
  BY Zenon DEF RbacIndex
<1>2. index.holders = holders /\ index.absent = absent /\ index.error = RbacKinds \ cluster.readable
  <2> HIDE DEF holders, absent
  <2> QED BY <1>1
<1>3. /\ DOMAIN holders = {SubjectOf(b) : b \in bindings}
      /\ \A s \in DOMAIN holders : holders[s] = {GrantOf(roles, b) : b \in {b \in bindings : SubjectOf(b) = s}}
  <2> HIDE DEF roles, bindings
  <2> QED OBVIOUS
<1> HIDE DEF holders
<1> QED BY <1>2, <1>3, Zenon

\* A grant: where it reaches, and the rules of the roles that were found.
LEMMA GrantRead ==
  ASSUME NEW held, NEW b, NEW grant, grant = GrantOf(held, b)
  PROVE  /\ grant.place = b.place
         /\ grant.missing <=> LookupRole(held, b) = {}
         /\ \A rule : rule \in grant.rules <=> \E role \in LookupRole(held, b) : rule \in role.rules
<1>1. PICK found : found = LookupRole(held, b)
  OBVIOUS
<1>2. grant = [place |-> b.place, missing |-> found = {}, rules |-> UNION {role.rules : role \in found}]
  BY <1>1, Zenon DEF GrantOf
<1>3. grant.place = b.place /\ grant.rules = UNION {role.rules : role \in found} /\ grant.missing = (found = {})
  BY <1>2
<1> QED BY <1>1, <1>3

\* A rule allows what the authorizer's reading of it allows.
LEMMA RuleRead ==
  ASSUME NEW rule, NEW wanted, NEW base, NEW sub, wanted.resource = <<base, sub>>,
         rule.resources \subseteq STRING \X STRING,
         \A r \in rule.resources : r[2] = Star => r[1] = Star, sub # NoSub => base # Star
  PROVE  RuleAllows(rule, wanted) <=>
           /\ ~ rule.named
           /\ Star \in rule.verbs \/ wanted.verb \in rule.verbs
           /\ Star \in rule.groups \/ wanted.group \in rule.groups
           /\ \E r \in rule.resources : r \in {<<Star, NoSub>>, wanted.resource, <<Star, wanted.resource[2]>>}
<1>1. PICK res : res = rule.resources
  OBVIOUS
<1>2. wanted.resource[1] = base /\ wanted.resource[2] = sub
  OBVIOUS
<1>3. CoversResource(res, wanted.resource)
        <=> \/ <<Star, NoSub>> \in res
            \/ <<base, sub>> \in res
            \/ sub # NoSub /\ (<<base, Star>> \in res \/ <<Star, sub>> \in res)
  BY <1>2 DEF CoversResource
<1>4. <<base, Star>> \in res => base = Star
  <2>1. <<base, Star>>[1] = base /\ <<base, Star>>[2] = Star
    OBVIOUS
  <2> QED BY <1>1, <2>1
<1>5. (\E r \in res : r \in {<<Star, NoSub>>, wanted.resource, <<Star, wanted.resource[2]>>})
        <=> <<Star, NoSub>> \in res \/ <<base, sub>> \in res \/ <<Star, sub>> \in res
  BY <1>2
<1>6. CoversResource(res, wanted.resource)
        <=> <<Star, NoSub>> \in res \/ <<base, sub>> \in res \/ <<Star, sub>> \in res
  BY <1>3, <1>4
<1>7. /\ {Star, wanted.verb} \cap rule.verbs # {} <=> Star \in rule.verbs \/ wanted.verb \in rule.verbs
      /\ {Star, wanted.group} \cap rule.groups # {} <=> Star \in rule.groups \/ wanted.group \in rule.groups
  OBVIOUS
<1> QED BY <1>1, <1>5, <1>6, <1>7, Zenon DEF RuleAllows


\* Whom a binding is for: an account without a namespace is of the binding's.
LEMMA SubjectRead ==
  ASSUME NEW b \in Binding, NEW s, s = SubjectOf(b)
  PROVE  /\ s = [name |-> s.name, account |-> s.account, place |-> s.place]
         /\ s.name = b.subject.name /\ s.account = b.subject.account
         /\ s.place = IF b.subject.place = 0 /\ b.subject.account THEN b.place ELSE b.subject.place
<1>1. PICK of : of = b.subject /\ of \in Subject
  BY DEF Binding
<1>2. of = [name |-> of.name, account |-> of.account, place |-> of.place]
  BY <1>1 DEF Subject
<1>3. s = [of EXCEPT !.place = IF of.place = 0 /\ of.account THEN b.place ELSE of.place]
  BY <1>1, Zenon DEF SubjectOf
<1>4. PICK place : place = IF of.place = 0 /\ of.account THEN b.place ELSE of.place
  OBVIOUS
<1>5. s = [of EXCEPT !.place = place]
  BY <1>3, <1>4
<1>6. s = [name |-> of.name, account |-> of.account, place |-> place]
  BY <1>2, <1>5
<1> QED BY <1>1, <1>4, <1>6

\* What is read of a cluster, and what its questions are about.
LEMMA ClusterRead ==
  ASSUME NEW cluster \in RbacClusters
  PROVE  /\ cluster.roles \subseteq Role /\ cluster.bindings \subseteq Binding
         /\ \A b \in cluster.bindings : (b.place = 0 => b.clusterRole) /\ (b.subject.place # 0 => b.subject.account)
         /\ \A role \in cluster.roles : \A rule \in role.rules :
              /\ rule.resources \subseteq STRING \X STRING
              /\ \A r \in rule.resources : r[2] = Star => r[1] = Star
<1>1. cluster \in [readable : SUBSET RbacKinds, roles : SUBSET Role, bindings : SUBSET Binding]
  BY RbacAssumption
<1>2. cluster.roles \subseteq Role /\ cluster.bindings \subseteq Binding
  BY <1>1
<1>3. ASSUME NEW role \in Role, NEW rule \in role.rules PROVE rule.resources \subseteq STRING \X STRING
  <2>1. rule \in Rule
    BY DEF Role
  <2> QED BY <2>1 DEF Rule
<1> QED BY <1>2, <1>3, RbacAssumption

\* Who reaches something through a binding is authorized by it.
LEMMA ReachedIsAuthorized ==
  ASSUME NEW cluster \in RbacClusters, NEW b \in cluster.bindings, NEW held, held \subseteq cluster.roles,
         NEW wanted, NEW base, NEW sub, wanted.resource = <<base, sub>>, sub # NoSub => base # Star,
         NEW place \in Places, place = wanted.place, b.place \in {0, place},
         NEW rule \in GrantOf(held, b).rules, RuleAllows(rule, wanted)
  PROVE  Authorizes(cluster.roles, b, SubjectOf(b), wanted)
<1>1. PICK role \in held : /\ rule \in role.rules /\ role.name = b.role
                           /\ role.place = IF b.clusterRole THEN 0 ELSE b.place
  <2>1. PICK role \in LookupRole(held, b) : rule \in role.rules
    BY GrantRead
  <2> QED BY <2>1, Zenon DEF LookupRole
<1>2. role \in cluster.roles
  OBVIOUS
<1>3. /\ ~ rule.named
      /\ Star \in rule.verbs \/ wanted.verb \in rule.verbs
      /\ Star \in rule.groups \/ wanted.group \in rule.groups
      /\ \E r \in rule.resources : r \in {<<Star, NoSub>>, wanted.resource, <<Star, wanted.resource[2]>>}
  <2>1. rule.resources \subseteq STRING \X STRING /\ \A r \in rule.resources : r[2] = Star => r[1] = Star
    BY <1>1, <1>2, ClusterRead
  <2> QED BY <2>1, RuleRead
<1>4. PICK s : s = SubjectOf(b)
  OBVIOUS
<1>5. /\ b.subject.name = s.name /\ b.subject.account = s.account
      /\ s.account => s.place = IF b.subject.place = 0 THEN b.place ELSE b.subject.place
  <2>1. b \in Binding
    BY ClusterRead
  <2>2. /\ s.name = b.subject.name /\ s.account = b.subject.account
        /\ s.place = IF b.subject.place = 0 /\ b.subject.account THEN b.place ELSE b.subject.place
    BY <1>4, <2>1, SubjectRead
  <2> QED BY <2>2, Zenon
<1>6. Authorizes(cluster.roles, b, s, wanted)
  BY <1>1, <1>2, <1>3, <1>5, Zenon DEF Authorizes
<1> QED BY <1>4, <1>6

\* Who is authorized by a binding reaches it, when all roles were read.
LEMMA AuthorizedReaches ==
  ASSUME NEW cluster \in RbacClusters, NEW b \in cluster.bindings, NEW o \in cluster.bindings,
         NEW wanted, NEW base, NEW sub, wanted.resource = <<base, sub>>, sub # NoSub => base # Star,
         Authorizes(cluster.roles, b, SubjectOf(o), wanted)
  PROVE  /\ SubjectOf(b) = SubjectOf(o)
         /\ GrantReaches(GrantOf(cluster.roles, b), wanted)
<1>1. b \in Binding /\ o \in Binding /\ (b.subject.place # 0 => b.subject.account) /\ (o.subject.place # 0 => o.subject.account)
  BY ClusterRead
<1>2. PICK s, t : s = SubjectOf(o) /\ t = SubjectOf(b)
  OBVIOUS
<1>3. /\ s = [name |-> s.name, account |-> s.account, place |-> s.place]
      /\ s.name = o.subject.name /\ s.account = o.subject.account
      /\ s.place = IF o.subject.place = 0 /\ o.subject.account THEN o.place ELSE o.subject.place
  BY <1>1, <1>2, SubjectRead
<1>4. /\ t = [name |-> t.name, account |-> t.account, place |-> t.place]
      /\ t.name = b.subject.name /\ t.account = b.subject.account
      /\ t.place = IF b.subject.place = 0 /\ b.subject.account THEN b.place ELSE b.subject.place
  BY <1>1, <1>2, SubjectRead
<1>5. Authorizes(cluster.roles, b, s, wanted)
  BY <1>2
<1>6. /\ b.place \in {0, wanted.place}
      /\ b.subject.name = s.name /\ b.subject.account = s.account
      /\ s.account => s.place = IF b.subject.place = 0 THEN b.place ELSE b.subject.place
  BY <1>5, Zenon DEF Authorizes
<1>7. s.name = t.name /\ s.account = t.account /\ s.place = t.place
  <2>1. CASE s.account
    BY <1>4, <1>6, <2>1, Zenon
  <2>2. CASE ~ s.account
    BY <1>1, <1>3, <1>4, <1>6, <2>2, Zenon
  <2> QED BY <1>4, <1>6, <2>1, <2>2, Zenon
<1>8. s = t
  BY <1>3, <1>4, <1>7
<1>9. PICK role \in cluster.roles : \E rule \in role.rules :
        /\ role.name = b.role
        /\ role.place = IF b.clusterRole THEN 0 ELSE b.place
        /\ ~ rule.named
        /\ Star \in rule.verbs \/ wanted.verb \in rule.verbs
        /\ Star \in rule.groups \/ wanted.group \in rule.groups
        /\ \E r \in rule.resources : r \in {<<Star, NoSub>>, wanted.resource, <<Star, wanted.resource[2]>>}
  BY <1>5, Zenon DEF Authorizes
<1>10. PICK rule \in role.rules :
        /\ ~ rule.named
        /\ Star \in rule.verbs \/ wanted.verb \in rule.verbs
        /\ Star \in rule.groups \/ wanted.group \in rule.groups
        /\ \E r \in rule.resources : r \in {<<Star, NoSub>>, wanted.resource, <<Star, wanted.resource[2]>>}
  BY <1>9, Zenon
<1>11. RuleAllows(rule, wanted)
  <2>1. rule.resources \subseteq STRING \X STRING /\ \A r \in rule.resources : r[2] = Star => r[1] = Star
    BY ClusterRead
  <2> QED BY <1>10, <2>1, RuleRead
<1>12. role \in LookupRole(cluster.roles, b)
  BY <1>9, Zenon DEF LookupRole
<1>13. PICK grant : grant = GrantOf(cluster.roles, b)
  OBVIOUS
<1>14. rule \in grant.rules /\ grant.place = b.place
  BY <1>12, <1>13, GrantRead
<1>15. GrantReaches(grant, wanted)
  BY <1>6, <1>11, <1>14 DEF GrantReaches
<1> QED BY <1>2, <1>8, <1>13, <1>15


\* What is read is there, and with everything readable it is all there is.
LEMMA HeldIsThere ==
  ASSUME NEW cluster
  PROVE  /\ HeldRoles(cluster) \subseteq cluster.roles /\ HeldBindings(cluster) \subseteq cluster.bindings
         /\ RbacKinds \subseteq cluster.readable =>
              HeldRoles(cluster) = cluster.roles /\ HeldBindings(cluster) = cluster.bindings
BY DEF HeldRoles, HeldBindings, RbacKinds

\* Who is said to may, may; and who may is said to, when all could be read.
LEMMA SaidIsSo ==
  ASSUME NEW cluster \in RbacClusters, NEW c,
         c.readable = cluster.readable, c.roles = cluster.roles, c.bindings = cluster.bindings,
         NEW index, index = RbacIndex(c), NEW s \in DOMAIN index.holders,
         NEW wanted, NEW base, NEW sub, wanted.resource = <<base, sub>>, sub # NoSub => base # Star
  PROVE  /\ \A g \in index.holders[s], place \in Places :
              /\ GrantReaches(g, wanted)
              /\ place = wanted.place
              => \E b \in c.bindings : Authorizes(c.roles, b, s, wanted)
         /\ c.readable = RbacKinds /\ (\E b \in c.bindings : Authorizes(c.roles, b, s, wanted)) =>
              \E g \in index.holders[s] : GrantReaches(g, wanted)
<1>1. /\ DOMAIN index.holders = {SubjectOf(b) : b \in HeldBindings(c)}
      /\ index.holders[s] = {GrantOf(HeldRoles(c), b) : b \in {b \in HeldBindings(c) : SubjectOf(b) = s}}
  BY IndexRead
<1>2. PICK o \in HeldBindings(c) : s = SubjectOf(o)
  BY <1>1
<1>3. HeldRoles(c) \subseteq c.roles /\ HeldBindings(c) \subseteq c.bindings
  BY HeldIsThere
<1>4. ASSUME NEW g \in index.holders[s], NEW place \in Places, GrantReaches(g, wanted), place = wanted.place
      PROVE  \E b \in c.bindings : Authorizes(c.roles, b, s, wanted)
  <2>1. PICK b \in HeldBindings(c) : SubjectOf(b) = s /\ g = GrantOf(HeldRoles(c), b)
    BY <1>1
  <2>2. PICK rule \in g.rules : RuleAllows(rule, wanted)
    BY <1>4, Zenon DEF GrantReaches
  <2>3. g.place = 0 \/ wanted.place = 0 \/ g.place = wanted.place
    BY <1>4, Zenon DEF GrantReaches
  <2>4. g.place = b.place
    BY <2>1, GrantRead
  <2>5. place # 0
    BY RbacAssumption
  <2>6. b.place \in {0, place}
    BY <1>4, <2>3, <2>4, <2>5, Zenon
  <2>7. b \in cluster.bindings /\ HeldRoles(c) \subseteq cluster.roles
    BY <1>3
  <2>8. PICK held : held = HeldRoles(c)
    OBVIOUS
  <2>9. held \subseteq cluster.roles /\ rule \in GrantOf(held, b).rules
    BY <2>1, <2>2, <2>7, <2>8
  <2>10. Authorizes(cluster.roles, b, SubjectOf(b), wanted)
    BY <1>4, <2>2, <2>6, <2>7, <2>9, ReachedIsAuthorized
  <2> QED BY <2>1, <2>7, <2>10
<1>5. ASSUME c.readable = RbacKinds, NEW b \in c.bindings, Authorizes(c.roles, b, s, wanted)
      PROVE  \E g \in index.holders[s] : GrantReaches(g, wanted)
  <2>1. HeldRoles(c) = c.roles /\ HeldBindings(c) = c.bindings
    BY <1>5, HeldIsThere
  <2>2. o \in cluster.bindings /\ b \in cluster.bindings
    BY <1>3
  <2>3. Authorizes(cluster.roles, b, SubjectOf(o), wanted)
    BY <1>2, <1>5
  <2>4. SubjectOf(b) = SubjectOf(o) /\ GrantReaches(GrantOf(cluster.roles, b), wanted)
    BY <2>2, <2>3, AuthorizedReaches
  <2>5. GrantOf(cluster.roles, b) \in index.holders[s]
    BY <1>1, <1>2, <2>1, <2>2, <2>4
  <2> QED BY <2>4, <2>5
<1> QED BY <1>4, <1>5

\* Who has permissions, and which bindings lead nowhere.
LEMMA PermissionsShown ==
  ASSUME AskRbac PROVE WhoIsWhoMay' /\ DanglingIsReal'
<1>1. PICK cluster \in RbacClusters :
        ask' = [about |-> "rbac", readable |-> cluster.readable, bindings |-> cluster.bindings, roles |-> cluster.roles]
  BY Zenon DEF AskRbac, Put
<1>2. PICK c : c = ask'
  OBVIOUS
<1>3. c.readable = cluster.readable /\ c.roles = cluster.roles /\ c.bindings = cluster.bindings
  BY <1>1, <1>2
<1>4. PICK index : index = RbacIndex(c)
  OBVIOUS
<1> DEFINE May(s, wanted) == \E b \in c.bindings : Authorizes(c.roles, b, s, wanted)
           Exists(b) == \E role \in c.roles : role.name = b.role /\ role.place = IF b.clusterRole THEN 0 ELSE b.place
           secret(p) == [verb |-> "get", group |-> CoreGroup, resource |-> <<"secrets", NoSub>>, place |-> p]
<1>5. ASSUME NEW wanted \in RbacQuestions, NEW s \in DOMAIN index.holders
      PROVE  /\ s \in Who(index, wanted) => May(s, wanted)
             /\ c.readable = RbacKinds /\ May(s, wanted) => s \in Who(index, wanted)
  <2>1. /\ wanted \in [verb : STRING, group : STRING, resource : STRING \X STRING, place : Places]
        /\ wanted.resource[2] # NoSub => wanted.resource[1] # Star
    BY RbacAssumption
  <2>2. PICK base, sub : wanted.resource = <<base, sub>>
    BY <2>1
  <2>3. PICK place \in Places : place = wanted.place
    BY <2>1
  <2>4. sub # NoSub => base # Star
    BY <2>1, <2>2
  <2>5. /\ \A g \in index.holders[s] : GrantReaches(g, wanted) => May(s, wanted)
        /\ c.readable = RbacKinds /\ May(s, wanted) => \E g \in index.holders[s] : GrantReaches(g, wanted)
    BY <1>3, <1>4, <2>2, <2>3, <2>4, SaidIsSo
  <2>6. s \in Who(index, wanted) <=> \E g \in index.holders[s] : GrantReaches(g, wanted)
    BY Zenon DEF Who
  <2> HIDE DEF May
  <2> QED BY <2>5, <2>6, Zenon
<1>6. c.readable # RbacKinds => index.error # {}
  <2>1. cluster.readable \in SUBSET RbacKinds
    BY RbacAssumption
  <2>2. index.error = RbacKinds \ c.readable
    BY <1>4, IndexRead
  <2> HIDE DEF RbacKinds
  <2> QED BY <1>3, <2>1, <2>2
<1>7. ASSUME NEW s \in DOMAIN index.holders, "reads secrets" \in PowersOf(index, s)
      PROVE  \E p \in Places : May(s, secret(p))
  <2> DEFINE Reaches(verb, group, resource) ==
        \E g \in index.holders[s] : GrantReaches(g, [verb |-> verb, group |-> group, resource |-> resource, place |-> 0])
  <2>1. PowersOf(index, s) = IF Reaches(Star, Star, <<Star, NoSub>>) THEN {"cluster-admin"}
          ELSE (IF Reaches("get", CoreGroup, <<"secrets", NoSub>>) THEN {"reads secrets"} ELSE {})
               \cup (IF Reaches("create", CoreGroup, <<"pods", "exec">>) THEN {"execs into pods"} ELSE {})
    BY Zenon DEF PowersOf
  <2>2. Reaches("get", CoreGroup, <<"secrets", NoSub>>)
    <3> HIDE DEF Reaches
    <3>1. CASE Reaches(Star, Star, <<Star, NoSub>>)
      <4>1. PowersOf(index, s) = {"cluster-admin"}
        BY <2>1, <3>1, Zenon
      <4> QED BY <1>7, <4>1
    <3>2. CASE ~ Reaches(Star, Star, <<Star, NoSub>>) /\ ~ Reaches("get", CoreGroup, <<"secrets", NoSub>>)
      <4>1. PowersOf(index, s) = {} \cup (IF Reaches("create", CoreGroup, <<"pods", "exec">>) THEN {"execs into pods"} ELSE {})
        BY <2>1, <3>2, Zenon
      <4>2. PICK rest : rest = IF Reaches("create", CoreGroup, <<"pods", "exec">>) THEN {"execs into pods"} ELSE {}
        OBVIOUS
      <4>3. rest = {} \/ rest = {"execs into pods"}
        BY <4>2, Zenon
      <4>4. PowersOf(index, s) = {} \cup rest
        BY <4>1, <4>2, Zenon
      <4> QED BY <1>7, <4>3, <4>4
    <3> QED BY <3>1, <3>2, Zenon
  <2>3. PICK g \in index.holders[s] : GrantReaches(g, secret(0))
    BY <2>2
  <2>4. /\ index.holders[s] = {GrantOf(HeldRoles(c), b) : b \in {b \in HeldBindings(c) : SubjectOf(b) = s}}
    BY <1>4, IndexRead
  <2>5. PICK b \in HeldBindings(c) : g = GrantOf(HeldRoles(c), b)
    BY <2>4
  <2>6. g.place = b.place /\ b.place \in Places \cup {0}
    <3>1. b \in Binding
      BY <1>3, HeldIsThere, ClusterRead
    <3> QED BY <2>5, <3>1, GrantRead DEF Binding
  <2>7. PICK p \in Places : g.place = 0 \/ g.place = p
    BY <2>6, RbacAssumption
  <2>8. GrantReaches(g, secret(p))
    <3>1. PICK rule \in g.rules : RuleAllows(rule, secret(0))
      BY <2>3, Zenon DEF GrantReaches
    <3>2. /\ secret(0).verb = secret(p).verb /\ secret(0).group = secret(p).group
          /\ secret(0).resource = secret(p).resource /\ secret(p).place = p
      OBVIOUS
    <3> HIDE DEF secret
    <3>3. RuleAllows(rule, secret(p))
      BY <3>1, <3>2, Zenon DEF RuleAllows
    <3> QED BY <2>7, <3>2, <3>3, Zenon DEF GrantReaches
  <2>9. PICK wanted : wanted = secret(p)
    OBVIOUS
  <2>10. wanted.resource = <<"secrets", NoSub>> /\ wanted.place = p
    BY <2>9
  <2>11. PICK base, sub : base = "secrets" /\ sub = NoSub
    OBVIOUS
  <2> HIDE DEF secret
  <2>12. May(s, wanted)
    BY <1>3, <1>4, <2>8, <2>9, <2>10, <2>11, SaidIsSo
  <2> HIDE DEF May
  <2> QED BY <2>9, <2>12
<1>8. ASSUME NEW b \in c.bindings
      PROVE  /\ b \in index.absent => ~ Exists(b) \/ {"roles", "clusterroles"} \cap index.error # {}
             /\ index.error = {} /\ ~ Exists(b) => b \in index.absent
  <2>1. /\ index.absent = {o \in HeldBindings(c) : GrantOf(HeldRoles(c), o).missing}
        /\ index.error = RbacKinds \ c.readable
    BY <1>4, IndexRead
  <2>2. GrantOf(HeldRoles(c), b).missing <=> LookupRole(HeldRoles(c), b) = {}
    BY GrantRead
  <2>3. LookupRole(HeldRoles(c), b)
          = {role \in HeldRoles(c) : role.name = b.role /\ role.place = IF b.clusterRole THEN 0 ELSE b.place}
    BY DEF LookupRole
  <2>4. ASSUME b \in index.absent, Exists(b) PROVE {"roles", "clusterroles"} \cap index.error # {}
    <3>1. PICK role \in c.roles : role.name = b.role /\ role.place = IF b.clusterRole THEN 0 ELSE b.place
      BY <2>4
    <3>2. role \notin HeldRoles(c)
      BY <2>1, <2>2, <2>3, <2>4, <3>1
    <3>3. (IF role.place = 0 THEN "clusterroles" ELSE "roles") \notin c.readable
      BY <3>2 DEF HeldRoles
    <3> QED BY <2>1, <3>3 DEF RbacKinds
  <2>5. ASSUME index.error = {}, ~ Exists(b) PROVE b \in index.absent
    <3>1. HeldRoles(c) = c.roles /\ HeldBindings(c) = c.bindings
      BY <2>1, <2>5, HeldIsThere
    <3>2. LookupRole(HeldRoles(c), b) = {}
      BY <2>3, <2>5, <3>1
    <3> QED BY <2>1, <2>2, <3>1, <3>2
  <2> QED BY <2>4, <2>5
<1>9. WhoIsWhoMay'
  BY <1>2, <1>4, <1>5, <1>6, <1>7, Zenon DEF WhoIsWhoMay
<1>10. DanglingIsReal'
  BY <1>2, <1>4, <1>8, Zenon DEF DanglingIsReal
<1> QED BY <1>9, <1>10


-----------------------------------------------------------------------------
(* The bench.                                                                *)

\* A question is about one handler, and what is said of the others does not
\* speak of it.
LEMMA OthersAreSilent ==
  /\ ask'.about # "admission.request" => ForeignPagesChangeNothing'
  /\ ask'.about # "admission.role" => StrongestGroupWins'
  /\ ask'.about # "admission.route" => WholePagesForWholeReaders'
  /\ ask'.about # "admission.rows" => RowsGetTheirOwnAnswers'
  /\ ask'.about # "admission.memory" => RememberedIsRecalled'
  /\ ask'.about # "actions" => RefusalsAreTheirOwn' /\ RefusedIsNotPerformed'
  /\ ask'.about # "undo" => UndoSetsWhatWasSet'
  /\ ask'.about # "rbac" => WhoIsWhoMay' /\ DanglingIsReal'
BY Zenon DEF Asks, ForeignPagesChangeNothing, StrongestGroupWins, WholePagesForWholeReaders, RowsGetTheirOwnAnswers,
   RememberedIsRecalled, RefusalsAreTheirOwn, RefusedIsNotPerformed, UndoSetsWhatWasSet, WhoIsWhoMay, DanglingIsReal

\* What each question is about.
LEMMA WhatIsAsked ==
  /\ AskRequest => ask'.about = "admission.request"
  /\ AskGroups => ask'.about = "admission.role"
  /\ AskRoute => ask'.about = "admission.route"
  /\ AskRows => ask'.about = "admission.rows"
  /\ AskMemory => ask'.about = "admission.memory"
  /\ AskActions => ask'.about = "actions"
  /\ AskUndo => ask'.about = "undo"
  /\ AskRbac => ask'.about = "rbac"
  /\ Answered => ask'.about = "nothing"
<1>1. AskRequest => ask'.about = "admission.request"
  BY DEF AskRequest, Put
<1>2. AskGroups => ask'.about = "admission.role"
  BY DEF AskGroups, Put
<1>3. AskRoute => ask'.about = "admission.route"
  BY DEF AskRoute, Put
<1>4. AskRows => ask'.about = "admission.rows"
  BY DEF AskRows, Put
<1>5. AskMemory => ask'.about = "admission.memory"
  BY DEF AskMemory, Put
<1>6. AskActions => ask'.about = "actions"
  BY DEF AskActions, Put
<1>7. AskUndo => ask'.about = "undo"
  BY DEF AskUndo, Put
<1>8. AskRbac => ask'.about = "rbac"
  BY DEF AskRbac, Put
<1>9. Answered => ask'.about = "nothing"
  BY DEF Answered, Idle
<1> QED BY <1>1, <1>2, <1>3, <1>4, <1>5, <1>6, <1>7, <1>8, <1>9

\* Every question gets an answer that is sound.
LEMMA EveryAnswer ==
  ASSUME AskAccess \/ Answered PROVE AccessSound'
<1> USE DEF AccessSound
<1>1. CASE AskRequest
  BY <1>1, ForeignPages, OthersAreSilent, WhatIsAsked
<1>2. CASE AskGroups
  BY <1>2, Strongest, OthersAreSilent, WhatIsAsked
<1>3. CASE AskRoute
  BY <1>3, WholePages, OthersAreSilent, WhatIsAsked
<1>4. CASE AskRows
  BY <1>4, OwnRows, OthersAreSilent, WhatIsAsked
<1>5. CASE AskMemory
  BY <1>5, Recalled, OthersAreSilent, WhatIsAsked
<1>6. CASE AskActions
  BY <1>6, RefusedActions, OthersAreSilent, WhatIsAsked
<1>7. CASE AskUndo
  BY <1>7, UndoSets, OthersAreSilent, WhatIsAsked
<1>8. CASE AskRbac
  BY <1>8, PermissionsShown, OthersAreSilent, WhatIsAsked
<1>9. CASE Answered
  BY <1>9, OthersAreSilent, WhatIsAsked
<1> QED BY <1>1, <1>2, <1>3, <1>4, <1>5, <1>6, <1>7, <1>8, <1>9 DEF AskAccess, AskAdmission

\* Nobody reaches what is not theirs, whatever is asked: AccessSound holds of
\* every question, for every fleet, selection, history and set of roles.
THEOREM AccessSafety ==
  AccessSpec => []AccessSound
<1>1. QuestionInit => AccessSound
  <2>1. QuestionInit => ask.about = "nothing"
    BY DEF QuestionInit, Idle
  <2> QED BY <2>1 DEF Asks, AccessSound, ForeignPagesChangeNothing, StrongestGroupWins,
     WholePagesForWholeReaders, RowsGetTheirOwnAnswers, RememberedIsRecalled, RefusalsAreTheirOwn,
     RefusedIsNotPerformed, UndoSetsWhatWasSet, WhoIsWhoMay, DanglingIsReal
<1>2. AccessSound /\ [AskAccess \/ Answered]_questionVars => AccessSound'
  <2> SUFFICES ASSUME AccessSound, [AskAccess \/ Answered]_questionVars PROVE AccessSound'
    OBVIOUS
  <2>1. CASE AskAccess \/ Answered
    BY <2>1, EveryAnswer
  <2>2. CASE UNCHANGED questionVars
    <3>1. ask' = ask
      BY <2>2 DEF questionVars
    <3>2. ForeignPagesChangeNothing'
      BY <3>1 DEF AccessSound, ForeignPagesChangeNothing, Asks
    <3>3. StrongestGroupWins'
      BY <3>1 DEF AccessSound, StrongestGroupWins, Asks
    <3>4. WholePagesForWholeReaders'
      BY <3>1 DEF AccessSound, WholePagesForWholeReaders, Asks
    <3>5. RowsGetTheirOwnAnswers'
      BY <3>1 DEF AccessSound, RowsGetTheirOwnAnswers, Asks
    <3>6. RememberedIsRecalled'
      BY <3>1 DEF AccessSound, RememberedIsRecalled, Asks
    <3>7. RefusalsAreTheirOwn'
      BY <3>1 DEF AccessSound, RefusalsAreTheirOwn, Asks
    <3>8. RefusedIsNotPerformed'
      BY <3>1 DEF AccessSound, RefusedIsNotPerformed, Asks
    <3>9. UndoSetsWhatWasSet'
      BY <3>1 DEF AccessSound, UndoSetsWhatWasSet, Asks
    <3>10. WhoIsWhoMay'
      BY <3>1 DEF AccessSound, WhoIsWhoMay, Asks
    <3>11. DanglingIsReal'
      BY <3>1 DEF AccessSound, DanglingIsReal, Asks
    <3> QED BY <3>2, <3>3, <3>4, <3>5, <3>6, <3>7, <3>8, <3>9, <3>10, <3>11 DEF AccessSound
  <2> QED BY <2>1, <2>2
<1> QED BY <1>1, <1>2, PTL DEF AccessSpec

-----------------------------------------------------------------------------
(* The rules of the audit.                                                  *)

\* What a sequence over a set holds, and where.
LEMMA SeqTyped ==
  ASSUME NEW S, NEW s \in Seq(S)
  PROVE  Len(s) \in Nat /\ DOMAIN s = 1 .. Len(s) /\ \A i \in DOMAIN s : s[i] \in S
OBVIOUS

\* A finite set of numbers has a greatest one.
LEMMA NatGreatest ==
  ASSUME NEW S, S \subseteq Nat, S # {}, IsFiniteSet(S)
  PROVE  \E m \in S : \A n \in S : n =< m
<1> DEFINE Above(x) == {y \in S : y > x}
           T == {Cardinality(Above(x)) : x \in S}
<1>1. ASSUME NEW x \in S PROVE IsFiniteSet(Above(x)) /\ Cardinality(Above(x)) \in Nat
  <2>1. Above(x) \subseteq S
    OBVIOUS
  <2> HIDE DEF Above
  <2> QED BY <2>1, FS_Subset, FS_CardinalityType
<1>2. T \subseteq Nat /\ T # {}
  BY <1>1
<1>3. PICK x \in S : \A y \in S : Cardinality(Above(x)) =< Cardinality(Above(y))
  <2>1. PICK m \in T : \A n \in T : m =< n
    <3> HIDE DEF T
    <3> QED BY <1>2, NatLeast
  <2> QED BY <2>1
<1>4. ASSUME NEW y \in S, y > x PROVE FALSE
  <2>1. Above(y) \subseteq Above(x) /\ y \in Above(x) /\ y \notin Above(y)
    <3>1. (\A z \in S : z > y => z > x) /\ ~ (y > y)
      BY <1>4
    <3> QED BY <1>4, <3>1, Zenon
  <2>2. Cardinality(Above(y)) < Cardinality(Above(x))
    <3> HIDE DEF Above
    <3>1. Above(y) # Above(x)
      BY <2>1
    <3>2. Cardinality(Above(y)) =< Cardinality(Above(x))
      BY <2>1, <1>1, FS_Subset
    <3>3. Cardinality(Above(y)) # Cardinality(Above(x))
      BY <2>1, <3>1, <1>1, FS_Subset
    <3>4. Cardinality(Above(y)) \in Nat /\ Cardinality(Above(x)) \in Nat
      BY <1>1
    <3> QED BY <3>2, <3>3, <3>4
  <2>3. Cardinality(Above(y)) \in Nat /\ Cardinality(Above(x)) \in Nat /\ Cardinality(Above(x)) =< Cardinality(Above(y))
    BY <1>1, <1>3
  <2> HIDE DEF Above
  <2> QED BY <2>2, <2>3
<1>5. \A n \in S : n =< x
  BY <1>4
<1> QED BY <1>5

\* The greatest number as Max finds it.
LEMMA GreatestChosen ==
  ASSUME NEW S, S \subseteq Nat, S # {}, IsFiniteSet(S)
  PROVE  Max(S) \in S /\ \A n \in S : n =< Max(S)
<1>1. \E m \in S : \A n \in S : m >= n
  BY NatGreatest
<1> QED BY <1>1 DEF Max

\* A quotient reaches a number when what is divided reaches that many divisors.
LEMMA QuotientReaches ==
  ASSUME NEW a \in Nat, NEW h \in Nat, h > 0, NEW k \in Nat
  PROVE  a \div h \in Nat /\ (a \div h >= k <=> a >= k * h)
<1>1. PICK q \in Nat : q = a \div h
  OBVIOUS
<1>2. PICK r \in 0 .. (h - 1) : a = h * q + r
  <2>1. a % h \in 0 .. (h - 1) /\ a = h * (a \div h) + (a % h)
    OBVIOUS
  <2> QED BY <1>1, <2>1
<1>3. CASE q >= k
  <2>1. PICK d \in Nat : q = k + d
    BY <1>3
  <2>2. h * q = k * h + h * d /\ h * d >= 0
    BY <2>1
  <2> QED BY <1>1, <1>2, <1>3, <2>2
<1>4. CASE q < k
  <2>1. PICK d \in Nat : k = q + 1 + d
    <3>1. k - q - 1 \in Nat /\ k = q + 1 + (k - q - 1)
      BY <1>4
    <3> QED BY <3>1
  <2>2. k * h = h * q + h + h * d /\ h * d >= 0
    BY <2>1
  <2>3. ~ (a >= k * h)
    BY <1>2, <2>2
  <2> QED BY <1>1, <1>4, <2>3
<1> QED BY <1>3, <1>4

-----------------------------------------------------------------------------
(* The rules of one manifest.                                                *)

\* Each finding about a container says what made it.
LEMMA FindingsSay ==
  ASSUME NEW p, NEW c, NEW f \in ContainerFindings(p, c)
  PROVE  \/ f[1] = "privileged-containers" /\ c.privileged = "true"
         \/ f[1] = "privilege-escalation" /\ c.escalation # "false"
         \/ f[1] = "run-as-root" /\ f = <<"run-as-root", RootDetail(p, c)>> /\ RootDetail(p, c) # Blank
         \/ f[1] = "writable-root-filesystem" /\ c.readOnlyRoot # "true"
         \/ f[1] = "dangerous-capabilities" /\ AddedCapabilities(c) # {}
         \/ f[1] = "seccomp-unset" /\ SeccompUnset(p, c)
         \/ f[1] = "seccomp-unconfined" /\ Unconfined(p, c)
         \/ f[1] = "proc-mount-unmasked" /\ c.procMount = "Unmasked"
         \/ f[1] = "capabilities-not-dropped" /\ NotDropped(c)
         \/ f[1] = "net-raw-kept" /\ NetRawKept(c)
         \/ f[1] = "host-process" /\ HostProcess(p, c)
<1>1. CASE f \in Security(p, c)
  <2>1. CASE f \in If(c.privileged = "true", <<"privileged-containers", "true">>)
    BY <2>1 DEF If
  <2>2. CASE f \in If(c.escalation # "false", <<"privilege-escalation", c.escalation>>)
    BY <2>2 DEF If
  <2>3. CASE f \in If(RootDetail(p, c) # Blank, <<"run-as-root", RootDetail(p, c)>>)
    BY <2>3 DEF If
  <2>4. CASE f \in If(c.readOnlyRoot # "true", <<"writable-root-filesystem", c.readOnlyRoot>>)
    BY <2>4 DEF If
  <2>5. CASE f \in If(AddedCapabilities(c) # {}, <<"dangerous-capabilities", "added">>)
    BY <2>5 DEF If
  <2> QED BY <1>1, <2>1, <2>2, <2>3, <2>4, <2>5 DEF Security
<1>2. CASE f \in Hardening(p, c)
  <2>1. CASE f \in If(SeccompUnset(p, c), <<"seccomp-unset", Blank>>)
    BY <2>1 DEF If
  <2>2. CASE f \in If(Unconfined(p, c), <<"seccomp-unconfined", Blank>>)
    BY <2>2 DEF If
  <2>3. CASE f \in If(c.procMount = "Unmasked", <<"proc-mount-unmasked", Blank>>)
    BY <2>3 DEF If
  <2>4. CASE f \in If(NotDropped(c), <<"capabilities-not-dropped", Blank>>)
    BY <2>4 DEF If
  <2>5. CASE f \in If(NetRawKept(c), <<"net-raw-kept", Blank>>)
    BY <2>5 DEF If
  <2>6. CASE f \in If(HostProcess(p, c), <<"host-process", Blank>>)
    BY <2>6 DEF If
  <2> QED BY <1>2, <2>1, <2>2, <2>3, <2>4, <2>5, <2>6 DEF Hardening
<1> QED BY <1>1, <1>2 DEF ContainerFindings

\* What the patch of each check changes in a container.
LEMMA PatchSets ==
  ASSUME NEW c \in ContainerSettings
  PROVE  /\ Patched("privileged-containers", c).privileged = "false"
         /\ Patched("privilege-escalation", c).escalation = "false"
         /\ Patched("run-as-root", c).nonRoot = "true"
         /\ Patched("run-as-root", c).user = c.user
         /\ Patched("writable-root-filesystem", c).readOnlyRoot = "true"
         /\ Patched("seccomp-unset", c).seccomp = "default"
         /\ Patched("seccomp-unconfined", c).seccomp = "default"
         /\ Patched("proc-mount-unmasked", c).procMount = "Default"
         /\ Patched("host-process", c).hostProcess = "false"
         /\ Patched("dangerous-capabilities", c).add = {}
         /\ Patched("capabilities-not-dropped", c).drop = {"ALL"}
         /\ Patched("net-raw-kept", c).drop = {"NET_RAW"}
<1>1. Patched("privileged-containers", c).privileged = "false"
  BY DEF Patched, ContainerSettings
<1>2. Patched("privilege-escalation", c).escalation = "false"
  BY DEF Patched, ContainerSettings
<1>3. Patched("run-as-root", c).nonRoot = "true" /\ Patched("run-as-root", c).user = c.user
  BY DEF Patched, ContainerSettings
<1>4. Patched("writable-root-filesystem", c).readOnlyRoot = "true"
  BY DEF Patched, ContainerSettings
<1>5. Patched("seccomp-unset", c).seccomp = "default" /\ Patched("seccomp-unconfined", c).seccomp = "default"
  BY DEF Patched, ContainerSettings
<1>6. Patched("proc-mount-unmasked", c).procMount = "Default"
  BY DEF Patched, ContainerSettings
<1>7. Patched("host-process", c).hostProcess = "false"
  BY DEF Patched, ContainerSettings
<1>8. Patched("dangerous-capabilities", c).add = {}
  BY DEF Patched, PatchedCapabilities, ContainerSettings
<1>9. Patched("capabilities-not-dropped", c).drop = {"ALL"}
  BY DEF Patched, PatchedCapabilities, ContainerSettings
<1>10. Patched("net-raw-kept", c).drop = {"NET_RAW"}
  BY DEF Patched, PatchedCapabilities, ContainerSettings
<1> QED BY <1>1, <1>2, <1>3, <1>4, <1>5, <1>6, <1>7, <1>8, <1>9, <1>10

\* A container that has had the patch of a finding no longer has the finding.
LEMMA PatchMends ==
  ASSUME NEW p \in PodSettings, NEW c \in ContainerSettings,
         NEW f \in ContainerFindings(p, c), ~ BeyondPatch(f, p),
         NEW d, d = Patched(f[1], c),
         NEW g \in ContainerFindings(p, d), g[1] = f[1]
  PROVE  FALSE
<1>1. CASE f[1] = "privileged-containers"
  BY <1>1, FindingsSay, PatchSets
<1>2. CASE f[1] = "privilege-escalation"
  BY <1>2, FindingsSay, PatchSets
<1>3. CASE f[1] = "run-as-root"
  <2>1. /\ f = <<"run-as-root", RootDetail(p, c)>>
        /\ RootDetail(p, c) # "user 0"
        /\ RootDetail(p, d) # Blank
    BY <1>3, FindingsSay DEF BeyondPatch
  <2>2. d.nonRoot = "true" /\ d.user = c.user
    BY <1>3, PatchSets
  <2>3. UserIDOf(p, d) = UserIDOf(p, c)
    BY <2>2, Zenon DEF UserIDOf
  <2>4. UserIDOf(p, c) # 0
    BY <2>1, Zenon DEF RootDetail
  <2>5. Effective(d.nonRoot, p.nonRoot) = "true"
    BY <2>2 DEF Effective, Off
  <2>6. RootDetail(p, d) = Blank
    BY <2>3, <2>4, <2>5, Zenon DEF RootDetail
  <2> QED BY <2>1, <2>6
<1>4. CASE f[1] = "writable-root-filesystem"
  BY <1>4, FindingsSay, PatchSets
<1>5. CASE f[1] = "dangerous-capabilities"
  BY <1>5, FindingsSay, PatchSets DEF AddedCapabilities
<1>6. CASE f[1] = "seccomp-unset"
  BY <1>6, FindingsSay, PatchSets DEF SeccompUnset, Off
<1>7. CASE f[1] = "seccomp-unconfined"
  BY <1>7, FindingsSay, PatchSets DEF Unconfined, Effective, Off
<1>8. CASE f[1] = "proc-mount-unmasked"
  BY <1>8, FindingsSay, PatchSets
<1>9. CASE f[1] = "capabilities-not-dropped"
  BY <1>9, FindingsSay, PatchSets DEF NotDropped
<1>10. CASE f[1] = "net-raw-kept"
  BY <1>10, FindingsSay, PatchSets DEF NetRawKept
<1>11. CASE f[1] = "host-process"
  BY <1>11, FindingsSay, PatchSets DEF HostProcess, BeyondPatch
<1> QED BY FindingsSay, <1>1, <1>2, <1>3, <1>4, <1>5, <1>6, <1>7, <1>8, <1>9, <1>10, <1>11

\* Keeping three jobs mends the field of a CronJob that was complained about.
LEMMA HistoryMends ==
  ASSUME NEW kept \in Seq(Int), NEW q, q = [about |-> "workload.history", kept |-> kept],
         NEW at, at = CronHistory(q), at # 0
  PROVE  CronHistory([q EXCEPT !.kept[at] = 3]) # at
<1> DEFINE Loose(some) == {i \in DOMAIN some : some[i] = NoUser \/ some[i] > KeptJobsCeiling}
           First(some) == CHOOSE i \in Loose(some) : \A j \in Loose(some) : i =< j
<1>1. ASSUME NEW some \in Seq(Int), Loose(some) # {}
      PROVE  First(some) \in Loose(some)
  <2>1. Loose(some) \subseteq Nat
    OBVIOUS
  <2> HIDE DEF Loose
  <2> QED BY <1>1, <2>1, LeastChosen
<1>2. at = IF Loose(kept) = {} THEN 0 ELSE First(kept)
  BY DEF CronHistory
<1>3. at \in Loose(kept)
  BY <1>1, <1>2
<1>4. PICK mended : mended = [kept EXCEPT ![at] = 3]
  OBVIOUS
<1>5. mended \in Seq(Int) /\ mended[at] = 3
  BY <1>3, <1>4
<1>6. at \notin Loose(mended)
  BY <1>5 DEF NoUser, KeptJobsCeiling
<1>7. PICK w : w = [q EXCEPT !.kept[at] = 3]
  OBVIOUS
<1>8. CronHistory(w) = IF Loose(mended) = {} THEN 0 ELSE First(mended)
  <2>1. w.kept = mended
    BY <1>4, <1>7
  <2> QED BY <2>1 DEF CronHistory
<1>9. CASE Loose(mended) = {}
  BY <1>7, <1>8, <1>9
<1>10. CASE Loose(mended) # {}
  <2>1. First(mended) \in Loose(mended)
    BY <1>1, <1>5, <1>10
  <2> HIDE DEF First, Loose
  <2> QED BY <1>6, <1>7, <1>8, <1>10, <2>1
<1> QED BY <1>9, <1>10

\* What a pod mounts from its node is found, each sort by its own check.
LEMMA PathsFound ==
  ASSUME NEW p, NEW c, NEW i \in DOMAIN p.volumes
  PROVE  /\ p.volumes[i] = "socket" => <<"runtime-socket-mounted", Blank>> \in Findings(p, c)
         /\ p.volumes[i] = "plain" => <<"host-path-volume", Blank>> \in Findings(p, c)
         /\ p.volumes[i] = "sensitive" => <<"sensitive-host-path", Blank>> \in Findings(p, c)
<1>1. ASSUME NEW class, p.volumes[i] = class PROVE FirstHostPath(p, class)
  BY <1>1 DEF FirstHostPath
<1>2. p.volumes[i] = "socket" => <<"runtime-socket-mounted", Blank>> \in SubjectFindings(p)
  BY <1>1 DEF SubjectFindings, If
<1>3. p.volumes[i] = "plain" => <<"host-path-volume", Blank>> \in SubjectFindings(p)
  BY <1>1 DEF SubjectFindings, If
<1>4. p.volumes[i] = "sensitive" => <<"sensitive-host-path", Blank>> \in SubjectFindings(p)
  BY <1>1 DEF SubjectFindings, If
<1> QED BY <1>2, <1>3, <1>4 DEF Findings

\* What has no control upstream is reported as it was found.
LEMMA FoundIsReported ==
  ASSUME NEW p, NEW c, NEW decided, NEW f \in Findings(p, c), f[1] \notin UpstreamChecks
  PROVE  f \in Reported(p, c, decided)
<1>1. f \in {g \in Findings(p, c) : g[1] \notin UpstreamChecks}
  OBVIOUS
<1> QED BY <1>1, Zenon DEF Reported

\* What upstream rejects is reported as it was found.
LEMMA RejectedAsFound ==
  ASSUME NEW p, NEW c, NEW decided \in BOOLEAN, NEW check \in UpstreamChecks,
         NEW f \in Findings(p, c), f[1] = check, UpstreamRejects(Control(check), p, c)
  PROVE  f \in Reported(p, c, decided)
<1>1. f \in DecidedUpstream(check, p, c, decided)
  BY Zenon DEF DecidedUpstream
<1> QED BY <1>1 DEF Reported

\* A pod with a plain path from its node is one upstream rejects.
LEMMA PathsRejected ==
  ASSUME NEW p, NEW c, p.volumes # <<>>
  PROVE  UpstreamRejects(Control("host-path-volume"), p, c)
<1>1. Control("host-path-volume") = "hostPathVolumes"
  BY DEF Control
<1>2. UpstreamRejects("hostPathVolumes", p, c)
  BY DEF UpstreamRejects
<1> QED BY <1>1, <1>2

\* Whatever upstream rejects, some check that speaks for it reports.
LEMMA RejectedTold ==
  ASSUME NEW p \in PodSettings, NEW c \in ContainerSettings, NEW check \in UpstreamChecks,
         UpstreamRejects(Control(check), p, c)
  PROVE  \E f \in Reported(p, c, TRUE) : f[1] \in Speakers(check)
<1>1. check \in Speakers(check)
  BY DEF Speakers
<1> DEFINE own == {f \in Findings(p, c) : f[1] = check}
<1>2. CASE own # {}
  <2>1. PICK f \in Findings(p, c) : f[1] = check
    BY <1>2
  <2>2. f \in Reported(p, c, TRUE)
    BY <2>1, RejectedAsFound
  <2> QED BY <1>1, <2>1, <2>2
<1>3. CASE own = {} /\ ~ PresentedBy(check, p)
  <2>1. DecidedUpstream(check, p, c, TRUE) = {<<check, "upstream">>}
    BY <1>3, Zenon DEF DecidedUpstream
  <2>2. <<check, "upstream">> \in Reported(p, c, TRUE)
    BY <2>1, Zenon DEF Reported
  <2>3. <<check, "upstream">>[1] = check
    OBVIOUS
  <2> QED BY <1>1, <2>2, <2>3, Zenon
<1>4. CASE own = {} /\ PresentedBy(check, p)
  <2>1. check \in {"host-path-volume", "proc-mount-in-user-namespace"}
    BY <1>4 DEF PresentedBy
  <2>2. CASE check = "host-path-volume"
    <3>1. PICK i \in DOMAIN p.volumes : p.volumes[i] # Blank
      BY <1>4, <2>2 DEF PresentedBy, HasHostPath
    <3>2. p.volumes[i] \in {"socket", "sensitive", "plain"}
      BY <3>1 DEF PodSettings, Paths
    <3>3. p.volumes[i] # "plain"
      BY <1>4, <2>2, PathsFound
    <3>4. CASE p.volumes[i] = "socket"
      <4>1. <<"runtime-socket-mounted", Blank>> \in Reported(p, c, TRUE)
        BY <3>4, PathsFound, FoundIsReported DEF UpstreamChecks
      <4>2. "runtime-socket-mounted" \in Speakers(check)
        BY <2>2 DEF Speakers
      <4> QED BY <4>1, <4>2
    <3>5. CASE p.volumes[i] = "sensitive"
      <4>1. <<"sensitive-host-path", Blank>> \in Reported(p, c, TRUE)
        BY <3>5, PathsFound, FoundIsReported DEF UpstreamChecks
      <4>2. "sensitive-host-path" \in Speakers(check)
        BY <2>2 DEF Speakers
      <4> QED BY <4>1, <4>2
    <3> QED BY <3>2, <3>3, <3>4, <3>5
  <2>3. CASE check = "proc-mount-in-user-namespace"
    <3>1. OutsideUserNamespace(p)
      BY <1>4, <2>3 DEF PresentedBy
    <3>2. c.procMount = "Unmasked"
      <4>1. Control(check) = "procMount_restricted"
        BY <2>3 DEF Control
      <4>2. UpstreamRejects("procMount_restricted", p, c)
        BY <4>1
      <4> QED BY <4>2 DEF UpstreamRejects
    <3>3. <<"proc-mount-unmasked", Blank>> \in Findings(p, c)
      BY <3>2 DEF Findings, ContainerFindings, Hardening, If
    <3>4. UpstreamRejects(Control("proc-mount-unmasked"), p, c)
      <4>1. Control("proc-mount-unmasked") = "procMount"
        BY DEF Control
      <4>2. UpstreamRejects("procMount", p, c)
        BY <3>1, <3>2 DEF UpstreamRejects
      <4> QED BY <4>1, <4>2
    <3>5. <<"proc-mount-unmasked", Blank>> \in Reported(p, c, TRUE)
      <4>1. "proc-mount-unmasked" \in UpstreamChecks /\ <<"proc-mount-unmasked", Blank>>[1] = "proc-mount-unmasked"
        BY DEF UpstreamChecks
      <4> QED BY <3>3, <3>4, <4>1, RejectedAsFound
    <3>6. "proc-mount-unmasked" \in Speakers(check)
      BY <2>3 DEF Speakers
    <3> QED BY <3>5, <3>6
  <2> QED BY <2>1, <2>2, <2>3
<1> QED BY <1>2, <1>3, <1>4

\* Every sort of path from the node is reported by its own check.
LEMMA PathsTold ==
  ASSUME NEW p \in PodSettings, NEW c, NEW decided \in BOOLEAN, NEW i \in DOMAIN p.volumes
  PROVE  /\ p.volumes[i] = "socket" => <<"runtime-socket-mounted", Blank>> \in Reported(p, c, decided)
         /\ p.volumes[i] = "plain" => <<"host-path-volume", Blank>> \in Reported(p, c, decided)
         /\ p.volumes[i] = "sensitive" => <<"sensitive-host-path", Blank>> \in Reported(p, c, decided)
<1>1. p.volumes[i] = "socket" => <<"runtime-socket-mounted", Blank>> \in Reported(p, c, decided)
  BY PathsFound, FoundIsReported DEF UpstreamChecks
<1>2. p.volumes[i] = "sensitive" => <<"sensitive-host-path", Blank>> \in Reported(p, c, decided)
  BY PathsFound, FoundIsReported DEF UpstreamChecks
<1>3. ASSUME p.volumes[i] = "plain" PROVE <<"host-path-volume", Blank>> \in Reported(p, c, decided)
  <2>1. p.volumes # <<>>
    BY DEF PodSettings
  <2>2. UpstreamRejects(Control("host-path-volume"), p, c)
    BY <2>1, PathsRejected
  <2>3. <<"host-path-volume", Blank>> \in Findings(p, c)
    BY <1>3, PathsFound
  <2>4. "host-path-volume" \in UpstreamChecks /\ <<"host-path-volume", Blank>>[1] = "host-path-volume"
    BY DEF UpstreamChecks
  <2> QED BY <2>2, <2>3, <2>4, RejectedAsFound
<1> QED BY <1>1, <1>2, <1>3

\* A limit is ten times the request or more when their quotient says so.
LEMMA RatioIsReal ==
  ASSUME NEW asked \in Nat, NEW allowed \in Nat
  PROVE  RatioDetail(asked, allowed) <=> (asked > 0 /\ allowed >= 10 * asked)
<1>1. ASSUME asked > 0 PROVE allowed \div asked >= 10 <=> allowed >= 10 * asked
  BY <1>1, QuotientReaches
<1> QED BY <1>1 DEF RatioDetail, OverprovisionRatio

\* Only all of a hundred percent takes every replica.
LEMMA RolloutIsReal ==
  ASSUME NEW raw \in 0 .. (PercentSign + 100), NEW replicas \in Nat, replicas > 0
  PROVE  TakesEverything(raw, replicas) <=>
           replicas =< IF raw >= PercentSign THEN ((raw - PercentSign) * replicas) \div 100 ELSE raw
<1>1. CASE raw >= PercentSign
  <2>1. PICK x \in 0 .. 100 : x = raw - PercentSign
    BY <1>1 DEF PercentSign
  <2>2. x * replicas \in Nat
    BY <2>1
  <2>3. (x * replicas) \div 100 >= replicas <=> x * replicas >= replicas * 100
    BY <2>2, QuotientReaches
  <2>4. (x * replicas) \div 100 \in Nat
    BY <2>2
  <2>5. x # 100 => x * replicas < replicas * 100
    <3>1. SUFFICES ASSUME x # 100 PROVE x * replicas < replicas * 100
      OBVIOUS
    <3>2. PICK d \in Nat : 100 = x + 1 + d
      <4>1. 99 - x \in Nat /\ 100 = x + 1 + (99 - x)
        BY <3>1
      <4> QED BY <4>1
    <3>3. replicas * 100 = x * replicas + replicas + d * replicas /\ d * replicas >= 0
      BY <3>2
    <3> QED BY <2>2, <3>3
  <2>6. x = 100 => x * replicas >= replicas * 100
    OBVIOUS
  <2>7. x = 100 <=> replicas =< (x * replicas) \div 100
    BY <2>2, <2>3, <2>4, <2>5, <2>6
  <2>8. TakesEverything(raw, replicas) <=> x = 100
    BY <1>1, <2>1 DEF TakesEverything, PercentSign
  <2> QED BY <1>1, <2>1, <2>7, <2>8
<1>2. CASE ~ (raw >= PercentSign)
  BY <1>2 DEF TakesEverything, PercentSign
<1> QED BY <1>1, <1>2

\* A shared node is one whose loss takes every pod, of several.
LEMMA SharedIsReal ==
  ASSUME NEW pods \in Seq(Hosts \cup {Blank})
  PROVE  SharedNode(pods) <=> Len(pods) > 1 /\ \E n \in Hosts : \A i \in DOMAIN pods : pods[i] = n
<1>1. ASSUME Len(pods) >= 2 PROVE 1 \in DOMAIN pods /\ pods[1] \in Hosts \cup {Blank}
  BY <1>1
<1>2. Blank \notin Hosts
  BY HostAssumption
<1>3. Len(pods) >= 2 <=> Len(pods) > 1
  OBVIOUS
<1> QED BY <1>1, <1>2, <1>3 DEF SharedNode

\* The units of every pod are finitely many.
LEMMA UnitsFinite ==
  ASSUME NEW used \in Seq(Nat)
  PROVE  IsFiniteSet(UnitsUsed(used))
<1> DEFINE own == [i \in DOMAIN used |-> {i} \X (1 .. used[i])]
           Own == {{i} \X (1 .. used[i]) : i \in DOMAIN used}
<1>1. IsFiniteSet(DOMAIN used)
  BY FS_Interval
<1>2. IsFiniteSet(Own)
  <2>1. own \in Surjection(DOMAIN used, Own)
    BY DEF Surjection
  <2> HIDE DEF own, Own
  <2> QED BY <1>1, <2>1, FS_Surjection
<1>3. ASSUME NEW i \in DOMAIN used PROVE IsFiniteSet({i} \X (1 .. used[i]))
  <2>1. IsFiniteSet({i})
    BY FS_Singleton
  <2>2. IsFiniteSet(1 .. used[i])
    <3>1. used[i] \in Int
      OBVIOUS
    <3> QED BY <3>1, FS_Interval
  <2> QED BY <2>1, <2>2, FS_Product
<1>4. \A S \in Own : IsFiniteSet(S)
  BY <1>3
<1>5. IsFiniteSet(UNION Own)
  <2> HIDE DEF Own
  <2> QED BY <1>2, <1>4, FS_UNION
<1> QED BY <1>5 DEF UnitsUsed

\* The cells of a grid.
LEMMA GridCounted ==
  ASSUME NEW n \in Nat, NEW k \in Nat
  PROVE  IsFiniteSet((1 .. n) \X (1 .. k)) /\ Cardinality((1 .. n) \X (1 .. k)) = n * k
<1>1. IsFiniteSet(1 .. n) /\ Cardinality(1 .. n) = n
  BY FS_Interval
<1>2. IsFiniteSet(1 .. k) /\ Cardinality(1 .. k) = k
  BY FS_Interval
<1>3. PICK A, B : A = 1 .. n /\ B = 1 .. k
  OBVIOUS
<1>4. IsFiniteSet(A) /\ Cardinality(A) = n /\ IsFiniteSet(B) /\ Cardinality(B) = k
  BY <1>1, <1>2, <1>3
<1>5. IsFiniteSet(A \X B) /\ Cardinality(A \X B) = Cardinality(A) * Cardinality(B)
  BY <1>4, FS_Product
<1>6. IsFiniteSet(A \X B) /\ Cardinality(A \X B) = n * k
  BY <1>4, <1>5
<1> QED BY <1>3, <1>6

\* When requests are called ten times the use, some pod uses a tenth or less:
\* if every pod used more than the mean, the mean would be higher.
LEMMA UsageIsReal ==
  ASSUME NEW asked \in Nat, NEW used \in Seq(Nat), RequestsAboveUsage(asked, used)
  PROVE  \E i \in DOMAIN used : used[i] * OverprovisionRatio =< asked
<1>1. PICK m : m = MeanUsage(used)
  OBVIOUS
<1>2. PICK sum : sum = Cardinality(UnitsUsed(used))
  OBVIOUS
<1>3. sum \in Nat
  BY <1>2, UnitsFinite, FS_CardinalityType
<1>4. used # <<>> /\ Len(used) \in Nat /\ Len(used) > 0
  BY DEF RequestsAboveUsage
<1>5. m = sum \div Len(used)
  BY <1>1, <1>2, <1>4 DEF MeanUsage
<1>6. m \in Nat /\ m > 0 /\ asked \div m >= OverprovisionRatio
  BY <1>1, <1>3, <1>4, <1>5 DEF RequestsAboveUsage
<1>7. asked >= 10 * m
  BY <1>6, QuotientReaches DEF OverprovisionRatio
<1>8. SUFFICES ASSUME \A i \in DOMAIN used : used[i] * 10 > asked
               PROVE  FALSE
  BY DEF OverprovisionRatio
<1>9. \A i \in DOMAIN used : used[i] >= m + 1
  BY <1>6, <1>7, <1>8
<1>10. (DOMAIN used) \X (1 .. m + 1) \subseteq UnitsUsed(used)
  <2>1. ASSUME NEW i \in DOMAIN used, NEW k \in 1 .. m + 1 PROVE <<i, k>> \in {i} \X (1 .. used[i])
    BY <1>6, <1>9
  <2> QED BY <2>1 DEF UnitsUsed
<1>11. /\ IsFiniteSet((DOMAIN used) \X (1 .. m + 1))
       /\ Cardinality((DOMAIN used) \X (1 .. m + 1)) = Len(used) * (m + 1)
  <2>1. PICK n \in Nat, k \in Nat : n = Len(used) /\ k = m + 1
    BY <1>4, <1>6
  <2>2. DOMAIN used = 1 .. n
    BY <2>1
  <2> QED BY <2>1, <2>2, GridCounted
<1>12. Len(used) * (m + 1) =< sum
  BY <1>2, <1>10, <1>11, UnitsFinite, FS_Subset
<1>13. sum \div Len(used) >= m + 1
  <2>1. m + 1 \in Nat /\ (m + 1) * Len(used) = Len(used) * (m + 1)
    BY <1>4, <1>6
  <2>2. sum >= (m + 1) * Len(used)
    BY <1>12, <2>1, <1>3, <1>4
  <2> QED BY <1>3, <1>4, <2>1, <2>2, QuotientReaches
<1> QED BY <1>5, <1>6, <1>13

-----------------------------------------------------------------------------
(* The rules that judge an object by the others.                             *)

\* What a reference is to is one of the kinds its check needs read, and one the
\* audit lists.
LEMMA SoughtIsNeeded ==
  ASSUME NEW c \in ReferenceChecks
  PROVE  /\ Sought(c) \in CheckNeeds(c)
         /\ Sought(c) \in Context \cup NameOnly
<1>11. ASSUME c \in NetworkChecks PROVE CheckNeeds(c) = NetworkNeeds(c)
  <2>1. c \notin OrphanChecks
    BY <1>11 DEF NetworkChecks, OrphanChecks
  <2> QED BY <1>11, <2>1 DEF CheckNeeds
<1>1. CASE c = "ingress-backend-missing"
  BY <1>1, <1>11 DEF Sought, NetworkChecks, NetworkNeeds, Context
<1>2. CASE c = "ingress-class-missing"
  BY <1>2, <1>11 DEF Sought, NetworkChecks, NetworkNeeds, Context
<1>3. CASE c = "storage-class-missing"
  BY <1>3, <1>11 DEF Sought, NetworkChecks, NetworkNeeds, Context
<1>4. ASSUME c \notin NetworkChecks PROVE CheckNeeds(c) = WorkloadRefNeeds(c)
  BY <1>4 DEF CheckNeeds, ReferenceChecks, OrphanChecks
<1>5. CASE c = "service-account-missing"
  BY <1>4, <1>5 DEF Sought, WorkloadRefNeeds, NetworkChecks, Context
<1>6. CASE c = "config-map-missing"
  BY <1>4, <1>6 DEF Sought, WorkloadRefNeeds, NetworkChecks, Context
<1>7. CASE c \in {"secret-missing", "pull-secret-missing"}
  BY <1>4, <1>7 DEF Sought, WorkloadRefNeeds, NetworkChecks, NameOnly
<1>8. CASE c = "claim-missing"
  BY <1>4, <1>8 DEF Sought, WorkloadRefNeeds, NetworkChecks, Context
<1>9. CASE c = "priority-class-missing"
  BY <1>4, <1>9 DEF Sought, WorkloadRefNeeds, NetworkChecks, Context
<1>10. CASE c = "runtime-class-missing"
  BY <1>4, <1>10 DEF Sought, WorkloadRefNeeds, NetworkChecks, Context
<1> QED BY <1>1, <1>2, <1>3, <1>5, <1>6, <1>7, <1>8, <1>9, <1>10 DEF ReferenceChecks, NetworkChecks

\* A kind that the audit has, of those it lists, was wanted and was read.
LEMMA HadIsRead ==
  ASSUME NEW r, IsReading(r), ~ r.everyKind, NEW kind \in TargetsFor(TRUE), Has(r, kind)
  PROVE  kind \in Wanted(r) \ Unread(r)
<1>1. kind \in TargetsFor(r.whole)
  BY Zenon DEF Has, Absent
<1>2. kind \in Discovered(r)
  BY <1>1, Zenon DEF Has, Absent, Undiscovered
<1>3. kind \in Wanted(r)
  BY <1>1, <1>2, Zenon DEF Wanted
<1>4. kind \notin Unread(r)
  BY Zenon DEF Has, Absent
<1> QED BY <1>3, <1>4

\* What is there and is of a kind that was read is known by name.
LEMMA ReadIsNamed ==
  ASSUME NEW r, NEW o \in r.cluster, o.kind \in TargetsFor(TRUE), o.kind \in Wanted(r) \ Unread(r)
  PROVE  Named(r, o.kind, o.space, o.name)
<1>1. CASE o.kind \in NameOnly
  <2>1. o \in Gather(r).names
    BY <1>1 DEF Gather, ReadOf
  <2> QED BY <2>1 DEF Named
<1>2. CASE o.kind \notin NameOnly
  <2>1. o \in Gather(r).items
    BY <1>2 DEF Gather, ReadOf
  <2> QED BY <2>1 DEF Named
<1> QED BY <1>1, <1>2

\* What is reported as missing is not there.
LEMMA MissingReal ==
  ASSUME NEW c \in ReferenceChecks, NEW ref, NEW r, IsReading(r), ~ r.everyKind,
         MissingReference(c, ref, r)
  PROVE  ~ ReallyThere(c, ref, r)
<1>1. SUFFICES ASSUME ReallyThere(c, ref, r) PROVE FALSE
  OBVIOUS
<1>2. PICK space : space = IF Sought(c) \in OfCluster THEN Blank ELSE ref.space
  OBVIOUS
<1>3. ~ StandsDown(c, r) /\ ~ Named(r, Sought(c), space, ref.name)
  BY <1>2, Zenon DEF MissingReference
<1>4. PICK o \in r.cluster : o.kind = Sought(c) /\ o.name = ref.name /\ o.space = space
  BY <1>1, <1>2, Zenon DEF ReallyThere
<1>5. Has(r, Sought(c))
  BY <1>3, SoughtIsNeeded, Zenon DEF StandsDown
<1>6. Sought(c) \in TargetsFor(TRUE)
  BY SoughtIsNeeded, Zenon DEF TargetsFor
<1>7. Sought(c) \in Wanted(r) \ Unread(r)
  BY <1>5, <1>6, HadIsRead
<1>8. Named(r, o.kind, o.space, o.name)
  BY <1>4, <1>6, <1>7, ReadIsNamed
<1> QED BY <1>3, <1>4, <1>8, Zenon

\* An orphan is judged only when every kind that is served was read.
LEMMA OrphanReadsAll ==
  ASSUME NEW c \in OrphanChecks, NEW r, IsReading(r), ~ StandsDown(c, r)
  PROVE  Discovered(r) \subseteq Wanted(r) \ Unread(r)
<1>1. ReadsCustom(r) /\ Unread(r) = {}
  BY Zenon DEF StandsDown, NeedsEvery, Refused
<1>2. DOMAIN r.answers = TargetsFor(TRUE) \cup Borrowed
  BY DEF IsReading
<1>3. CASE r.everyKind
  <2>1. Wanted(r) = Discovered(r) \cap DOMAIN r.answers
    BY <1>3, Zenon DEF Wanted
  <2> QED BY <1>1, <2>1 DEF Discovered
<1>4. CASE ~ r.everyKind
  <2>1. r.whole = TRUE /\ r.corpus
    BY <1>1, <1>4 DEF ReadsCustom, IsReading
  <2>2. Wanted(r) = Discovered(r) \cap (TargetsFor(TRUE) \cup Borrowed)
    BY <1>4, <2>1, Zenon DEF Wanted
  <2> QED BY <1>1, <1>2, <2>2 DEF Discovered
<1> QED BY <1>3, <1>4

\* What is reported as left over is named by nothing that is served.
LEMMA OrphanReal ==
  ASSUME NEW c \in OrphanChecks, NEW r, IsReading(r),
         \A o \in r.cluster : o.kind \in NameOnly => o.says \subseteq {o.name},
         NEW f \in OrphansOf(c, r), NEW o \in r.cluster,
         o.kind \in Discovered(r), o.name # f.object.name
  PROVE  f.object.name \notin o.says
<1>1. ~ StandsDown(c, r)
  BY Zenon DEF OrphansOf
<1>2. ~ MentionedElsewhere(r, f.object.name)
  <2>1. PICK p \in Gather(r).items \cup Gather(r).names :
          ~ MentionedElsewhere(r, p.name) /\ f = [object |-> p, convention |-> ConsumedBy(p)]
    BY <1>1, Zenon DEF OrphansOf
  <2>2. f.object = p
    BY <2>1
  <2> QED BY <2>1, <2>2
<1>3. SUFFICES ASSUME f.object.name \in o.says PROVE FALSE
  OBVIOUS
<1>4. o.kind \notin NameOnly
  BY <1>3
<1>5. o.kind \in Wanted(r) \ Unread(r)
  BY <1>1, OrphanReadsAll
<1>6. o.kind \in TargetsFor(TRUE) \cup Borrowed
  BY DEF Discovered, IsReading
<1>7. o \in Gather(r).items \cup Gather(r).scanned
  BY <1>4, <1>5, <1>6 DEF Gather, ReadOf
<1> QED BY <1>2, <1>3, <1>7 DEF MentionedElsewhere

\* The owner of an object is one that is held, or the object itself.
LEMMA OwnerFound ==
  ASSUME NEW items, NEW o \in items, o.owners \in Seq(STRING \X STRING)
  PROVE  IF OwnersHeld(o, items) = {} THEN OwnerOf(o, items) = o ELSE OwnerOf(o, items) \in OwnersHeld(o, items)
<1> DEFINE held == {i \in DOMAIN o.owners : \E p \in OwnersHeld(o, items) : o.owners[i] = <<p.kind, p.name>>}
<1>1. OwnersHeld(o, items) = {} <=> held = {}
  BY DEF OwnersHeld
<1>2. CASE held = {}
  BY <1>1, <1>2 DEF OwnerOf
<1>3. CASE held # {}
  <2>1. held \subseteq Nat
    OBVIOUS
  <2>2. PICK least : least = CHOOSE i \in held : \A j \in held : i =< j
    OBVIOUS
  <2>3. least \in held
    <3> HIDE DEF held
    <3> QED BY <1>3, <2>1, <2>2, LeastChosen
  <2>4. Min(held) = least
    BY <2>2, Zenon DEF Min
  <2>5. OwnerOf(o, items) = CHOOSE p \in OwnersHeld(o, items) : o.owners[least] = <<p.kind, p.name>>
    BY <1>3, <2>4, Zenon DEF OwnerOf
  <2>6. \E p \in OwnersHeld(o, items) : o.owners[least] = <<p.kind, p.name>>
    BY <2>3
  <2>7. OwnerOf(o, items) \in OwnersHeld(o, items)
    BY <2>5, <2>6, Zenon
  <2> QED BY <1>1, <1>3, <2>7
<1> QED BY <1>2, <1>3

\* Following owners ends at an object of which no owner is held.
LEMMA TopIsFree ==
  ASSUME NEW items, NEW o \in items,
         \A p \in items : p.owners \in Seq(STRING \X STRING),
         NEW rank \in [items -> 0 .. OwnerDepth],
         \A p \in items : \A q \in OwnersHeld(p, items) : rank[q] < rank[p]
  PROVE  TopOwner(o, items) \in items /\ OwnersHeld(TopOwner(o, items), items) = {}
<1>1. ASSUME NEW p \in items
      PROVE  /\ OwnerOf(p, items) \in items
             /\ \/ OwnersHeld(p, items) = {} /\ OwnerOf(p, items) = p
                \/ OwnersHeld(p, items) # {} /\ rank[OwnerOf(p, items)] < rank[p]
  <2>1. OwnersHeld(p, items) \subseteq items
    BY DEF OwnersHeld
  <2> QED BY <2>1, OwnerFound
<1>2. PICK a : a = OwnerOf(o, items)
  OBVIOUS
<1>3. PICK b : b = OwnerOf(a, items)
  OBVIOUS
<1>4. PICK c : c = OwnerOf(b, items)
  OBVIOUS
<1>5. PICK d : d = OwnerOf(c, items)
  OBVIOUS
<1>6. TopOwner(o, items) = d
  BY <1>2, <1>3, <1>4, <1>5, Zenon DEF TopOwner
<1>7. a \in items /\ b \in items /\ c \in items /\ d \in items
  BY <1>1, <1>2, <1>3, <1>4, <1>5
<1>8. /\ (OwnersHeld(o, items) = {} /\ a = o) \/ (OwnersHeld(o, items) # {} /\ rank[a] < rank[o])
      /\ (OwnersHeld(a, items) = {} /\ b = a) \/ (OwnersHeld(a, items) # {} /\ rank[b] < rank[a])
      /\ (OwnersHeld(b, items) = {} /\ c = b) \/ (OwnersHeld(b, items) # {} /\ rank[c] < rank[b])
      /\ (OwnersHeld(c, items) = {} /\ d = c) \/ (OwnersHeld(c, items) # {} /\ rank[d] < rank[c])
  BY <1>1, <1>2, <1>3, <1>4, <1>5, <1>7
<1>9. OwnersHeld(d, items) = {}
  <2>1. SUFFICES ASSUME OwnersHeld(d, items) # {} PROVE FALSE
    OBVIOUS
  <2>2. PICK e \in OwnersHeld(d, items) : TRUE
    BY <2>1
  <2>3. e \in items /\ rank[e] < rank[d]
    BY <1>7, <2>2 DEF OwnersHeld
  <2>4. rank[a] < rank[o] /\ rank[b] < rank[a] /\ rank[c] < rank[b] /\ rank[d] < rank[c]
    <3>1. OwnersHeld(c, items) # {}
      BY <1>8, <2>1, Zenon
    <3>2. OwnersHeld(b, items) # {}
      BY <1>8, <3>1, Zenon
    <3>3. OwnersHeld(a, items) # {}
      BY <1>8, <3>2, Zenon
    <3>4. OwnersHeld(o, items) # {}
      BY <1>8, <3>3, Zenon
    <3> QED BY <1>8, <3>1, <3>2, <3>3, <3>4, Zenon
  <2>5. /\ rank[o] \in 0 .. 4 /\ rank[a] \in 0 .. 4 /\ rank[b] \in 0 .. 4 /\ rank[c] \in 0 .. 4
        /\ rank[d] \in 0 .. 4 /\ rank[e] \in 0 .. 4
    BY <1>7, <2>3 DEF OwnerDepth
  <2> QED BY <2>3, <2>4, <2>5
<1> QED BY <1>6, <1>7, <1>9

\* A pod is counted under one workload, the free one at the end of its owners.
LEMMA PodsCounted ==
  ASSUME NEW items \in Holdings, NEW pod \in items, pod.kind = "pods",
         \A o \in items : \A i \in DOMAIN o.owners :
           \E p \in OwnersHeld(o, items) : o.owners[i] = <<p.kind, p.name>>
  PROVE  Cardinality({w \in SubjectsOf(items) : pod \in PlacedUnder(items, w)}) = 1
<1>1. PICK top : top = TopOwner(pod, items)
  OBVIOUS
<1>2. top \in items /\ OwnersHeld(top, items) = {}
  <2>1. /\ \A p \in items : p.owners \in Seq(STRING \X STRING)
        /\ \E rank \in [items -> 0 .. OwnerDepth] : \A o \in items : \A p \in OwnersHeld(o, items) : rank[p] < rank[o]
    BY HoldingAssumption
  <2>2. PICK rank \in [items -> 0 .. OwnerDepth] : \A o \in items : \A p \in OwnersHeld(o, items) : rank[p] < rank[o]
    BY <2>1
  <2> QED BY <1>1, <2>1, <2>2, TopIsFree
<1>3. DOMAIN top.owners = {}
  BY <1>2
<1>4. top \in SubjectsOf(items)
  BY <1>2, <1>3, HoldingAssumption DEF SubjectsOf, Owned
<1>5. \A w \in SubjectsOf(items) : pod \in PlacedUnder(items, w) <=> w = top
  BY <1>1 DEF PlacedUnder
<1>6. {w \in SubjectsOf(items) : pod \in PlacedUnder(items, w)} = {top}
  BY <1>4, <1>5
<1> QED BY <1>6, FS_Singleton

\* What is said of the image of a finite set: it is finite.
LEMMA TiersFinite ==
  ASSUME NEW nodes, IsFiniteSet(nodes)
  PROVE  IsFiniteSet({n.tier : n \in nodes}) /\ IsFiniteSet({n.size : n \in nodes})
<1>1. IsFiniteSet({n.tier : n \in nodes})
  <2> DEFINE tiers == {n.tier : n \in nodes}
             of == [n \in nodes |-> n.tier]
  <2>1. of \in Surjection(nodes, tiers)
    BY DEF Surjection
  <2>2. IsFiniteSet(tiers)
    <3> HIDE DEF tiers, of
    <3> QED BY <2>1, FS_Surjection
  <2> QED BY <2>2
<1>2. IsFiniteSet({n.size : n \in nodes})
  <2> DEFINE sizes == {n.size : n \in nodes}
             of == [n \in nodes |-> n.size]
  <2>1. of \in Surjection(nodes, sizes)
    BY DEF Surjection
  <2>2. IsFiniteSet(sizes)
    <3> HIDE DEF sizes, of
    <3> QED BY <2>1, FS_Surjection
  <2> QED BY <2>2
<1> QED BY <1>1, <1>2

\* A request above the largest node is above every node.
LEMMA LargestIsLargest ==
  ASSUME NEW nodes, IsFiniteSet(nodes), \A n \in nodes : n.size \in Nat, NEW w, w.request \in Nat,
         RequestExceedsLargestNode(w, nodes)
  PROVE  \A n \in nodes : w.request > n.size
<1> DEFINE sizes == {n.size : n \in nodes}
<1>1. sizes \subseteq Nat /\ sizes # {} /\ IsFiniteSet(sizes)
  BY TiersFinite DEF RequestExceedsLargestNode
<1>2. Max(sizes) \in sizes /\ \A s \in sizes : s =< Max(sizes)
  <2> HIDE DEF sizes
  <2> QED BY <1>1, GreatestChosen
<1>3. w.request > Max(sizes)
  BY DEF RequestExceedsLargestNode
<1>4. ASSUME NEW n \in nodes PROVE w.request > n.size
  <2>1. n.size \in sizes /\ n.size \in Nat
    OBVIOUS
  <2> HIDE DEF sizes
  <2>2. n.size =< Max(sizes) /\ Max(sizes) \in Nat
    BY <1>1, <1>2, <2>1
  <2> QED BY <1>3, <2>1, <2>2
<1> QED BY <1>4

\* Some place is dealt more than so many things.
Heaped(dealt, count, places, most) ==
  \E place \in places : \E S \in SUBSET (1 .. count) :
    (\A i \in 1 .. count : i \in S <=> dealt[i] = place) /\ Cardinality(S) > most

\* However things are dealt out to places, some place gets more than `most` of
\* them when there are more than `most` for each place: else the things could be
\* told apart by their place and their turn there.
LEMMA DealtOut ==
  ASSUME NEW places, IsFiniteSet(places), NEW count \in Nat, NEW most \in Nat,
         count > Cardinality(places) * most, NEW dealt \in [1 .. count -> places]
  PROVE  Heaped(dealt, count, places, most)
<1> DEFINE At(place) == {i \in 1 .. count : dealt[i] = place}
<1>1. ASSUME NEW place \in places PROVE IsFiniteSet(At(place)) /\ Cardinality(At(place)) \in Nat
  <2>1. At(place) \subseteq 1 .. count /\ IsFiniteSet(1 .. count)
    BY FS_Interval
  <2> HIDE DEF At
  <2> QED BY <2>1, FS_Subset, FS_CardinalityType
<1>13. ASSUME NEW place \in places, Cardinality(At(place)) > most
       PROVE  \E S \in SUBSET (1 .. count) : (\A i \in 1 .. count : i \in S <=> dealt[i] = place) /\ Cardinality(S) > most
  <2>1. At(place) \in SUBSET (1 .. count) /\ \A i \in 1 .. count : i \in At(place) <=> dealt[i] = place
    OBVIOUS
  <2> HIDE DEF At
  <2> QED BY <1>13, <2>1
<1>12. SUFFICES ASSUME ~ \E place \in places : Cardinality(At(place)) > most
                PROVE  FALSE
  <2> HIDE DEF At
  <2> QED BY <1>13, Zenon DEF Heaped
<1>2. \A place \in places : Cardinality(At(place)) =< most
  <2> HIDE DEF At
  <2> QED BY <1>1, <1>12
<1>3. ASSUME NEW place \in places
      PROVE  \E turn \in [At(place) -> 1 .. most] : \A i, j \in At(place) : turn[i] = turn[j] => i = j
  <2>1. PICK n \in Nat : n = Cardinality(At(place))
    BY <1>1
  <2>2. PICK of : of \in Bijection(1 .. n, At(place))
    <3> HIDE DEF At
    <3> QED BY <1>1, <2>1, FS_CardinalityType DEF ExistsBijection
  <2> DEFINE turn == [i \in At(place) |-> CHOOSE k \in 1 .. n : of[k] = i]
  <2>3. ASSUME NEW i \in At(place) PROVE turn[i] \in 1 .. n /\ of[turn[i]] = i
    <3>1. \E k \in 1 .. n : of[k] = i
      <4> HIDE DEF At
      <4> QED BY <2>2, <2>3 DEF Bijection, Surjection
    <3>2. turn[i] = CHOOSE k \in 1 .. n : of[k] = i
      BY <2>3, Zenon
    <3> QED BY <3>1, <3>2, Zenon
  <2>4. turn \in [At(place) -> 1 .. most]
    <3>1. n =< most
      BY <1>2, <2>1
    <3>2. \A i \in At(place) : turn[i] \in 1 .. most
      <4> HIDE DEF turn, At
      <4> QED BY <2>3, <3>1
    <3> QED BY <3>2
  <2>5. \A i, j \in At(place) : turn[i] = turn[j] => i = j
    <3> HIDE DEF turn
    <3> QED BY <2>3
  <2> QED BY <2>4, <2>5
<1> DEFINE Turns(place) == CHOOSE turn \in [At(place) -> 1 .. most] : \A i, j \in At(place) : turn[i] = turn[j] => i = j
           apart == [i \in 1 .. count |-> <<dealt[i], Turns(dealt[i])[i]>>]
<1>4. ASSUME NEW place \in places
      PROVE  Turns(place) \in [At(place) -> 1 .. most] /\ \A i, j \in At(place) : Turns(place)[i] = Turns(place)[j] => i = j
  <2> HIDE DEF At
  <2> QED BY <1>3, Zenon
<1>5. \A i \in 1 .. count : i \in At(dealt[i]) /\ dealt[i] \in places
  OBVIOUS
<1>6. apart \in [1 .. count -> places \X (1 .. most)]
  <2> HIDE DEF Turns, At
  <2> QED BY <1>4, <1>5
<1>7. IsFiniteSet(places \X (1 .. most)) /\ Cardinality(places \X (1 .. most)) = Cardinality(places) * most
  <2>1. IsFiniteSet(1 .. most) /\ Cardinality(1 .. most) = most
    BY FS_Interval
  <2> QED BY <2>1, FS_Product
<1>8. IsFiniteSet(1 .. count) /\ Cardinality(1 .. count) = count
  BY FS_Interval
<1>9. PICK i \in 1 .. count, j \in 1 .. count : i # j /\ apart[i] = apart[j]
  <2> HIDE DEF apart
  <2> QED BY <1>6, <1>7, <1>8, FS_PigeonHole
<1>10. dealt[i] = dealt[j] /\ Turns(dealt[i])[i] = Turns(dealt[i])[j]
  <2> HIDE DEF Turns
  <2> QED BY <1>9
<1>11. i \in At(dealt[i]) /\ j \in At(dealt[i])
  BY <1>5, <1>10
<1> QED BY <1>4, <1>5, <1>9, <1>10, <1>11

\* A workload reported as impossible to place has no place.
LEMMA PlacementReal ==
  ASSUME NEW nodes, IsFiniteSet(nodes), \A n \in nodes : n.size \in Nat,
         NEW w, w.request \in Nat, w.replicas \in Nat, w.skew \in Nat
  PROVE  /\ NodeSelectorMatchesNothing(w, nodes) => Fitting(w, nodes) = {}
         /\ TolerationsMissTaints(w, nodes) => Fitting(w, nodes) = {}
         /\ RequestExceedsLargestNode(w, nodes) => Fitting(w, nodes) = {}
         /\ AntiAffinityExceedsNodes(w, nodes) => Cardinality(Fitting(w, nodes)) < w.replicas
         /\ SpreadNeedsMoreDomains(w, nodes) =>
              \A dealt \in [1 .. w.replicas -> DomainsOf(nodes)] : Overcrowds(w, DomainsOf(nodes), dealt)
<1>1. NodeSelectorMatchesNothing(w, nodes) => Fitting(w, nodes) = {}
  BY DEF NodeSelectorMatchesNothing, Fitting
<1>2. TolerationsMissTaints(w, nodes) => Fitting(w, nodes) = {}
  BY DEF TolerationsMissTaints, Fitting
<1>3. ASSUME RequestExceedsLargestNode(w, nodes) PROVE Fitting(w, nodes) = {}
  <2>1. \A n \in nodes : w.request > n.size
    BY <1>3, LargestIsLargest
  <2>2. \A n \in nodes : ~ (w.request =< n.size)
    BY <2>1
  <2> QED BY <2>2 DEF Fitting, NodesMatching
<1>4. ASSUME AntiAffinityExceedsNodes(w, nodes) PROVE Cardinality(Fitting(w, nodes)) < w.replicas
  <2>1. NodesMatching(w, nodes) \subseteq nodes /\ Fitting(w, nodes) \subseteq NodesMatching(w, nodes)
    BY DEF NodesMatching, Fitting
  <2>2. IsFiniteSet(NodesMatching(w, nodes)) /\ Cardinality(NodesMatching(w, nodes)) \in Nat
    BY <2>1, FS_Subset, FS_CardinalityType
  <2>3. Cardinality(Fitting(w, nodes)) =< Cardinality(NodesMatching(w, nodes)) /\ Cardinality(Fitting(w, nodes)) \in Nat
    BY <2>1, <2>2, FS_Subset, FS_CardinalityType
  <2>4. w.replicas > Cardinality(NodesMatching(w, nodes))
    BY <1>4, Zenon DEF AntiAffinityExceedsNodes
  <2> QED BY <2>2, <2>3, <2>4
<1>5. ASSUME SpreadNeedsMoreDomains(w, nodes),
             NEW dealt \in [1 .. w.replicas -> DomainsOf(nodes)]
      PROVE  Overcrowds(w, DomainsOf(nodes), dealt)
  <2>1. PICK tiers : tiers = DomainsOf(nodes)
    OBVIOUS
  <2>2. IsFiniteSet(tiers)
    BY <2>1, TiersFinite DEF DomainsOf
  <2>3. w.replicas > Cardinality(tiers) * w.skew
    BY <1>5, <2>1 DEF SpreadNeedsMoreDomains
  <2>4. PICK count \in Nat, most \in Nat : count = w.replicas /\ most = w.skew
    OBVIOUS
  <2>5. dealt \in [1 .. count -> tiers] /\ count > Cardinality(tiers) * most
    BY <1>5, <2>1, <2>3, <2>4
  <2>6. Heaped(dealt, count, tiers, most)
    <3>1. PICK deal : deal = dealt
      OBVIOUS
    <3>2. deal \in [1 .. count -> tiers]
      BY <2>5, <3>1
    <3>3. IsFiniteSet(tiers) /\ count \in Nat /\ most \in Nat /\ count > Cardinality(tiers) * most
      BY <2>2, <2>4, <2>5
    <3>4. Heaped(deal, count, tiers, most)
      BY <3>2, <3>3, DealtOut
    <3> QED BY <3>1, <3>4, Zenon
  <2>7. PICK domain \in tiers, S \in SUBSET (1 .. count) :
          (\A i \in 1 .. count : i \in S <=> dealt[i] = domain) /\ Cardinality(S) > most
    BY <2>6, Zenon DEF Heaped
  <2>8. S = {i \in 1 .. w.replicas : dealt[i] = domain}
    BY <2>4, <2>7
  <2>9. Cardinality({i \in 1 .. w.replicas : dealt[i] = domain}) > w.skew
    BY <2>4, <2>7, <2>8
  <2>10. Overcrowds(w, tiers, dealt)
    BY <2>7, <2>9, Zenon DEF Overcrowds
  <2> QED BY <2>1, <2>10
<1> QED BY <1>1, <1>2, <1>3, <1>4, <1>5

\* Nine tenths of a ceiling are spent when the percentage says so.
LEMMA SpentReaches ==
  ASSUME NEW u \in Nat, NEW h \in Nat, h > 0
  PROVE  (u * 100) \div h \in Nat /\ ((u * 100) \div h >= 90 <=> u * 10 >= h * 9)
<1>1. u * 100 \in Nat
  OBVIOUS
<1>2. (u * 100) \div h \in Nat /\ ((u * 100) \div h >= 90 <=> u * 100 >= 90 * h)
  BY <1>1, QuotientReaches
<1>3. u * 100 >= 90 * h <=> u * 10 >= h * 9
  OBVIOUS
<1> QED BY <1>2, <1>3

\* A quota is reported exactly when an entry of it is nine tenths spent.
LEMMA QuotaReal ==
  ASSUME NEW quota \in Seq([used : Nat, hard : Nat])
  PROVE  QuotaNearlyExhausted(quota) <=>
           \E i \in DOMAIN quota : quota[i].hard > 0 /\ quota[i].used * 10 >= quota[i].hard * 9
<1> DEFINE counted == {j \in DOMAIN quota : quota[j].hard # 0}
           spent == {Spent(quota[i]) : i \in counted}
           all == {0} \cup spent
<1>11. Len(quota) \in Nat /\ DOMAIN quota = 1 .. Len(quota)
  BY SeqTyped
<1>12. ASSUME NEW i \in DOMAIN quota PROVE quota[i].used \in Nat /\ quota[i].hard \in Nat
  <2>1. PICK entries : entries = [used : Nat, hard : Nat]
    OBVIOUS
  <2>2. quota[i] \in entries
    BY <1>12, <2>1, SeqTyped
  <2> QED BY <2>1, <2>2
<1>13. counted \subseteq DOMAIN quota
  OBVIOUS
<1>9. \A i \in DOMAIN quota : i \in counted <=> quota[i].hard > 0
  BY <1>12
<1>1. ASSUME NEW i \in counted
      PROVE  /\ Spent(quota[i]) \in Nat
             /\ Spent(quota[i]) >= Nearly <=> quota[i].used * 10 >= quota[i].hard * 9
  <2>1. quota[i].used \in Nat /\ quota[i].hard \in Nat /\ quota[i].hard > 0
    BY <1>9, <1>12, <1>13
  <2> QED BY <2>1, SpentReaches DEF Spent, Nearly
<1>2. all \subseteq Nat /\ all # {}
  BY <1>1
<1>3. IsFiniteSet(all)
  <2>1. IsFiniteSet(counted)
    <3>1. counted \subseteq 1 .. Len(quota) /\ IsFiniteSet(1 .. Len(quota))
      BY <1>11, <1>13, FS_Interval
    <3> HIDE DEF counted
    <3> QED BY <3>1, FS_Subset
  <2> DEFINE of == [i \in counted |-> Spent(quota[i])]
  <2>2. of \in Surjection(counted, spent)
    BY DEF Surjection
  <2>3. IsFiniteSet(spent)
    <3> HIDE DEF counted, spent, of
    <3> QED BY <2>1, <2>2, FS_Surjection
  <2>4. IsFiniteSet({0})
    BY FS_Singleton
  <2> HIDE DEF spent
  <2> QED BY <2>3, <2>4, FS_Union
<1>4. Max(all) \in all /\ \A s \in all : s =< Max(all)
  <2> HIDE DEF all
  <2> QED BY <1>2, <1>3, GreatestChosen
<1>5. PICK top : top = Max(all)
  OBVIOUS
<1>6. FullestEntry(quota) = top
  BY <1>5, Zenon DEF FullestEntry
<1>7. top \in Nat /\ top \in all /\ \A s \in all : s =< top
  BY <1>2, <1>4, <1>5
<1>8. top >= Nearly <=> \E i \in counted : Spent(quota[i]) >= Nearly
  <2>1. ASSUME top >= Nearly PROVE \E i \in counted : Spent(quota[i]) >= Nearly
    <3>1. top # 0
      BY <2>1 DEF Nearly
    <3>2. PICK i \in counted : top = Spent(quota[i])
      BY <1>7, <3>1
    <3> QED BY <2>1, <3>2
  <2>2. ASSUME NEW i \in counted, Spent(quota[i]) >= Nearly PROVE top >= Nearly
    <3>1. Spent(quota[i]) =< top /\ Spent(quota[i]) \in Nat
      BY <1>1, <1>7
    <3> QED BY <1>7, <2>2, <3>1 DEF Nearly
  <2> QED BY <2>1, <2>2
<1>10. (\E i \in counted : Spent(quota[i]) >= Nearly) <=>
         \E i \in DOMAIN quota : quota[i].hard > 0 /\ quota[i].used * 10 >= quota[i].hard * 9
  <2> HIDE DEF counted
  <2> QED BY <1>1, <1>9, <1>13
<1> QED BY <1>6, <1>8, <1>10 DEF QuotaNearlyExhausted

\* A budget reported to block a drain lets no pod go, and one reported to say
\* nothing sets no number.
LEMMA BudgetReal ==
  ASSUME NEW q \in Budgets
  PROVE  /\ BudgetBlocksEviction(q.replicas, q.budget.minAvailable) => Allowed(q.budget, q.replicas) =< 0
         /\ BudgetForbidsEviction(q.budget) => Allowed(q.budget, q.replicas) =< 0
         /\ BudgetSaysNothing(q.budget) =>
              \A v \in {q.budget.minAvailable, q.budget.maxUnavailable} : v = Unset \/ v >= Percent
<1>1. PICK n \in Nat, low \in Amount, high \in Amount :
        n = q.replicas /\ low = q.budget.minAvailable /\ high = q.budget.maxUnavailable
  BY BudgetAssumption
<1>2. low = Unset \/ high = Unset
  BY <1>1, BudgetAssumption
<1>3. ASSUME NEW v \in Amount
      PROVE  /\ NumberAt(v) # Unset => v < Percent /\ NumberAt(v) = v
             /\ NumberAt(v) = Unset => v = Unset \/ v >= Percent
  BY DEF NumberAt, Amount, Unset, Percent
<1>4. ASSUME BudgetBlocksEviction(q.replicas, q.budget.minAvailable) PROVE Allowed(q.budget, q.replicas) =< 0
  <2>1. low # Unset /\ low < Percent /\ low >= n
    BY <1>1, <1>3, <1>4 DEF BudgetBlocksEviction, Unset, NumberAt
  <2>2. Allowed(q.budget, q.replicas) = n - low
    BY <1>1, <2>1 DEF Allowed, Percent, Amount, Unset
  <2> QED BY <2>1, <2>2 DEF Amount, Unset
<1>5. ASSUME BudgetForbidsEviction(q.budget) PROVE Allowed(q.budget, q.replicas) =< 0
  <2>1. high = 0
    BY <1>1, <1>3, <1>5 DEF BudgetForbidsEviction, Unset, NumberAt
  <2>2. low = Unset /\ high # Unset
    BY <1>2, <2>1 DEF Unset
  <2>3. Allowed(q.budget, q.replicas) = 0
    BY <1>1, <2>1, <2>2 DEF Allowed, Percent
  <2> QED BY <2>3
<1>6. ASSUME BudgetSaysNothing(q.budget)
      PROVE  \A v \in {q.budget.minAvailable, q.budget.maxUnavailable} : v = Unset \/ v >= Percent
  BY <1>1, <1>3, <1>6 DEF BudgetSaysNothing
<1> QED BY <1>4, <1>5, <1>6

\* A rule that grants something dangerous sets off some check.
LEMMA DangerFound ==
  ASSUME NEW rule,
         NEW danger \in {<<"get", "secrets">>, <<"create", "pods">>, <<"create", "pods/exec">>, <<"get", "nodes/proxy">>},
         Grants(rule, danger[1], danger[2]), rule.named => danger[2] # "secrets"
  PROVE  RbacFindings(rule) # {}
<1>1. CASE Anything \in rule.resources
  <2>1. "wildcard-resources" \in RbacFindings(rule)
    BY <1>1 DEF RbacFindings, WildcardResources
  <2> QED BY <2>1
<1>2. CASE Anything \notin rule.resources
  <2>1. danger[2] \in rule.resources /\ (danger[1] \in rule.verbs \/ Anything \in rule.verbs)
    BY <1>2 DEF Grants, Covers
  <2>2. CASE danger = <<"get", "secrets">>
    <3>1. ~ rule.named /\ Covers(rule.resources, "secrets") /\ rule.verbs \cap ReadVerbs # {}
      BY <2>1, <2>2 DEF Covers, ReadVerbs
    <3>2. "read-secrets" \in RbacFindings(rule)
      BY <3>1 DEF RbacFindings
    <3> QED BY <3>2
  <2>3. CASE danger = <<"create", "pods">>
    <3>1. Covers(rule.resources, "pods") /\ rule.verbs \cap {"create", Anything} # {}
      BY <2>1, <2>3 DEF Covers
    <3>2. "create-pods" \in RbacFindings(rule)
      BY <3>1 DEF RbacFindings
    <3> QED BY <3>2
  <2>4. CASE danger = <<"create", "pods/exec">>
    <3>1. NamesResource(rule, {"pods/exec", "pods/attach"}, WriteVerbs)
      BY <2>1, <2>4 DEF NamesResource, WriteVerbs
    <3>2. "pod-exec" \in RbacFindings(rule)
      BY <3>1 DEF RbacFindings
    <3> QED BY <3>2
  <2>5. CASE danger = <<"get", "nodes/proxy">>
    <3>1. NamesResource(rule, {"nodes/proxy"}, ReadVerbs)
      BY <2>1, <2>5 DEF NamesResource, ReadVerbs
    <3>2. "node-proxy" \in RbacFindings(rule)
      BY <3>1 DEF RbacFindings
    <3> QED BY <3>2
  <2> QED BY <2>2, <2>3, <2>4, <2>5
<1> QED BY <1>1, <1>2

\* Labels carry a selector when they hold each of its pairs.
LEMMA CarriesPairs ==
  ASSUME NEW selector, NEW labels
  PROVE  Pairs(selector) \subseteq Pairs(labels) <=>
           \A k \in DOMAIN selector : k \in DOMAIN labels /\ labels[k] = selector[k]
<1>1. ASSUME Pairs(selector) \subseteq Pairs(labels), NEW k \in DOMAIN selector
      PROVE  k \in DOMAIN labels /\ labels[k] = selector[k]
  <2>1. <<k, selector[k]>> \in Pairs(labels)
    BY <1>1, Zenon DEF Pairs
  <2>2. PICK l \in DOMAIN labels : <<k, selector[k]>> = <<l, labels[l]>>
    BY <2>1, Zenon DEF Pairs
  <2> QED BY <2>2
<1>2. ASSUME \A k \in DOMAIN selector : k \in DOMAIN labels /\ labels[k] = selector[k], NEW pair \in Pairs(selector)
      PROVE  pair \in Pairs(labels)
  <2>1. PICK k \in DOMAIN selector : pair = <<k, selector[k]>>
    BY <1>2, Zenon DEF Pairs
  <2>2. pair = <<k, labels[k]>> /\ k \in DOMAIN labels
    BY <1>2, <2>1
  <2> QED BY <2>2, Zenon DEF Pairs
<1> QED BY <1>1, <1>2

\* Pods that nothing is said to select or isolate are selected or isolated by
\* nothing.
LEMMA SelectionReal ==
  ASSUME NEW labels, NEW services, NEW here, NEW elsewhere
  PROVE  /\ labels # <<>> =>
              (NoServiceSelectsIt(labels, services) <=> {s \in services : s # <<>> /\ Pairs(s) \subseteq Pairs(labels)} = {})
         /\ NoNetworkPolicy(labels, here, elsewhere) => {p \in here : Pairs(p) \subseteq Pairs(labels)} = {}
<1>1. \A s : s # <<>> /\ Pairs(s) \subseteq Pairs(labels) <=> SelectorPicks(s, labels)
  BY CarriesPairs, Zenon DEF SelectorPicks
<1>2. labels # <<>> =>
        (NoServiceSelectsIt(labels, services) <=> {s \in services : s # <<>> /\ Pairs(s) \subseteq Pairs(labels)} = {})
  BY <1>1, Zenon DEF NoServiceSelectsIt
<1>3. NoNetworkPolicy(labels, here, elsewhere) => {p \in here : Pairs(p) \subseteq Pairs(labels)} = {}
  BY <1>1, Zenon DEF NoNetworkPolicy, PolicyCovers
<1> QED BY <1>2, <1>3

\* A request breaks a limit range when a resource of it is out of bounds.
LEMMA RangeReal ==
  ASSUME NEW q \in Ranges, NEW name \in {"cpu", "memory"}
  PROVE  (/\ q.request[name] # Unset
          /\ \/ q.range.min[name] # Unset /\ q.request[name] < q.range.min[name]
             \/ q.range.max[name] # Unset /\ q.request[name] > q.range.max[name]) <=>
         ~ (q.request[name] = Unset \/
            /\ q.range.min[name] =< q.request[name]
            /\ q.range.max[name] = Unset \/ q.request[name] =< q.range.max[name])
<1>1. PICK r \in Amount, low \in Amount, high \in Amount :
        r = q.request[name] /\ low = q.range.min[name] /\ high = q.range.max[name]
  BY RangeAssumption
<1>2. (r # Unset /\ ((low # Unset /\ r < low) \/ (high # Unset /\ r > high))) <=>
        ~ (r = Unset \/ (low =< r /\ (high = Unset \/ r =< high)))
  BY DEF Amount, Unset
<1> QED BY <1>1, <1>2

-----------------------------------------------------------------------------
(* The questions about the rules of the audit, one by one.                   *)

\* What may be asked: nothing, or a question the constants allow.
RulesAsked ==
  \/ ask = Idle
  \/ \E q \in References : ask = [about |-> "corpus.reference", check |-> q.check, ref |-> q.ref, read |-> q.read]
  \/ \E q \in Leftovers : ask = [about |-> "corpus.orphan", check |-> q.check, read |-> q.read]
  \/ \E items \in Holdings : ask = [about |-> "corpus.owners", items |-> items]
  \/ \E q \in Placements : ask = [about |-> "corpus.placement", nodes |-> q.nodes, workload |-> q.workload]
  \/ \E quota \in Quotas : ask = [about |-> "corpus.quota", quota |-> quota]
  \/ \E q \in Budgets : ask = [about |-> "corpus.budget", replicas |-> q.replicas, budget |-> q.budget]
  \/ \E rule \in RoleRules : ask = [about |-> "corpus.role", rule |-> rule]
  \/ \E binding \in RoleBindings : ask = [about |-> "corpus.binding", binding |-> binding]
  \/ \E q \in Selectings :
       ask = [about |-> "corpus.selected", labels |-> q.labels, services |-> q.services, here |-> q.here,
              elsewhere |-> q.elsewhere]
  \/ \E q \in Ranges : ask = [about |-> "corpus.range", request |-> q.request, range |-> q.range]
  \/ \E q \in Scalings : ask = [about |-> "corpus.scaler", scalers |-> q.scalers, workload |-> q.workload]
  \/ \E m \in Manifests, decided \in BOOLEAN :
       ask = [about |-> "workload.container", pod |-> m.pod, container |-> m.container, decided |-> decided]
  \/ \E figures \in Figures : ask = [about |-> "workload.numbers", figures |-> figures]
  \/ \E kept \in JobHistories : ask = [about |-> "workload.history", kept |-> kept]
  \/ \E workload \in Probings : ask = [about |-> "workload.probes", workload |-> workload]
  \/ \E image \in Images : ask = [about |-> "workload.image", image |-> image]
  \/ \E pods \in Spreads : ask = [about |-> "workload.nodes", pods |-> pods]

\* The fields of a question about one handler are those of one that may be asked.
LEMMA AskedOf ==
  ASSUME RulesAsked
  PROVE  /\ Asks("corpus.reference") =>
              \E q \in References : ask.check = q.check /\ ask.ref = q.ref /\ ask.read = q.read
         /\ Asks("corpus.orphan") => \E q \in Leftovers : ask.check = q.check /\ ask.read = q.read
         /\ Asks("corpus.owners") => ask.items \in Holdings
         /\ Asks("corpus.placement") => \E q \in Placements : ask.nodes = q.nodes /\ ask.workload = q.workload
         /\ Asks("corpus.quota") => ask.quota \in Quotas
         /\ Asks("corpus.budget") => \E q \in Budgets : ask.replicas = q.replicas /\ ask.budget = q.budget
         /\ Asks("corpus.range") => \E q \in Ranges : ask.request = q.request /\ ask.range = q.range
         /\ Asks("corpus.scaler") => \E q \in Scalings : ask.scalers = q.scalers /\ ask.workload = q.workload
         /\ Asks("workload.container") =>
              ask.decided \in BOOLEAN /\ \E m \in Manifests : ask.pod = m.pod /\ ask.container = m.container
         /\ Asks("workload.numbers") => ask.figures \in Figures
         /\ Asks("workload.history") =>
              \E kept \in JobHistories : ask = [about |-> "workload.history", kept |-> kept]
         /\ Asks("workload.image") => ask.image \in Images
         /\ Asks("workload.nodes") => ask.pods \in Spreads
<1>1. CASE ask = Idle
  BY <1>1 DEF Asks, Idle
<1>2. CASE \E q \in References : ask = [about |-> "corpus.reference", check |-> q.check, ref |-> q.ref, read |-> q.read]
  BY <1>2 DEF Asks
<1>3. CASE \E q \in Leftovers : ask = [about |-> "corpus.orphan", check |-> q.check, read |-> q.read]
  BY <1>3 DEF Asks
<1>4. CASE \E items \in Holdings : ask = [about |-> "corpus.owners", items |-> items]
  BY <1>4 DEF Asks
<1>5. CASE \E q \in Placements : ask = [about |-> "corpus.placement", nodes |-> q.nodes, workload |-> q.workload]
  BY <1>5 DEF Asks
<1>6. CASE \E quota \in Quotas : ask = [about |-> "corpus.quota", quota |-> quota]
  BY <1>6 DEF Asks
<1>7. CASE \E q \in Budgets : ask = [about |-> "corpus.budget", replicas |-> q.replicas, budget |-> q.budget]
  BY <1>7 DEF Asks
<1>8. CASE \E rule \in RoleRules : ask = [about |-> "corpus.role", rule |-> rule]
  BY <1>8 DEF Asks
<1>9. CASE \E binding \in RoleBindings : ask = [about |-> "corpus.binding", binding |-> binding]
  BY <1>9 DEF Asks
<1>10. CASE \E q \in Selectings :
              ask = [about |-> "corpus.selected", labels |-> q.labels, services |-> q.services,
                     here |-> q.here, elsewhere |-> q.elsewhere]
  BY <1>10 DEF Asks
<1>11. CASE \E q \in Ranges : ask = [about |-> "corpus.range", request |-> q.request, range |-> q.range]
  BY <1>11 DEF Asks
<1>12. CASE \E q \in Scalings : ask = [about |-> "corpus.scaler", scalers |-> q.scalers, workload |-> q.workload]
  BY <1>12 DEF Asks
<1>13. CASE \E m \in Manifests, decided \in BOOLEAN :
              ask = [about |-> "workload.container", pod |-> m.pod, container |-> m.container, decided |-> decided]
  BY <1>13 DEF Asks
<1>14. CASE \E figures \in Figures : ask = [about |-> "workload.numbers", figures |-> figures]
  BY <1>14 DEF Asks
<1>15. CASE \E kept \in JobHistories : ask = [about |-> "workload.history", kept |-> kept]
  BY <1>15 DEF Asks
<1>16. CASE \E workload \in Probings : ask = [about |-> "workload.probes", workload |-> workload]
  BY <1>16 DEF Asks
<1>17. CASE \E image \in Images : ask = [about |-> "workload.image", image |-> image]
  BY <1>17 DEF Asks
<1>18. CASE \E pods \in Spreads : ask = [about |-> "workload.nodes", pods |-> pods]
  BY <1>18 DEF Asks
<1> QED BY <1>1, <1>2, <1>3, <1>4, <1>5, <1>6, <1>7, <1>8, <1>9, <1>10, <1>11,
     <1>12, <1>13, <1>14, <1>15, <1>16, <1>17, <1>18, Zenon DEF RulesAsked

\* What is asked about the cluster is answered soundly.
LEMMA CorpusAnswers ==
  ASSUME RulesAsked
  PROVE  /\ MissingIsMissing /\ OrphanIsUnnamed /\ PodsAreCounted /\ UnplaceableIsReal
         /\ FullQuotaIsTold /\ BlockedIsReal /\ DangerIsTold /\ UnmatchedIsReal
<1>1. MissingIsMissing
  <2>1. SUFFICES ASSUME Asks("corpus.reference"), ~ ask.read.everyKind, MissingReference(ask.check, ask.ref, ask.read)
                 PROVE  ~ ReallyThere(ask.check, ask.ref, ask.read)
    BY Zenon DEF MissingIsMissing
  <2>2. PICK q \in References : ask.check = q.check /\ ask.ref = q.ref /\ ask.read = q.read
    BY <2>1, AskedOf
  <2>3. q.check \in ReferenceChecks /\ IsReading(q.read)
    BY ReferenceAssumption
  <2>4. q.check \in ReferenceChecks /\ IsReading(ask.read) /\ MissingReference(q.check, ask.ref, ask.read)
    BY <2>1, <2>2, <2>3, Zenon
  <2>5. ~ ReallyThere(q.check, ask.ref, ask.read)
    BY <2>1, <2>4, MissingReal
  <2> QED BY <2>2, <2>5, Zenon
<1>2. OrphanIsUnnamed
  <2>1. SUFFICES ASSUME Asks("corpus.orphan"), NEW f \in OrphansOf(ask.check, ask.read), NEW o \in ask.read.cluster,
                        o.kind \in Discovered(ask.read), o.name # f.object.name
                 PROVE  f.object.name \notin o.says
    BY Zenon DEF OrphanIsUnnamed
  <2>2. PICK q \in Leftovers : ask.check = q.check /\ ask.read = q.read
    BY <2>1, AskedOf
  <2>3. PICK c, r : c = ask.check /\ r = ask.read
    OBVIOUS
  <2>4. /\ c \in OrphanChecks /\ IsReading(r)
        /\ \A p \in r.cluster : p.kind \in NameOnly => p.says \subseteq {p.name}
    BY <2>2, <2>3, LeftoverAssumption
  <2>5. f \in OrphansOf(c, r) /\ o \in r.cluster /\ o.kind \in Discovered(r)
    BY <2>1, <2>3, Zenon
  <2> QED BY <2>1, <2>4, <2>5, OrphanReal
<1>3. PodsAreCounted
  <2>1. SUFFICES ASSUME Asks("corpus.owners"),
                        \A o \in ask.items : \A i \in DOMAIN o.owners :
                          \E p \in OwnersHeld(o, ask.items) : o.owners[i] = <<p.kind, p.name>>,
                        NEW pod \in ask.items, pod.kind = "pods"
                 PROVE  Cardinality({w \in SubjectsOf(ask.items) : pod \in PlacedUnder(ask.items, w)}) = 1
    BY Zenon DEF PodsAreCounted
  <2>2. PICK items \in Holdings : items = ask.items
    BY <2>1, AskedOf
  <2>3. Cardinality({w \in SubjectsOf(items) : pod \in PlacedUnder(items, w)}) = 1
    BY <2>1, <2>2, PodsCounted
  <2> QED BY <2>2, <2>3
<1>4. UnplaceableIsReal
  <2>1. SUFFICES ASSUME Asks("corpus.placement") PROVE UnplaceableIsReal
    BY Zenon DEF UnplaceableIsReal
  <2>2. PICK q \in Placements : ask.nodes = q.nodes /\ ask.workload = q.workload
    BY <2>1, AskedOf
  <2>3. PICK nodes, w : nodes = ask.nodes /\ w = ask.workload
    OBVIOUS
  <2>4. /\ IsFiniteSet(nodes) /\ \A n \in nodes : n.size \in Nat
        /\ w.request \in Nat /\ w.replicas \in Nat /\ w.skew \in Nat
    BY <2>2, <2>3, PlacementAssumption
  <2>5. /\ NodeSelectorMatchesNothing(w, nodes) => Fitting(w, nodes) = {}
        /\ TolerationsMissTaints(w, nodes) => Fitting(w, nodes) = {}
        /\ RequestExceedsLargestNode(w, nodes) => Fitting(w, nodes) = {}
        /\ AntiAffinityExceedsNodes(w, nodes) => Cardinality(Fitting(w, nodes)) < w.replicas
        /\ SpreadNeedsMoreDomains(w, nodes) =>
             \A dealt \in [1 .. w.replicas -> DomainsOf(nodes)] : Overcrowds(w, DomainsOf(nodes), dealt)
    BY <2>4, PlacementReal
  <2> QED BY <2>3, <2>5, Zenon DEF UnplaceableIsReal
<1>5. FullQuotaIsTold
  <2>1. SUFFICES ASSUME Asks("corpus.quota") PROVE FullQuotaIsTold
    BY Zenon DEF FullQuotaIsTold
  <2>2. PICK quota \in Quotas : quota = ask.quota
    BY <2>1, AskedOf
  <2>3. QuotaNearlyExhausted(quota) <=>
          \E i \in DOMAIN quota : quota[i].hard > 0 /\ quota[i].used * 10 >= quota[i].hard * 9
    BY QuotaAssumption, QuotaReal
  <2>4. QuotaNearlyExhausted(quota) \in BOOLEAN
    BY DEF QuotaNearlyExhausted
  <2>5. ({i \in DOMAIN quota : quota[i].hard > 0 /\ quota[i].used * 10 >= quota[i].hard * 9} # {}) <=> QuotaNearlyExhausted(quota)
    BY <2>3, Zenon
  <2> QED BY <2>2, <2>4, <2>5 DEF FullQuotaIsTold
<1>6. BlockedIsReal
  <2>1. SUFFICES ASSUME Asks("corpus.budget") PROVE BlockedIsReal
    BY Zenon DEF BlockedIsReal
  <2>2. PICK q \in Budgets : ask.replicas = q.replicas /\ ask.budget = q.budget
    BY <2>1, AskedOf
  <2> QED BY <2>2, BudgetReal, Zenon DEF BlockedIsReal
<1>7. DangerIsTold
  BY DangerFound, Zenon DEF DangerIsTold
<1>8. UnmatchedIsReal
  <2>1. ASSUME Asks("corpus.selected")
        PROVE  LET selecting == {s \in ask.services : s # <<>> /\ Pairs(s) \subseteq Pairs(ask.labels)}
                   isolating == {p \in ask.here : Pairs(p) \subseteq Pairs(ask.labels)}
               IN /\ ask.labels # <<>> => (NoServiceSelectsIt(ask.labels, ask.services) <=> selecting = {})
                  /\ NoNetworkPolicy(ask.labels, ask.here, ask.elsewhere) => isolating = {}
    BY SelectionReal, Zenon
  <2>2. ASSUME Asks("corpus.range")
        PROVE  LET Within(name) == ask.request[name] = Unset \/
                           /\ ask.range.min[name] =< ask.request[name]
                           /\ ask.range.max[name] = Unset \/ ask.request[name] =< ask.range.max[name]
               IN BreaksRange(ask.request, ask.range) <=> ~ (Within("cpu") /\ Within("memory"))
    <3>1. PICK q \in Ranges : ask.request = q.request /\ ask.range = q.range
      BY <2>2, AskedOf
    <3> QED BY <3>1, RangeReal, Zenon DEF BreaksRange
  <2>3. ASSUME Asks("corpus.scaler")
        PROVE  /\ ScalerFightsReplicas(ask.workload, ask.scalers) => {s \in ask.scalers : s.name = ask.workload.name} # {}
               /\ \A s \in ask.scalers : ScalerFloorOfOne(s) => {1, 2} \subseteq s.min .. s.max
    <3>1. PICK q \in Scalings : ask.scalers = q.scalers /\ ask.workload = q.workload
      BY <2>3, AskedOf
    <3>2. ScalerFightsReplicas(ask.workload, ask.scalers) => {s \in ask.scalers : s.name = ask.workload.name} # {}
      BY Zenon DEF ScalerFightsReplicas
    <3>3. ASSUME NEW s \in ask.scalers, ScalerFloorOfOne(s) PROVE {1, 2} \subseteq s.min .. s.max
      <4>1. PICK high \in Nat \ {0} : high = s.max
        BY <3>1, ScalingAssumption
      <4>2. s.min = 1 /\ high # 1
        BY <3>3, <4>1 DEF ScalerFloorOfOne
      <4> QED BY <4>1, <4>2
    <3> QED BY <3>2, <3>3
  <2>4. ASSUME Asks("corpus.binding"), NEW who \in ask.binding.subjects,
               who = "system:anonymous" \/ (ask.binding.ofCluster /\ ask.binding.role = "cluster-admin")
        PROVE  BindingFindings(ask.binding) # {}
    <3>1. CASE who = "system:anonymous"
      <4>1. "bound-to-everyone" \in BindingFindings(ask.binding)
        BY <2>4, <3>1 DEF BindingFindings, OpenSubjects
      <4> QED BY <4>1
    <3>2. CASE ask.binding.ofCluster /\ ask.binding.role = "cluster-admin"
      <4>1. "cluster-admin-bound" \in BindingFindings(ask.binding)
        BY <2>4, <3>2 DEF BindingFindings
      <4> QED BY <4>1
    <3> QED BY <2>4, <3>1, <3>2
  <2> QED BY <2>1, <2>2, <2>3, <2>4, Zenon DEF UnmatchedIsReal
<1> QED BY <1>1, <1>2, <1>3, <1>4, <1>5, <1>6, <1>7, <1>8


\* What is asked about a manifest is answered soundly.
LEMMA WorkloadAnswers ==
  ASSUME RulesAsked
  PROVE  PatchClears /\ RejectedIsTold /\ NodePathsAreTold /\ NumbersAreReal /\ AdviceAgrees
<1>1. ASSUME Asks("workload.container")
      PROVE  /\ ask.pod \in PodSettings /\ ask.container \in ContainerSettings
             /\ ask.decided \in BOOLEAN
  <2>1. ask.decided \in BOOLEAN /\ \E m \in Manifests : ask.pod = m.pod /\ ask.container = m.container
    BY <1>1, AskedOf
  <2>2. PICK m \in Manifests : ask.pod = m.pod /\ ask.container = m.container
    BY <2>1
  <2>3. m \in [pod : PodSettings, container : ContainerSettings]
    BY ManifestAssumption
  <2>4. m.pod \in PodSettings /\ m.container \in ContainerSettings
    BY <2>3
  <2> QED BY <2>1, <2>2, <2>4, Zenon
<1>2. PatchClears
  <2>1. ASSUME Asks("workload.container"), NEW f \in ContainerFindings(ask.pod, ask.container), ~ BeyondPatch(f, ask.pod),
               NEW g \in ContainerFindings(ask.pod, Patched(f[1], ask.container)), g[1] = f[1]
        PROVE  FALSE
    <3>1. PICK p \in PodSettings, c \in ContainerSettings : p = ask.pod /\ c = ask.container
      BY <1>1, <2>1
    <3>2. PICK d : d = Patched(f[1], c)
      OBVIOUS
    <3>3. f \in ContainerFindings(p, c) /\ ~ BeyondPatch(f, p) /\ g \in ContainerFindings(p, d) /\ g[1] = f[1]
      BY <2>1, <3>1, <3>2, Zenon
    <3> QED BY <3>2, <3>3, PatchMends, Zenon
  <2>2. ASSUME Asks("workload.history"), CronHistory(ask) # 0
        PROVE  CronHistory([ask EXCEPT !.kept[CronHistory(ask)] = 3]) # CronHistory(ask)
    <3>1. PICK kept \in JobHistories : ask = [about |-> "workload.history", kept |-> kept]
      BY <2>2, AskedOf
    <3>2. kept \in Seq(Int)
      BY HistoryAssumption
    <3>3. PICK q, at : q = ask /\ at = CronHistory(ask)
      OBVIOUS
    <3>4. q = [about |-> "workload.history", kept |-> kept] /\ at = CronHistory(q) /\ at # 0
      BY <2>2, <3>1, <3>3, Zenon
    <3>5. CronHistory([q EXCEPT !.kept[at] = 3]) # at
      BY <3>2, <3>4, HistoryMends, Zenon
    <3> QED BY <3>3, <3>5, Zenon
  <2> QED BY <2>1, <2>2, Zenon DEF PatchClears
<1>3. RejectedIsTold
  <2>1. SUFFICES ASSUME Asks("workload.container"), ask.decided, NEW check \in UpstreamChecks,
                        UpstreamRejects(Control(check), ask.pod, ask.container)
                 PROVE  \E f \in Reported(ask.pod, ask.container, ask.decided) : f[1] \in Speakers(check)
    BY Zenon DEF RejectedIsTold
  <2>2. ask.decided = TRUE
    BY <1>1, <2>1, Zenon
  <2>3. \E f \in Reported(ask.pod, ask.container, TRUE) : f[1] \in Speakers(check)
    BY <1>1, <2>1, RejectedTold, Zenon
  <2> QED BY <2>2, <2>3, Zenon
<1>4. NodePathsAreTold
  <2>1. ASSUME Asks("workload.container"), NEW i \in DOMAIN ask.pod.volumes
        PROVE  /\ ask.pod.volumes[i] = "socket" => <<"runtime-socket-mounted", Blank>> \in Reported(ask.pod, ask.container, ask.decided)
               /\ ask.pod.volumes[i] = "plain" => <<"host-path-volume", Blank>> \in Reported(ask.pod, ask.container, ask.decided)
               /\ ask.pod.volumes[i] = "sensitive" => <<"sensitive-host-path", Blank>> \in Reported(ask.pod, ask.container, ask.decided)
    BY <1>1, <2>1, PathsTold, Zenon
  <2>2. PICK said, paths : said = Reported(ask.pod, ask.container, ask.decided) /\ paths = ask.pod.volumes
    OBVIOUS
  <2>3. PICK told, mounted : told = {f[1] : f \in said} /\ mounted = {paths[i] : i \in DOMAIN paths}
    OBVIOUS
  <2>4. ASSUME NEW check, <<check, Blank>> \in said PROVE check \in told
    <3>1. <<check, Blank>>[1] = check
      OBVIOUS
    <3> QED BY <2>3, <2>4, <3>1
  <2>5. ASSUME Asks("workload.container")
        PROVE  /\ "socket" \in mounted => "runtime-socket-mounted" \in told
               /\ "sensitive" \in mounted => "sensitive-host-path" \in told
               /\ "plain" \in mounted => "host-path-volume" \in told
    BY <2>1, <2>2, <2>3, <2>4, <2>5, Zenon
  <2> QED BY <2>2, <2>3, <2>5, Zenon DEF NodePathsAreTold
<1>5. NumbersAreReal
  <2>1. ASSUME Asks("workload.nodes")
        PROVE  SharedNode(ask.pods) <=> Len(ask.pods) > 1 /\ \E n \in Hosts : \A i \in DOMAIN ask.pods : ask.pods[i] = n
    <3>1. PICK pods \in Spreads : pods = ask.pods
      BY <2>1, AskedOf
    <3>2. pods \in Seq(Hosts \cup {Blank})
      BY HostAssumption
    <3> QED BY <3>1, <3>2, SharedIsReal, Zenon
  <2>2. ASSUME Asks("workload.numbers")
        PROVE  LET f == ask.figures IN
               /\ RatioDetail(f.asked, f.allowed) <=> (f.asked > 0 /\ f.allowed >= 10 * f.asked)
               /\ f.replicas > 0 =>
                    (TakesEverything(f.raw, f.replicas) <=>
                       f.replicas =< IF f.raw >= PercentSign THEN ((f.raw - PercentSign) * f.replicas) \div 100 ELSE f.raw)
    <3>1. PICK f \in Figures : f = ask.figures
      BY <2>2, AskedOf
    <3>2. f.asked \in Nat /\ f.allowed \in Nat /\ f.replicas \in Nat /\ f.raw \in 0 .. (PercentSign + 100)
      BY FigureAssumption
    <3>3. RatioDetail(f.asked, f.allowed) <=> (f.asked > 0 /\ f.allowed >= 10 * f.asked)
      BY <3>2, RatioIsReal
    <3>4. f.replicas > 0 =>
            (TakesEverything(f.raw, f.replicas) <=>
               f.replicas =< IF f.raw >= PercentSign THEN ((f.raw - PercentSign) * f.replicas) \div 100 ELSE f.raw)
      BY <3>2, RolloutIsReal, Zenon
    <3> QED BY <3>1, <3>3, <3>4, Zenon
  <2> QED BY <2>1, <2>2, Zenon DEF NumbersAreReal
<1>6. AdviceAgrees
  <2>1. ASSUME NEW w, ProbesMissing(w)
        PROVE  ~ (ProbesIdentical(w) \/ ProbePortUndeclared(w) \/ LivenessWithoutGrace(w) \/ WrongRestartPolicy(w))
    BY <2>1, Zenon DEF ProbesMissing, LongRunning, ProbesIdentical, ProbePortUndeclared, LivenessWithoutGrace, WrongRestartPolicy
  <2>2. ASSUME NEW image PROVE ~ (LatestImage(image) /\ PullPolicyNotAlways(image))
    BY Zenon DEF LatestImage, PullPolicyNotAlways
  <2>3. ASSUME Asks("workload.image"), RequestsAboveUsage(ask.image.asked, ask.image.used)
        PROVE  \E i \in DOMAIN ask.image.used : ask.image.used[i] * OverprovisionRatio =< ask.image.asked
    <3>1. PICK image \in Images : image = ask.image
      BY <2>3, AskedOf
    <3>2. image.asked \in Nat /\ image.used \in Seq(Nat)
      BY UsageAssumption
    <3>3. PICK asked, used : asked = ask.image.asked /\ used = ask.image.used
      OBVIOUS
    <3>4. asked \in Nat /\ used \in Seq(Nat) /\ RequestsAboveUsage(asked, used)
      BY <2>3, <3>1, <3>2, <3>3, Zenon
    <3>5. \E i \in DOMAIN used : used[i] * OverprovisionRatio =< asked
      BY <3>4, UsageIsReal
    <3> QED BY <3>3, <3>5, Zenon
  <2> QED BY <2>1, <2>2, <2>3, Zenon DEF AdviceAgrees
<1> QED BY <1>2, <1>3, <1>4, <1>5, <1>6


\* Every rule of the audit answers soundly: what it reports of the cluster or of
\* a manifest is so, what it may not read accuses nobody, and the patch it
\* suggests clears its finding (internal/checks, rules side), for every
\* manifest, reading of the cluster, quota, budget, role and placement.
THEOREM AuditRulesSafety == AuditRulesSpec => []AuditRulesSound
<1>1. QuestionInit => RulesAsked
  BY Zenon DEF QuestionInit, RulesAsked
<1>2. ASSUME RulesAsked, [AskCorpus \/ AskWorkload \/ Answered]_questionVars
      PROVE  RulesAsked'
  <2>1. CASE AskReference
    BY <2>1, Zenon DEF AskReference, Put, RulesAsked
  <2>2. CASE AskOrphan
    BY <2>2, Zenon DEF AskOrphan, Put, RulesAsked
  <2>3. CASE AskOwners
    BY <2>3, Zenon DEF AskOwners, Put, RulesAsked
  <2>4. CASE AskPlacement
    BY <2>4, Zenon DEF AskPlacement, Put, RulesAsked
  <2>5. CASE AskQuota
    BY <2>5, Zenon DEF AskQuota, Put, RulesAsked
  <2>6. CASE AskBudget
    BY <2>6, Zenon DEF AskBudget, Put, RulesAsked
  <2>7. CASE AskRole
    BY <2>7, Zenon DEF AskRole, Put, RulesAsked
  <2>8. CASE AskBinding
    BY <2>8, Zenon DEF AskBinding, Put, RulesAsked
  <2>9. CASE AskSelected
    BY <2>9, Zenon DEF AskSelected, Put, RulesAsked
  <2>10. CASE AskRange
    BY <2>10, Zenon DEF AskRange, Put, RulesAsked
  <2>11. CASE AskScaler
    BY <2>11, Zenon DEF AskScaler, Put, RulesAsked
  <2>12. CASE AskContainer
    BY <2>12, Zenon DEF AskContainer, Put, RulesAsked
  <2>13. CASE AskNumbers
    BY <2>13, Zenon DEF AskNumbers, Put, RulesAsked
  <2>14. CASE AskHistory
    BY <2>14, Zenon DEF AskHistory, Put, RulesAsked
  <2>15. CASE AskProbes
    BY <2>15, Zenon DEF AskProbes, Put, RulesAsked
  <2>16. CASE AskImage
    BY <2>16, Zenon DEF AskImage, Put, RulesAsked
  <2>17. CASE AskNodes
    BY <2>17, Zenon DEF AskNodes, Put, RulesAsked
  <2>18. CASE Answered
    BY <2>18, Zenon DEF Answered, Idle, RulesAsked
  <2>19. CASE UNCHANGED questionVars
    <3>1. ask' = ask
      BY <2>19 DEF questionVars
    <3> QED BY <1>2, <3>1, Zenon DEF RulesAsked
  <2> QED BY <1>2, <2>1, <2>2, <2>3, <2>4, <2>5, <2>6, <2>7, <2>8, <2>9, <2>10, <2>11,
     <2>12, <2>13, <2>14, <2>15, <2>16, <2>17, <2>18, <2>19, Zenon DEF AskCorpus, AskWorkload
<1>3. RulesAsked => AuditRulesSound
  BY CorpusAnswers, WorkloadAnswers, Zenon DEF AuditRulesSound
<1> QED BY <1>1, <1>2, <1>3, PTL DEF AuditRulesSpec
=============================================================================
