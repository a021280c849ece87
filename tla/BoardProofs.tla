----------------------------- MODULE BoardProofs ----------------------------
(***************************************************************************)
(* Board, for every set of tickets, rules, routes and lists of components, *)
(* every page and every cap: what the search and the routing answer, that  *)
(* every step keeps the types, that a row in pr_open names a pull request  *)
(* of its issue, and that --force takes up no settled issue but the ticket *)
(* it names.                                                               *)
(***************************************************************************)
EXTENDS Board, FiniteSetTheorems, WellFoundedInduction, TLAPS

-----------------------------------------------------------------------------
(* The search: what the first page of the store is.                         *)

LEMMA LeastNumber ==
  ASSUME NEW T \in SUBSET Nat, T # {}
  PROVE  \E m \in T : \A n \in T : m <= n
<1> DEFINE Less == OpToRel(<, Nat)
<1>1. IsWellFoundedOn(Less, Nat)
  BY NatLessThanWellFounded
<1>2. \A m \in Nat, n \in Nat : n < m => <<n, m>> \in Less
  BY DEF OpToRel
<1> HIDE DEF Less
<1>3. PICK m \in T : \A n \in T : ~ (<<n, m>> \in Less)
  BY <1>1, WFMin
<1>4. ASSUME NEW n \in T
      PROVE  m <= n
  <2>1. m \in Nat /\ n \in Nat
    OBVIOUS
  <2>2. ~ (n < m)
    BY <1>2, <1>3, <2>1
  <2> QED
    BY <2>1, <2>2
<1> QED
  BY <1>4

\* The ways of InOrder to number a set.
Orders(numbers) ==
  {s \in [1 .. Cardinality(numbers) -> numbers] :
     \A i, j \in DOMAIN s : i < j => s[i] < s[j]}

\* A set is ordered when the set without its least number is.
LEMMA OrderWithoutLeast ==
  ASSUME NEW S \in SUBSET Nat, IsFiniteSet(S), NEW a \in S, \A b \in S : a <= b,
         Orders(S \ {a}) # {}
  PROVE  Orders(S) # {}
<1> DEFINE n == Cardinality(S)
<1>1. n \in Nat /\ Cardinality(S \ {a}) = n - 1
  BY FS_CardinalityType, FS_RemoveElement
<1>2. n # 0
  BY FS_EmptySet
<1>3. PICK r \in [1 .. n - 1 -> S \ {a}] :
        \A i, j \in DOMAIN r : i < j => r[i] < r[j]
  BY <1>1 DEF Orders
<1> DEFINE s == [i \in 1 .. n |-> IF i = 1 THEN a ELSE r[i - 1]]
<1>4. \A i \in 1 .. n : i # 1 => i - 1 \in 1 .. n - 1 /\ s[i] = r[i - 1]
  BY <1>1
<1>5. \A i \in 1 .. n - 1 : r[i] \in S /\ r[i] # a
  BY <1>3
<1>6. s \in [1 .. n -> S]
  BY <1>4, <1>5
<1>7. ASSUME NEW i \in 1 .. n, i # 1
      PROVE  a < s[i]
  <2>1. s[i] \in S /\ s[i] # a
    BY <1>4, <1>5, <1>7
  <2>2. a <= s[i] /\ a \in Nat /\ s[i] \in Nat
    BY <2>1
  <2> HIDE DEF s
  <2> QED
    BY <2>1, <2>2
<1>8. ASSUME NEW i \in 1 .. n, NEW j \in 1 .. n, i < j
      PROVE  s[i] < s[j]
  <2>1. j # 1 /\ j - 1 \in 1 .. n - 1
    BY <1>1, <1>8
  <2>2. CASE i = 1
    BY <1>7, <2>1, <2>2, <1>1
  <2>3. CASE i # 1
    <3>1. i - 1 \in 1 .. n - 1 /\ i - 1 < j - 1
      BY <1>1, <1>8, <2>3
    <3> QED
      BY <1>3, <1>4, <2>1, <2>3, <3>1
  <2> QED
    BY <2>2, <2>3
<1> HIDE DEF s
<1>9. s \in Orders(S)
  BY <1>6, <1>8 DEF Orders
<1> QED
  BY <1>9

\* Every finite set of numbers is ordered: no number is the least of the
\* cardinalities of those that are not.
LEMMA OrderExists ==
  ASSUME NEW S \in SUBSET Nat, IsFiniteSet(S)
  PROVE  Orders(S) # {}
<1> DEFINE Bad(n) == {A \in SUBSET Nat : /\ IsFiniteSet(A)
                                         /\ Cardinality(A) = n
                                         /\ Orders(A) = {}}
           T == {n \in Nat : Bad(n) # {}}
<1>1. SUFFICES ASSUME T # {} PROVE FALSE
  BY FS_CardinalityType
<1>2. PICK n \in T : \A m \in T : n <= m
  BY <1>1, LeastNumber
<1>3. PICK A \in Bad(n) : TRUE
  BY <1>2
<1>4. A \in SUBSET Nat /\ IsFiniteSet(A) /\ Cardinality(A) = n /\ Orders(A) = {}
  BY <1>3
<1>5. A # {}
  <2> SUFFICES ASSUME A = {} PROVE FALSE
    OBVIOUS
  <2> DEFINE none == [i \in {} |-> 0]
  <2>1. 1 .. Cardinality(A) = {}
    BY FS_EmptySet
  <2>2. none \in [1 .. Cardinality(A) -> A]
    BY <2>1
  <2>3. none \in Orders(A)
    BY <2>2 DEF Orders
  <2> QED
    BY <1>4, <2>3
<1>6. PICK a \in A : \A b \in A : a <= b
  BY <1>4, <1>5, LeastNumber
<1>7. A \ {a} \in SUBSET Nat /\ IsFiniteSet(A \ {a}) /\ Cardinality(A \ {a}) = n - 1
  BY <1>4, FS_RemoveElement
<1>8. n - 1 \in Nat
  BY <1>7, FS_CardinalityType
<1>9. n - 1 \notin T
  <2>1. n \in Nat
    BY <1>4, FS_CardinalityType
  <2> QED
    BY <1>2, <1>8, <2>1
<1>10. Orders(A \ {a}) # {}
  BY <1>7, <1>8, <1>9
<1> QED
  BY <1>4, <1>6, <1>10, OrderWithoutLeast

\* InOrder numbers the whole set, from the least number up.
LEMMA InOrderNumbers ==
  ASSUME NEW S \in SUBSET Nat, IsFiniteSet(S)
  PROVE  /\ InOrder(S) \in [1 .. Cardinality(S) -> S]
         /\ \A i, j \in 1 .. Cardinality(S) : i < j => InOrder(S)[i] < InOrder(S)[j]
         /\ \A k \in S : \E i \in 1 .. Cardinality(S) : InOrder(S)[i] = k
<1> DEFINE n == Cardinality(S)
           s == InOrder(S)
<1>1. s \in Orders(S)
  BY OrderExists DEF InOrder, Orders
<1>2. s \in [1 .. n -> S] /\ \A i, j \in 1 .. n : i < j => s[i] < s[j]
  BY <1>1 DEF Orders
<1> HIDE DEF s
<1>3. n \in Nat
  BY FS_CardinalityType
<1>4. ASSUME NEW i \in 1 .. n, NEW j \in 1 .. n, s[i] = s[j]
      PROVE  i = j
  <2>1. i \in Nat /\ j \in Nat
    BY <1>3
  <2>2. s[i] \in Nat /\ s[j] \in Nat
    BY <1>2
  <2>3. ~ (i < j) /\ ~ (j < i)
    BY <1>2, <1>4, <2>2
  <2> QED
    BY <2>1, <2>3
<1>5. s \in Injection(1 .. n, S)
  BY <1>2, <1>4 DEF Injection, IsInjective
<1>6. IsFiniteSet(1 .. n) /\ Cardinality(1 .. n) = n
  BY <1>3, FS_Interval
<1>7. s \in Surjection(1 .. n, S)
  BY <1>5, <1>6, FS_Injection
<1> QED
  BY <1>2, <1>7 DEF Surjection, s

\* The first n of a set of numbers, as search_issues selects them.
Below(S, k) == {j \in S : j < k}
FirstOf(S, n) == {k \in S : Cardinality(Below(S, k)) < n}

LEMMA BelowIsFinite ==
  ASSUME NEW S \in SUBSET Nat, IsFiniteSet(S), NEW k
  PROVE  IsFiniteSet(Below(S, k)) /\ Cardinality(Below(S, k)) \in Nat
<1>1. Below(S, k) \in SUBSET S
  BY DEF Below
<1> QED
  BY <1>1, FS_Subset, FS_CardinalityType

\* What is not among the first comes after them.
LEMMA FirstOnesComeFirst ==
  ASSUME NEW S \in SUBSET Nat, IsFiniteSet(S), NEW n \in Nat,
         NEW k \in S \ FirstOf(S, n), NEW j \in FirstOf(S, n)
  PROVE  j < k
<1> SUFFICES ASSUME k <= j
             PROVE  FALSE
  <2>1. j \in Nat /\ k \in Nat
    BY DEF FirstOf
  <2> QED
    BY <2>1
<1>1. j \in Nat /\ k \in Nat
  BY DEF FirstOf
<1>2. ASSUME NEW i \in Below(S, k)
      PROVE  i \in Below(S, j)
  <2>1. i \in S /\ i < k
    BY DEF Below
  <2>2. i < j
    BY <1>1, <2>1
  <2> QED
    BY <2>1, <2>2 DEF Below
<1>3. Cardinality(Below(S, k)) <= Cardinality(Below(S, j))
  <2>1. Below(S, k) \in SUBSET Below(S, j)
    BY <1>2
  <2> QED
    BY <2>1, BelowIsFinite, FS_Subset
<1>4. Cardinality(Below(S, j)) < n /\ ~ (Cardinality(Below(S, k)) < n)
  BY DEF FirstOf
<1>5. Cardinality(Below(S, j)) \in Nat /\ Cardinality(Below(S, k)) \in Nat
  BY BelowIsFinite
<1> QED
  BY <1>3, <1>4, <1>5

\* They are n at most, and n if there are others.
LEMMA FirstOnesAreSoMany ==
  ASSUME NEW S \in SUBSET Nat, IsFiniteSet(S), NEW n \in Nat
  PROVE  /\ IsFiniteSet(FirstOf(S, n))
         /\ Cardinality(FirstOf(S, n)) <= n
         /\ FirstOf(S, n) # S => Cardinality(FirstOf(S, n)) = n
<1> DEFINE page == FirstOf(S, n)
           m == Cardinality(page)
           s == InOrder(page)
<1>1. page \in SUBSET S /\ page \in SUBSET Nat
  BY DEF FirstOf
<1>2. IsFiniteSet(page) /\ m \in Nat
  BY <1>1, FS_Subset, FS_CardinalityType
<1>3. m <= n
  <2> SUFFICES ASSUME m > n
               PROVE  FALSE
    BY <1>2
  <2>1. m \in 1 .. m
    BY <1>2
  <2>2. s[m] \in page /\ s[m] \in Nat
    BY <1>1, <1>2, <2>1, InOrderNumbers
  <2>3. ASSUME NEW k \in page \ {s[m]}
        PROVE  k < s[m]
    <3>1. PICK i \in 1 .. m : s[i] = k
      BY <1>1, <1>2, InOrderNumbers
    <3>2. i < m
      BY <1>2, <2>3, <3>1
    <3> QED
      BY <1>1, <1>2, <2>1, <3>1, <3>2, InOrderNumbers
  <2>4. page \ {s[m]} \in SUBSET Below(S, s[m])
    BY <1>1, <2>3 DEF Below
  <2> HIDE DEF page, s
  <2>5. Cardinality(page \ {s[m]}) = m - 1
    BY <1>2, <2>2, FS_RemoveElement
  <2>6. m - 1 <= Cardinality(Below(S, s[m]))
    BY <2>4, <2>5, BelowIsFinite, FS_Subset
  <2>7. Cardinality(Below(S, s[m])) < n /\ Cardinality(Below(S, s[m])) \in Nat
    BY <2>2, BelowIsFinite DEF page, FirstOf
  <2> HIDE DEF m
  <2> QED
    BY <1>2, <2>6, <2>7
<1>4. ASSUME page # S
      PROVE  m >= n
  <2>1. S \ page \in SUBSET Nat /\ S \ page # {}
    BY <1>1, <1>4
  <2>2. PICK k \in S \ page : \A j \in S \ page : k <= j
    BY <2>1, LeastNumber
  <2>3. Below(S, k) \in SUBSET page
    <3> SUFFICES ASSUME NEW j \in S, j < k, j \notin page
                 PROVE  FALSE
      BY DEF Below
    <3>1. k <= j /\ j \in Nat /\ k \in Nat
      BY <2>2
    <3> QED
      BY <3>1
  <2>4. Cardinality(Below(S, k)) <= m
    BY <1>2, <2>3, FS_Subset
  <2>5. ~ (Cardinality(Below(S, k)) < n) /\ Cardinality(Below(S, k)) \in Nat
    BY <2>2, BelowIsFinite DEF page, FirstOf
  <2> HIDE DEF m
  <2> QED
    BY <1>2, <2>4, <2>5
<1> HIDE DEF m
<1>5. page # S => m = n
  BY <1>2, <1>3, <1>4
<1> QED
  BY <1>2, <1>3, <1>5 DEF m

\* Whatever the store and the clauses, the answer lists issues that match, no
\* more than maxResults, in the order of their numbers; and if it leaves one out
\* it is full, and of issues that come before that one (app.py search).
THEOREM SearchAnswersTheFirstPage ==
  ASSUME NEW store, NEW clauses, NEW maxResults \in Nat, NEW projects, NEW components,
         IsStore(store, projects, components)
  PROVE  LET page == search_issues(store, clauses, maxResults)
             found == Found(store, clauses)
         IN  /\ page \in Seq(found)
             /\ Len(page) <= maxResults
             /\ \A i, j \in DOMAIN page : i < j => page[i] < page[j]
             /\ \A k \in found \ ToSet(page) :
                  Len(page) = maxResults /\ \A i \in DOMAIN page : page[i] < k
<1> DEFINE found == Found(store, clauses)
           first == FirstOf(found, maxResults)
           page == search_issues(store, clauses, maxResults)
           n == Cardinality(first)
<1>1. found \in SUBSET (1 .. store.counter - 1)
  BY DEF Found, IsStore
<1>2. IsFiniteSet(1 .. store.counter - 1)
  BY FS_Interval DEF IsStore
<1> HIDE DEF found
<1>3. found \in SUBSET Nat /\ IsFiniteSet(found)
  <2>1. 1 .. store.counter - 1 \subseteq Nat
    BY DEF IsStore
  <2>2. IsFiniteSet(found)
    BY <1>1, <1>2, FS_Subset
  <2> QED
    BY <1>1, <2>1, <2>2
<1>4. page = InOrder(first)
  BY DEF search_issues, FirstOf, Below, found
<1> HIDE DEF page
<1>5. first \in SUBSET found /\ first \in SUBSET Nat
  BY <1>3 DEF FirstOf
<1>6. IsFiniteSet(first) /\ n \in Nat
  BY <1>3, FirstOnesAreSoMany, FS_CardinalityType
<1> HIDE DEF first
<1>7. /\ page \in [1 .. n -> first]
      /\ \A i, j \in 1 .. n : i < j => page[i] < page[j]
      /\ \A k \in first : \E i \in 1 .. n : page[i] = k
  BY <1>4, <1>5, <1>6, InOrderNumbers
<1>8. page \in Seq(found) /\ Len(page) = n /\ DOMAIN page = 1 .. n
  <2>1. page \in [1 .. n -> found]
    BY <1>5, <1>7
  <2>2. page \in Seq(found)
    BY <1>6, <2>1
  <2> QED
    BY <1>6, <2>1, <2>2
<1>9. n <= maxResults
  BY <1>3, FirstOnesAreSoMany DEF first
<1>10. ToSet(page) = first
  BY <1>7 DEF ToSet
<1>11. ASSUME NEW k \in found \ first
       PROVE  n = maxResults /\ \A j \in first : j < k
  BY <1>3, <1>11, FirstOnesAreSoMany, FirstOnesComeFirst DEF first
<1> HIDE DEF n
<1> QED
  BY <1>7, <1>8, <1>9, <1>10, <1>11 DEF page, found

-----------------------------------------------------------------------------
(* The routing.                                                             *)

LEMMA FirstIsTheLeast ==
  ASSUME NEW numbers \in SUBSET Nat, numbers # {}
  PROVE  First(numbers) \in numbers /\ \A j \in numbers : First(numbers) <= j
BY LeastNumber DEF First

\* The repository is that of the first route for the first component that has
\* one, in the order of the issue and not of the routes, and there is none
\* exactly if no component has a route (remediate/repo_selector.py).
THEOREM SelectRepoTakesTheFirstRoute ==
  ASSUME NEW issue, DOMAIN issue.components \subseteq Nat
  PROVE  LET Routed(i) == RoutesFor(issue.project, issue.components[i])
         IN  \/ /\ \A i \in DOMAIN issue.components : Routed(i) = {}
                /\ select_repo(issue) = NoRepo
             \/ \E i \in DOMAIN issue.components : \E r \in Routed(i) :
                  /\ select_repo(issue) = Routes[r].repo
                  /\ select_repo(issue) # NoRepo
                  /\ \A q \in Routed(i) : r <= q
                  /\ \A j \in DOMAIN issue.components : j < i => Routed(j) = {}
<1> DEFINE Routed(i) == RoutesFor(issue.project, issue.components[i])
           routed == {i \in DOMAIN issue.components : Routed(i) # {}}
<1>1. CASE routed = {}
  BY <1>1 DEF select_repo
<1>2. CASE routed # {}
  <2> DEFINE i == First(routed)
             r == First(Routed(i))
  <2>1. routed \in SUBSET Nat
    OBVIOUS
  <2>2. i \in routed /\ \A j \in routed : i <= j
    BY <1>2, <2>1, FirstIsTheLeast
  <2>3. select_repo(issue) = Routes[r].repo
    BY <1>2 DEF select_repo, route_for
  <2> HIDE DEF i
  <2>4. Routed(i) \in SUBSET Nat /\ Routed(i) # {}
    BY <2>2, RoutingAssumption DEF RoutesFor
  <2>5. r \in Routed(i) /\ \A q \in Routed(i) : r <= q
    BY <2>4, FirstIsTheLeast
  <2> HIDE DEF r
  <2>6. Routes[r].repo # NoRepo
    BY <2>5, RoutingAssumption DEF RoutesFor
  <2>7. ASSUME NEW j \in DOMAIN issue.components, j < i
        PROVE  Routed(j) = {}
    <3>1. i \in Nat /\ j \in Nat
      BY <2>1, <2>2
    <3>2. j \notin routed
      BY <2>2, <2>7, <3>1
    <3> QED
      BY <3>2
  <2> QED
    BY <2>2, <2>3, <2>5, <2>6, <2>7
<1> QED
  BY <1>1, <1>2

LEMMA SelectRepoType ==
  ASSUME NEW issue, DOMAIN issue.components \subseteq Nat
  PROVE  select_repo(issue) \in Repos \cup {NoRepo}
BY SelectRepoTakesTheFirstRoute DEF RoutesFor, Repos

LEMMA SeedIsTwoIssues ==
  /\ IsStore(_seed, Projects, Components)
  /\ _seed.counter = 3
  /\ DOMAIN _seed.issues = 1 .. 2
  /\ \A k \in 1 .. 2 : DOMAIN _seed.issues[k].components = {1}
<1> DEFINE ready(component) == [project    |-> PROJECT_KEY,
                                status     |-> "Ready for Remediation",
                                components |-> <<component>>]
           issues == <<ready("frontend"), ready("infra-config")>>
<1>1. _seed = [issues |-> issues, counter |-> 3]
  BY DEF _seed
<1>2. \A k \in DOMAIN issues : \E c : issues[k] = ready(c)
  <2> HIDE DEF ready
  <2>1. issues[1] = ready("frontend") /\ issues[2] = ready("infra-config")
    OBVIOUS
  <2>2. \A k \in DOMAIN issues : k = 1 \/ k = 2
    OBVIOUS
  <2> HIDE DEF issues
  <2> QED
    BY <2>1, <2>2
<1>3. DOMAIN issues = 1 .. 2
  OBVIOUS
<1>4. issues = [k \in DOMAIN issues |-> issues[k]]
  OBVIOUS
<1>5. \A c : ready(c).components = <<c>> /\ DOMAIN <<c>> = {1}
  OBVIOUS
<1>6. "Ready for Remediation" \in ToSet(WORKFLOW)
  <2>1. 3 \in DOMAIN WORKFLOW /\ WORKFLOW[3] = "Ready for Remediation"
    BY DEF WORKFLOW
  <2> QED
    BY <2>1 DEF ToSet
<1>7. PROJECT_KEY \in Projects
  BY DEF Projects
<1>8. ASSUME NEW c, ready(c).components \in Components
      PROVE  ready(c) \in Issue(Projects, Components)
  BY <1>6, <1>7, <1>8 DEF Issue
<1> HIDE DEF ready, issues
<1>9. _seed.issues = issues /\ _seed.counter = 3
  BY <1>1
<1>10. \A k \in DOMAIN issues : issues[k].components \in Components
  BY <1>9 DEF Components
<1>11. \A k \in DOMAIN issues : issues[k] \in Issue(Projects, Components)
  BY <1>2, <1>8, <1>10
<1>12. issues \in [DOMAIN issues -> Issue(Projects, Components)]
  BY <1>4, <1>11
<1>13. IsStore(_seed, Projects, Components)
  <2>1. _seed = [issues |-> _seed.issues, counter |-> _seed.counter]
    BY <1>1
  <2>2. 1 .. 2 \subseteq 1 .. 3 - 1 /\ 3 \in Nat \ {0}
    OBVIOUS
  <2> QED
    BY <1>3, <1>9, <1>12, <2>1, <2>2 DEF IsStore
<1> QED
  BY <1>2, <1>3, <1>5, <1>9, <1>13

LEMMA ComponentsAreNumbered ==
  ASSUME NEW list \in Components
  PROVE  DOMAIN list \subseteq Nat
<1>1. CASE list \in ComponentLists
  BY <1>1, BoardAssumption
<1>2. CASE list \in {_seed.issues[k].components : k \in DOMAIN _seed.issues}
  <2>1. PICK k \in DOMAIN _seed.issues : list = _seed.issues[k].components
    BY <1>2
  <2>2. DOMAIN list = {1}
    BY <2>1, SeedIsTwoIssues
  <2> QED
    BY <2>2
<1>3. ASSUME NEW t \in Tickets, NEW i \in RulesFor(t.table),
             list = to_jira_payload(t, Rules[i]).components
      PROVE  DOMAIN list \subseteq Nat
  BY <1>3 DEF to_jira_payload
<1> QED
  BY <1>1, <1>2, <1>3 DEF Components

-----------------------------------------------------------------------------
(* The requests of the mock server on its store.                            *)

LEMMA PutKeepsTheType ==
  ASSUME NEW store, NEW projects, NEW components, IsStore(store, projects, components),
         NEW key \in DOMAIN store.issues, NEW record \in Issue(projects, components)
  PROVE  /\ IsStore(put(store, key, record), projects, components)
         /\ put(store, key, record).counter = store.counter
BY DEF put, IsStore

LEMMA CreateKeepsTheType ==
  ASSUME NEW store, NEW projects, NEW components, IsStore(store, projects, components),
         NEW payload, payload.project \in projects, payload.components \in components
  PROVE  /\ IsStore(create_issue(store, payload), projects, components)
         /\ create_issue(store, payload).counter = store.counter + 1
<1> DEFINE record == [project    |-> payload.project,
                      status     |-> "Backlog",
                      components |-> payload.components]
           next == put(store, store.counter, record)
<1>1. record \in Issue(projects, components)
  <2>1. 1 \in DOMAIN WORKFLOW /\ WORKFLOW[1] = "Backlog"
    BY DEF WORKFLOW
  <2>2. "Backlog" \in ToSet(WORKFLOW)
    BY <2>1 DEF ToSet
  <2> QED
    BY <2>2 DEF Issue
<1>2. create_issue(store, payload) = [next EXCEPT !.counter = @ + 1]
  BY DEF create_issue, PutNext
<1> HIDE DEF record
<1>3. /\ next = [issues |-> next.issues, counter |-> store.counter]
      /\ DOMAIN next.issues \subseteq 1 .. store.counter
      /\ next.issues \in [DOMAIN next.issues -> Issue(projects, components)]
  <2>1. store = [issues |-> store.issues, counter |-> store.counter]
    BY DEF IsStore
  <2>2. next = [issues  |-> [k \in DOMAIN store.issues \cup {store.counter} |->
                               IF k = store.counter THEN record ELSE store.issues[k]],
                counter |-> store.counter]
    BY <2>1 DEF put
  <2>3. DOMAIN store.issues \subseteq 1 .. store.counter
    BY DEF IsStore
  <2>4. \A k \in DOMAIN store.issues : store.issues[k] \in Issue(projects, components)
    BY DEF IsStore
  <2> HIDE DEF next
  <2>5. /\ next = [issues |-> next.issues, counter |-> store.counter]
        /\ next.issues = [k \in DOMAIN store.issues \cup {store.counter} |->
                            IF k = store.counter THEN record ELSE store.issues[k]]
    BY <2>2
  <2>6. store.counter \in 1 .. store.counter
    BY DEF IsStore
  <2>7. DOMAIN next.issues = DOMAIN store.issues \cup {store.counter}
    BY <2>5
  <2> QED
    BY <1>1, <2>3, <2>4, <2>5, <2>6, <2>7
<1> HIDE DEF next
<1> QED
  BY <1>2, <1>3 DEF IsStore

LEMMA DeleteKeepsTheType ==
  ASSUME NEW store, NEW projects, NEW components, IsStore(store, projects, components),
         NEW key
  PROVE  /\ IsStore(delete_issue(store, key), projects, components)
         /\ delete_issue(store, key).counter = store.counter
BY DEF delete_issue, IsStore

LEMMA UpdateKeepsTheType ==
  ASSUME NEW store, NEW projects, NEW components, IsStore(store, projects, components),
         NEW key \in DOMAIN store.issues, NEW list \in components
  PROVE  /\ IsStore(update_issue(store, key, list), projects, components)
         /\ update_issue(store, key, list).counter = store.counter
<1>1. [store.issues[key] EXCEPT !.components = list] \in Issue(projects, components)
  BY DEF IsStore, Issue
<1> QED
  BY <1>1, PutKeepsTheType DEF update_issue

LEMMA TransitionKeepsTheType ==
  ASSUME NEW store, NEW projects, NEW components, IsStore(store, projects, components),
         NEW key \in DOMAIN store.issues, NEW i \in DOMAIN WORKFLOW
  PROVE  /\ IsStore(do_transition(store, key, i), projects, components)
         /\ do_transition(store, key, i).counter = store.counter
<1>1. WORKFLOW[i] \in ToSet(WORKFLOW)
  BY DEF ToSet
<1>2. [store.issues[key] EXCEPT !.status = WORKFLOW[i]] \in Issue(projects, components)
  BY <1>1 DEF IsStore, Issue
<1> QED
  BY <1>2, PutKeepsTheType DEF do_transition

-----------------------------------------------------------------------------
(* The types.                                                               *)

LEMMA UpsertType ==
  ASSUME NEW row \in Row(Nat), NEW status \in Status, NEW pr \in Nat
  PROVE  upsert_run(row, status, pr) \in Row(Nat)
BY DEF upsert_run, Row, NoPr

LEMMA IdleIsALoop == Idle \in Loop
<1>1. 0 \in 0 .. MaxLlmCalls /\ <<>> \in Seq(Snapshot)
  BY BoardAssumption
<1> QED
  BY <1>1 DEF Idle, Loop, NoPr

\* The page, as the loop sees it.
LEMMA PageType ==
  ASSUME TypeOK, NEW clauses
  PROVE  LET page == search_issues(jira, clauses, PageSize)
         IN  [i \in DOMAIN page |->
                [key        |-> page[i],
                 project    |-> jira.issues[page[i]].project,
                 components |-> jira.issues[page[i]].components]] \in Seq(Snapshot)
<1> DEFINE page == search_issues(jira, clauses, PageSize)
           seen(k) == [key        |-> k,
                       project    |-> jira.issues[k].project,
                       components |-> jira.issues[k].components]
<1>1. page \in Seq(Found(jira, clauses))
  BY SearchAnswersTheFirstPage, BoardAssumption DEF TypeOK
<1> HIDE DEF page
<1>2. Found(jira, clauses) \subseteq DOMAIN jira.issues
  BY DEF Found
<1>3. ASSUME NEW k \in DOMAIN jira.issues
      PROVE  seen(k) \in Snapshot
  <2>1. k \in Keys
    BY BoardAssumption DEF TypeOK, IsStore, Keys
  <2>2. jira.issues[k] \in Issue(Projects, Components)
    BY DEF TypeOK, IsStore
  <2> QED
    BY <2>1, <2>2 DEF Issue, Snapshot
<1> HIDE DEF seen
<1>4. /\ DOMAIN page = 1 .. Len(page) /\ Len(page) \in Nat
      /\ \A i \in DOMAIN page : seen(page[i]) \in Snapshot
  BY <1>1, <1>2, <1>3
<1>5. [i \in DOMAIN page |-> seen(page[i])] \in Seq(Snapshot)
  BY <1>4
<1> QED
  BY <1>5 DEF page, seen

LEMMA TypeInit == Init => TypeOK
<1> SUFFICES ASSUME Init
             PROVE  TypeOK
  OBVIOUS
<1>1. IsStore(_seed, Projects, Components) /\ _seed.counter = 3
  BY SeedIsTwoIssues
<1>2. _seed.counter <= MaxIssues + 1
  <2>1. MaxIssues \in Nat /\ MaxIssues >= 2
    BY BoardAssumption
  <2> QED
    BY <1>1, <2>1
<1>3. NoRow \in Row(Nat)
  BY DEF NoRow, Row, NoPr
<1>4. Idle.pc \notin Busy \cup Gate \cup {"routing"} /\ 0 \in 0 .. MaxMeddling
  BY BoardAssumption DEF Idle, Busy, Gate
<1>5. \A S : <<>> \in Seq(S)
  OBVIOUS
<1> QED
  BY <1>1, <1>2, <1>3, <1>4, <1>5, IdleIsALoop DEF Init, TypeOK

\* The rows, when one of them is written.
LEMMA RowsType ==
  ASSUME rows \in [Keys -> Row(Nat)], NEW k \in Keys, NEW status \in Status, NEW pr \in Nat
  PROVE  [rows EXCEPT ![k] = upsert_run(@, status, pr)] \in [Keys -> Row(Nat)]
BY UpsertType

\* The head of the list, with its repository.
LEMMA HeadType ==
  ASSUME TypeOK, loop.pc \in Gate \cup {"routing"}
  PROVE  /\ Tail(loop.todo) \in Seq(Snapshot)
         /\ AtHand.key \in Keys
         /\ select_repo(AtHand) \in Repos \cup {NoRepo}
<1>1. loop.todo \in Seq(Snapshot) /\ loop.todo # <<>>
  BY DEF TypeOK, Loop
<1>2. AtHand \in Snapshot /\ Tail(loop.todo) \in Seq(Snapshot)
  BY <1>1 DEF AtHand
<1>3. AtHand.key \in Keys /\ AtHand.components \in Components
  BY <1>2 DEF Snapshot
<1> QED
  BY <1>2, <1>3, ComponentsAreNumbered, SelectRepoType

\* The loop goes on to an issue, if there is one left.
LEMMA OnwardType ==
  ASSUME NEW todo
  PROVE  /\ Onward(todo) \in {"idempotency", "routing", "done"}
         /\ Onward(todo) # "done" => todo # <<>>
         /\ Onward(todo) = "routing" => Bypassed(Head(todo).key)
BY DEF Onward

LEMMA NextReadType ==
  \A read \in Gate : NextRead[read] \in Gate \cup {"routing"}
BY DEF Gate, NextRead

\* The steps of the run.
LEMMA LoopKeepsTheTypes ==
  ASSUME TypeOK,
         \/ \E ticket \in Keys \cup {NoKey} : \E force \in BOOLEAN : StartRun(ticket, force)
         \/ Search \/ SkipIssue \/ PassRead \/ PassOver \/ TakeIssue \/ EndRun
         \/ Clone \/ OpenPr \/ RecordPr \/ StageFails \/ RecordFailure
         \/ OpenPrReplyLost \/ Crash
  PROVE  /\ loop' \in Loop
         /\ loop'.pc \in Gate \cup {"routing"} => loop'.todo # <<>>
         /\ loop'.pc \in Busy => loop'.key \in Keys /\ loop'.repo \in Repos
<1> USE DEF NoPr
<1>0. /\ loop \in Loop
      /\ loop.pc \in Gate \cup {"routing"} => loop.todo # <<>>
      /\ loop.pc \in Busy => loop.key \in Keys /\ loop.repo \in Repos
  BY DEF TypeOK
<1>1. ASSUME NEW ticket \in Keys \cup {NoKey}, NEW force \in BOOLEAN, StartRun(ticket, force)
      PROVE  loop' \in Loop /\ loop'.pc = "searching"
  <2>1. loop' = [Idle EXCEPT !.pc = "searching", !.ticket = ticket, !.force = force]
    BY <1>1 DEF StartRun
  <2>2. Idle \in Loop
    BY IdleIsALoop
  <2> QED
    BY <2>1, <2>2 DEF Loop
<1>2. ASSUME Search
      PROVE  loop' \in Loop /\ (loop'.pc = "done" \/ (loop'.todo # <<>> /\ loop'.pc \notin Busy))
  <2>1. PICK todo \in Seq(Snapshot) :
          loop' = [loop EXCEPT !.pc = Onward(todo), !.todo = todo]
    BY <1>2, PageType DEF Search
  <2>2. Onward(todo) \in {"idempotency", "routing", "done"}
    BY OnwardType
  <2>3. Onward(todo) = "done" \/ todo # <<>>
    BY OnwardType
  <2>4. loop' \in Loop /\ loop'.pc = Onward(todo) /\ loop'.todo = todo
    BY <1>0, <2>1, <2>2 DEF Loop, Gate
  <2> QED
    BY <2>2, <2>3, <2>4 DEF Busy
<1>3. ASSUME SkipIssue \/ PassOver
      PROVE  loop' \in Loop /\ (loop'.pc = "done" \/ (loop'.todo # <<>> /\ loop'.pc \notin Busy))
  <2> DEFINE todo == Tail(loop.todo)
  <2>1. loop' = [loop EXCEPT !.pc = Onward(todo), !.todo = todo]
    BY <1>3 DEF SkipIssue, PassOver, DropIssue
  <2>2. todo \in Seq(Snapshot)
    BY <1>3, HeadType DEF SkipIssue, PassOver
  <2>3. /\ Onward(todo) \in {"idempotency", "routing", "done"}
        /\ Onward(todo) = "done" \/ todo # <<>>
    BY OnwardType
  <2> HIDE DEF todo
  <2>4. loop' \in Loop /\ loop'.pc = Onward(todo) /\ loop'.todo = todo
    BY <1>0, <2>1, <2>2, <2>3 DEF Loop, Gate
  <2> QED
    BY <2>3, <2>4 DEF Busy
<1>10. ASSUME PassRead
       PROVE  loop' \in Loop /\ loop'.todo # <<>> /\ loop'.pc \notin Busy
  <2>1. PICK pc \in Gate \cup {"routing"} : loop' = [loop EXCEPT !.pc = pc]
    BY <1>10, NextReadType DEF PassRead
  <2>2. loop.todo # <<>>
    BY <1>0, <1>10 DEF PassRead
  <2>3. pc \notin Busy
    BY DEF Gate, Busy
  <2> QED
    BY <1>0, <2>1, <2>2, <2>3 DEF Loop
<1>4. ASSUME TakeIssue
      PROVE  loop' \in Loop /\ loop'.pc \in Busy /\ loop'.key \in Keys /\ loop'.repo \in Repos
  <2>1. PICK key \in Keys, repo \in Repos, todo \in Seq(Snapshot) :
          loop' = [loop EXCEPT !.pc = "cloning", !.todo = todo, !.calls = @ + 1,
                               !.key = key, !.repo = repo]
    BY <1>4, HeadType DEF TakeIssue
  <2>2. loop.calls + 1 \in 0 .. MaxLlmCalls
    BY <1>0, <1>4, BoardAssumption DEF TakeIssue, Loop
  <2> QED
    BY <1>0, <2>1, <2>2 DEF Loop, Busy
<1>5. ASSUME EndRun \/ Crash
      PROVE  loop' \in Loop /\ loop'.pc = "idle"
  <2>1. loop' = Idle
    BY <1>5 DEF EndRun, Crash
  <2>2. Idle.pc = "idle"
    BY DEF Idle
  <2> QED
    BY <2>1, <2>2, IdleIsALoop
<1>6. ASSUME Clone \/ StageFails \/ OpenPrReplyLost
      PROVE  loop' \in Loop /\ loop'.pc \in Busy /\ loop'.key \in Keys /\ loop'.repo \in Repos
  <2>1. \E pc \in Busy : loop' = [loop EXCEPT !.pc = pc]
    BY <1>6 DEF Clone, StageFails, OpenPrReplyLost, Busy
  <2>2. loop.pc \in Busy
    BY <1>6 DEF Clone, StageFails, OpenPrReplyLost, OpensPr, Busy
  <2> QED
    BY <1>0, <2>1, <2>2 DEF Loop
<1>7. ASSUME OpenPr
      PROVE  loop' \in Loop /\ loop'.pc \in Busy /\ loop'.key \in Keys /\ loop'.repo \in Repos
  <2>1. loop.repo \in Repos /\ loop.key \in Keys
    BY <1>0, <1>7 DEF OpenPr, OpensPr, Busy
  <2>2. Len(prs[loop.repo]) + 1 \in Nat
    BY <2>1 DEF TypeOK
  <2>3. loop' = [loop EXCEPT !.pc = "recording", !.pr = Len(prs[loop.repo]) + 1]
    BY <1>7 DEF OpenPr
  <2> QED
    BY <1>0, <2>1, <2>2, <2>3 DEF Loop, Busy
<1>8. ASSUME RecordPr \/ RecordFailure
      PROVE  loop' \in Loop /\ (loop'.pc = "done" \/ (loop'.todo # <<>> /\ loop'.pc \notin Busy))
  <2>1. loop' = [loop EXCEPT !.pc = Onward(loop.todo), !.key = NoKey, !.repo = NoRepo,
                             !.pr = 0]
    BY <1>8 DEF RecordPr, RecordFailure, IssueDone
  <2>2. /\ Onward(loop.todo) \in {"idempotency", "routing", "done"}
        /\ Onward(loop.todo) = "done" \/ loop.todo # <<>>
    BY OnwardType
  <2>3. loop' \in Loop /\ loop'.pc = Onward(loop.todo) /\ loop'.todo = loop.todo
    BY <1>0, <2>1, <2>2 DEF Loop, Gate
  <2> QED
    BY <2>2, <2>3 DEF Busy
<1>9. /\ {"idle", "searching", "done"} \cap (Busy \cup Gate \cup {"routing"}) = {}
      /\ Busy \cap (Gate \cup {"routing"}) = {}
  BY DEF Busy, Gate
<1> QED
  BY <1>1, <1>2, <1>3, <1>4, <1>5, <1>6, <1>7, <1>8, <1>9, <1>10

\* A request that creates, changes or deletes an issue.
LEMMA BoardKeepsTheTypes ==
  ASSUME TypeOK,
         \/ \E ticket \in Tickets : \E i \in RulesFor(ticket.table) : IngestTicket(ticket, i)
         \/ \E k \in Keys : MoveIssue(k) \/ EditComponents(k) \/ DeleteIssue(k)
  PROVE  IsStore(jira', Projects, Components) /\ jira'.counter <= MaxIssues + 1
<1>0. /\ IsStore(jira, Projects, Components)
      /\ jira.counter \in Nat
      /\ jira.counter <= MaxIssues + 1
  BY DEF TypeOK, IsStore
<1>1. ASSUME NEW ticket \in Tickets, NEW i \in RulesFor(ticket.table),
             IngestTicket(ticket, i)
      PROVE  IsStore(jira', Projects, Components) /\ jira'.counter <= MaxIssues + 1
  <2> DEFINE payload == to_jira_payload(ticket, Rules[i])
  <2>1. Rules[i].project \in Projects
    BY DEF RulesFor, Projects
  <2>2. payload.components \in Components
    BY DEF Components
  <2>3. payload.project \in Projects
    BY <2>1 DEF to_jira_payload
  <2>4. jira' = create_issue(jira, payload) /\ jira.counter <= MaxIssues
    BY <1>1 DEF IngestTicket
  <2> HIDE DEF payload
  <2>5. IsStore(jira', Projects, Components) /\ jira'.counter = jira.counter + 1
    BY <1>0, <2>2, <2>3, <2>4, CreateKeepsTheType
  <2> QED
    BY <1>0, <2>4, <2>5, BoardAssumption
<1>2. ASSUME NEW k \in Keys, MoveIssue(k)
      PROVE  IsStore(jira', Projects, Components) /\ jira'.counter = jira.counter
  <2>1. PICK i \in list_transitions(jira, k) : jira' = do_transition(jira, k, i)
    BY <1>2 DEF MoveIssue
  <2>2. i \in DOMAIN WORKFLOW /\ k \in DOMAIN jira.issues
    BY <1>2 DEF MoveIssue, Holds, list_transitions
  <2> QED
    BY <1>0, <2>1, <2>2, TransitionKeepsTheType
<1>3. ASSUME NEW k \in Keys, EditComponents(k)
      PROVE  IsStore(jira', Projects, Components) /\ jira'.counter = jira.counter
  <2>1. PICK list \in ComponentLists : jira' = update_issue(jira, k, list)
    BY <1>3 DEF EditComponents
  <2>2. list \in Components /\ k \in DOMAIN jira.issues
    BY <1>3 DEF EditComponents, Holds, Components
  <2> QED
    BY <1>0, <2>1, <2>2, UpdateKeepsTheType
<1>4. ASSUME NEW k \in Keys, DeleteIssue(k)
      PROVE  IsStore(jira', Projects, Components) /\ jira'.counter = jira.counter
  <2>1. jira' = delete_issue(jira, k)
    BY <1>4 DEF DeleteIssue
  <2> QED
    BY <1>0, <2>1, DeleteKeepsTheType
<1> QED
  BY <1>0, <1>1, <1>2, <1>3, <1>4

\* The rows and the pull requests.
PrsType == [Repos -> Seq(PullRequest)]

LEMMA RecordsKeepTheTypes ==
  ASSUME TypeOK,
         \/ Clone \/ OpensPr \/ RecordPr \/ RecordFailure
         \/ \E repo \in Repos : \E n \in DOMAIN prs[repo] : Resolve(repo, n)
         \/ \E run \in listed : SyncRow(run)
         \/ \E k \in Keys : Ignore(k)
  PROVE  /\ rows' \in [Keys -> Row(Nat)]
         /\ repo_of' \in [Keys -> Repos \cup {NoRepo}]
         /\ prs' \in PrsType
<1> USE DEF NoPr
<1>0. /\ rows \in [Keys -> Row(Nat)]
      /\ repo_of \in [Keys -> Repos \cup {NoRepo}]
      /\ prs \in PrsType
      /\ loop.pr \in Nat
      /\ loop.pc \in Busy => loop.key \in Keys /\ loop.repo \in Repos
  BY DEF TypeOK, PrsType, Loop
<1>1. {"branch_created", "pr_open", "failed", "pr_merged", "pr_closed", "ignored"}
        \subseteq Status
  BY DEF Status
<1>2. CASE Clone
  <2>1. loop.key \in Keys /\ loop.repo \in Repos /\ 0 \in Nat
    BY <1>0, <1>2 DEF Clone, Busy
  <2>2. rows' \in [Keys -> Row(Nat)]
    BY <1>0, <1>1, <1>2, <2>1, RowsType DEF Clone
  <2>3. repo_of' = [repo_of EXCEPT ![loop.key] = loop.repo] /\ prs' = prs
    BY <1>2 DEF Clone
  <2> QED
    BY <1>0, <2>1, <2>2, <2>3
<1>3. CASE OpensPr
  <2>1. loop.key \in Keys /\ loop.repo \in Repos
    BY <1>0, <1>3 DEF OpensPr, Busy
  <2> DEFINE pr == [key |-> loop.key, state |-> "open"]
  <2>2. pr \in PullRequest
    BY <2>1 DEF PullRequest
  <2>3. prs' = [prs EXCEPT ![loop.repo] = Append(@, pr)] /\ UNCHANGED <<rows, repo_of>>
    BY <1>3 DEF OpensPr
  <2> HIDE DEF pr
  <2>4. Append(prs[loop.repo], pr) \in Seq(PullRequest)
    BY <1>0, <2>1, <2>2 DEF PrsType
  <2> QED
    BY <1>0, <2>1, <2>3, <2>4 DEF PrsType
<1>4. CASE RecordPr
  <2>1. loop.key \in Keys
    BY <1>0, <1>4 DEF RecordPr, Busy
  <2>2. rows' \in [Keys -> Row(Nat)]
    BY <1>0, <1>1, <1>4, <2>1, RowsType DEF RecordPr
  <2> QED
    BY <1>0, <1>4, <2>2 DEF RecordPr, IssueDone
<1>5. CASE RecordFailure
  <2>1. loop.key \in Keys /\ 0 \in Nat
    BY <1>0, <1>5 DEF RecordFailure, Busy
  <2>2. rows' \in [Keys -> Row(Nat)]
    BY <1>0, <1>1, <1>5, <2>1, RowsType DEF RecordFailure
  <2> QED
    BY <1>0, <1>5, <2>2 DEF RecordFailure, IssueDone
<1>6. ASSUME NEW repo \in Repos, NEW n \in DOMAIN prs[repo], Resolve(repo, n)
      PROVE  prs' \in PrsType /\ UNCHANGED <<rows, repo_of>>
  <2>1. PICK state \in {"merged", "closed"} : prs' = [prs EXCEPT ![repo][n].state = state]
    BY <1>6 DEF Resolve
  <2>2. prs[repo] \in Seq(PullRequest)
    BY <1>0 DEF PrsType
  <2>3. [prs[repo] EXCEPT ![n].state = state] \in Seq(PullRequest)
    <3> DEFINE list == prs[repo]
    <3>1. list \in [1 .. Len(list) -> PullRequest] /\ Len(list) \in Nat /\ n \in 1 .. Len(list)
      BY <2>2
    <3> HIDE DEF list
    <3>2. list[n] \in PullRequest
      BY <3>1
    <3>3. [list[n] EXCEPT !.state = state] \in PullRequest
      BY <3>2 DEF PullRequest
    <3>4. [list EXCEPT ![n].state = state] \in [1 .. Len(list) -> PullRequest]
      BY <3>1, <3>3
    <3> QED
      BY <3>1, <3>4 DEF list
  <2> QED
    BY <1>0, <1>6, <2>1, <2>3 DEF PrsType, Resolve
<1>7. ASSUME NEW run \in listed, SyncRow(run)
      PROVE  rows' \in [Keys -> Row(Nat)] /\ UNCHANGED <<repo_of, prs>>
  <2>1. CASE UNCHANGED rows
    BY <1>0, <1>7, <2>1 DEF SyncRow
  <2>2. CASE ~ UNCHANGED rows
    <3>1. PICK status \in Status : rows' = [rows EXCEPT ![run.key] = upsert_run(@, status, 0)]
      BY <1>1, <1>7, <2>2 DEF SyncRow
    <3>2. run.key \in Keys
      BY DEF TypeOK, Listed
    <3> QED
      BY <1>0, <1>7, <3>1, <3>2, RowsType DEF SyncRow
  <2> QED
    BY <2>1, <2>2
<1>8. ASSUME NEW k \in Keys, Ignore(k)
      PROVE  rows' \in [Keys -> Row(Nat)] /\ UNCHANGED <<repo_of, prs>>
  BY <1>0, <1>1, <1>8, RowsType DEF Ignore, mark_ignored
<1> QED
  BY <1>0, <1>2, <1>3, <1>4, <1>5, <1>6, <1>7, <1>8

\* The list of the syncer.
LEMMA ListKeepsItsType ==
  ASSUME TypeOK, SyncList \/ \E run \in listed : SyncRow(run)
  PROVE  listed' \subseteq Listed
<1>1. /\ rows \in [Keys -> Row(Nat)]
      /\ repo_of \in [Keys -> Repos \cup {NoRepo}]
      /\ listed \subseteq Listed
  BY DEF TypeOK
<1>2. CASE SyncList
  <2> SUFFICES ASSUME NEW k \in Keys, repo_of[k] # NoRepo
               PROVE  [key |-> k, repo |-> repo_of[k], pr |-> rows[k].pr] \in Listed
    BY <1>2 DEF SyncList
  <2> QED
    BY <1>1 DEF Listed, Row, NoPr
<1>3. CASE \E run \in listed : SyncRow(run)
  BY <1>1, <1>3 DEF SyncRow
<1> QED
  BY <1>2, <1>3

LEMMA TypeNext == TypeOK /\ [Next]_vars => TypeOK'
<1> SUFFICES ASSUME TypeOK, [Next]_vars
             PROVE  TypeOK'
  OBVIOUS
<1>1. IsStore(jira', Projects, Components) /\ jira'.counter <= MaxIssues + 1
  <2>1. CASE UNCHANGED jira
    BY <2>1 DEF TypeOK
  <2> QED
    BY <2>1, BoardKeepsTheTypes
       DEF Next, LoopStep, vars, StartBatch, StartTicket, StartRun, Search, SkipIssue,
           PassRead, PassOver, DropIssue, TakeIssue, EndRun, Crash, Clone, OpenPr,
           OpenPrReplyLost, OpensPr, RecordPr, IssueDone, StageFails, RecordFailure,
           Resolve, SyncList, SyncRow, Ignore
<1>2. /\ rows' \in [Keys -> Row(Nat)]
      /\ repo_of' \in [Keys -> Repos \cup {NoRepo}]
      /\ prs' \in PrsType
  <2>1. CASE UNCHANGED <<rows, repo_of, prs>>
    BY <2>1 DEF TypeOK, PrsType
  <2> QED
    BY <2>1, RecordsKeepTheTypes
       DEF Next, LoopStep, vars, StartBatch, StartTicket, StartRun, Search, SkipIssue,
           PassRead, PassOver, DropIssue, TakeIssue, EndRun, Crash, OpenPr,
           OpenPrReplyLost, StageFails, IngestTicket, SyncList, MoveIssue,
           EditComponents, DeleteIssue
<1>3. /\ loop' \in Loop
      /\ loop'.pc \in Gate \cup {"routing"} => loop'.todo # <<>>
      /\ loop'.pc \in Busy => loop'.key \in Keys /\ loop'.repo \in Repos
  <2>1. CASE UNCHANGED loop
    BY <2>1 DEF TypeOK
  <2>2. CASE StartBatch \/ \E k \in Keys : StartTicket(k)
    BY <2>2, LoopKeepsTheTypes DEF StartBatch, StartTicket
  <2> QED
    BY <2>1, <2>2, LoopKeepsTheTypes
       DEF Next, LoopStep, vars, IngestTicket, Resolve, SyncList, SyncRow, Ignore,
           MoveIssue, EditComponents, DeleteIssue
<1>4. meddling' \in 0 .. MaxMeddling
  <2>1. CASE UNCHANGED meddling
    BY <2>1 DEF TypeOK
  <2>2. CASE Meddle
    BY <2>2, BoardAssumption DEF TypeOK, Meddle
  <2> QED
    BY <2>1, <2>2
       DEF Next, LoopStep, vars, StartBatch, StartTicket, Search, SkipIssue, PassRead,
           PassOver, DropIssue, TakeIssue, EndRun, Crash, Clone, OpenPr, OpenPrReplyLost,
           RecordPr, IssueDone, StageFails, RecordFailure, IngestTicket, Resolve,
           SyncList, SyncRow, Ignore, MoveIssue, EditComponents, DeleteIssue
<1>5. listed' \subseteq Listed
  <2>1. CASE UNCHANGED listed
    BY <2>1 DEF TypeOK
  <2> QED
    BY <2>1, ListKeepsItsType
       DEF Next, LoopStep, vars, StartBatch, StartTicket, StartRun, Search, SkipIssue,
           PassRead, PassOver, DropIssue, TakeIssue, EndRun, Crash, Clone, OpenPr,
           OpenPrReplyLost, OpensPr, RecordPr, IssueDone, StageFails, RecordFailure,
           IngestTicket, Resolve, Ignore, MoveIssue, EditComponents, DeleteIssue
<1> QED
  BY <1>1, <1>2, <1>3, <1>4, <1>5 DEF TypeOK, PrsType

\* Board keeps its types, for every set of tickets, rules, routes and lists of
\* components, every page and every cap.
THEOREM TypeCorrect == Spec => []TypeOK
<1>1. Init => TypeOK
  BY TypeInit
<1>2. TypeOK /\ [Next]_vars => TypeOK'
  BY TypeNext
<1> QED
  BY <1>1, <1>2, PTL DEF Spec

-----------------------------------------------------------------------------
(* The row and the pull request.                                            *)

RecordInv == OpenRowNamesAPrOfItsIssue /\ AttemptInv

\* No pull request goes away, and none changes its branch.
PrsStay ==
  \A repo \in Repos : \A n \in DOMAIN prs[repo] :
    n \in DOMAIN prs'[repo] /\ prs'[repo][n].key = prs[repo][n].key

LEMMA PrsStayInAStep == TypeOK /\ [Next]_vars => PrsStay
<1> SUFFICES ASSUME TypeOK, [Next]_vars
             PROVE  PrsStay
  OBVIOUS
<1>1. prs \in [Repos -> Seq(PullRequest)]
  BY DEF TypeOK
<1>2. CASE UNCHANGED prs
  BY <1>2 DEF PrsStay
<1>3. CASE OpensPr
  <2>1. PICK pr : prs' = [prs EXCEPT ![loop.repo] = Append(@, pr)]
    BY <1>3 DEF OpensPr
  <2>2. ASSUME NEW list \in Seq(PullRequest), NEW n \in DOMAIN list
        PROVE  n \in DOMAIN Append(list, pr) /\ Append(list, pr)[n] = list[n]
    BY <2>2
  <2> QED
    BY <1>1, <2>1, <2>2 DEF PrsStay
<1>4. ASSUME NEW repo \in Repos, NEW n \in DOMAIN prs[repo], Resolve(repo, n)
      PROVE  PrsStay
  <2>1. PICK state : prs' = [prs EXCEPT ![repo][n].state = state]
    BY <1>4 DEF Resolve
  <2>2. DOMAIN prs'[repo] = DOMAIN prs[repo] /\ \A r \in Repos \ {repo} : prs'[r] = prs[r]
    BY <1>1, <2>1
  <2>3. prs[repo][n] \in PullRequest
    BY <1>1, <1>4
  <2>4. \A m \in DOMAIN prs[repo] \ {n} : prs'[repo][m] = prs[repo][m]
    BY <1>1, <2>1
  <2>5. prs'[repo][n].key = prs[repo][n].key
    BY <1>1, <2>1, <2>3 DEF PullRequest
  <2> QED
    BY <2>2, <2>4, <2>5 DEF PrsStay
<1> QED
  BY <1>2, <1>3, <1>4
     DEF Next, LoopStep, vars, StartBatch, StartTicket, StartRun, Search, SkipIssue,
         PassRead, PassOver, DropIssue, TakeIssue, EndRun, Crash, Clone, OpenPr,
         OpenPrReplyLost, RecordPr, IssueDone, StageFails, RecordFailure, IngestTicket,
         SyncList, SyncRow, Ignore, MoveIssue, EditComponents, DeleteIssue

\* The syncer and `remediate ignore` settle rows: they leave a row alone, or
\* write a status of their own and no number.
LEMMA OthersSettleRows ==
  ASSUME TypeOK,
         SyncList \/ (\E run \in listed : SyncRow(run)) \/ \E k \in Keys : Ignore(k)
  PROVE  \A k \in Keys :
           \/ rows'[k] = rows[k]
           \/ rows'[k].status \in {"pr_merged", "pr_closed", "ignored"}
<1>1. rows \in [Keys -> Row(Nat)]
  BY DEF TypeOK
<1>2. ASSUME NEW run \in listed, SyncRow(run), ~ UNCHANGED rows
      PROVE  \E status \in {"pr_merged", "pr_closed"} :
               rows' = [rows EXCEPT ![run.key] = upsert_run(@, status, NoPr)]
  BY <1>2 DEF SyncRow
<1>3. ASSUME NEW j, NEW status,
             rows' = [rows EXCEPT ![j] = upsert_run(@, status, NoPr)]
      PROVE  \A k \in Keys : rows'[k] = rows[k] \/ rows'[k].status = status
  BY <1>1, <1>3 DEF upsert_run
<1>4. ASSUME NEW k \in Keys, Ignore(k)
      PROVE  rows' = [rows EXCEPT ![k] = upsert_run(@, "ignored", NoPr)]
  BY <1>4 DEF Ignore, mark_ignored
<1>5. CASE UNCHANGED rows
  BY <1>5
<1>6. CASE ~ UNCHANGED rows
  <2>1. \E j : \E status \in {"pr_merged", "pr_closed", "ignored"} :
          rows' = [rows EXCEPT ![j] = upsert_run(@, status, NoPr)]
    BY <1>2, <1>4, <1>6 DEF SyncList
  <2> QED
    BY <1>3, <2>1
<1> QED
  BY <1>5, <1>6

LEMMA RecordInit == Init => RecordInv
BY DEF Init, Idle, NoRow, RecordInv, OpenRowNamesAPrOfItsIssue, AttemptInv

\* A row that was in pr_open before the step, and kept repository and number.
LEMMA SameRow ==
  ASSUME TypeOK, OpenRowNamesAPrOfItsIssue, PrsStay, NEW k \in Keys,
         rows[k].status = "pr_open", rows'[k] = rows[k], repo_of'[k] = repo_of[k]
  PROVE  /\ repo_of'[k] \in Repos
         /\ rows'[k].pr \in DOMAIN prs'[repo_of'[k]]
         /\ prs'[repo_of'[k]][rows'[k].pr].key = k
BY DEF OpenRowNamesAPrOfItsIssue, PrsStay

\* An attempt that goes on, whatever the others do to the pull requests.
LEMMA SameAttempt ==
  ASSUME TypeOK, AttemptInv, PrsStay, UNCHANGED <<loop, repo_of>>
  PROVE  AttemptInv'
<1>1. loop.pc = "recording" => loop.repo \in Repos
  BY DEF TypeOK, Busy
<1> QED
  BY <1>1 DEF AttemptInv, PrsStay

LEMMA RecordNext == TypeOK /\ RecordInv /\ [Next]_vars => RecordInv'
<1> SUFFICES ASSUME TypeOK, RecordInv, [Next]_vars
             PROVE  RecordInv'
  OBVIOUS
<1> USE DEF RecordInv
<1>0. /\ rows \in [Keys -> Row(Nat)]
      /\ repo_of \in [Keys -> Repos \cup {NoRepo}]
      /\ prs \in [Repos -> Seq(PullRequest)]
      /\ loop \in Loop
      /\ loop.pc \in Busy => loop.key \in Keys /\ loop.repo \in Repos
      /\ PrsStay
  BY PrsStayInAStep DEF TypeOK
<1>1. ASSUME UNCHANGED <<rows, repo_of>>
      PROVE  OpenRowNamesAPrOfItsIssue'
  BY <1>0, <1>1, SameRow DEF OpenRowNamesAPrOfItsIssue
<1>2. CASE UNCHANGED <<rows, repo_of, loop>>
  BY <1>0, <1>1, <1>2, SameAttempt
<1>3. CASE \/ \E ticket \in Keys \cup {NoKey} : \E force \in BOOLEAN : StartRun(ticket, force)
           \/ Search \/ SkipIssue \/ PassRead \/ PassOver \/ TakeIssue \/ EndRun
           \/ Crash \/ StageFails \/ OpenPrReplyLost
  <2>1. UNCHANGED <<rows, repo_of>>
    BY <1>3 DEF StartRun, Search, SkipIssue, PassRead, PassOver, DropIssue, TakeIssue,
                EndRun, Crash, StageFails, OpenPrReplyLost, OpensPr
  <2>2. loop'.pc \notin {"fixing", "recording"}
    <3>1. CASE EndRun \/ Crash
      BY <3>1 DEF EndRun, Crash, Idle
    <3>2. CASE TakeIssue \/ StageFails \/ OpenPrReplyLost
      BY <1>0, <3>2 DEF TakeIssue, StageFails, OpenPrReplyLost, Loop
    <3>3. ASSUME NEW ticket, NEW force, StartRun(ticket, force)
          PROVE  loop'.pc = "searching"
      BY <3>3 DEF StartRun, Idle
    <3>4. CASE Search \/ SkipIssue \/ PassOver
      <4>1. PICK todo : loop' = [loop EXCEPT !.pc = Onward(todo), !.todo = todo]
        BY <3>4 DEF Search, SkipIssue, PassOver, DropIssue
      <4>2. loop'.pc = Onward(todo)
        BY <1>0, <4>1 DEF Loop
      <4> QED
        BY <4>2, OnwardType
    <3>5. CASE PassRead
      <4>1. loop'.pc \in Gate \cup {"routing"}
        BY <1>0, <3>5, NextReadType DEF PassRead, Loop
      <4> QED
        BY <4>1 DEF Gate
    <3> QED
      BY <1>3, <3>1, <3>2, <3>3, <3>4, <3>5
  <2> QED
    BY <1>1, <2>1, <2>2 DEF AttemptInv
<1>4. CASE Clone
  <2>1. loop.key \in Keys /\ loop.repo \in Repos
    BY <1>0, <1>4 DEF Clone, Busy
  <2>2. /\ rows'[loop.key].status = "branch_created"
        /\ repo_of'[loop.key] = loop.repo
        /\ \A k \in Keys \ {loop.key} : rows'[k] = rows[k] /\ repo_of'[k] = repo_of[k]
    BY <1>0, <1>4, <2>1 DEF Clone, upsert_run
  <2>3. OpenRowNamesAPrOfItsIssue'
    BY <1>0, <2>2, SameRow DEF OpenRowNamesAPrOfItsIssue
  <2>4. loop'.pc = "fixing" /\ loop'.key = loop.key /\ loop'.repo = loop.repo
    BY <1>0, <1>4 DEF Clone, Loop
  <2> QED
    BY <2>2, <2>3, <2>4 DEF AttemptInv
<1>5. CASE OpenPr
  <2>1. loop.key \in Keys /\ loop.repo \in Repos /\ repo_of[loop.key] = loop.repo
    BY <1>0, <1>5 DEF OpenPr, OpensPr, Busy, AttemptInv
  <2> DEFINE list == prs[loop.repo]
             pr == [key |-> loop.key, state |-> "open"]
  <2>2. UNCHANGED <<rows, repo_of>> /\ prs'[loop.repo] = Append(list, pr)
    BY <1>0, <1>5, <2>1 DEF OpenPr, OpensPr
  <2>3. /\ loop'.pc = "recording" /\ loop'.key = loop.key /\ loop'.repo = loop.repo
        /\ loop'.pr = Len(list) + 1
    BY <1>0, <1>5 DEF OpenPr, Loop
  <2>4. list \in Seq(PullRequest) /\ pr.key = loop.key
    BY <1>0, <2>1
  <2> HIDE DEF list, pr
  <2>5. Len(list) + 1 \in DOMAIN Append(list, pr) /\ Append(list, pr)[Len(list) + 1] = pr
    BY <2>4
  <2> QED
    BY <1>1, <2>1, <2>2, <2>3, <2>4, <2>5 DEF AttemptInv
<1>6. CASE RecordPr
  <2>1. loop.key \in Keys /\ loop.repo \in Repos /\ loop.pr \in Nat
    BY <1>0, <1>6 DEF RecordPr, Busy, Loop
  <2>2. /\ repo_of[loop.key] = loop.repo
        /\ loop.pr \in DOMAIN prs[loop.repo]
        /\ prs[loop.repo][loop.pr].key = loop.key
    BY <1>6 DEF RecordPr, AttemptInv
  <2>3. prs[loop.repo] \in Seq(PullRequest)
    BY <1>0, <2>1
  <2>4. loop.pr # NoPr
    BY <2>2, <2>3 DEF NoPr
  <2>5. UNCHANGED <<repo_of, prs>> /\ loop'.pc \in {"idempotency", "routing", "done"}
    BY <1>0, <1>6, OnwardType DEF RecordPr, IssueDone, Loop
  <2>6. /\ rows'[loop.key].pr = loop.pr
        /\ \A k \in Keys \ {loop.key} : rows'[k] = rows[k]
    BY <1>0, <1>6, <2>1, <2>4 DEF RecordPr, upsert_run
  <2>7. OpenRowNamesAPrOfItsIssue'
    BY <1>0, <2>1, <2>2, <2>5, <2>6, SameRow DEF OpenRowNamesAPrOfItsIssue
  <2> QED
    BY <2>5, <2>7 DEF AttemptInv
<1>7. CASE RecordFailure
  <2>1. loop.key \in Keys
    BY <1>0, <1>7 DEF RecordFailure, Busy
  <2>2. UNCHANGED <<repo_of, prs>> /\ loop'.pc \in {"idempotency", "routing", "done"}
    BY <1>0, <1>7, OnwardType DEF RecordFailure, IssueDone, Loop
  <2>3. /\ rows'[loop.key].status = "failed"
        /\ \A k \in Keys \ {loop.key} : rows'[k] = rows[k]
    BY <1>0, <1>7, <2>1 DEF RecordFailure, upsert_run
  <2>4. OpenRowNamesAPrOfItsIssue'
    BY <1>0, <2>2, <2>3, SameRow DEF OpenRowNamesAPrOfItsIssue
  <2> QED
    BY <2>2, <2>4 DEF AttemptInv
<1>8. CASE SyncList \/ (\E run \in listed : SyncRow(run)) \/ \E k \in Keys : Ignore(k)
  <2>1. UNCHANGED <<repo_of, prs, loop>>
    BY <1>8 DEF SyncList, SyncRow, Ignore
  <2>2. \A k \in Keys : rows'[k] = rows[k] \/ rows'[k].status # "pr_open"
    BY <1>0, <1>8, OthersSettleRows
  <2>3. OpenRowNamesAPrOfItsIssue'
    BY <1>0, <2>1, <2>2, SameRow DEF OpenRowNamesAPrOfItsIssue
  <2> QED
    BY <1>0, <2>1, <2>3, SameAttempt
<1> QED
  BY <1>2, <1>3, <1>4, <1>5, <1>6, <1>7, <1>8
     DEF Next, LoopStep, vars, StartBatch, StartTicket, IngestTicket, Resolve, MoveIssue,
         EditComponents, DeleteIssue

\* The repository and the number of a row in pr_open are those of one pull
\* request, opened for its issue, though two statements write them
\* (pipeline.py:181 and 241) and the routing may have changed in between.
THEOREM OpenRowsNameTheirPr == Spec => []OpenRowNamesAPrOfItsIssue
<1>1. Init => TypeOK /\ RecordInv
  BY TypeInit, RecordInit
<1>2. TypeOK /\ RecordInv /\ [Next]_vars => (TypeOK /\ RecordInv)'
  BY TypeNext, RecordNext
<1>3. RecordInv => OpenRowNamesAPrOfItsIssue
  BY DEF RecordInv
<1> QED
  BY <1>1, <1>2, <1>3, PTL DEF Spec

-----------------------------------------------------------------------------
(* --force.  The gate of an issue that is not the one named reads its row   *)
(* four times, and what its first and its last read have found true holds   *)
(* till Clone writes: only the loop itself puts a row in pr_open or counts  *)
(* a failure, and the syncer and `remediate ignore` only ever settle rows.  *)

Failed(row) == is_permanently_failed(row, MaxRetries)
Barred(row) == row.status = "pr_open" \/ Failed(row)

\* What the reads so far say of the issue at hand.
TakenInv ==
  /\ loop.pc \in {"delivered", "rejected", "exhausted"} =>
       rows[AtHand.key].status # "pr_open"
  /\ loop.pc = "routing" => Bypassed(AtHand.key) \/ ~ Barred(rows[AtHand.key])
  /\ loop.pc = "cloning" => Bypassed(loop.key) \/ ~ Barred(rows[loop.key])

\* One step of ForceBypassesOneIssueOnly.
OnlyTheNamedTicket ==
  \A k \in Keys :
    /\ rows[k].status = "pr_open" \/ is_permanently_failed(rows[k], MaxRetries)
    /\ rows'[k].status = "branch_created"
    => loop.force /\ k = loop.ticket

\* Nobody beside the loop bars a row.
LEMMA OthersBarNothing ==
  ASSUME TypeOK, NEW k \in Keys,
         \/ UNCHANGED rows
         \/ SyncList \/ (\E run \in listed : SyncRow(run)) \/ \E j \in Keys : Ignore(j)
  PROVE  /\ rows[k].status # "pr_open" => rows'[k].status # "pr_open"
         /\ ~ Barred(rows[k]) => ~ Barred(rows'[k])
<1>1. rows'[k] = rows[k] \/ rows'[k].status \in {"pr_merged", "pr_closed", "ignored"}
  BY OthersSettleRows
<1>2. CASE rows'[k] = rows[k]
  BY <1>2
<1>3. CASE rows'[k].status \in {"pr_merged", "pr_closed", "ignored"}
  BY <1>3 DEF Barred, Failed, is_permanently_failed
<1> QED
  BY <1>1, <1>2, <1>3

LEMMA TakenNext == TypeOK /\ TakenInv /\ [Next]_vars => TakenInv'
<1> SUFFICES ASSUME TypeOK, TakenInv, [Next]_vars
             PROVE  TakenInv'
  OBVIOUS
<1>0. /\ loop \in Loop
      /\ loop.pc \in Gate \cup {"routing"} => AtHand.key \in Keys
      /\ loop.pc \in Busy => loop.key \in Keys
  BY HeadType DEF TypeOK
<1>1. ASSUME UNCHANGED loop,
             \/ UNCHANGED rows
             \/ SyncList \/ (\E run \in listed : SyncRow(run)) \/ \E j \in Keys : Ignore(j)
      PROVE  TakenInv'
  <2>1. AtHand' = AtHand /\ \A k : Bypassed(k)' = Bypassed(k)
    BY <1>1 DEF AtHand, Bypassed
  <2>2. \A k \in Keys : /\ rows[k].status # "pr_open" => rows'[k].status # "pr_open"
                        /\ ~ Barred(rows[k]) => ~ Barred(rows'[k])
    BY <1>1, OthersBarNothing
  <2> QED
    BY <1>0, <1>1, <2>1, <2>2 DEF TakenInv, Gate, Busy
<1>2. ASSUME loop'.pc \notin {"delivered", "rejected", "exhausted", "routing", "cloning"}
      PROVE  TakenInv'
  BY <1>2 DEF TakenInv
<1>3. ASSUME NEW todo, loop'.pc = Onward(todo), loop'.todo = todo,
             loop'.force = loop.force, loop'.ticket = loop.ticket
      PROVE  TakenInv'
  <2>1. loop'.pc \in {"idempotency", "routing", "done"}
    BY <1>3, OnwardType
  <2>2. loop'.pc = "routing" => Bypassed(AtHand.key)'
    BY <1>3, OnwardType DEF AtHand, Bypassed
  <2> QED
    BY <2>1, <2>2 DEF TakenInv
<1>4. CASE Search \/ SkipIssue \/ PassOver \/ RecordPr \/ RecordFailure
  <2>1. \E todo : loop'.pc = Onward(todo) /\ loop'.todo = todo
    BY <1>0, <1>4 DEF Search, SkipIssue, PassOver, DropIssue, RecordPr, RecordFailure,
                      IssueDone, Loop
  <2>2. loop'.force = loop.force /\ loop'.ticket = loop.ticket
    BY <1>0, <1>4 DEF Search, SkipIssue, PassOver, DropIssue, RecordPr, RecordFailure,
                      IssueDone, Loop
  <2> QED
    BY <1>3, <2>1, <2>2
<1>5. CASE PassRead
  <2>1. /\ loop.pc \in Gate /\ ~ TurnsAway(loop.pc, rows[AtHand.key], MaxRetries)
        /\ UNCHANGED rows
        /\ loop' = [loop EXCEPT !.pc = NextRead[loop.pc]]
    BY <1>5 DEF PassRead
  <2>2. loop'.pc = NextRead[loop.pc] /\ AtHand' = AtHand
    BY <1>0, <2>1 DEF Loop, AtHand
  <2>3. CASE loop.pc = "idempotency"
    BY <2>1, <2>2, <2>3 DEF TakenInv, NextRead, TurnsAway, is_already_delivered
  <2>4. CASE loop.pc \in {"delivered", "rejected"}
    BY <2>1, <2>2, <2>4 DEF TakenInv, NextRead
  <2>5. CASE loop.pc = "exhausted"
    BY <2>1, <2>2, <2>5 DEF TakenInv, NextRead, TurnsAway, Barred, Failed
  <2> QED
    BY <2>1, <2>3, <2>4, <2>5 DEF Gate
<1>6. CASE TakeIssue
  <2>1. loop.pc = "routing" /\ UNCHANGED rows
    BY <1>6 DEF TakeIssue
  <2>2. /\ loop'.pc = "cloning" /\ loop'.key = AtHand.key
        /\ loop'.force = loop.force /\ loop'.ticket = loop.ticket
    BY <1>0, <1>6 DEF TakeIssue, Loop
  <2> QED
    BY <2>1, <2>2 DEF TakenInv, Bypassed
<1>7. CASE Clone \/ OpenPr \/ OpenPrReplyLost \/ StageFails
  <2>1. loop'.pc \in {"fixing", "recording", "failing"}
    BY <1>0, <1>7 DEF Clone, OpenPr, OpenPrReplyLost, StageFails, Loop
  <2> QED
    BY <1>2, <2>1
<1>8. CASE EndRun \/ Crash
  BY <1>2, <1>8 DEF EndRun, Crash, Idle
<1>9. ASSUME NEW ticket, NEW force, StartRun(ticket, force)
      PROVE  TakenInv'
  BY <1>2, <1>9 DEF StartRun, Idle
<1> QED
  BY <1>1, <1>4, <1>5, <1>6, <1>7, <1>8, <1>9
     DEF Next, LoopStep, vars, StartBatch, StartTicket, IngestTicket, Resolve, SyncList,
         SyncRow, Ignore, MoveIssue, EditComponents, DeleteIssue

\* Only Clone makes a row branch_created.
LEMMA OnlyCloneTakesUp ==
  ASSUME TypeOK, TakenInv, [Next]_vars
  PROVE  OnlyTheNamedTicket
<1> SUFFICES ASSUME NEW k \in Keys, Barred(rows[k]), rows'[k].status = "branch_created"
             PROVE  loop.force /\ k = loop.ticket
  BY DEF OnlyTheNamedTicket, Barred, Failed
<1>0. rows \in [Keys -> Row(Nat)] /\ (loop.pc \in Busy => loop.key \in Keys)
  BY DEF TypeOK
<1>1. rows'[k] # rows[k]
  BY DEF Barred, Failed, is_permanently_failed
<1>2. CASE Clone
  <2>1. k = loop.key /\ loop.pc = "cloning"
    BY <1>1, <1>2 DEF Clone
  <2> QED
    BY <2>1 DEF TakenInv, Bypassed
<1>3. CASE RecordPr \/ RecordFailure
  <2>1. rows'[k].status \in {"pr_open", "failed"}
    BY <1>0, <1>1, <1>3 DEF RecordPr, RecordFailure, upsert_run
  <2> QED
    BY <2>1
<1>4. CASE SyncList \/ (\E run \in listed : SyncRow(run)) \/ \E j \in Keys : Ignore(j)
  BY <1>1, <1>4, OthersSettleRows
<1>5. CASE UNCHANGED rows
  BY <1>1, <1>5
<1> QED
  BY <1>2, <1>3, <1>4, <1>5
     DEF Next, LoopStep, vars, StartBatch, StartTicket, StartRun, Search, SkipIssue,
         PassRead, PassOver, DropIssue, TakeIssue, EndRun, Crash, OpenPr,
         OpenPrReplyLost, OpensPr, StageFails, IngestTicket, Resolve, MoveIssue,
         EditComponents, DeleteIssue

\* An unforced run, and a forced one for another ticket, never takes up an
\* issue whose pull request awaits a verdict or that has failed as often as the
\* limit says, whatever the search has answered and whatever the syncer and
\* `remediate ignore` write between the four reads of the gate and the clone
\* (pipeline.py:119).
THEOREM ForceIsForOneIssue == Spec => ForceBypassesOneIssueOnly
<1>1. Init => TypeOK /\ TakenInv
  BY TypeInit DEF Init, Idle, TakenInv
<1>2. TypeOK /\ TakenInv /\ [Next]_vars => (TypeOK /\ TakenInv)'
  BY TypeNext, TakenNext
<1>3. TypeOK /\ TakenInv /\ [Next]_vars => [OnlyTheNamedTicket]_vars
  BY OnlyCloneTakesUp
<1> QED
  BY <1>1, <1>2, <1>3, PTL DEF Spec, ForceBypassesOneIssueOnly, OnlyTheNamedTicket
=============================================================================
