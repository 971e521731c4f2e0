----------------------------- MODULE PathProofs -----------------------------
(***************************************************************************)
(* The breadth-first search returns a shortest route and fails only where  *)
(* there is none, on every topology; and so it returns what Ctx assumes of *)
(* it, a member of ShortestRoutes.                                         *)
(***************************************************************************)
EXTENDS PathSearch, OrderProofs

USE GraphAssumption

-----------------------------------------------------------------------------
(* Distances: Within, whose recursive function exists and is unique. *)

\* g counts the hops from f, up to n of them.
Step(g, f, k) == IF k = 0 THEN {f} ELSE g[k - 1] \cup Successors(g[k - 1])

IsBall(g, f, n) == g = [k \in 0 .. n |-> Step(g, f, k)]

LEMMA BallGrows ==
  ASSUME NEW f, NEW n \in Nat, NEW g, IsBall(g, f, n)
  PROVE  \E h : IsBall(h, f, n + 1)
<1> DEFINE h == [k \in 0 .. n + 1 |-> IF k <= n THEN g[k]
                                      ELSE g[n] \cup Successors(g[n])]
<1>1. ASSUME NEW k \in 0 .. n + 1
      PROVE  h[k] = Step(h, f, k)
  <2>1. CASE k = 0
    <3>1. h[k] = g[k] /\ g[k] = Step(g, f, k)
      BY <2>1 DEF IsBall
    <3> QED BY <2>1, <3>1 DEF Step
  <2>2. CASE k # 0 /\ k <= n
    <3>1. h[k] = g[k] /\ h[k - 1] = g[k - 1]
      BY <2>2
    <3>2. g[k] = Step(g, f, k)
      BY <2>2 DEF IsBall
    <3> HIDE DEF h
    <3> QED BY <2>2, <3>1, <3>2 DEF Step
  <2>3. CASE k = n + 1
    <3>1. h[k] = g[n] \cup Successors(g[n]) /\ h[k - 1] = g[n] /\ k # 0
      BY <2>3
    <3> HIDE DEF h
    <3> QED BY <3>1 DEF Step
  <2> QED BY <2>1, <2>2, <2>3
<1>2. h = [k \in 0 .. n + 1 |-> h[k]]
  OBVIOUS
<1>3. h = [k \in 0 .. n + 1 |-> Step(h, f, k)]
  <2> HIDE DEF h
  <2> QED BY <1>1, <1>2
<1> HIDE DEF h
<1> QED BY <1>3 DEF IsBall

LEMMA BallExists ==
  ASSUME NEW f, NEW n \in Nat
  PROVE  \E g : IsBall(g, f, n)
<1> DEFINE Without == {m \in Nat : ~ \E g : IsBall(g, f, m)}
<1> SUFFICES ASSUME Without # {}
             PROVE  FALSE
  OBVIOUS
<1>1. PICK m \in Without : \A y \in Without : m <= y
  <2>1. Without \in SUBSET Nat
    OBVIOUS
  <2> HIDE DEF Without
  <2> QED BY <2>1, LeastExists
<1>2. IsBall([k \in 0 .. 0 |-> {f}], f, 0)
  BY DEF IsBall, Step
<1>3. m # 0
  BY <1>2
<1>4. m - 1 \in Nat /\ m - 1 \notin Without
  BY <1>1, <1>3
<1>5. PICK g : IsBall(g, f, m - 1)
  BY <1>4
<1>6. \E h : IsBall(h, f, (m - 1) + 1)
  BY <1>4, <1>5, BallGrows
<1>7. (m - 1) + 1 = m
  OBVIOUS
<1> QED BY <1>6, <1>7

LEMMA BallsAgree ==
  ASSUME NEW f, NEW n \in Nat, NEW m \in Nat, n <= m,
         NEW g, IsBall(g, f, n), NEW h, IsBall(h, f, m)
  PROVE  \A k \in 0 .. n : g[k] = h[k]
<1> DEFINE Differ == {k \in 0 .. n : g[k] # h[k]}
<1> SUFFICES ASSUME Differ # {}
             PROVE  FALSE
  OBVIOUS
<1>1. PICK k \in Differ : \A y \in Differ : k <= y
  <2>1. Differ \in SUBSET Nat
    OBVIOUS
  <2> HIDE DEF Differ
  <2> QED BY <2>1, LeastExists
<1>2. k \in 0 .. n /\ k \in 0 .. m /\ g[k] # h[k]
  OBVIOUS
<1>3. g[k] = Step(g, f, k) /\ h[k] = Step(h, f, k)
  BY <1>2 DEF IsBall
<1>4. CASE k = 0
  BY <1>2, <1>3, <1>4 DEF Step
<1>5. CASE k # 0
  <2>1. k - 1 \in 0 .. n /\ k - 1 \notin Differ
    BY <1>1, <1>2, <1>5
  <2>2. g[k - 1] = h[k - 1]
    BY <2>1
  <2> QED BY <1>2, <1>3, <1>5, <2>2 DEF Step
<1> QED BY <1>4, <1>5

LEMMA WithinIsBall ==
  ASSUME NEW f, NEW n \in Nat
  PROVE  \E g : IsBall(g, f, n) /\ Within(f, n) = g[n]
<1> DEFINE ball == CHOOSE g : IsBall(g, f, n)
<1>1. IsBall(ball, f, n)
  BY BallExists
<1>2. Within(f, n) = ball[n]
  BY DEF Within, IsBall, Step
<1> HIDE DEF ball
<1> QED BY <1>1, <1>2

LEMMA WithinGrows ==
  ASSUME NEW f, NEW n \in Nat
  PROVE  /\ Within(f, 0) = {f}
         /\ Within(f, n + 1) = Within(f, n) \cup Successors(Within(f, n))
<1>1. PICK z : IsBall(z, f, 0) /\ Within(f, 0) = z[0]
  BY WithinIsBall
<1>2. PICK g : IsBall(g, f, n) /\ Within(f, n) = g[n]
  BY WithinIsBall
<1>3. PICK h : IsBall(h, f, n + 1) /\ Within(f, n + 1) = h[n + 1]
  BY WithinIsBall
<1>4. z[0] = {f}
  BY <1>1 DEF IsBall, Step
<1>5. h[n + 1] = Step(h, f, n + 1)
  <2>1. n + 1 \in 0 .. n + 1
    OBVIOUS
  <2> QED BY <1>3, <2>1 DEF IsBall
<1>6. h[n + 1] = h[n] \cup Successors(h[n])
  BY <1>5 DEF Step
<1>7. g[n] = h[n]
  BY <1>2, <1>3, BallsAgree
<1> QED BY <1>1, <1>2, <1>3, <1>4, <1>6, <1>7

LEMMA WithinIsMonotone ==
  ASSUME NEW f, NEW m \in Nat, NEW n \in Nat, m <= n
  PROVE  Within(f, m) \subseteq Within(f, n)
<1> DEFINE Short == {k \in Nat : m <= k /\ ~(Within(f, m) \subseteq Within(f, k))}
<1> SUFFICES ASSUME Short # {}
             PROVE  FALSE
  OBVIOUS
<1>1. PICK k \in Short : \A y \in Short : k <= y
  <2>1. Short \in SUBSET Nat
    OBVIOUS
  <2> HIDE DEF Short
  <2> QED BY <2>1, LeastExists
<1>2. k # m
  OBVIOUS
<1>3. k - 1 \in Nat /\ k - 1 \notin Short
  BY <1>1, <1>2
<1>4. Within(f, m) \subseteq Within(f, k - 1)
  BY <1>2, <1>3
<1>5. Within(f, (k - 1) + 1) = Within(f, k - 1) \cup Successors(Within(f, k - 1))
  BY <1>3, WithinGrows
<1>6. (k - 1) + 1 = k
  OBVIOUS
<1> QED BY <1>4, <1>5, <1>6

\* What contains f and every successor of its own contains all f can reach.
LEMMA ClosedHoldsAll ==
  ASSUME NEW f, NEW S, f \in S, Successors(S) \subseteq S, NEW n \in Nat
  PROVE  Within(f, n) \subseteq S
<1> DEFINE Outside == {k \in Nat : ~(Within(f, k) \subseteq S)}
<1> SUFFICES ASSUME Outside # {}
             PROVE  FALSE
  OBVIOUS
<1>1. PICK k \in Outside : \A y \in Outside : k <= y
  <2>1. Outside \in SUBSET Nat
    OBVIOUS
  <2> HIDE DEF Outside
  <2> QED BY <2>1, LeastExists
<1>2. Within(f, 0) \subseteq S
  BY WithinGrows
<1>3. k - 1 \in Nat /\ k - 1 \notin Outside
  BY <1>1, <1>2
<1>4. Within(f, k - 1) \subseteq S
  BY <1>3
<1>5. Within(f, (k - 1) + 1) = Within(f, k - 1) \cup Successors(Within(f, k - 1))
  BY <1>3, WithinGrows
<1>6. (k - 1) + 1 = k
  OBVIOUS
<1>7. Successors(Within(f, k - 1)) \subseteq Successors(S)
  BY <1>4 DEF Successors
<1> QED BY <1>4, <1>5, <1>6, <1>7

-----------------------------------------------------------------------------
(* NewEdges. *)

LEMMA EdgesTyped ==
  /\ DOMAIN Edges = 1 .. Len(Edges)
  /\ Len(Edges) \in Nat
  /\ \A j \in DOMAIN Edges : Edges[j] \in EdgeSet
  OBVIOUS

\* The list of the head's new edges: each leaves it for a screen not visited,
\* and each such screen is the target of one.
Leads(screen, found) ==
    /\ found \in Seq(EdgeSet)
    /\ \A k \in DOMAIN found : \E j \in DOMAIN Edges :
          /\ found[k] = Edges[j]
          /\ Edges[j].from = screen /\ Edges[j].to \notin visited
    /\ \A j \in DOMAIN Edges :
          Edges[j].from = screen /\ Edges[j].to \notin visited
            => \E k \in DOMAIN found : found[k].to = Edges[j].to

LEMMA NewEdgesLead ==
  ASSUME NEW screen
  PROVE  Leads(screen, NewEdges(screen))
<1> DEFINE fresh(i) == /\ Edges[i].from = screen
                       /\ Edges[i].to \notin visited
                       /\ \A j \in 1 .. i - 1 :
                           Edges[j].from = screen => Edges[j].to # Edges[i].to
           S == {i \in DOMAIN Edges : fresh(i)}
           pick == InOrder(S)
           found == [k \in 1 .. Cardinality(S) |-> Edges[pick[k]]]
<1>1. NewEdges(screen) = found
  BY DEF NewEdges
<1>2. S \in SUBSET (1 .. Len(Edges)) /\ Len(Edges) \in Nat
  BY EdgesTyped
<1>3. /\ Cardinality(S) \in Nat
      /\ \A k \in 1 .. Cardinality(S) : pick[k] \in S
      /\ \A i \in S : \E k \in 1 .. Cardinality(S) : pick[k] = i
  <2> HIDE DEF S
  <2> QED BY <1>2, InOrderLists
<1>4. \A i \in S : /\ i \in DOMAIN Edges /\ Edges[i] \in EdgeSet
                  /\ Edges[i].from = screen /\ Edges[i].to \notin visited
  BY EdgesTyped
<1> HIDE DEF pick
<1>5. found \in Seq(EdgeSet)
  <2> HIDE DEF S
  <2>1. \A k \in 1 .. Cardinality(S) : Edges[pick[k]] \in EdgeSet
    BY <1>3, <1>4
  <2> QED BY <1>3, <2>1
<1>6. ASSUME NEW k \in DOMAIN found
      PROVE  \E j \in DOMAIN Edges :
                /\ found[k] = Edges[j]
                /\ Edges[j].from = screen /\ Edges[j].to \notin visited
  <2> HIDE DEF S
  <2>1. pick[k] \in S /\ found[k] = Edges[pick[k]]
    BY <1>3
  <2> QED BY <1>4, <2>1
<1>7. ASSUME NEW j \in DOMAIN Edges, Edges[j].from = screen, Edges[j].to \notin visited
      PROVE  \E k \in DOMAIN found : found[k].to = Edges[j].to
  <2> DEFINE Same == {i \in DOMAIN Edges : /\ Edges[i].from = screen
                                           /\ Edges[i].to = Edges[j].to}
  <2>1. PICK i \in Same : \A y \in Same : i <= y
    <3>1. Same \in SUBSET Nat /\ j \in Same
      BY <1>7, EdgesTyped
    <3> HIDE DEF Same
    <3> QED BY <3>1, LeastExists
  <2>2. i \in DOMAIN Edges /\ Edges[i].to = Edges[j].to /\ Edges[i].from = screen
    OBVIOUS
  <2>3. \A y \in 1 .. i - 1 : y \in DOMAIN Edges /\ y \notin Same
    BY <2>1, <2>2, EdgesTyped
  <2>4. i \in S
    BY <1>7, <2>2, <2>3
  <2>5. PICK k \in 1 .. Cardinality(S) : pick[k] = i
    <3> HIDE DEF S, Same
    <3> QED BY <1>3, <2>4
  <2>6. k \in DOMAIN found /\ found[k] = Edges[i]
    <3> HIDE DEF S
    <3> QED BY <2>5
  <2> HIDE DEF found
  <2> QED BY <2>2, <2>6
<1> HIDE DEF found
<1> QED BY <1>1, <1>5, <1>6, <1>7 DEF Leads

-----------------------------------------------------------------------------
(* The search: the queue holds the rim of what is visited, nearest first.  *)

\* p is a walk over the graph from f to s that gets a hop further with every
\* edge, so that none could be shorter.
Straight(f, p, s) ==
    /\ p \in Seq(EdgeSet)
    /\ s \in Within(f, Len(p))
    /\ p = <<>> => s = f
    /\ p # <<>> => IsRoute(p, f, s)
    /\ \A i \in 1 .. Len(p) : \E j \in DOMAIN Edges : p[i] = Edges[j]
    /\ \A i \in 1 .. Len(p) : /\ p[i].to \in Within(f, i)
                              /\ p[i].to \notin Within(f, i - 1)

Nodes == [screen : Screens, path : Seq(EdgeSet)]

Depth(i) == Len(queue[i].path)

\* Queued nodes are of one depth, or of that and the next, in this order.
NearestFirst ==
    /\ \A i, j \in DOMAIN queue : i <= j => Depth(i) <= Depth(j)
    /\ \A i \in DOMAIN queue : Depth(i) <= Depth(1) + 1

\* What is not queued any more has nothing undiscovered behind it, and nothing
\* nearer than the head's screen is undiscovered.
RimIsQueued ==
    /\ \A s \in visited : \/ \E i \in DOMAIN queue : queue[i].screen = s
                          \/ Successors({s}) \subseteq visited
    /\ queue # <<>> => Within(from, Depth(1)) \subseteq visited

Searching ==
    /\ from # to
    /\ from \in visited
    /\ to \notin visited
    /\ \A i \in DOMAIN queue : Straight(from, queue[i].path, queue[i].screen)
    /\ NearestFirst
    /\ RimIsQueued

SearchTyped ==
    /\ from \in Screens /\ to \in Screens
    /\ queue \in Seq(Nodes)
    /\ visited \subseteq Screens
    /\ outcome \in {"searching", "found", "ErrNoPath"}

SearchInv ==
    /\ SearchTyped
    /\ outcome = "searching" => Searching
    /\ outcome = "found" /\ from # to => path # <<>> /\ Straight(from, path, to)
    /\ outcome = "ErrNoPath" => \A n \in Nat : to \notin Within(from, n)

LEMMA EmptyWalk ==
  ASSUME NEW f
  PROVE  Straight(f, <<>>, f)
  BY WithinGrows DEF Straight

LEMMA WalkOn ==
  ASSUME NEW f, NEW p, NEW s, Straight(f, p, s),
         NEW j \in DOMAIN Edges, Edges[j].from = s,
         Edges[j].to \notin Within(f, Len(p))
  PROVE  /\ Straight(f, Append(p, Edges[j]), Edges[j].to)
         /\ Append(p, Edges[j]) # <<>>
<1> DEFINE e == Edges[j]
           d == Len(p)
           q == Append(p, e)
<1>1. e \in EdgeSet /\ e.from = s /\ e.to \notin Within(f, d)
  BY EdgesTyped
<1>2. p \in Seq(EdgeSet) /\ d \in Nat
  BY DEF Straight
<1> HIDE DEF e
<1>3. /\ q \in Seq(EdgeSet) /\ Len(q) = d + 1 /\ q # <<>>
      /\ q[d + 1] = e /\ \A i \in 1 .. d : q[i] = p[i]
  BY <1>1, <1>2
<1>4. e.to \in Within(f, d + 1)
  <2>1. s \in Within(f, d)
    BY DEF Straight
  <2>2. e.to \in Successors(Within(f, d))
    BY <1>1, <2>1 DEF Successors, e
  <2> QED BY <1>2, <2>2, WithinGrows
<1>5. IsRoute(q, f, e.to)
  <2>1. CASE p = <<>>
    <3>1. d = 0 /\ s = f
      BY <2>1 DEF Straight
    <3> HIDE DEF q, d
    <3> QED BY <1>1, <1>3, <3>1 DEF IsRoute
  <2>2. CASE p # <<>>
    <3>1. IsRoute(p, f, s)
      BY <2>2 DEF Straight
    <3>2. d >= 1
      BY <1>2, <2>2
    <3>3. p[1].from = f /\ p[d].to = s
          /\ \A i \in 1 .. d - 1 : p[i].to = p[i + 1].from
      BY <3>1 DEF IsRoute
    <3> HIDE DEF d, q
    <3>4. q[1].from = f
      BY <1>3, <3>2, <3>3, <1>2
    <3>5. \A i \in 1 .. d : q[i].to = q[i + 1].from
      <4> TAKE i \in 1 .. d
      <4>1. CASE i = d
        BY <1>1, <1>2, <1>3, <3>2, <3>3, <4>1
      <4>2. CASE i # d
        <5>1. i \in 1 .. d - 1 /\ i + 1 \in 1 .. d
          BY <1>2, <4>2
        <5>2. q[i] = p[i] /\ q[i + 1] = p[i + 1]
          BY <1>3, <5>1
        <5> QED BY <3>3, <5>1, <5>2
      <4> QED BY <4>1, <4>2
    <3>6. (d + 1) - 1 = d
      BY <1>2
    <3> QED BY <1>3, <3>4, <3>5, <3>6 DEF IsRoute
  <2> QED BY <2>1, <2>2
<1>6. \A i \in 1 .. d + 1 : \E k \in DOMAIN Edges : q[i] = Edges[k]
  <2> TAKE i \in 1 .. d + 1
  <2>1. CASE i = d + 1
    BY <1>3, <2>1 DEF e
  <2>2. CASE i # d + 1
    <3>1. i \in 1 .. d
      BY <1>2, <2>2
    <3>2. q[i] = p[i]
      BY <1>3, <3>1
    <3> HIDE DEF q
    <3> QED BY <3>1, <3>2 DEF Straight
  <2> QED BY <2>1, <2>2
<1>7. ASSUME NEW i \in 1 .. d + 1
      PROVE  q[i].to \in Within(f, i) /\ q[i].to \notin Within(f, i - 1)
  <2>1. CASE i = d + 1
    <3>1. i - 1 = d
      BY <1>2, <2>1
    <3> HIDE DEF q, d
    <3> QED BY <1>1, <1>3, <1>4, <2>1, <3>1
  <2>2. CASE i # d + 1
    <3>1. i \in 1 .. d
      BY <1>2, <2>2
    <3>2. q[i] = p[i]
      BY <1>3, <3>1
    <3> HIDE DEF q
    <3> QED BY <3>1, <3>2 DEF Straight
  <2> QED BY <2>1, <2>2
<1> HIDE DEF q, d
<1>8. Straight(f, q, e.to)
  BY <1>3, <1>4, <1>5, <1>6, <1>7 DEF Straight
<1> QED BY <1>3, <1>8 DEF q, e

\* The end of a walk that makes a hop of distance with every edge is not nearer.
LEMMA EndIsFar ==
  ASSUME NEW f, NEW p, NEW s, Straight(f, p, s), p # <<>>
  PROVE  /\ Len(p) \in Nat \ {0}
         /\ s \notin Within(f, Len(p) - 1)
<1>1. p \in Seq(EdgeSet) /\ IsRoute(p, f, s)
  BY DEF Straight
<1>2. Len(p) \in 1 .. Len(p) /\ Len(p) \in Nat \ {0}
  BY <1>1
<1>3. p[Len(p)].to = s
  BY <1>1 DEF IsRoute
<1> QED BY <1>2, <1>3 DEF Straight

LEMMA EmptyQueueIsClosed ==
  ASSUME SearchTyped, Searching, queue = <<>>, NEW n \in Nat
  PROVE  to \notin Within(from, n)
<1>1. \A s \in visited : Successors({s}) \subseteq visited
  BY DEF Searching, RimIsQueued
<1>2. Successors(visited) \subseteq visited
  <2> SUFFICES ASSUME NEW j \in DOMAIN Edges, Edges[j].from \in visited
               PROVE  Edges[j].to \in visited
    BY DEF Successors
  <2>1. Edges[j].to \in Successors({Edges[j].from})
    BY DEF Successors
  <2> QED BY <1>1, <2>1
<1>3. from \in visited /\ to \notin visited
  BY DEF Searching
<1> QED BY <1>2, <1>3, ClosedHoldsAll

LEMMA SearchStarts == Init => SearchInv
<1> SUFFICES ASSUME Init PROVE SearchInv
  OBVIOUS
<1>1. CASE from = to
  BY <1>1 DEF Init, SearchInv, SearchTyped
<1>2. CASE from # to
  <2> DEFINE node == [screen |-> from, path |-> <<>>]
  <2>1. queue = <<node>> /\ outcome = "searching" /\ visited = {from}
        /\ from \in Screens /\ to \in Screens
    BY <1>2 DEF Init
  <2>2. node \in Nodes
    BY <2>1 DEF Nodes
  <2>3. DOMAIN queue = {1} /\ queue[1] = node /\ queue \in Seq(Nodes)
    BY <2>1, <2>2
  <2>4. node.path = <<>> /\ node.screen = from /\ Len(<<>>) = 0
    OBVIOUS
  <2> HIDE DEF node
  <2>5. Depth(1) = 0
    BY <2>3, <2>4 DEF Depth
  <2>6. NearestFirst
    BY <2>3, <2>5 DEF NearestFirst
  <2>7. Within(from, 0) = {from}
    BY WithinGrows
  <2>8. RimIsQueued
    BY <2>1, <2>3, <2>4, <2>5, <2>7 DEF RimIsQueued
  <2>9. \A i \in DOMAIN queue : Straight(from, queue[i].path, queue[i].screen)
    BY <2>3, <2>4, EmptyWalk
  <2>10. Searching
    BY <1>2, <2>1, <2>6, <2>8, <2>9 DEF Searching
  <2> QED BY <2>1, <2>3, <2>10 DEF SearchInv, SearchTyped
<1> QED BY <1>1, <1>2

-----------------------------------------------------------------------------
(* One expansion of the head of the queue. *)

\* What Expand appends to the queue.
Grown(node, found) == [k \in DOMAIN found |-> [screen |-> found[k].to,
                                               path   |-> Append(node.path, found[k])]]

LEMMA Appending ==
  ASSUME NEW S, NEW p \in Seq(S), NEW e \in S
  PROVE  /\ Append(p, e) \in Seq(S) /\ Append(p, e) # <<>>
         /\ Len(Append(p, e)) = Len(p) + 1
  OBVIOUS

LEMMA Concatenating ==
  ASSUME NEW S, NEW p \in Seq(S), NEW q \in Seq(S)
  PROVE  /\ p \o q \in Seq(S)
         /\ Len(p \o q) = Len(p) + Len(q)
         /\ DOMAIN (p \o q) = 1 .. Len(p \o q)
         /\ Len(p) \in Nat /\ Len(q) \in Nat
         /\ \A i \in 1 .. Len(p) : (p \o q)[i] = p[i]
         /\ \A i \in 1 .. Len(q) : (p \o q)[Len(p) + i] = q[i]
  OBVIOUS

\* The head: how far it is, and where its new edges lead.
LEMMA HeadLeads ==
  ASSUME SearchTyped, Searching, queue # <<>>,
         NEW found, Leads(Head(queue).screen, found), NEW k \in DOMAIN found
  PROVE  /\ Head(queue) \in Nodes /\ Head(queue) = queue[1]
         /\ Depth(1) = Len(Head(queue).path) /\ Depth(1) \in Nat
         /\ found[k] \in EdgeSet
         /\ Append(Head(queue).path, found[k]) \in Seq(EdgeSet)
         /\ Append(Head(queue).path, found[k]) # <<>>
         /\ Len(Append(Head(queue).path, found[k])) = Depth(1) + 1
         /\ Straight(from, Append(Head(queue).path, found[k]), found[k].to)
<1> DEFINE node == Head(queue)
<1>1. queue \in Seq(Nodes) /\ 1 \in DOMAIN queue /\ node = queue[1]
  BY DEF SearchTyped
<1> HIDE DEF node
<1>2. node \in Nodes /\ node.path \in Seq(EdgeSet)
  <2>1. node \in Nodes
    BY <1>1
  <2> QED BY <2>1 DEF Nodes
<1>3. Depth(1) = Len(node.path) /\ Depth(1) \in Nat
  BY <1>1, <1>2 DEF Depth
<1>4. found[k] \in EdgeSet
  BY DEF Leads
<1>5. Straight(from, node.path, node.screen)
  BY <1>1 DEF Searching
<1>6. PICK j \in DOMAIN Edges : /\ found[k] = Edges[j]
                                /\ Edges[j].from = node.screen
                                /\ Edges[j].to \notin visited
  BY DEF Leads, node
<1>7. Edges[j].to \notin Within(from, Len(node.path))
  BY <1>3, <1>6 DEF Searching, RimIsQueued
<1>8. Straight(from, Append(node.path, found[k]), found[k].to)
  BY <1>5, <1>6, <1>7, WalkOn
<1>9. /\ Append(node.path, found[k]) \in Seq(EdgeSet)
      /\ Append(node.path, found[k]) # <<>>
      /\ Len(Append(node.path, found[k])) = Depth(1) + 1
  BY <1>2, <1>3, <1>4, Appending
<1> QED BY <1>1, <1>2, <1>3, <1>4, <1>8, <1>9 DEF node

LEMMA TargetFound ==
  ASSUME SearchInv, Searching, queue # <<>>,
         NEW found, Leads(Head(queue).screen, found), NEW k \in DOMAIN found,
         found[k].to = to, outcome' = "found",
         path' = Append(Head(queue).path, found[k]),
         UNCHANGED <<from, to, queue, visited>>
  PROVE  SearchInv'
<1>1. path' # <<>> /\ Straight(from, path', to)
  BY HeadLeads DEF SearchInv
<1>2. (path' # <<>> /\ Straight(from, path, to)')
  BY <1>1 DEF Straight, IsRoute
<1> QED BY <1>2 DEF SearchInv, SearchTyped

\* The queue without its head and with the nodes behind it at its end.
LEMMA QueueMoves ==
  ASSUME SearchTyped, Searching, queue # <<>>,
         NEW found, Leads(Head(queue).screen, found),
         queue' = Tail(queue) \o Grown(Head(queue), found)
  PROVE  /\ queue' \in Seq(Nodes)
         /\ \A i \in DOMAIN queue' :
               \/ i + 1 \in DOMAIN queue /\ queue'[i] = queue[i + 1]
               \/ /\ i + 1 \notin DOMAIN queue
                  /\ \E k \in DOMAIN found :
                        /\ queue'[i].screen = found[k].to
                        /\ queue'[i].path = Append(Head(queue).path, found[k])
         /\ \A i \in DOMAIN queue : i # 1 => i - 1 \in DOMAIN queue' /\ queue'[i - 1] = queue[i]
         /\ \A k \in DOMAIN found : \E i \in DOMAIN queue' : queue'[i].screen = found[k].to
<1> DEFINE node == Head(queue)
           fresh == Grown(node, found)
           rest == Tail(queue)
<1>1. queue \in Seq(Nodes) /\ Len(queue) \in Nat \ {0} /\ DOMAIN queue = 1 .. Len(queue)
  BY DEF SearchTyped
<1>2. rest \in Seq(Nodes) /\ Len(rest) = Len(queue) - 1
      /\ \A i \in 1 .. Len(rest) : rest[i] = queue[i + 1]
  BY <1>1
<1>3. found \in Seq(EdgeSet) /\ DOMAIN found = 1 .. Len(found) /\ Len(found) \in Nat
  BY DEF Leads
<1>4. \A k \in DOMAIN found : /\ fresh[k] \in Nodes
                              /\ fresh[k].screen = found[k].to
                              /\ fresh[k].path = Append(node.path, found[k])
  <2> TAKE k \in DOMAIN found
  <2>1. found[k] \in EdgeSet /\ Append(node.path, found[k]) \in Seq(EdgeSet)
    BY HeadLeads
  <2>2. found[k].to \in Screens
    BY <2>1 DEF EdgeSet
  <2>3. fresh[k] = [screen |-> found[k].to, path |-> Append(node.path, found[k])]
    BY DEF Grown
  <2> HIDE DEF fresh, node
  <2> QED BY <2>1, <2>2, <2>3 DEF Nodes
<1>5. fresh \in Seq(Nodes) /\ Len(fresh) = Len(found)
  <2>1. fresh = [k \in 1 .. Len(found) |-> fresh[k]]
    BY <1>3 DEF Grown
  <2> HIDE DEF fresh
  <2>2. \A k \in 1 .. Len(found) : fresh[k] \in Nodes
    BY <1>3, <1>4
  <2> QED BY <1>3, <2>1, <2>2
<1> HIDE DEF fresh, rest, node
<1>6. /\ queue' = rest \o fresh
      /\ queue' \in Seq(Nodes)
      /\ Len(queue') = Len(queue) - 1 + Len(found)
      /\ DOMAIN queue' = 1 .. Len(queue')
  <2>1. queue' = rest \o fresh
    BY DEF fresh, rest, node
  <2>2. /\ rest \o fresh \in Seq(Nodes)
        /\ Len(rest \o fresh) = Len(rest) + Len(fresh)
        /\ DOMAIN (rest \o fresh) = 1 .. Len(rest \o fresh)
    BY <1>2, <1>5, Concatenating, Zenon
  <2> QED BY <1>2, <1>5, <2>1, <2>2
<1>7. \A i \in 1 .. Len(rest) : queue'[i] = queue[i + 1]
  <2>1. \A i \in 1 .. Len(rest) : (rest \o fresh)[i] = rest[i]
    BY <1>2, <1>5, Concatenating, Zenon
  <2> QED BY <1>2, <1>6, <2>1
<1>8. \A k \in 1 .. Len(found) : queue'[Len(rest) + k] = fresh[k]
  <2>1. \A k \in 1 .. Len(fresh) : (rest \o fresh)[Len(rest) + k] = fresh[k]
    BY <1>2, <1>5, Concatenating
  <2> QED BY <1>5, <1>6, <2>1
<1>9. ASSUME NEW i \in DOMAIN queue'
      PROVE  \/ i + 1 \in DOMAIN queue /\ queue'[i] = queue[i + 1]
             \/ /\ i + 1 \notin DOMAIN queue
                /\ \E k \in DOMAIN found :
                      /\ queue'[i].screen = found[k].to
                      /\ queue'[i].path = Append(node.path, found[k])
  <2>1. CASE i <= Len(rest)
    <3>1. i \in 1 .. Len(rest) /\ i + 1 \in 1 .. Len(queue)
      BY <1>1, <1>2, <1>6, <2>1
    <3> QED BY <1>1, <1>7, <3>1
  <2>2. CASE i > Len(rest)
    <3> DEFINE k == i - Len(rest)
    <3>1. k \in 1 .. Len(found) /\ i = Len(rest) + k /\ i + 1 \notin DOMAIN queue
      <4>1. i \in 1 .. Len(queue) - 1 + Len(found) /\ i > Len(queue) - 1
        BY <1>2, <1>6, <2>2
      <4> QED BY <1>1, <1>2, <1>3, <4>1
    <3> HIDE DEF k
    <3>2. queue'[i] = fresh[k]
      BY <1>8, <3>1
    <3> QED BY <1>3, <1>4, <3>1, <3>2
  <2>3. i <= Len(rest) \/ i > Len(rest)
    BY <1>1, <1>2, <1>6
  <2> QED BY <2>1, <2>2, <2>3
<1>10. ASSUME NEW i \in DOMAIN queue, i # 1
       PROVE  i - 1 \in DOMAIN queue' /\ queue'[i - 1] = queue[i]
  <2>1. i - 1 \in 1 .. Len(rest) /\ (i - 1) + 1 = i
    BY <1>1, <1>2, <1>10
  <2>2. i - 1 \in DOMAIN queue'
    BY <1>1, <1>2, <1>3, <1>6, <2>1
  <2> QED BY <1>7, <2>1, <2>2
<1>11. ASSUME NEW k \in DOMAIN found
       PROVE  \E i \in DOMAIN queue' : queue'[i].screen = found[k].to
  <2>1. k \in 1 .. Len(found) /\ Len(rest) + k \in 1 .. Len(queue) - 1 + Len(found)
    BY <1>1, <1>2, <1>3
  <2>2. Len(rest) + k \in DOMAIN queue' /\ queue'[Len(rest) + k] = fresh[k]
    BY <1>6, <1>8, <2>1
  <2> QED BY <1>4, <2>2
<1> QED BY <1>6, <1>9, <1>10, <1>11 DEF node

\* The depths after the head has been expanded.
LEMMA DepthsMove ==
  ASSUME SearchTyped, Searching, queue # <<>>,
         NEW found, Leads(Head(queue).screen, found),
         queue' = Tail(queue) \o Grown(Head(queue), found)
  PROVE  /\ Depth(1) \in Nat
         /\ \A i \in DOMAIN queue' : Depth(i)' \in {Depth(1), Depth(1) + 1}
         /\ NearestFirst'
<1>1. queue \in Seq(Nodes) /\ Len(queue) \in Nat \ {0} /\ DOMAIN queue = 1 .. Len(queue)
  BY DEF SearchTyped
<1>2. \A i \in DOMAIN queue : Depth(i) \in Nat
  <2> TAKE i \in DOMAIN queue
  <2>1. queue[i] \in Nodes
    BY <1>1
  <2>2. queue[i].path \in Seq(EdgeSet)
    BY <2>1 DEF Nodes
  <2> QED BY <2>2 DEF Depth
<1>3. 1 \in DOMAIN queue /\ Depth(1) \in Nat
  BY <1>1, <1>2
<1>4. \A i \in DOMAIN queue : Depth(i) \in {Depth(1), Depth(1) + 1}
  <2> TAKE i \in DOMAIN queue
  <2>1. Depth(1) <= Depth(i) /\ Depth(i) <= Depth(1) + 1
    BY <1>1, <1>3 DEF Searching, NearestFirst
  <2> QED BY <1>2, <1>3, <2>1
<1>5. queue' \in Seq(Nodes) /\ DOMAIN queue' = 1 .. Len(queue') /\ Len(queue') \in Nat
  <2>1. queue' \in Seq(Nodes)
    BY QueueMoves
  <2> QED BY <2>1
<1>6. ASSUME NEW i \in DOMAIN queue'
      PROVE  \/ i + 1 \in DOMAIN queue /\ Depth(i)' = Depth(i + 1)
             \/ i + 1 \notin DOMAIN queue /\ Depth(i)' = Depth(1) + 1
  <2>1. CASE i + 1 \in DOMAIN queue /\ queue'[i] = queue[i + 1]
    BY <2>1 DEF Depth
  <2>2. CASE /\ i + 1 \notin DOMAIN queue
             /\ \E k \in DOMAIN found :
                   /\ queue'[i].screen = found[k].to
                   /\ queue'[i].path = Append(Head(queue).path, found[k])
    BY <2>2, HeadLeads DEF Depth
  <2> QED BY <2>1, <2>2, QueueMoves
<1>7. \A i \in DOMAIN queue' : Depth(i)' \in {Depth(1), Depth(1) + 1}
  BY <1>4, <1>6
<1>8. ASSUME NEW i \in DOMAIN queue', NEW j \in DOMAIN queue', i <= j
      PROVE  Depth(i)' <= Depth(j)'
  <2>1. CASE i + 1 \in DOMAIN queue /\ j + 1 \in DOMAIN queue
    <3>1. i + 1 <= j + 1
      BY <1>5, <1>8
    <3>2. Depth(i + 1) <= Depth(j + 1)
      BY <2>1, <3>1 DEF Searching, NearestFirst
    <3> QED BY <1>6, <2>1, <3>2
  <2>2. CASE j + 1 \notin DOMAIN queue
    <3>1. Depth(j)' = Depth(1) + 1
      BY <1>6, <2>2
    <3> QED BY <1>3, <1>7, <3>1
  <2>3. j + 1 \in DOMAIN queue => i + 1 \in DOMAIN queue
    BY <1>1, <1>5, <1>8
  <2> QED BY <2>1, <2>2, <2>3
<1>9. ASSUME NEW i \in DOMAIN queue'
      PROVE  Depth(i)' <= Depth(1)' + 1
  <2>1. 1 \in DOMAIN queue'
    BY <1>5, <1>9
  <2>2. Depth(1)' \in {Depth(1), Depth(1) + 1} /\ Depth(i)' \in {Depth(1), Depth(1) + 1}
    BY <1>7, <2>1
  <2> QED BY <1>3, <2>2
<1>10. NearestFirst'
  BY <1>8, <1>9 DEF NearestFirst
<1> QED BY <1>3, <1>7, <1>10

LEMMA RimMoves ==
  ASSUME SearchTyped, Searching, queue # <<>>,
         NEW found, Leads(Head(queue).screen, found),
         queue' = Tail(queue) \o Grown(Head(queue), found),
         visited' = visited \cup {found[k].to : k \in DOMAIN found}
  PROVE  \A s \in visited' : \/ \E i \in DOMAIN queue' : queue'[i].screen = s
                             \/ Successors({s}) \subseteq visited'
<1> TAKE s \in visited'
<1>1. 1 \in DOMAIN queue /\ Head(queue) = queue[1]
  BY DEF SearchTyped
<1>2. CASE s \notin visited
  <2>1. PICK k \in DOMAIN found : s = found[k].to
    BY <1>2
  <2>2. \E i \in DOMAIN queue' : queue'[i].screen = found[k].to
    BY QueueMoves
  <2> QED BY <2>1, <2>2
<1>3. CASE s = Head(queue).screen
  <2> SUFFICES ASSUME NEW j \in DOMAIN Edges, Edges[j].from = s, Edges[j].to \notin visited
               PROVE  Edges[j].to \in visited'
    BY DEF Successors
  <2>1. PICK k \in DOMAIN found : found[k].to = Edges[j].to
    BY <1>3 DEF Leads
  <2> QED BY <2>1
<1>4. CASE \E i \in DOMAIN queue : i # 1 /\ queue[i].screen = s
  BY <1>4, QueueMoves
<1>5. CASE Successors({s}) \subseteq visited
  BY <1>5
<1> QED BY <1>1, <1>2, <1>3, <1>4, <1>5 DEF Searching, RimIsQueued

LEMMA NothingFound ==
  ASSUME SearchInv, Searching, queue # <<>>, outcome = "searching",
         NEW found, Leads(Head(queue).screen, found),
         \A k \in DOMAIN found : found[k].to # to,
         queue' = Tail(queue) \o Grown(Head(queue), found),
         visited' = visited \cup {found[k].to : k \in DOMAIN found},
         UNCHANGED <<from, to, outcome, path>>
  PROVE  SearchInv'
<1>1. SearchTyped
  BY DEF SearchInv
<1>2. SearchTyped'
  <2>1. \A k \in DOMAIN found : found[k].to \in Screens
    <3> TAKE k \in DOMAIN found
    <3>1. found[k] \in EdgeSet
      BY DEF Leads
    <3> QED BY <3>1 DEF EdgeSet
  <2>2. queue' \in Seq(Nodes)
    BY <1>1, QueueMoves
  <2> QED BY <1>1, <2>1, <2>2 DEF SearchTyped
<1>3. ASSUME NEW i \in DOMAIN queue'
      PROVE  Straight(from, queue'[i].path, queue'[i].screen)
  <2>1. CASE i + 1 \in DOMAIN queue /\ queue'[i] = queue[i + 1]
    BY <2>1 DEF Searching
  <2>2. CASE \E k \in DOMAIN found :
                /\ queue'[i].screen = found[k].to
                /\ queue'[i].path = Append(Head(queue).path, found[k])
    BY <1>1, <2>2, HeadLeads
  <2> QED BY <1>1, <2>1, <2>2, QueueMoves
<1>4. /\ Depth(1) \in Nat
      /\ \A i \in DOMAIN queue' : Depth(i)' \in {Depth(1), Depth(1) + 1}
      /\ NearestFirst'
  BY <1>1, DepthsMove
<1>5. \A s \in visited' : \/ \E i \in DOMAIN queue' : queue'[i].screen = s
                          \/ Successors({s}) \subseteq visited'
  BY <1>1, RimMoves
<1>6. ASSUME queue' # <<>>
      PROVE  Within(from, Depth(1)') \subseteq visited'
  <2>1. 1 \in DOMAIN queue' /\ queue' \in Seq(Nodes) /\ DOMAIN queue' = 1 .. Len(queue')
    BY <1>2, <1>6 DEF SearchTyped
  <2>2. Within(from, Depth(1)) \subseteq visited
    BY DEF Searching, RimIsQueued
  <2>3. CASE Depth(1)' = Depth(1)
    BY <2>2, <2>3
  <2>4. CASE Depth(1)' = Depth(1) + 1
    <3>1. ASSUME NEW i \in DOMAIN queue'
          PROVE  queue'[i].screen \notin Within(from, Depth(1))
      <4>1. i >= 1 /\ i \in Nat
        BY <2>1
      <4>2. Depth(1)' <= Depth(i)'
        BY <1>4, <2>1, <4>1 DEF NearestFirst
      <4>3. Depth(i)' = Depth(1) + 1
        BY <1>4, <2>4, <4>2
      <4>4. Len(queue'[i].path) = Depth(1) + 1
        BY <4>3 DEF Depth
      <4>5. queue'[i].path # <<>>
        BY <1>4, <4>4
      <4>6. queue'[i].screen \notin Within(from, Len(queue'[i].path) - 1)
        BY <1>3, <4>5, EndIsFar
      <4>7. Len(queue'[i].path) - 1 = Depth(1)
        <5>1. Depth(1) \in Int
          BY <1>4
        <5>2. \A d \in Int : (d + 1) - 1 = d
          OBVIOUS
        <5> QED BY <4>4, <5>1, <5>2, Zenon
      <4> QED BY <4>6, <4>7
    <3>2. ASSUME NEW s \in Within(from, Depth(1))
          PROVE  Successors({s}) \subseteq visited'
      BY <1>5, <2>2, <3>1
    <3>3. Successors(Within(from, Depth(1))) \subseteq visited'
      <4> SUFFICES ASSUME NEW j \in DOMAIN Edges,
                          Edges[j].from \in Within(from, Depth(1))
                   PROVE  Edges[j].to \in visited'
        BY DEF Successors
      <4>1. Edges[j].to \in Successors({Edges[j].from})
        BY DEF Successors
      <4> QED BY <3>2, <4>1
    <3>4. Within(from, Depth(1) + 1)
            = Within(from, Depth(1)) \cup Successors(Within(from, Depth(1)))
      BY <1>4, WithinGrows
    <3> QED BY <2>2, <2>4, <3>3, <3>4
  <2> QED BY <1>4, <2>1, <2>3, <2>4
<1>7. RimIsQueued'
  BY <1>5, <1>6 DEF RimIsQueued
<1>8. Searching'
  BY <1>3, <1>4, <1>7 DEF Searching
<1> QED BY <1>2, <1>8 DEF SearchInv

LEMMA ExpandKeepsSearch ==
  ASSUME SearchInv, Expand
  PROVE  SearchInv'
<1> DEFINE node == Head(queue)
           found == NewEdges(node.screen)
           hits == {k \in DOMAIN found : found[k].to = to}
<1>1. outcome = "searching" /\ queue # <<>> /\ UNCHANGED <<from, to>>
  BY DEF Expand
<1>2. Searching
  BY <1>1 DEF SearchInv
<1>3. Leads(node.screen, found)
  BY NewEdgesLead
<1>4. CASE hits # {}
  <2>1. /\ outcome' = "found"
        /\ path' = Append(node.path, found[CHOOSE k \in hits : TRUE])
        /\ UNCHANGED <<queue, visited>>
    BY <1>4 DEF Expand
  <2>2. (CHOOSE k \in hits : TRUE) \in hits
    BY <1>4
  <2> HIDE DEF found
  <2> QED BY <1>1, <1>2, <1>3, <2>1, <2>2, TargetFound
<1>5. CASE hits = {}
  <2>1. /\ queue' = Tail(queue) \o [k \in DOMAIN found |->
                                      [screen |-> found[k].to,
                                       path   |-> Append(node.path, found[k])]]
        /\ visited' = visited \cup {found[k].to : k \in DOMAIN found}
        /\ UNCHANGED <<outcome, path>>
    BY <1>5 DEF Expand
  <2> HIDE DEF found
  <2>2. queue' = Tail(queue) \o Grown(node, found)
    BY <2>1 DEF Grown
  <2>3. \A k \in DOMAIN found : found[k].to # to
    BY <1>5
  <2> QED BY <1>1, <1>2, <1>3, <2>1, <2>2, <2>3, NothingFound
<1> QED BY <1>4, <1>5

LEMMA SearchNext ==
  ASSUME SearchInv, [Next]_vars
  PROVE  SearchInv'
<1>1. CASE Expand
  BY <1>1, ExpandKeepsSearch
<1>2. CASE Exhausted
  <2>1. /\ outcome = "searching" /\ queue = <<>> /\ outcome' = "ErrNoPath"
        /\ UNCHANGED <<from, to, queue, visited, path>>
    BY <1>2 DEF Exhausted
  <2>2. SearchTyped /\ Searching
    BY <2>1 DEF SearchInv
  <2>3. \A n \in Nat : to \notin Within(from, n)
    BY <2>1, <2>2, EmptyQueueIsClosed
  <2>4. SearchTyped'
    BY <2>1, <2>2 DEF SearchTyped
  <2> QED BY <2>1, <2>3, <2>4 DEF SearchInv
<1>3. CASE UNCHANGED vars
  BY <1>3 DEF vars, SearchInv, SearchTyped, Searching, NearestFirst, RimIsQueued,
              Depth
<1> QED BY <1>1, <1>2, <1>3 DEF Next

\* Path answers with a route over the graph's edges that no other route beats,
\* or that there is none when there is none, on every topology.
THEOREM PathIsShortest == Spec => []AnswerIsRight
<1>1. SearchInv => AnswerIsRight
  <2> SUFFICES ASSUME SearchInv PROVE AnswerIsRight
    OBVIOUS
  <2>1. Cardinality(Screens) \in Nat
    BY FS_CardinalityType
  <2>2. outcome = "ErrNoPath" => to \notin Within(from, Cardinality(Screens))
    BY <2>1 DEF SearchInv
  <2>3. ASSUME outcome = "found", from # to
        PROVE  /\ IsRoute(path, from, to)
               /\ \A i \in DOMAIN path : \E j \in DOMAIN Edges : path[i] = Edges[j]
               /\ to \notin Within(from, Len(path) - 1)
    <3>1. path # <<>> /\ Straight(from, path, to)
      BY <2>3 DEF SearchInv
    <3>2. path \in Seq(EdgeSet) /\ IsRoute(path, from, to)
          /\ \A i \in 1 .. Len(path) : \E j \in DOMAIN Edges : path[i] = Edges[j]
      BY <3>1 DEF Straight
    <3>3. DOMAIN path = 1 .. Len(path)
      BY <3>2
    <3> QED BY <3>1, <3>2, <3>3, EndIsFar
  <2> QED BY <2>2, <2>3 DEF AnswerIsRight
<1> QED BY <1>1, SearchStarts, SearchNext, PTL DEF Spec

-----------------------------------------------------------------------------
(* What navigation takes the answer for. *)

\* A straight walk uses no edge twice.
LEMMA StraightIsShort ==
  ASSUME NEW f, NEW p, NEW s, Straight(f, p, s)
  PROVE  Len(p) \in Nat /\ Len(p) <= Len(Edges)
<1>1. p \in Seq(EdgeSet) /\ Len(p) \in Nat
  BY DEF Straight
<1> DEFINE D == 1 .. Len(p)
           E == 1 .. Len(Edges)
           index == [i \in D |-> CHOOSE j \in E : p[i] = Edges[j]]
<1>2. \A i \in D : index[i] \in E /\ p[i] = Edges[index[i]]
  <2> TAKE i \in D
  <2>1. \E j \in E : p[i] = Edges[j]
    BY EdgesTyped DEF Straight
  <2> QED BY <2>1
<1>3. ASSUME NEW i \in D, NEW k \in D, i < k
      PROVE  p[i] # p[k]
  <2>1. p[i].to \in Within(f, i) /\ p[k].to \notin Within(f, k - 1)
    BY DEF Straight
  <2>2. i \in Nat /\ k - 1 \in Nat /\ i <= k - 1
    BY <1>1, <1>3
  <2>3. Within(f, i) \subseteq Within(f, k - 1)
    BY <2>2, WithinIsMonotone
  <2> QED BY <2>1, <2>3
<1>4. ASSUME NEW i \in D, NEW k \in D, index[i] = index[k]
      PROVE  i = k
  <2>1. p[i] = p[k]
    <3> HIDE DEF index
    <3> QED BY <1>2, <1>4
  <2>2. ~(i < k) /\ ~(k < i)
    BY <1>3, <2>1
  <2> QED BY <2>2
<1>5. index \in Injection(D, E)
  <2>1. index \in [D -> E]
    <3> HIDE DEF E, D
    <3> QED BY <1>2
  <2> HIDE DEF index, D, E
  <2> QED BY <1>4, <2>1 DEF Injection, IsInjective
<1>6. /\ IsFiniteSet(E)
      /\ Cardinality(D) = IF 1 > Len(p) THEN 0 ELSE Len(p) - 1 + 1
      /\ Cardinality(E) = IF 1 > Len(Edges) THEN 0 ELSE Len(Edges) - 1 + 1
  <2>1. 1 \in Int /\ Len(p) \in Int /\ Len(Edges) \in Int
    BY <1>1, EdgesTyped
  <2> QED BY <2>1, FS_Interval, Zenon
<1>7. Cardinality(D) <= Cardinality(E)
  <2> HIDE DEF index, D, E
  <2> QED BY <1>5, <1>6, FS_Injection
<1>8. Cardinality(D) = Len(p) /\ Cardinality(E) = Len(Edges)
  <2>1. Len(Edges) \in Nat
    BY EdgesTyped
  <2> QED BY <1>1, <1>6, <2>1
<1> QED BY <1>1, <1>7, <1>8

\* Ctx leaves the search out and takes for its answer any of ShortestRoutes, or
\* that there is no path when there are none.
AnswersWithARoute ==
    /\ outcome = "found" /\ from # to => path \in ShortestRoutes(from, to)
    /\ outcome = "ErrNoPath" => ShortestRoutes(from, to) = {}

\* Every answer of Path is one that navigation is prepared for, and navigation
\* meets ErrNoPath just when the search returns it.
THEOREM AnswersAreTaken == Spec => []AnswersWithARoute
<1>1. ASSUME SearchInv, outcome = "found", from # to
      PROVE  path \in ShortestRoutes(from, to)
  <2> DEFINE Img == {Edges[i] : i \in DOMAIN Edges}
             L == Len(path)
  <2>1. path # <<>> /\ Straight(from, path, to)
    BY <1>1 DEF SearchInv
  <2>2. /\ path \in Seq(EdgeSet) /\ IsRoute(path, from, to)
        /\ \A i \in 1 .. L : \E j \in DOMAIN Edges : path[i] = Edges[j]
        /\ to \in Within(from, L)
    BY <2>1 DEF Straight
  <2>3. \A i \in 1 .. L : path[i] \in Img
    BY <2>2
  <2>4. path = [i \in 1 .. L |-> path[i]]
    BY <2>2
  <2>5. path \in [1 .. L -> Img]
    <3> HIDE DEF Img, L
    <3> QED BY <2>3, <2>4
  <2>6. L \in Nat \ {0} /\ to \notin Within(from, L - 1)
    BY <2>1, EndIsFar
  <2>7. L \in 1 .. Len(Edges)
    <3>1. L <= Len(Edges)
      BY <2>1, StraightIsShort
    <3>2. Len(Edges) \in Nat
      BY EdgesTyped
    <3> QED BY <2>6, <3>1, <3>2
  <2> HIDE DEF Img, L
  <2>8. L \in {m \in 1 .. Len(Edges) : to \in Within(from, m) /\ to \notin Within(from, m - 1)}
    BY <2>2, <2>6, <2>7
  <2>9. path \in UNION {[1 .. n -> Img] :
                  n \in {m \in 1 .. Len(Edges) : /\ to \in Within(from, m)
                                                 /\ to \notin Within(from, m - 1)}}
    BY <2>5, <2>8
  <2> QED BY <2>2, <2>9 DEF ShortestRoutes, Img
<1>2. ASSUME SearchInv, outcome = "ErrNoPath"
      PROVE  ShortestRoutes(from, to) = {}
  <2>1. \A m \in 1 .. Len(Edges) : to \notin Within(from, m)
    BY <1>2, EdgesTyped DEF SearchInv
  <2> QED BY <2>1 DEF ShortestRoutes
<1>3. SearchInv => AnswersWithARoute
  BY <1>1, <1>2 DEF AnswersWithARoute
<1> QED BY <1>3, SearchStarts, SearchNext, PTL DEF Spec

=============================================================================
