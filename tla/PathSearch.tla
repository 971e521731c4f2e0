----------------------------- MODULE PathSearch -----------------------------
(***************************************************************************)
(* Graph.Path, the breadth-first search behind NavigateTo.  One behaviour  *)
(* is one call Path(from, to); a step expands the node at the head of the  *)
(* queue.                                                                  *)
(***************************************************************************)
EXTENDS ScreenGraph, Order

VARIABLES
    from, to,   \* the arguments of the call
    queue,      \* nodes discovered and not yet expanded, with their paths
    visited,
    outcome,    \* "searching", "found" or "ErrNoPath"
    path        \* the route returned

vars == <<from, to, queue, visited, outcome, path>>

Init ==
    /\ from \in Screens
    /\ to \in Screens
    /\ queue = IF from = to THEN <<>> ELSE <<[screen |-> from, path |-> <<>>]>>
    /\ visited = {from}
    /\ outcome = IF from = to THEN "found" ELSE "searching"
    /\ path = <<>>

\* Mutation of NewEdges: back edges overlooked.
NewTaps(screen) ==
    LET chosen == {i \in DOMAIN Edges : /\ Edges[i].from = screen
                                        /\ Edges[i].to \notin visited
                                        /\ Edges[i].action = "tap"}
    IN  [k \in 1 .. Cardinality(chosen) |-> Edges[InOrder(chosen)[k]]]

\* The edges of the head node that reach a screen not seen before, in the
\* order of the table; of parallel edges only the first counts.
NewEdges(screen) ==
    LET fresh(i) == /\ Edges[i].from = screen
                    /\ Edges[i].to \notin visited
                    /\ \A j \in 1 .. i - 1 :
                        Edges[j].from = screen => Edges[j].to # Edges[i].to
        chosen == {i \in DOMAIN Edges : fresh(i)}
    IN  [k \in 1 .. Cardinality(chosen) |-> Edges[InOrder(chosen)[k]]]

\* Mutation of Expand: new nodes go to the front of the queue.
ExpandDepthFirst ==
    /\ outcome = "searching"
    /\ queue # <<>>
    /\ LET node  == Head(queue)
           found == NewEdges(node.screen)
           hits  == {k \in DOMAIN found : found[k].to = to}
           next  == [k \in DOMAIN found |->
                        [screen |-> found[k].to,
                         path   |-> Append(node.path, found[k])]]
       IN  IF hits # {}
           THEN /\ outcome' = "found"
                /\ path' = Append(node.path, found[CHOOSE k \in hits : TRUE])
                /\ UNCHANGED <<queue, visited>>
           ELSE /\ queue' = next \o Tail(queue)
                /\ visited' = visited \cup {found[k].to : k \in DOMAIN found}
                /\ UNCHANGED <<outcome, path>>
    /\ UNCHANGED <<from, to>>

Expand ==
    /\ outcome = "searching"
    /\ queue # <<>>
    /\ LET node  == Head(queue)
           found == NewEdges(node.screen)
           hits  == {k \in DOMAIN found : found[k].to = to}
       IN  IF hits # {}
           THEN /\ outcome' = "found"
                /\ path' = Append(node.path, found[CHOOSE k \in hits : TRUE])
                /\ UNCHANGED <<queue, visited>>
           ELSE /\ queue' = Tail(queue) \o
                      [k \in DOMAIN found |->
                         [screen |-> found[k].to,
                          path   |-> Append(node.path, found[k])]]
                /\ visited' = visited \cup {found[k].to : k \in DOMAIN found}
                /\ UNCHANGED <<outcome, path>>
    /\ UNCHANGED <<from, to>>

\* Mutation of Exhausted: the search spins on an empty queue.
Spin == outcome = "searching" /\ queue = <<>> /\ UNCHANGED vars

Exhausted ==
    /\ outcome = "searching"
    /\ queue = <<>>
    /\ outcome' = "ErrNoPath"
    /\ UNCHANGED <<from, to, queue, visited, path>>

Next == Expand \/ Exhausted

Spec == Init /\ [][Next]_vars /\ WF_vars(Next)

-----------------------------------------------------------------------------
\* AnswerIsRight: what Path returns is walkable over the graph's edges and no
\* shorter route exists, and ErrNoPath is returned only when no sequence of
\* edges reaches the target.
AnswerIsRight ==
    /\ outcome = "found" /\ from # to =>
          /\ IsRoute(path, from, to)
          /\ \A i \in DOMAIN path : \E j \in DOMAIN Edges : path[i] = Edges[j]
          /\ to \notin Within(from, Len(path) - 1)
    /\ outcome = "ErrNoPath" => to \notin Within(from, Cardinality(Screens))

\* Every call returns: a screen is enqueued at most once.
SearchReturns == <>(outcome # "searching")

=============================================================================
