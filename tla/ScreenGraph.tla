---------------------------- MODULE ScreenGraph -----------------------------
(***************************************************************************)
(* runtime.Graph: the navigation topology, what a walkable route over it   *)
(* is, and how far apart two screens are.                                  *)
(***************************************************************************)
EXTENDS Integers, Sequences, FiniteSets

CONSTANTS
    Screens,    \* the registry's screens
    Entry,      \* where the game lands after an app restart
    Edges       \* the topology: a sequence of [from, to, action]

EdgeSet == [from: Screens, to: Screens, action: {"tap", "back"}]

\* Graph.Validate, which runtime.New runs before any task may act.
ASSUME GraphAssumption ==
    /\ IsFiniteSet(Screens)
    /\ Entry \in Screens
    /\ Edges \in Seq(EdgeSet)

\* A walkable route: every edge leaves the screen the one before it reached.
IsRoute(path, f, t) ==
    /\ path # <<>>
    /\ path[1].from = f
    /\ path[Len(path)].to = t
    /\ \A i \in 1 .. Len(path) - 1 : path[i].to = path[i + 1].from

\* The screens within n hops of f: the definition the search is compared with.
Successors(S) == {Edges[i].to : i \in {j \in DOMAIN Edges : Edges[j].from \in S}}

Within(f, n) ==
    LET ball[k \in 0 .. n] ==
            IF k = 0 THEN {f}
            ELSE LET inner == ball[k - 1] IN inner \cup Successors(inner)
    IN  ball[n]

\* The routes Path may return; PathSearch shows that it returns one of them.
ShortestRoutes(f, t) ==
    {p \in UNION {[1 .. n -> {Edges[i] : i \in DOMAIN Edges}] :
                      n \in {m \in 1 .. Len(Edges) : /\ t \in Within(f, m)
                                                     /\ t \notin Within(f, m - 1)}} :
        IsRoute(p, f, t)}

=============================================================================
