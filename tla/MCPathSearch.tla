---------------------------- MODULE MCPathSearch ----------------------------
(***************************************************************************)
(* The search on the production topology (DefaultGraph), beside a denser   *)
(* graph with parallel edges, diamonds and a screen nothing leads to.      *)
(***************************************************************************)
EXTENDS PathSearch

DefaultScreens ==
    {"base", "world_map", "alliance", "alliance_tech", "alliance_tech_donate",
     "alliance_members", "alliance_duel", "vs_ranking", "vs_ranking_weekly",
     "mail", "mail_alliance", "mail_event", "mail_system", "radar",
     "stamina_prompt"}

TapTo(f, t)  == [from |-> f, to |-> t, action |-> "tap"]
BackTo(f, t) == [from |-> f, to |-> t, action |-> "back"]

\* runtime.DefaultGraph, in the order of its table.
DefaultGraph ==
    << TapTo("base", "world_map"),         TapTo("world_map", "base"),
       TapTo("base", "alliance"),          BackTo("alliance", "base"),
       TapTo("alliance", "alliance_tech"), BackTo("alliance_tech", "alliance"),
       BackTo("alliance_tech_donate", "alliance_tech"),
       TapTo("base", "mail"),              BackTo("mail", "base"),
       TapTo("mail", "mail_alliance"),     BackTo("mail_alliance", "mail"),
       TapTo("mail", "mail_event"),        BackTo("mail_event", "mail"),
       TapTo("mail", "mail_system"),       BackTo("mail_system", "mail"),
       TapTo("base", "radar"),             BackTo("radar", "base"),
       BackTo("stamina_prompt", "radar"),
       TapTo("alliance", "alliance_members"),
       BackTo("alliance_members", "alliance"),
       TapTo("base", "alliance_duel"),     BackTo("alliance_duel", "base"),
       TapTo("alliance_duel", "vs_ranking"),
       BackTo("vs_ranking", "alliance_duel"),
       TapTo("vs_ranking", "vs_ranking_weekly"),
       BackTo("vs_ranking_weekly", "vs_ranking") >>

\* Screens entered only by task code, because what opens them may be a
\* purchase or may be absent.
TaskOnly == {"alliance_tech_donate", "stamina_prompt"}

DenseScreens == {"a", "b", "c", "d", "e", "f"}
DenseGraph ==
    << TapTo("a", "b"), TapTo("b", "c"), TapTo("c", "d"), BackTo("a", "c"),
       TapTo("a", "c"), TapTo("b", "e"), TapTo("d", "e"), BackTo("c", "a"),
       BackTo("e", "d"), TapTo("f", "a"), TapTo("e", "b"), BackTo("d", "b") >>

AllScreens == DefaultScreens \cup DenseScreens
BothGraphs == DefaultGraph \o DenseGraph

\* NavigateTo can never be routed into a task-only screen, and every other
\* screen - the task-only ones included - has a way to every routed screen, so
\* no task starts from a screen it cannot leave.
RoutedExactly ==
    from \in DefaultScreens /\ to \in DefaultScreens =>
        /\ outcome = "ErrNoPath" => to \in TaskOnly
        /\ outcome = "found" /\ from # to =>
            \A i \in DOMAIN path : path[i].to \notin TaskOnly

=============================================================================
