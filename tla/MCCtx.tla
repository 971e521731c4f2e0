------------------------------- MODULE MCCtx --------------------------------
(***************************************************************************)
(* Corners of DefaultGraph: base and the alliance screen, then with the    *)
(* tech screen behind it, so that a route has a middle.                    *)
(***************************************************************************)
EXTENDS Ctx

TwoScreens ==
    << [from |-> "base", to |-> "alliance", action |-> "tap"],
       [from |-> "alliance", to |-> "base", action |-> "back"] >>

ThreeScreens ==
    << [from |-> "base", to |-> "alliance", action |-> "tap"],
       [from |-> "alliance", to |-> "base", action |-> "back"],
       [from |-> "alliance", to |-> "alliance_tech", action |-> "tap"],
       [from |-> "alliance_tech", to |-> "alliance", action |-> "back"] >>

=============================================================================
