------------------------------- MODULE Chores -------------------------------
(***************************************************************************)
(* The chores that tap and leave: radar, tech_donate, mail_collect, and    *)
(* the two that tap an icon on the base. A step is one primitive of the    *)
(* runtime, a tap with the frame that proves it; what a tap does is the    *)
(* game's affair: it may show it late, and swallow the taps in Deaf.       *)
(***************************************************************************)
EXTENDS Integers

CONSTANTS
    ExecuteTaps,    \* executeTapAttempts
    MaxPolls,       \* what claimPollBudget allows on the fastest device
    MaxDonations,   \* maxDonations
    Mailboxes,      \* how many there are
    Deaf            \* controls whose taps may be swallowed

Proven  == {"execute", "badge", "donate"}               \* the next frame tells
Trusted == {"claim", "banner", "tab", "mail", "icon"}   \* nobody looks again

ASSUME ChoresAssumption ==
    /\ {ExecuteTaps, MaxPolls, MaxDonations, Mailboxes} \subseteq Nat
    /\ Deaf \subseteq Proven \cup Trusted

VARIABLES
    chore,      \* the task, where it stands, its counter, and what it returned
    game        \* what the game shows, and what it took from the account

choreVars == <<chore, game>>

At(place) == chore.at = place
To(place) == chore' = [chore EXCEPT !.at = place]
Counts(place) == chore' = [chore EXCEPT !.at = place, !.n = @ + 1]
Returns(what) == chore' = [chore EXCEPT !.at = "back", !.said = what]

(* The game swallows a tap: one whose effect the task waits for, or one it *)
(* takes for granted (history: missed).                                    *)
Ignores(control) == control \in Deaf /\ UNCHANGED game
Misses(control) == control \in Deaf /\ game' = [game EXCEPT !.missed = TRUE]

-----------------------------------------------------------------------------
(* radar. One of its two buttons is drawn at a time, neither while an      *)
(* execution runs or rewards are celebrated; Quick Execute is drawn for    *)
(* lack of stamina too, and until the game shows that it took the tap.     *)
ClaimShown == ~game.party /\ ~game.prompt /\ game.board = "claim"
ExecuteShown == ~game.party /\ ~game.prompt /\ game.board \in {"ready", "short", "starting", "opening"}

Claimed ==
    \/ Misses("claim")
    \/ \E next \in {"none", "ready", "short"} : game' = [game EXCEPT !.board = next, !.party = TRUE]

ClaimBanked ==
    /\ At("banked")
    /\ IF ClaimShown THEN Claimed /\ To("cheer") ELSE UNCHANGED game /\ To("probe")

(* dismissRewards: the banner is there only while there is something to    *)
(* dismiss.                                                                *)
DismissRewards ==
    /\ game' = [game EXCEPT !.party = FALSE] \/ (game.party /\ Misses("banner"))
    /\ \/ At("cheer") /\ To("probe")
       \/ At("cheerLast") /\ Returns("ok")
       \/ At("cheerBox") /\ Counts("box")

(* A startExecution that takes its tap for granted. *)
ProbeTrusting ==
    /\ At("probe") /\ UNCHANGED game
    /\ \/ chore.n > 0 /\ To("poll")
       \/ chore.n = 0 /\ ExecuteShown /\ To("execute")
       \/ chore.n = 0 /\ ~ExecuteShown /\ Returns("ok")

(* startExecution: the button that has gone is the proof that the game     *)
(* took the tap, unless it was never there.                                *)
Probe ==
    /\ At("probe") /\ UNCHANGED game
    /\ \/ chore.n = ExecuteTaps /\ Returns("ErrExecuteIgnored")
       \/ chore.n < ExecuteTaps /\ game.prompt /\ Returns("error")
       \/ chore.n < ExecuteTaps /\ ExecuteShown /\ To("execute")
       \/ /\ chore.n < ExecuteTaps /\ ~game.prompt /\ ~ExecuteShown
          /\ IF chore.n > 0 THEN chore' = [chore EXCEPT !.at = "poll", !.n = 0] ELSE Returns("ok")

Execute ==
    /\ At("execute")
    /\ IF ~ExecuteShown THEN Returns("error") /\ UNCHANGED game
       ELSE /\ To("settle")
            /\ \/ Ignores("execute")
               \/ game.board = "ready" /\ \E b \in {"starting", "running"} : game' = [game EXCEPT !.board = b, !.paid = TRUE]
               \/ game.board = "short" /\ \E p \in BOOLEAN : game' = [game EXCEPT !.board = IF p THEN @ ELSE "opening", !.prompt = p]
               \/ game.board \in {"starting", "opening"} /\ UNCHANGED game

(* The dialog that sells stamina is left by NavigateTo, nothing in it is   *)
(* tapped.                                                                 *)
BacksOut == game' = [game EXCEPT !.prompt = FALSE] /\ Returns("ok")

Settle ==
    /\ At("settle")
    /\ IF game.prompt THEN BacksOut ELSE UNCHANGED game /\ Counts("probe")

(* claimWhenReady: the budget is looked at after the poll. *)
Poll ==
    /\ At("poll")
    /\ IF game.prompt THEN BacksOut
       ELSE IF ClaimShown THEN Claimed /\ To("cheerLast")
       ELSE /\ UNCHANGED game
            /\ Returns("ErrClaimNeverAppeared") \/ (chore.n < MaxPolls /\ Counts("poll"))

-----------------------------------------------------------------------------
(* tech_donate. The badge is on the list of the selected tab or, while it  *)
(* is unselected, on the header of the other: neither is proof of absence, *)
(* so the list is looked at, then the header, then the other list.         *)
FindRecommendation ==
    \/ /\ At("list") \/ At("listAgain")
       /\ IF game.tech = "here"
          THEN To("dialog") /\ (Ignores("badge") \/ game' = [game EXCEPT !.dialog = TRUE])
          ELSE (IF At("list") THEN To("tab") ELSE Returns("ok")) /\ UNCHANGED game
    \/ /\ At("tab")
       /\ IF game.tech = "there" THEN To("listAgain") /\ (Misses("tab") \/ game' = [game EXCEPT !.tech = "here"])
          ELSE UNCHANGED game /\ Returns("ok")

(* WaitFor, which gives up in the end. *)
AwaitDialog ==
    /\ At("dialog") /\ UNCHANGED game
    /\ IF game.dialog THEN To("donate") ELSE Returns("error")

(* tapUntilGone: the button goes when the donations are used up. *)
TapUntilGone ==
    /\ At("donate")
    /\ \/ chore.n = MaxDonations /\ Returns("ErrTapCapReached") /\ UNCHANGED game
       \/ chore.n < MaxDonations /\ game.left = 0 /\ Returns("ok") /\ UNCHANGED game
       \/ /\ chore.n < MaxDonations /\ game.left > 0 /\ Counts("donate")
          /\ Ignores("donate") \/ game' = [game EXCEPT !.left = @ - 1]

-----------------------------------------------------------------------------
(* mail_collect: Claim All is always drawn; only where there was mail is   *)
(* there something to celebrate.                                           *)
MailCollect ==
    /\ At("box")
    /\ IF chore.n = Mailboxes THEN Returns("ok") /\ UNCHANGED game
       ELSE /\ To("cheerBox")
            /\ \/ chore.n \in game.mail /\ Misses("mail")
               \/ game' = [game EXCEPT !.mail = @ \ {chore.n}, !.party = chore.n \in game.mail]

(* daily_gather and help_all: one icon, if it is there. *)
BaseTap ==
    /\ At("icon") /\ Returns("ok")
    /\ game' = [game EXCEPT !.icon = FALSE] \/ (game.icon /\ Misses("icon"))

(* The kill switch, a screen nobody expected or adb ends any of them. *)
Breaks == ~At("back") /\ Returns("error") /\ UNCHANGED game

ChoreStep ==
    \/ ClaimBanked \/ DismissRewards \/ Probe \/ Execute \/ Settle \/ Poll
    \/ FindRecommendation \/ AwaitDialog \/ TapUntilGone \/ MailCollect \/ BaseTap \/ Breaks

(* The game catches up with the taps it took, and ends its celebrations. *)
GameMoves ==
    /\ \/ game.board = "starting" /\ game' = [game EXCEPT !.board = "running"]
       \/ game.board = "running" /\ game' = [game EXCEPT !.board = "claim"]
       \/ game.board = "opening" /\ game' = [game EXCEPT !.board = "short", !.prompt = TRUE]
       \/ game.party /\ game' = [game EXCEPT !.party = FALSE]
    /\ UNCHANGED chore

Asleep == [board |-> "none", began |-> "none", paid |-> FALSE, party |-> FALSE, prompt |-> FALSE,
           tech |-> "none", badge |-> FALSE, dialog |-> FALSE, left |-> 0, mail |-> {}, icon |-> FALSE, missed |-> FALSE]

Chore(task, at) == [task |-> task, at |-> at, n |-> 0, said |-> "nothing"]

NoChore == chore = Chore("none", "back") /\ game = Asleep

(* An earlier run may have left an execution going or its rewards unclaimed. *)
ChoreInit ==
    \/ /\ chore = Chore("radar", "banked")
       /\ \E b \in {"none", "ready", "short", "running", "claim"} : game = [Asleep EXCEPT !.board = b, !.began = b]
    \/ /\ chore = Chore("tech_donate", "list")
       /\ \E where \in {"none", "here", "there"}, k \in 0 .. MaxDonations :
              game = [Asleep EXCEPT !.tech = where, !.badge = where # "none", !.left = k]
    \/ /\ chore = Chore("mail_collect", "box")
       /\ \E boxes \in SUBSET (0 .. Mailboxes - 1) : game = [Asleep EXCEPT !.mail = boxes]
    \/ /\ chore = Chore("base", "icon")
       /\ \E there \in BOOLEAN : game = [Asleep EXCEPT !.icon = there]

-----------------------------------------------------------------------------
Accomplished ==
    CASE chore.task = "radar" ->
           /\ game.paid \/ game.began = "claim" => game.board \notin {"starting", "running", "claim"}
           /\ game.board = "ready" => game.paid
      [] chore.task = "tech_donate" -> game.badge => game.left = 0
      [] chore.task = "mail_collect" -> game.mail = {}
      [] OTHER -> ~game.icon

(* ReportsAreTrue: a chore never reports success for doing nothing         *)
(* (helpers.go:43-46): rewards that were banked are claimed, an execution  *)
(* it could start is started and its rewards claimed, a recommendation on  *)
(* either tab is donated to until nothing is left, every mailbox is empty. *)
(* It holds however late the game shows what it took and whichever of the  *)
(* taps in Proven it swallows, unless it swallowed one in Trusted, whose   *)
(* effect the code never looks for.  And a chore blames the claim for not  *)
(* appearing only after an execution the game took (helpers.go:24-27),     *)
(* whichever taps are swallowed.                                           *)
ReportsAreTrue ==
    At("back") =>
        /\ chore.said = "ok" => game.missed \/ Accomplished
        /\ chore.said = "ErrClaimNeverAppeared" => game.paid

=============================================================================
