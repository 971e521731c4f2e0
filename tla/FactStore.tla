----------------------------- MODULE FactStore ------------------------------
(***************************************************************************)
(* The tables of internal/db/analytics.go that ingest and the review pages *)
(* share, for one VS capture.  A fact is keyed on (member, metric, period, *)
(* source, observed_at) and all but the member are the capture's, so the   *)
(* table is a function of the member.                                      *)
(***************************************************************************)
EXTENDS Ranking

CONSTANT Texts   \* the strings OCR may read off a row

VARIABLES
    members,   \* the active members
    aliases,   \* each member's member_aliases
    facts,     \* each member's vs_points of the capture
    queue      \* how many pending review items each row has, by their kind

storeVars == <<members, aliases, facts, queue>>

\* A row is queued for its name (no_confident_match, ambiguous_name_match) or
\* for its points (the other reasons); raw_text is the text of that field.
Kinds == {"name", "points"}

Items == Rows \X Kinds

NoFact == [value |-> 0, conf |-> 0, row |-> Nobody]

\* Confidences are in percent; "row" is the row a fact was read off, or
\* Nobody for an inferred zero, whose screenshot is the capture's last.
StoreTypeOK ==
    /\ members \subseteq Members
    /\ aliases \in [Members -> SUBSET Texts]
    /\ facts \in [Members -> [value : 0..MaxPoints, conf : 0..100,
                              row : Rows \cup {Nobody}]]
    /\ queue \in [Items -> Nat]

CreateMember(m) ==
    /\ m \notin members
    /\ members' = members \cup {m}
    /\ UNCHANGED <<aliases, facts, queue>>

OutranksOrEquals(f, m) == f.conf >= facts[m].conf

\* The WHERE guard of the upsert: only a strictly more confident read
\* replaces the one on record.
Outranks(f, m) == f.conf > facts[m].conf

UpsertFact(m, f) ==
    /\ facts' = IF facts[m] = NoFact \/ Outranks(f, m)
                THEN [facts EXCEPT ![m] = f] ELSE facts
    /\ UNCHANGED <<members, aliases, queue>>

\* Nothing makes an item unique: a row queued twice is in the queue twice.
QueueReview(item) ==
    /\ queue' = [queue EXCEPT ![item] = @ + 1]
    /\ UNCHANGED <<members, aliases, facts>>

\* The status and the alias, in one transaction.
ResolveReview(item, m, text) ==
    /\ queue[item] > 0
    /\ queue' = [queue EXCEPT ![item] = @ - 1]
    /\ aliases' = [aliases EXCEPT ![m] = @ \cup {text}]
    /\ UNCHANGED <<members, facts>>

RejectReview(item) ==
    /\ queue[item] > 0
    /\ queue' = [queue EXCEPT ![item] = @ - 1]
    /\ UNCHANGED <<members, aliases, facts>>

=============================================================================
