---------------------------- MODULE ColdArchive -----------------------------
(***************************************************************************)
(* What the cold layer promises (ADR-0025 dec 3, 4), with no run, object   *)
(* or manifest in sight: a day's rows leave the hypertable all at once and *)
(* only into the archive, and nothing ever leaves the archive.             *)
(***************************************************************************)
CONSTANTS Days, Keys
VARIABLES hot, archived, ever, gone

vars == <<hot, archived, ever, gone>>

Init ==
    /\ hot \in [Days -> SUBSET Keys]
    /\ archived \in [Days -> SUBSET Keys]
    /\ ever = [d \in Days |-> hot[d] \cup archived[d]]
    /\ gone = [d \in Days |-> {}]

Insert(d, k) ==
    /\ hot' = [hot EXCEPT ![d] = @ \cup {k}]
    /\ ever' = [ever EXCEPT ![d] = @ \cup {k}]
    /\ UNCHANGED <<archived, gone>>

DeleteRow(d, k) ==
    /\ hot' = [hot EXCEPT ![d] = @ \ {k}]
    /\ gone' = [gone EXCEPT ![d] = @ \cup {k}]
    /\ UNCHANGED <<archived, ever>>

\* The day's rows move; copies made of rows that were deleted meanwhile may
\* enter the archive with them.
Retire(d) ==
    /\ \E S \in SUBSET ever[d] :
         /\ hot[d] \subseteq archived[d] \cup S
         /\ archived' = [archived EXCEPT ![d] = @ \cup S]
    /\ hot' = [hot EXCEPT ![d] = {}]
    /\ UNCHANGED <<ever, gone>>

Next ==
    \E d \in Days : Retire(d) \/ \E k \in Keys : Insert(d, k) \/ DeleteRow(d, k)

Spec == Init /\ [][Next]_vars
=============================================================================
