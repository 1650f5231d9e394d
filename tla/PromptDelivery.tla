--------------------------- MODULE PromptDelivery ---------------------------
(***************************************************************************)
(* What the fully-async rollout promises training, without threads,        *)
(* leases, logs or readers: a prompt group is read from the dataset once,  *)
(* goes back and forth between open and accepted any number of times, and  *)
(* ends in one batch or is dropped.                                        *)
(***************************************************************************)
EXTENDS Naturals, Sequences, FiniteSets

CONSTANTS
    Group,
    Batch       \* groups in a batch

VARIABLES
    place,      \* where each group is
    batches     \* the groups of each accepted collection, in order

Place == {"unread", "open", "accepted", "batched", "dropped"}

Init ==
    /\ place = [g \in Group |-> "unread"]
    /\ batches = <<>>

Move(G, from, to) ==
    /\ G # {} /\ \A g \in G : place[g] = from
    /\ place' = [g \in Group |-> IF g \in G THEN to ELSE place[g]]

Read(G)  == Move(G, "unread", "open") /\ UNCHANGED batches
Accept(g) == Move({g}, "open", "accepted") /\ UNCHANGED batches
Reopen(g) == Move({g}, "accepted", "open") /\ UNCHANGED batches
Drop(g)   == Move({g}, "open", "dropped") /\ UNCHANGED batches
Collect(G) == Cardinality(G) = Batch /\ Move(G, "accepted", "batched") /\ batches' = Append(batches, G)

Next ==
    \/ \E G \in SUBSET Group : Read(G) \/ Collect(G)
    \/ \E g \in Group : Accept(g) \/ Reopen(g) \/ Drop(g)

Spec == Init /\ [][Next]_<<place, batches>>
=============================================================================
