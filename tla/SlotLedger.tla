----------------------------- MODULE SlotLedger -----------------------------
(***************************************************************************)
(* What Home and the proxy promise together about one credential and model *)
(* (a release group), without any of the machinery: Home's account of the  *)
(* slots in use never exceeds the limit and never falls below the number   *)
(* of upstream resources that are really open.  Slots may be counted that  *)
(* are no longer in use; a slot in use is always counted.                  *)
(***************************************************************************)
EXTENDS Naturals, FiniteSets

CONSTANTS Holder, Group, Limit

VARIABLES
    account,   \* slots Home counts as used, per group
    held       \* holders whose resource is open, per group

Init ==
    /\ account = [g \in Group |-> 0]
    /\ held = [g \in Group |-> {}]

\* Home admits one more dispatch.
Admit(g) ==
    /\ account[g] < Limit
    /\ account' = [account EXCEPT ![g] = @ + 1]
    /\ UNCHANGED held

\* A holder opens its resource in a slot that is counted and unused.
Open(g, h) ==
    /\ h \notin held[g]
    /\ Cardinality(held[g]) < account[g]
    /\ held' = [held EXCEPT ![g] = @ \cup {h}]
    /\ UNCHANGED account

Close(g, h) ==
    /\ h \in held[g]
    /\ held' = [held EXCEPT ![g] = @ \ {h}]
    /\ UNCHANGED account

\* Home learns that slots were released, never more than are unused.
Settle(g) ==
    /\ \E n \in Cardinality(held[g])..account[g] : account' = [account EXCEPT ![g] = n]
    /\ UNCHANGED held

Next ==
    \E g \in Group : Admit(g) \/ Settle(g) \/ \E h \in Holder : Open(g, h) \/ Close(g, h)

Spec == Init /\ [][Next]_<<account, held>>

\* What the promise comes to: the resources open at once are within Home's account, and
\* the account is within the limit.
WithinLimit ==
    \A g \in Group : Cardinality(held[g]) <= account[g] /\ account[g] <= Limit
=============================================================================
