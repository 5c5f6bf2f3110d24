---------------------------- MODULE GrantLedger ----------------------------
(***************************************************************************)
(* What the Codex refresh journal promises about refresh grants, without   *)
(* callers, files or crashes: a grant is sent to the provider at most      *)
(* once, its outcome is settled at most once and never changes, only a     *)
(* grant that was sent settles with new credentials, and a settled grant   *)
(* is not sent any more.                                                   *)
(***************************************************************************)
EXTENDS Naturals

CONSTANTS
    Grant,      \* refresh grants
    Outcome,    \* what an exchange may end with
    Success,    \* the outcomes that carry new credentials
    Unsettled   \* no outcome yet

VARIABLES
    sent,       \* how often a grant was sent to the provider
    outcome     \* the settled outcome of a grant

Init ==
    /\ sent = [g \in Grant |-> 0]
    /\ outcome = [g \in Grant |-> Unsettled]

Send(g) ==
    /\ sent[g] = 0
    /\ outcome[g] = Unsettled
    /\ sent' = [sent EXCEPT ![g] = 1]
    /\ UNCHANGED outcome

\* Outcomes become settled, one at a time or several at once.
Settle ==
    /\ outcome' \in [Grant -> Outcome \cup {Unsettled}]
    /\ \A g \in Grant : outcome'[g] # outcome[g] =>
                            /\ outcome[g] = Unsettled
                            /\ outcome'[g] \in Success => sent[g] = 1
    /\ UNCHANGED sent

Next == Settle \/ \E g \in Grant : Send(g)

Spec == Init /\ [][Next]_<<sent, outcome>>
=============================================================================
