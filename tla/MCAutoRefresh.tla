---------------------------- MODULE MCAutoRefresh ----------------------------
(***************************************************************************)
(* Instances of AutoRefresh for TLC.                                       *)
(***************************************************************************)
EXTENDS AutoRefresh, TLC

OneLoop == {1}
TwoLoops == {1, 2}
Symmetry == Permutations(Creds)

\* A credential nobody renews, changes or asks for.
Aside(c) ==
  /\ auth[c] = Entry(1, 1, FALSE, FALSE) /\ refreshJobs[c] = None
  /\ \A l \in Loops : c \notin loop[l].heap \cup loop[l].dirty \cup loop[l].todo \cup {loop[l].hand}
  /\ \A a \in Actors : act[a].cred # c
  /\ \A p \in Processes : note[p] # None => note[p].cred # c

Restarted == \E l \in Loops \ {1} : loop[l].pc # "new"

\* The casts explored together: two credentials and a loop that may be
\* stopped; one credential with two operations on it; one credential whose
\* loop is replaced by another.
Alone == \E c \in Creds : \A d \in Creds \ {c} : Aside(d)

Cast ==
  \/ ~Restarted /\ (ops = 0 \/ (ops = 1 /\ ~loop[1].live))
  \/ ~Restarted /\ Alone
  \/ ops = 0 /\ Alone
=============================================================================
