------------------------- MODULE HomeExecutionProofs -------------------------
(***************************************************************************)
(* Proofs about requests executed through Home: first HomeExecution, for   *)
(* any number of credentials, routes, selections and calls and any limits, *)
(* then HomeSelection, what hangs on one of those selections, for any      *)
(* number of resources and attempts.                                       *)
(***************************************************************************)
EXTENDS HomeExecution, HomeSelection, FiniteSetTheorems, SequenceTheorems, TLAPS

Targets == [auth : Auth \cup {None}, route : Route \cup {None}, retry : Limits]

Rounds ==
    [tried : SUBSET Auth, excluded : SUBSET Auth, same : [Auth -> Nat], last : Auth \cup {None},
     samePending : BOOLEAN, attempted : SUBSET Auth, lastErr : BOOLEAN, first : BOOLEAN,
     runs : [Auth -> Nat]]

Locals ==
    [route : Route \cup {None}, pinned : Auth \cup {None}, attempt : Nat, limit : Int,
     pending : BOOLEAN, waited : BOOLEAN, round : Rounds, cur : Sel \cup {None}, isNew : BOOLEAN,
     ending : SUBSET Sel, waiting : Sel \cup {None},
     then : {"idle", "pick", "target", "dispatch", "check", "failed"},
     err : {"none", "other", "stop", "cooldown", "exhausted"}, remote : Limits, mine : SUBSET Sel]

TypeOK ==
    /\ live \subseteq Sel /\ kept \subseteq Sel /\ drained \subseteq Sel /\ acked \subseteq Sel
    /\ target \in [Sel -> Targets]
    /\ session \subseteq Sel /\ pumped \subseteq Sel /\ cleared \subseteq Sel
    /\ homeOn \in BOOLEAN
    /\ pc \in {"idle", "closed", "pick", "target", "dispatch", "end", "wait", "check", "bind",
               "exec", "retain", "failed"}
    /\ c \in Locals

\* The handler is ending selections and will go on at p.
Ending(P) == pc \in {"end", "wait"} /\ c.then \in P

(***************************************************************************)
(* The call's hands.  The session retains one selection at most, so the    *)
(* call never has more than one to end, and it is done with it when it     *)
(* asks Home for another.                                                  *)
(***************************************************************************)
HandInv ==
    /\ \A s, t \in session : s = t
    /\ \A s \in session : target[s].auth \in Auth
    /\ pc \in {"target", "dispatch"} \/ Ending({"target", "dispatch"}) => session = {}
    /\ pc \in {"pick", "target", "dispatch", "failed", "idle", "closed"} => c.cur = None /\ c.ending = {}
    /\ pc \in {"check", "bind", "exec", "retain"} \/ Ending({"check"}) =>
          c.ending = {} /\ c.cur \in Sel /\ target[c.cur].auth \in Auth
    /\ pc \in {"end", "wait"} =>
          /\ c.then # "idle"
          /\ \A s, t \in c.ending : s = t
          /\ c.then # "check" => c.cur \in {None} \cup c.ending
    /\ pc = "wait" => c.waiting \in c.ending /\ c.waiting \notin live

\* The slots of the call that Home has not acknowledged are the ones it has in hand.
MineInv ==
    /\ c.mine \cap acked = {}
    /\ pc \in {"pick", "target", "dispatch"} => c.mine = {}
    /\ pc = "failed" /\ c.err \in {"exhausted", "cooldown"} => c.mine = {}
    /\ pc \in {"check", "bind", "exec", "retain"} => c.mine \subseteq {c.cur}
    /\ pc \in {"end", "wait"} => c.mine \subseteq c.ending \cup (IF c.then = "check" THEN {c.cur} ELSE {})

(***************************************************************************)
(* The round.  A credential that was executed is marked tried; one that    *)
(* was executed twice is excluded; and a credential is bound only when it  *)
(* is the one that may be tried again, or when the limit leaves room.      *)
(***************************************************************************)
CurAuth == target[c.cur].auth
RoomOrSame == AllowSame \/ ~AtLimit

RoundInv ==
    /\ IsFiniteSet(c.round.attempted)
    /\ \A a \in Auth : c.round.runs[a] > 0 => a \in c.round.tried
    /\ c.round.samePending => c.round.last \in c.round.attempted
    /\ pc \notin {"retain", "failed"} => \A a \in Auth \ c.round.excluded : c.round.runs[a] <= 1
    /\ pc \in {"target", "dispatch", "check"} \/ Ending({"target", "dispatch", "check"}) => RoomOrSame
    /\ pc \in {"bind", "exec"} =>
          /\ c.round.runs[CurAuth] <= 1
          /\ c.round.runs[CurAuth] = 1 => c.round.same[CurAuth] >= 1
          /\ CurAuth \in c.round.attempted \/ ~AtLimit
    /\ pc = "exec" => CurAuth \in c.round.tried

LEMMA LimitsAreInts == \A l \in Limits : l \in Int
  BY ConstantsOK DEF Limits, Unset

LEMMA FreshType == Fresh \in Rounds
  BY DEF Fresh, Rounds

LEMMA NewCallType == \A r \in Route \cup {None}, pin \in Auth \cup {None} : NewCall(r, pin) \in Locals
  BY FreshType DEF NewCall, Locals, Limits, Unset

LEMMA TypeInit == Init => TypeOK
<1> SUFFICES ASSUME Init PROVE TypeOK
  OBVIOUS
<1>1. target \in [Sel -> Targets]
  BY DEF Init, Targets, Limits
<1> QED BY <1>1, NewCallType DEF Init, TypeOK

\* The local variables after an attempt was executed ...
LEMMA ExecutedFacts ==
  ASSUME TypeOK, CurAuth \in Auth
  PROVE  LET x == Executed(c) IN
         /\ x \in Locals
         /\ x.round.runs = [c.round.runs EXCEPT ![CurAuth] = @ + 1]
         /\ x.round.attempted = c.round.attempted \cup {CurAuth}
         /\ x.round.tried = c.round.tried /\ x.round.excluded = c.round.excluded
         /\ x.round.same = c.round.same /\ x.round.last = c.round.last
         /\ x.round.samePending = c.round.samePending
         /\ x.cur = c.cur /\ x.ending = c.ending /\ x.mine = c.mine
<1> DEFINE f == [c.round.runs EXCEPT ![CurAuth] = @ + 1]
           A == c.round.attempted \cup {CurAuth}
           r == [c.round EXCEPT !.attempted = A, !.runs = f]
<1>1. c \in Locals /\ c.round \in Rounds
  BY DEF TypeOK, Locals
<1>2. f \in [Auth -> Nat] /\ A \in SUBSET Auth
  BY <1>1 DEF Rounds
<1>3. Executed(c) = [c EXCEPT !.round = r]
  BY <1>1 DEF Executed, CurAuth, Locals, Rounds
<1> HIDE DEF f, A
<1>4. /\ r \in Rounds /\ r.runs = f /\ r.attempted = A
      /\ r.tried = c.round.tried /\ r.excluded = c.round.excluded /\ r.same = c.round.same
      /\ r.last = c.round.last /\ r.samePending = c.round.samePending
  BY <1>1, <1>2 DEF Rounds
<1> HIDE DEF r
<1>5. /\ Executed(c) \in Locals /\ Executed(c).round = r
      /\ Executed(c).cur = c.cur /\ Executed(c).ending = c.ending /\ Executed(c).mine = c.mine
  BY <1>1, <1>3, <1>4 DEF Locals
<1> QED BY <1>4, <1>5 DEF f, A

\* ... after an attempt failed ...
LEMMA ExecFailsFacts ==
  ASSUME TypeOK, HandInv, NEW excludable \in BOOLEAN, NEW started \in BOOLEAN, NEW stopped \in BOOLEAN,
         ExecFails(excludable, started, stopped)
  PROVE  LET out == excludable \/ c.round.same[CurAuth] > 0 IN
         /\ c' \in Locals /\ pc = "exec" /\ pc' = "end" /\ CurAuth \in Auth
         /\ c'.round.runs = [c.round.runs EXCEPT ![CurAuth] = @ + 1]
         /\ c'.round.attempted = c.round.attempted \cup {CurAuth}
         /\ c'.round.tried = c.round.tried
         /\ c'.round.excluded = c.round.excluded \cup (IF out THEN {CurAuth} ELSE {})
         /\ c'.round.last = CurAuth
         /\ c'.cur = c.cur /\ c'.ending = {c.cur} /\ c'.then \in {"failed", "pick"} /\ c'.mine = c.mine
<1> DEFINE out == excludable \/ c.round.same[CurAuth] > 0
           p == IF stopped THEN "failed" ELSE "pick"
           x == Executed(c)
           X == IF out THEN x.round.excluded \cup {CurAuth} ELSE x.round.excluded
           u == x.round.first /\ ~started
           no == ~out
           r == [x.round EXCEPT !.excluded = X, !.last = CurAuth, !.samePending = no, !.lastErr = TRUE,
                                !.first = u]
<1>1. pc = "exec" /\ pc' = "end" /\ c.cur \in Sel /\ CurAuth \in Auth
  BY DEF ExecFails, EndThen, HandInv, CurAuth
<1>2. c' = [x EXCEPT !.round.excluded = IF out THEN @ \cup {CurAuth} ELSE @, !.round.last = CurAuth,
                     !.round.samePending = ~out, !.round.lastErr = TRUE,
                     !.round.first = @ /\ ~started, !.err = "other", !.ending = {c.cur}, !.then = p]
  BY DEF ExecFails, EndThen, CurAuth
<1>3. x \in Locals /\ x.round \in Rounds
  BY <1>1, ExecutedFacts DEF Locals
<1>4. /\ X \in SUBSET Auth /\ u \in BOOLEAN /\ no \in BOOLEAN /\ p \in {"failed", "pick"}
      /\ X = x.round.excluded \cup (IF out THEN {CurAuth} ELSE {})
  BY <1>1, <1>3 DEF Rounds
<1> HIDE DEF x, p
<1>5. c' = [x EXCEPT !.round = r, !.err = "other", !.ending = {c.cur}, !.then = p]
  BY <1>2, <1>3 DEF Locals, Rounds
<1> HIDE DEF X, u, no
<1>6. /\ r \in Rounds /\ r.runs = x.round.runs /\ r.attempted = x.round.attempted
      /\ r.tried = x.round.tried /\ r.same = x.round.same /\ r.excluded = X
      /\ r.last = CurAuth
  BY <1>1, <1>3, <1>4 DEF Rounds
<1> HIDE DEF r
<1>7. /\ c' \in Locals /\ c'.round = r
      /\ c'.cur = x.cur /\ c'.ending = {c.cur} /\ c'.then = p /\ c'.mine = x.mine
  BY <1>1, <1>3, <1>4, <1>5, <1>6 DEF Locals
<1>8. /\ x.round.runs = [c.round.runs EXCEPT ![CurAuth] = @ + 1]
      /\ x.round.attempted = c.round.attempted \cup {CurAuth}
      /\ x.round.tried = c.round.tried /\ x.round.excluded = c.round.excluded
      /\ x.cur = c.cur /\ x.mine = c.mine
  BY <1>1, ExecutedFacts DEF x
<1> QED BY <1>1, <1>4, <1>6, <1>7, <1>8

\* ... and after a selection was looked at: it is given back, its credential excluded
\* or not, or it goes on to be bound.
SecondTry(a) == IF a \in c.round.tried THEN c.round.same[a] + 1 ELSE c.round.same[a]

LEMMA CheckFacts ==
  ASSUME TypeOK, HandInv, Check
  PROVE  /\ c' \in Locals /\ CurAuth \in Auth /\ SecondTry(CurAuth) \in Nat
         /\ c'.cur = c.cur /\ c'.mine = c.mine
         /\ c'.round.runs = c.round.runs /\ c'.round.attempted = c.round.attempted
         /\ c'.round.tried = c.round.tried /\ c'.round.last = c.round.last
         /\ c'.round.samePending => c.round.samePending
         /\ c.round.excluded \subseteq c'.round.excluded
         /\ \/ pc' = "end" /\ c'.ending = {c.cur} /\ c'.then \in {"failed", "pick"}
            \/ /\ pc' = "bind" /\ c'.ending = c.ending
               /\ c'.round.same = [c.round.same EXCEPT ![CurAuth] = SecondTry(CurAuth)]
               /\ ~(AllowSame /\ AtLimit /\ CurAuth # c.round.last)
               /\ CurAuth \in c.round.tried => CurAuth \notin c.round.excluded
<1> DEFINE a == CurAuth
           n == SecondTry(CurAuth)
           lim == Limit(c.cur)
           sp == c.round.samePending /\ (c.round.last = None \/ a = c.round.last)
           r0 == [c.round EXCEPT !.samePending = sp]
           seen == [c EXCEPT !.limit = lim, !.round = r0]
<1>1. a \in Auth /\ c.cur \in Sel /\ n \in Nat /\ lim \in Int /\ sp \in BOOLEAN
  BY LimitsAreInts, ConstantsOK DEF TypeOK, Check, HandInv, CurAuth, Limit, Locals, Rounds, Targets, SecondTry
<1>2. c \in Locals /\ c.round \in Rounds
  BY DEF TypeOK, Locals
<1>3. seen = [c EXCEPT !.limit = Limit(c.cur),
                       !.round.samePending = @ /\ (c.round.last = None \/ a = c.round.last)]
  BY <1>2 DEF Locals, Rounds
<1>4. \/ /\ c' = [seen EXCEPT !.err = LastOr("other"), !.ending = {c.cur}, !.then = "failed"]
         /\ pc' = "end"
      \/ /\ c' = [seen EXCEPT !.round.same[a] = n, !.round.excluded = @ \cup {a},
                              !.ending = {c.cur}, !.then = "pick"]
         /\ pc' = "end"
      \/ /\ c' = [seen EXCEPT !.round.same[a] = n] /\ pc' = "bind"
         /\ ~(AllowSame /\ AtLimit /\ CurAuth # c.round.last)
         /\ CurAuth \in c.round.tried => CurAuth \notin c.round.excluded
  BY <1>3 DEF Check, EndThen, CurAuth, SecondTry
<1>5. LastOr("other") \in {"exhausted", "other"}
  BY DEF LastOr
<1>6. sp => c.round.samePending
  OBVIOUS
<1> HIDE DEF a, n, lim, sp
<1>7. /\ r0 \in Rounds /\ r0.runs = c.round.runs /\ r0.attempted = c.round.attempted
      /\ r0.tried = c.round.tried /\ r0.last = c.round.last /\ r0.same = c.round.same
      /\ r0.excluded = c.round.excluded /\ r0.samePending = sp
  BY <1>1, <1>2 DEF Rounds
<1> HIDE DEF r0
<1>8. /\ seen \in Locals /\ seen.round = r0 /\ seen.cur = c.cur /\ seen.mine = c.mine
      /\ seen.ending = c.ending
  BY <1>1, <1>2, <1>7 DEF Locals
<1> HIDE DEF seen
<1> DEFINE f == [r0.same EXCEPT ![a] = n]
           X == r0.excluded \cup {a}
           r1 == [r0 EXCEPT !.same = f]
           r2 == [r0 EXCEPT !.same = f, !.excluded = X]
<1>9. f \in [Auth -> Nat] /\ X \in SUBSET Auth
  BY <1>1, <1>7 DEF Rounds
<1>10. /\ [seen EXCEPT !.round.same[a] = n] = [seen EXCEPT !.round = r1]
       /\ [seen EXCEPT !.round.same[a] = n, !.round.excluded = @ \cup {a},
                        !.ending = {c.cur}, !.then = "pick"]
              = [seen EXCEPT !.round = r2, !.ending = {c.cur}, !.then = "pick"]
  BY <1>7, <1>8 DEF Locals, Rounds
<1> HIDE DEF f, X
<1>11. /\ r1 \in Rounds /\ r1.runs = r0.runs /\ r1.attempted = r0.attempted /\ r1.tried = r0.tried
       /\ r1.last = r0.last /\ r1.same = f /\ r1.excluded = r0.excluded
       /\ r1.samePending = r0.samePending
  BY <1>7, <1>9 DEF Rounds
<1>12. /\ r2 \in Rounds /\ r2.runs = r0.runs /\ r2.attempted = r0.attempted /\ r2.tried = r0.tried
       /\ r2.last = r0.last /\ r2.excluded = X /\ r2.samePending = r0.samePending
  BY <1>7, <1>9 DEF Rounds
<1> HIDE DEF r1, r2
<1>13. CASE /\ c' = [seen EXCEPT !.err = LastOr("other"), !.ending = {c.cur}, !.then = "failed"]
            /\ pc' = "end"
  <2>1. /\ c' \in Locals /\ c'.round = r0 /\ c'.cur = c.cur /\ c'.mine = c.mine
        /\ c'.ending = {c.cur} /\ c'.then = "failed"
    BY <1>1, <1>5, <1>8, <1>13 DEF Locals
  <2> QED BY <1>1, <1>6, <1>7, <1>13, <2>1 DEF a, n
<1>14. CASE /\ c' = [seen EXCEPT !.round = r2, !.ending = {c.cur}, !.then = "pick"]
            /\ pc' = "end"
  <2>1. /\ c' \in Locals /\ c'.round = r2 /\ c'.cur = c.cur /\ c'.mine = c.mine
        /\ c'.ending = {c.cur} /\ c'.then = "pick"
    BY <1>1, <1>8, <1>12, <1>14 DEF Locals
  <2>2. c.round.excluded \subseteq X
    BY <1>7 DEF X
  <2> QED BY <1>1, <1>6, <1>7, <1>12, <1>14, <2>1, <2>2 DEF a, n
<1>15. CASE /\ c' = [seen EXCEPT !.round = r1] /\ pc' = "bind"
            /\ ~(AllowSame /\ AtLimit /\ CurAuth # c.round.last)
            /\ CurAuth \in c.round.tried => CurAuth \notin c.round.excluded
  <2>1. /\ c' \in Locals /\ c'.round = r1 /\ c'.cur = c.cur /\ c'.mine = c.mine
        /\ c'.ending = c.ending
    BY <1>1, <1>8, <1>11, <1>15 DEF Locals
  <2>2. f = [c.round.same EXCEPT ![CurAuth] = SecondTry(CurAuth)]
    BY <1>7 DEF f, a, n
  <2> QED BY <1>1, <1>6, <1>7, <1>11, <1>15, <2>1, <2>2 DEF a, n
<1> QED BY <1>4, <1>10, <1>13, <1>14, <1>15

LEMMA TypeStep == TypeOK /\ HandInv /\ [Next]_vars => TypeOK'
<1> SUFFICES ASSUME TypeOK, HandInv, [Next]_vars PROVE TypeOK'
  OBVIOUS
<1> USE DEF TypeOK, selVars, sesVars
<1>1. ASSUME NEW s \in Sel, EndOne(s) PROVE TypeOK'
  BY <1>1 DEF EndOne, Locals
<1>2. CASE Acked
  BY <1>2 DEF Acked, Locals
<1>3. CASE AckTimeout
  BY <1>3 DEF AckTimeout, Fail, Locals
<1>4. CASE EndDone
  BY <1>4 DEF EndDone, Locals
<1>5. CASE PickLimit \/ TargetLost \/ DispatchNone \/ DispatchFails
  BY <1>5 DEF PickLimit, TargetLost, DispatchNone, DispatchFails, Fail, LastOr, Locals
<1>6. CASE Pick
  <2>1. PICK keep \in Sel \cup {None} :
           /\ session' = session \cap {keep}
           /\ EndThen([c EXCEPT !.cur = keep, !.isNew = FALSE, !.mine = @ \cup (session \ acked)],
                      session \ {keep}, IF keep = None THEN "target" ELSE "check")
    BY <1>6 DEF Pick
  <2>2. c' \in Locals
    BY <2>1 DEF EndThen, Locals
  <2> QED BY <1>6, <2>1, <2>2 DEF Pick, EndThen
<1>7. CASE Target
  BY <1>7 DEF Target, EndThen, Mismatched, Locals
<1>8. ASSUME NEW l \in Limits, DispatchCooldown(l) PROVE TypeOK'
  <2>1. Observed(l) \in Int
    BY LimitsAreInts DEF Observed, Locals
  <2>2. LastOr("cooldown") \in {"exhausted", "cooldown"}
    BY DEF LastOr
  <2>3. c' = [c EXCEPT !.remote = l, !.limit = IF c.round.lastErr THEN Observed(l) ELSE @,
                       !.err = LastOr("cooldown"), !.cur = None, !.ending = {}]
    BY <1>8 DEF DispatchCooldown, Fail, Locals
  <2>4. c' \in Locals
    BY <2>1, <2>2, <2>3 DEF Locals
  <2> QED BY <1>8, <2>4 DEF DispatchCooldown, Fail
<1>9. ASSUME NEW l \in Limits, NEW a \in Auth, Dispatch(a, l) PROVE TypeOK'
  BY <1>9 DEF Dispatch, EndThen, Mismatched, Unused, Locals, Targets, Limits
<1>10. CASE Check
  BY <1>10, CheckFacts DEF Check, EndThen
<1>11. CASE Bind \/ NoModels
  <2>1. CurAuth \in Auth /\ c.cur \in Sel
    BY <1>11 DEF Bind, NoModels, HandInv, CurAuth
  <2>2. CASE Bind /\ c.cur \in live \ drained
    <3>1. c' = [c EXCEPT !.round.tried = @ \cup {CurAuth}] /\ pc' = "exec" /\ live' = live
      BY <2>2 DEF Bind, CurAuth
    <3>2. c' \in Locals
      BY <2>1, <3>1 DEF Locals, Rounds
    <3> QED BY <2>2, <3>1, <3>2 DEF Bind
  <2>3. CASE Bind /\ c.cur \notin live \ drained
    <3>1. c' = [c EXCEPT !.err = "other", !.cur = None, !.ending = {}] /\ pc' = "failed"
          /\ live' = live \ {c.cur}
      BY <2>3 DEF Bind, Fail
    <3>2. c' \in Locals
      BY <3>1 DEF Locals
    <3> QED BY <2>3, <3>1, <3>2 DEF Bind
  <2>4. CASE NoModels
    <3>1. c' = [c EXCEPT !.round.excluded = @ \cup {CurAuth}, !.round.last = CurAuth,
                         !.round.samePending = FALSE, !.ending = {c.cur}, !.then = "pick"]
      BY <2>4 DEF NoModels, EndThen, CurAuth
    <3>2. c' \in Locals
      BY <2>1, <3>1 DEF Locals, Rounds
    <3> QED BY <2>4, <3>2 DEF NoModels, EndThen
  <2> QED BY <1>11, <2>2, <2>3, <2>4
<1>12. CASE ExecStops
  <2>1. CurAuth \in Auth
    BY <1>12 DEF ExecStops, HandInv, CurAuth
  <2>2. Executed(c) \in Locals
    BY <2>1, ExecutedFacts
  <2> QED BY <1>12, <2>2 DEF ExecStops, Fail, Locals
<1>13. CASE Retain
  <2>1. c' \in Locals
    BY <1>13, NewCallType DEF Retain, Return
  <2>2. c.cur \in Sel
    BY <1>13 DEF Retain, HandInv
  <2>3. live' \subseteq live /\ session' \subseteq session \cup {c.cur} /\ pumped' \subseteq pumped \cup {c.cur}
    BY <1>13 DEF Retain
  <2> QED BY <1>13, <2>1, <2>2, <2>3 DEF Retain, Return
<1>14. ASSUME NEW excludable \in BOOLEAN, NEW started \in BOOLEAN, NEW stopped \in BOOLEAN,
              ExecFails(excludable, started, stopped)
       PROVE  TypeOK'
  <2>1. c' \in Locals
    BY <1>14, ExecFailsFacts
  <2> QED BY <1>14, <2>1 DEF ExecFails, EndThen
<1>15. ASSUME NEW retain \in BOOLEAN, ExecStarts(retain) PROVE TypeOK'
  <2>1. CurAuth \in Auth
    BY <1>15 DEF ExecStarts, HandInv, CurAuth
  <2> QED BY <1>15, <2>1, ExecutedFacts DEF ExecStarts
<1>16. CASE FailReturns
  BY <1>16, NewCallType DEF FailReturns, Failed, Return
<1>17. CASE FailWaits \/ FailRetries
  <2>1. Observed(c.remote) \in Int /\ Fresh \in Rounds /\ Unset \in Limits
    BY LimitsAreInts, FreshType DEF Observed, Locals, Limits
  <2>2. CASE FailWaits
    BY <2>1, <2>2 DEF FailWaits, Failed, Locals
  <2>3. CASE FailRetries
    <3>1. c' = [c EXCEPT !.attempt = @ + 1, !.pending = TRUE, !.waited = FALSE, !.round = Fresh,
                         !.err = "none", !.remote = Unset]
      BY <2>3 DEF FailRetries
    <3>2. c.attempt + 1 \in Nat
      BY DEF Locals
    <3>3. ASSUME NEW n \in Nat
          PROVE  [c EXCEPT !.attempt = n, !.pending = TRUE, !.waited = FALSE, !.round = Fresh,
                         !.err = "none", !.remote = Unset] \in Locals
      BY <2>1 DEF Locals
    <3>4. c' \in Locals
      BY <3>1, <3>2, <3>3
    <3> QED BY <2>3, <3>4 DEF FailRetries, Failed
  <2> QED BY <1>17, <2>2, <2>3
<1>18. ASSUME NEW r \in Route, NEW pin \in Auth \cup {None}, Begin(r, pin) PROVE TypeOK'
  BY <1>18, NewCallType DEF Begin
<1>19. ASSUME NEW s \in Sel, Lose(s) \/ Ack(s) \/ PumpEnds(s) \/ ClearEnds(s) PROVE TypeOK'
  BY <1>19 DEF Lose, Ack, PumpEnds, ClearEnds, Locals
<1>20. CASE Drain \/ DisableHome \/ CloseSession
  BY <1>20 DEF Drain, DisableHome, CloseSession
<1>21. CASE UNCHANGED vars
  BY <1>21 DEF vars
<1> QED BY <1>1, <1>2, <1>3, <1>4, <1>5, <1>6, <1>7, <1>8, <1>9, <1>10, <1>11, <1>12, <1>13, <1>14,
           <1>15, <1>16, <1>17, <1>18, <1>19, <1>20, <1>21 DEF Next, CallStep

\* The two ways a step of the call ends.
LEMMA FailEffect ==
  ASSUME NEW x \in Locals, NEW e, Fail(x, e)
  PROVE  /\ pc' = "failed" /\ c'.err = e /\ c'.cur = None /\ c'.ending = {}
         /\ c'.mine = x.mine /\ c'.round = x.round
  BY DEF Fail, Locals

LEMMA EndThenEffect ==
  ASSUME NEW x \in Locals, NEW E, NEW p, EndThen(x, E, p)
  PROVE  /\ pc' = "end" /\ c'.ending = E /\ c'.then = p /\ c'.cur = x.cur
         /\ c'.mine = x.mine /\ c'.round = x.round
  BY DEF EndThen, Locals

\* What the steps between attempts do to what the call has in hand.
LEMMA CallEffects ==
  ASSUME TypeOK
  PROVE  /\ \A s \in Sel : EndOne(s) =>
               /\ c'.waiting = s /\ c'.ending = c.ending /\ c'.cur = c.cur /\ c'.then = c.then
               /\ c'.mine = c.mine /\ c'.round = c.round
         /\ Acked => /\ c'.ending = c.ending \ {c.waiting} /\ c'.then = c.then
                     /\ c'.cur = IF c.cur = c.waiting THEN None ELSE c.cur
                     /\ c'.mine = c.mine /\ c'.round = c.round
         /\ FailWaits \/ FailRetries =>
               /\ c'.cur = c.cur /\ c'.ending = c.ending /\ c'.mine = c.mine /\ c'.round = Fresh
         /\ \A s : Ack(s) =>
               /\ c'.cur = c.cur /\ c'.ending = c.ending /\ c'.then = c.then /\ c'.err = c.err
               /\ c'.waiting = c.waiting /\ c'.mine = c.mine \ {s} /\ c'.round = c.round
  BY DEF TypeOK, EndOne, Acked, FailWaits, FailRetries, Ack, Locals

\* Pick keeps one selection of the session and ends the others.
LEMMA PickEffect ==
  ASSUME TypeOK, Pick
  PROVE  \E keep \in session \cup {None} :
            /\ session' = session \cap {keep}
            /\ pc' = "end" /\ c'.cur = keep /\ c'.ending = session \ {keep}
            /\ c'.then = IF keep = None THEN "target" ELSE "check"
            /\ c'.mine = c.mine \cup (session \ acked) /\ c'.round = c.round
<1>1. PICK keep \in session \cup {None} :
         /\ session' = session \cap {keep}
         /\ EndThen([c EXCEPT !.cur = keep, !.isNew = FALSE, !.mine = @ \cup (session \ acked)],
                    session \ {keep}, IF keep = None THEN "target" ELSE "check")
  BY DEF Pick
<1> DEFINE x == [c EXCEPT !.cur = keep, !.isNew = FALSE, !.mine = @ \cup (session \ acked)]
<1>2. x \in Locals /\ x.cur = keep /\ x.mine = c.mine \cup (session \ acked) /\ x.round = c.round
  BY DEF TypeOK, Locals
<1> HIDE DEF x
<1>3. EndThen(x, session \ {keep}, IF keep = None THEN "target" ELSE "check")
  BY <1>1 DEF x
<1> QED BY <1>1, <1>2, <1>3, EndThenEffect

\* Dispatch takes a selection nobody has.
LEMMA DispatchEffect ==
  ASSUME TypeOK, NEW a \in Auth, NEW l \in Limits, Dispatch(a, l)
  PROVE  \E s \in Unused :
            /\ s \in Sel /\ live' = live \cup {s} /\ acked' = acked \ {s}
            /\ target'[s].auth = a /\ \A t \in Sel \ {s} : target'[t] = target[t]
            /\ session' = session \ Mismatched(a)
            /\ pc' = "end" /\ c'.cur = s /\ c'.ending = Mismatched(a) /\ c'.then = "check"
            /\ c'.mine = c.mine \cup {s} /\ c'.round = c.round
<1>1. PICK s \in Unused :
         /\ live' = live \cup {s} /\ acked' = acked \ {s}
         /\ target' = [target EXCEPT ![s] = [auth |-> a, route |-> c.route, retry |-> IF c.pinned = None THEN l ELSE Unset]]
         /\ session' = session \ Mismatched(a)
         /\ EndThen([c EXCEPT !.cur = s, !.isNew = TRUE, !.mine = @ \cup {s}], Mismatched(a), "check")
  BY DEF Dispatch
<1> DEFINE x == [c EXCEPT !.cur = s, !.isNew = TRUE, !.mine = @ \cup {s}]
<1>2. s \in Sel
  BY DEF Unused, TypeOK
<1>3. x \in Locals /\ x.cur = s /\ x.mine = c.mine \cup {s} /\ x.round = c.round
  BY <1>2 DEF TypeOK, Locals
<1> HIDE DEF x
<1>4. EndThen(x, Mismatched(a), "check")
  BY <1>1 DEF x
<1>5. target'[s].auth = a /\ \A t \in Sel \ {s} : target'[t] = target[t]
  BY <1>1, <1>2 DEF TypeOK
<1> QED BY <1>1, <1>2, <1>3, <1>4, <1>5, EndThenEffect

\* The attempt is bound, found to have no models, or started.
LEMMA ExecEffects ==
  ASSUME TypeOK, HandInv
  PROVE  /\ Bind /\ c.cur \in live \ drained =>
               /\ pc' = "exec" /\ live' = live
               /\ c'.cur = c.cur /\ c'.ending = c.ending /\ c'.mine = c.mine
               /\ c'.round.tried = c.round.tried \cup {CurAuth} /\ c'.round.runs = c.round.runs
               /\ c'.round.attempted = c.round.attempted /\ c'.round.same = c.round.same
               /\ c'.round.last = c.round.last /\ c'.round.samePending = c.round.samePending
               /\ c'.round.excluded = c.round.excluded
         /\ NoModels =>
               /\ pc' = "end" /\ c'.then = "pick" /\ c'.ending = {c.cur}
               /\ c'.cur = c.cur /\ c'.mine = c.mine
               /\ c'.round.tried = c.round.tried /\ c'.round.runs = c.round.runs
               /\ c'.round.attempted = c.round.attempted /\ c'.round.samePending = FALSE
               /\ c'.round.excluded = c.round.excluded \cup {CurAuth}
<1>1. c \in Locals /\ c.round \in Rounds
  BY DEF TypeOK, Locals
<1>2. ASSUME Bind, c.cur \in live \ drained
      PROVE  /\ pc' = "exec" /\ live' = live
             /\ c'.cur = c.cur /\ c'.ending = c.ending /\ c'.mine = c.mine
             /\ c'.round = [c.round EXCEPT !.tried = @ \cup {CurAuth}]
  BY <1>1, <1>2 DEF Bind, CurAuth, Locals
<1>3. ASSUME NoModels
      PROVE  /\ pc' = "end" /\ c'.then = "pick" /\ c'.ending = {c.cur}
             /\ c'.cur = c.cur /\ c'.mine = c.mine
             /\ c'.round = [c.round EXCEPT !.excluded = @ \cup {CurAuth}, !.last = CurAuth,
                                           !.samePending = FALSE]
  BY <1>1, <1>3 DEF NoModels, EndThen, CurAuth, Locals
<1> QED BY <1>1, <1>2, <1>3 DEF Rounds

LEMMA HandStep == TypeOK /\ HandInv /\ [Next]_vars => HandInv'
<1> SUFFICES ASSUME TypeOK, HandInv, [Next]_vars PROVE HandInv'
  OBVIOUS
<1> USE DEF HandInv, Ending, sesVars, selVars
<1>0. /\ c \in Locals /\ None \notin Sel /\ session \subseteq Sel /\ c.cur \in Sel \cup {None}
      /\ c.ending \subseteq Sel
  BY ConstantsOK DEF TypeOK, Locals
<1>F. ASSUME pc' = "failed", c'.cur = None, c'.ending = {}, session' = session, target' = target
      PROVE  HandInv'
  BY <1>F
<1>1. ASSUME NEW s \in Sel, EndOne(s) PROVE HandInv'
  BY <1>1, CallEffects DEF EndOne
<1>2. CASE Acked
  BY <1>2, CallEffects DEF Acked
<1>3. CASE AckTimeout
  BY <1>0, <1>3, <1>F, FailEffect DEF AckTimeout
<1>4. CASE EndDone
  <2>1. /\ pc = "end" /\ c.ending = {} /\ pc' = c.then /\ c' = c
        /\ UNCHANGED <<session, target, live>>
    BY <1>4 DEF EndDone
  <2>2. pc' \in {"pick", "target", "dispatch", "check", "failed"}
    BY <2>1 DEF TypeOK, Locals
  <2> QED BY <2>1, <2>2
<1>5. CASE PickLimit \/ TargetLost \/ DispatchNone \/ DispatchFails
  BY <1>0, <1>5, <1>F, FailEffect DEF PickLimit, TargetLost, DispatchNone, DispatchFails
<1>6. CASE Pick
  <2>1. UNCHANGED target
    BY <1>6 DEF Pick
  <2> QED BY <1>0, <1>6, <2>1, PickEffect
<1>7. CASE Target
  <2>1. /\ session = {} /\ c.cur = None /\ session' = session
        /\ EndThen(c, {}, "dispatch") /\ UNCHANGED target
    BY <1>7 DEF Target, Mismatched
  <2> QED BY <1>0, <2>1, EndThenEffect
<1>8. ASSUME NEW l \in Limits, DispatchCooldown(l) PROVE HandInv'
  <2>1. pc' = "failed" /\ c'.cur = None /\ c'.ending = {}
    BY <1>0, <1>8 DEF DispatchCooldown, Fail, Locals
  <2> QED BY <1>8, <1>F, <2>1 DEF DispatchCooldown
<1>9. ASSUME NEW l \in Limits, NEW a \in Auth, Dispatch(a, l) PROVE HandInv'
  <2>1. session = {} /\ Mismatched(a) = {}
    BY <1>9 DEF Dispatch, Mismatched
  <2> QED BY <1>0, <1>9, <2>1, DispatchEffect
<1>10. CASE Check
  <2>1. UNCHANGED <<session, target>> /\ pc = "check" /\ c.ending = {} /\ c.cur \in Sel
    BY <1>10 DEF Check
  <2> QED BY <1>0, <1>10, <2>1, CheckFacts
<1>11. CASE Bind
  <2>1. UNCHANGED <<session, target>> /\ pc = "bind" /\ c.ending = {} /\ c.cur \in Sel
    BY <1>11 DEF Bind
  <2>2. CASE c.cur \in live \ drained
    BY <1>11, <2>1, <2>2, ExecEffects
  <2>3. CASE c.cur \notin live \ drained
    BY <1>0, <1>11, <1>F, <2>1, <2>3, FailEffect DEF Bind
  <2> QED BY <2>2, <2>3
<1>12. CASE NoModels
  <2>1. UNCHANGED <<session, target>>
    BY <1>12 DEF NoModels
  <2> QED BY <1>0, <1>12, <2>1, ExecEffects
<1>13. CASE ExecStops
  <2>1. Executed(c) \in Locals
    BY <1>13, ExecutedFacts DEF ExecStops, CurAuth
  <2> QED BY <1>13, <1>F, <2>1, FailEffect DEF ExecStops
<1>14. CASE Retain
  <2>1. c' = NewCall(None, None) /\ pc' = "idle" /\ UNCHANGED target
    BY <1>14 DEF Retain, Return
  <2>2. c'.cur = None /\ c'.ending = {}
    BY <2>1 DEF NewCall
  <2>3. session' = {c.cur} \/ session' = session
    BY <1>14 DEF Retain
  <2>4. target[c.cur].auth \in Auth
    BY <1>14 DEF Retain
  <2> QED BY <2>1, <2>2, <2>3, <2>4
<1>15. ASSUME NEW excludable \in BOOLEAN, NEW started \in BOOLEAN, NEW stopped \in BOOLEAN,
              ExecFails(excludable, started, stopped)
       PROVE  HandInv'
  <2>1. UNCHANGED <<session, target>>
    BY <1>15 DEF ExecFails
  <2>2. /\ pc = "exec" /\ pc' = "end" /\ c'.cur = c.cur /\ c'.ending = {c.cur}
        /\ c'.then \in {"failed", "pick"}
    BY <1>15, ExecFailsFacts
  <2> QED BY <2>1, <2>2
<1>16. ASSUME NEW retain \in BOOLEAN, ExecStarts(retain) PROVE HandInv'
  <2>1. UNCHANGED <<session, target>> /\ pc = "exec" /\ pc' = "retain" /\ c' = Executed(c)
    BY <1>16 DEF ExecStarts
  <2>2. c'.cur = c.cur /\ c'.ending = c.ending
    BY <2>1, ExecutedFacts DEF CurAuth
  <2> QED BY <2>1, <2>2
<1>17. CASE FailReturns
  <2>1. c' = NewCall(None, None) /\ pc' = "idle" /\ UNCHANGED <<target, session>>
    BY <1>17 DEF FailReturns, Failed, Return
  <2> QED BY <2>1 DEF NewCall
<1>18. CASE FailWaits \/ FailRetries
  <2>1. pc = "failed" /\ pc' = "pick" /\ UNCHANGED <<target, session>>
    BY <1>18 DEF FailWaits, FailRetries, Failed
  <2> QED BY <1>18, <2>1, CallEffects
<1>19. ASSUME NEW r \in Route, NEW pin \in Auth \cup {None}, Begin(r, pin) PROVE HandInv'
  BY <1>19 DEF Begin, NewCall
<1>20. ASSUME NEW s \in Sel, Ack(s) PROVE HandInv'
  BY <1>20, CallEffects DEF Ack
<1>21. ASSUME NEW s \in Sel, Lose(s) \/ PumpEnds(s) \/ ClearEnds(s) PROVE HandInv'
  BY <1>21 DEF Lose, PumpEnds, ClearEnds
<1>22. CASE Drain \/ DisableHome \/ CloseSession
  BY <1>22 DEF Drain, DisableHome, CloseSession
<1>23. CASE UNCHANGED vars
  BY <1>23 DEF vars
<1> QED BY <1>1, <1>2, <1>3, <1>4, <1>5, <1>6, <1>7, <1>8, <1>9, <1>10, <1>11, <1>12, <1>13, <1>14,
           <1>15, <1>16, <1>17, <1>18, <1>19, <1>20, <1>21, <1>22, <1>23 DEF Next, CallStep

LEMMA OrphanStep == TypeOK /\ HandInv /\ NoOrphan /\ [Next]_vars => NoOrphan'
<1> SUFFICES ASSUME TypeOK, HandInv, NoOrphan, [Next]_vars PROVE NoOrphan'
  OBVIOUS
<1> USE DEF NoOrphan, sesVars, selVars
<1>0. /\ c \in Locals /\ None \notin Sel /\ live \subseteq Sel /\ session \subseteq Sel
  BY ConstantsOK DEF TypeOK
<1>1. ASSUME NEW s \in Sel, EndOne(s) PROVE NoOrphan'
  BY <1>1, CallEffects DEF EndOne
<1>2. CASE Acked
  <2>1. c.waiting \notin live
    BY <1>2 DEF Acked, HandInv
  <2> QED BY <1>2, <2>1, CallEffects DEF Acked
<1>3. CASE AckTimeout
  <2>1. pc = "wait" /\ c.ending = {c.waiting} /\ c.waiting \notin live
    BY <1>3 DEF AckTimeout, HandInv
  <2>2. c.then # "check" /\ c.cur \in {None, c.waiting}
    BY <2>1 DEF HandInv, Ending
  <2>3. live \subseteq session \cup pumped \cup cleared
    BY <1>0, <2>1, <2>2
  <2>4. pc' = "failed" /\ live' \subseteq live /\ UNCHANGED <<session, pumped, cleared>>
    BY <1>3 DEF AckTimeout, Fail
  <2> QED BY <2>3, <2>4
<1>4. CASE EndDone
  <2>1. /\ pc = "end" /\ c.ending = {} /\ pc' = c.then /\ c' = c
        /\ UNCHANGED <<session, pumped, cleared, live>>
    BY <1>4 DEF EndDone
  <2>2. c.then # "check" => c.cur = None
    BY <2>1 DEF HandInv
  <2> QED BY <1>0, <2>1, <2>2
<1>5. CASE PickLimit \/ TargetLost \/ DispatchNone \/ DispatchFails
  <2>1. c.cur = None /\ c.ending = {} /\ pc' = "failed" /\ UNCHANGED <<live, session, pumped, cleared>>
    BY <1>5 DEF PickLimit, TargetLost, DispatchNone, DispatchFails, Fail, HandInv
  <2> QED BY <1>0, <2>1
<1>6. CASE Pick
  <2>1. /\ c.cur = None /\ c.ending = {} /\ pc = "pick" /\ UNCHANGED <<live, pumped, cleared>>
    BY <1>6 DEF Pick, HandInv
  <2> QED BY <1>0, <1>6, <2>1, PickEffect
<1>7. CASE Target
  <2>1. /\ session = {} /\ c.cur = None /\ c.ending = {} /\ pc' = "end"
        /\ UNCHANGED <<live, session, pumped, cleared>>
    BY <1>7 DEF Target, Mismatched, HandInv, EndThen
  <2> QED BY <1>0, <2>1
<1>8. ASSUME NEW l \in Limits, DispatchCooldown(l) PROVE NoOrphan'
  <2>1. c.cur = None /\ c.ending = {} /\ pc' = "failed" /\ UNCHANGED <<live, session, pumped, cleared>>
    BY <1>8 DEF DispatchCooldown, Fail, HandInv
  <2> QED BY <1>0, <2>1
<1>9. ASSUME NEW l \in Limits, NEW a \in Auth, Dispatch(a, l) PROVE NoOrphan'
  <2>1. /\ session = {} /\ c.cur = None /\ c.ending = {} /\ UNCHANGED <<pumped, cleared>>
    BY <1>9 DEF Dispatch, HandInv
  <2> QED BY <1>0, <1>9, <2>1, DispatchEffect
<1>10. CASE Check
  <2>1. /\ pc = "check" /\ c.ending = {} /\ UNCHANGED <<live, session, pumped, cleared>>
    BY <1>10 DEF Check, HandInv
  <2> QED BY <1>10, <2>1, CheckFacts
<1>11. CASE Bind
  <2>1. /\ pc = "bind" /\ c.ending = {} /\ UNCHANGED <<session, pumped, cleared>>
    BY <1>11 DEF Bind, HandInv
  <2>2. CASE c.cur \in live \ drained
    BY <1>11, <2>1, <2>2, ExecEffects
  <2>3. CASE c.cur \notin live \ drained
    BY <1>11, <2>1, <2>3 DEF Bind, Fail
  <2> QED BY <2>2, <2>3
<1>12. CASE NoModels
  <2>1. UNCHANGED <<live, session, pumped, cleared>> /\ pc = "exec" /\ c.ending = {}
    BY <1>12 DEF NoModels, HandInv
  <2> QED BY <1>12, <2>1, ExecEffects
<1>13. CASE ExecStops
  BY <1>13 DEF ExecStops, Fail, HandInv
<1>14. CASE Retain
  <2>1. pc = "retain" /\ pc' = "idle" /\ c.ending = {} /\ UNCHANGED cleared
    BY <1>14 DEF Retain, Return, HandInv
  <2>2. CASE c.cur \in kept \cap live
    <3>1. session' = {c.cur} /\ live' \cap session \subseteq {c.cur} /\ live' \subseteq live
          /\ pumped' = pumped
      BY <1>14, <2>2 DEF Retain, Mismatched
    <3> QED BY <2>1, <3>1
  <2>3. CASE c.cur \notin kept \cap live
    BY <1>14, <2>1, <2>3 DEF Retain
  <2> QED BY <2>2, <2>3
<1>15. ASSUME NEW excludable \in BOOLEAN, NEW started \in BOOLEAN, NEW stopped \in BOOLEAN,
              ExecFails(excludable, started, stopped)
       PROVE  NoOrphan'
  <2>1. UNCHANGED <<live, session, pumped, cleared>> /\ c.ending = {}
    BY <1>15 DEF ExecFails, HandInv
  <2>2. pc = "exec" /\ pc' = "end" /\ c'.cur = c.cur /\ c'.ending = {c.cur}
    BY <1>15, ExecFailsFacts
  <2> QED BY <2>1, <2>2
<1>16. ASSUME NEW retain \in BOOLEAN, ExecStarts(retain) PROVE NoOrphan'
  <2>1. /\ UNCHANGED <<live, session, pumped, cleared>> /\ pc = "exec" /\ pc' = "retain"
        /\ c' = Executed(c)
    BY <1>16 DEF ExecStarts
  <2>2. c'.cur = c.cur /\ c'.ending = c.ending
    BY <2>1, ExecutedFacts DEF CurAuth, HandInv
  <2> QED BY <2>1, <2>2
<1>17. CASE FailReturns
  BY <1>17 DEF FailReturns, Failed, Return
<1>18. CASE FailWaits \/ FailRetries
  BY <1>18 DEF FailWaits, FailRetries, Failed
<1>19. ASSUME NEW r \in Route, NEW pin \in Auth \cup {None}, Begin(r, pin) PROVE NoOrphan'
  BY <1>19 DEF Begin
<1>20. ASSUME NEW s \in Sel, Ack(s) PROVE NoOrphan'
  BY <1>20, CallEffects DEF Ack
<1>21. ASSUME NEW s \in Sel, Lose(s) \/ PumpEnds(s) \/ ClearEnds(s) PROVE NoOrphan'
  BY <1>21 DEF Lose, PumpEnds, ClearEnds
<1>22. CASE Drain \/ DisableHome \/ CloseSession
  BY <1>22 DEF Drain, DisableHome, CloseSession
<1>23. CASE UNCHANGED vars
  BY <1>23 DEF vars
<1> QED BY <1>1, <1>2, <1>3, <1>4, <1>5, <1>6, <1>7, <1>8, <1>9, <1>10, <1>11, <1>12, <1>13, <1>14,
           <1>15, <1>16, <1>17, <1>18, <1>19, <1>20, <1>21, <1>22, <1>23 DEF Next, CallStep

LEMMA MineStep == TypeOK /\ HandInv /\ MineInv /\ [Next]_vars => MineInv'
<1> SUFFICES ASSUME TypeOK, HandInv, MineInv, [Next]_vars PROVE MineInv'
  OBVIOUS
<1> USE DEF MineInv, sesVars, selVars
<1>0. /\ c \in Locals /\ None \notin Sel /\ session \subseteq Sel /\ c.mine \subseteq Sel
  BY ConstantsOK DEF TypeOK, Locals
<1>N. ASSUME c' = NewCall(None, None), pc' = "idle" PROVE MineInv'
  <2>1. c'.mine = {}
    BY <1>N DEF NewCall
  <2> QED BY <1>N, <2>1
<1>1. ASSUME NEW s \in Sel, EndOne(s) PROVE MineInv'
  BY <1>1, CallEffects DEF EndOne
<1>2. CASE Acked
  BY <1>2, CallEffects DEF Acked
<1>3. CASE AckTimeout
  BY <1>0, <1>3, FailEffect DEF AckTimeout
<1>4. CASE EndDone
  <2>1. /\ pc = "end" /\ c.ending = {} /\ pc' = c.then /\ c' = c /\ UNCHANGED acked
    BY <1>4 DEF EndDone
  <2>2. pc' \in {"pick", "target", "dispatch", "check", "failed"}
    BY <2>1 DEF TypeOK, Locals, HandInv
  <2> QED BY <2>1, <2>2
<1>5. CASE PickLimit \/ TargetLost \/ DispatchNone \/ DispatchFails
  <2>1. c.mine = {} /\ UNCHANGED acked
    BY <1>5 DEF PickLimit, TargetLost, DispatchNone, DispatchFails
  <2>2. pc' = "failed" /\ c'.mine = c.mine
    BY <1>0, <1>5, FailEffect DEF PickLimit, TargetLost, DispatchNone, DispatchFails
  <2> QED BY <2>1, <2>2
<1>6. CASE Pick
  <2>1. UNCHANGED acked /\ c.mine = {}
    BY <1>6 DEF Pick
  <2> QED BY <1>0, <1>6, <2>1, PickEffect
<1>7. CASE Target
  <2>1. EndThen(c, {}, "dispatch") /\ UNCHANGED acked /\ c.mine = {}
    BY <1>7 DEF Target, Mismatched, HandInv
  <2> QED BY <1>0, <2>1, EndThenEffect
<1>8. ASSUME NEW l \in Limits, DispatchCooldown(l) PROVE MineInv'
  <2>1. pc' = "failed" /\ c'.mine = c.mine /\ c.mine = {} /\ UNCHANGED acked
    BY <1>0, <1>8 DEF DispatchCooldown, Fail, Locals
  <2> QED BY <2>1
<1>9. ASSUME NEW l \in Limits, NEW a \in Auth, Dispatch(a, l) PROVE MineInv'
  <2>1. c.mine = {}
    BY <1>9 DEF Dispatch
  <2> QED BY <1>0, <1>9, <2>1, DispatchEffect
<1>10. CASE Check
  <2>1. UNCHANGED acked /\ pc = "check"
    BY <1>10 DEF Check
  <2> QED BY <1>10, <2>1, CheckFacts
<1>11. CASE Bind
  <2>1. UNCHANGED acked /\ pc = "bind"
    BY <1>11 DEF Bind
  <2>2. CASE c.cur \in live \ drained
    BY <1>11, <2>1, <2>2, ExecEffects
  <2>3. CASE c.cur \notin live \ drained
    <3>1. pc' = "failed" /\ c'.err = "other" /\ c'.mine = c.mine
      BY <1>0, <1>11, <2>3, FailEffect DEF Bind
    <3> QED BY <2>1, <3>1
  <2> QED BY <2>2, <2>3
<1>12. CASE NoModels
  <2>1. UNCHANGED acked /\ pc = "exec"
    BY <1>12 DEF NoModels
  <2> QED BY <1>12, <2>1, ExecEffects
<1>13. CASE ExecStops
  <2>1. Executed(c) \in Locals /\ Executed(c).mine = c.mine
    BY <1>13, ExecutedFacts DEF ExecStops, CurAuth, HandInv
  <2>2. pc' = "failed" /\ c'.err = "stop" /\ c'.mine = c.mine /\ UNCHANGED acked
    BY <1>13, <2>1, FailEffect DEF ExecStops
  <2> QED BY <2>2
<1>14. CASE Retain \/ FailReturns
  BY <1>14, <1>N DEF Retain, FailReturns, Failed, Return
<1>15. ASSUME NEW excludable \in BOOLEAN, NEW started \in BOOLEAN, NEW stopped \in BOOLEAN,
              ExecFails(excludable, started, stopped)
       PROVE  MineInv'
  <2>1. UNCHANGED acked
    BY <1>15 DEF ExecFails
  <2>2. /\ pc = "exec" /\ pc' = "end" /\ c'.ending = {c.cur} /\ c'.mine = c.mine
        /\ c'.then \in {"failed", "pick"}
    BY <1>15, ExecFailsFacts
  <2> QED BY <2>1, <2>2
<1>16. ASSUME NEW retain \in BOOLEAN, ExecStarts(retain) PROVE MineInv'
  <2>1. UNCHANGED acked /\ pc = "exec" /\ pc' = "retain" /\ c' = Executed(c)
    BY <1>16 DEF ExecStarts
  <2>2. c'.cur = c.cur /\ c'.mine = c.mine
    BY <2>1, ExecutedFacts DEF CurAuth, HandInv
  <2> QED BY <2>1, <2>2
<1>17. CASE FailWaits \/ FailRetries
  <2>1. c.mine = {} /\ pc' = "pick"
    BY <1>17 DEF FailWaits, FailRetries, Failed
  <2> QED BY <1>17, <2>1, CallEffects
<1>18. ASSUME NEW r \in Route, NEW pin \in Auth \cup {None}, Begin(r, pin) PROVE MineInv'
  <2>1. c'.mine = {} /\ pc' = "pick"
    BY <1>18 DEF Begin, NewCall
  <2> QED BY <2>1
<1>19. ASSUME NEW s \in Sel, Ack(s) PROVE MineInv'
  BY <1>19, CallEffects DEF Ack
<1>20. ASSUME NEW s \in Sel, Lose(s) \/ PumpEnds(s) \/ ClearEnds(s) PROVE MineInv'
  BY <1>20 DEF Lose, PumpEnds, ClearEnds
<1>21. CASE Drain \/ DisableHome \/ CloseSession
  BY <1>21 DEF Drain, DisableHome, CloseSession
<1>22. CASE UNCHANGED vars
  BY <1>22 DEF vars
<1> QED BY <1>1, <1>2, <1>3, <1>4, <1>5, <1>6, <1>7, <1>8, <1>9, <1>10, <1>11, <1>12, <1>13, <1>14,
           <1>15, <1>16, <1>17, <1>18, <1>19, <1>20, <1>21, <1>22 DEF Next, CallStep

LEMMA HandInit == Init => TypeOK /\ HandInv /\ MineInv /\ NoOrphan
<1> SUFFICES ASSUME Init PROVE HandInv /\ MineInv /\ NoOrphan
  BY TypeInit
<1>1. c.cur = None /\ c.ending = {} /\ c.mine = {}
  BY DEF Init, NewCall
<1> QED BY <1>1 DEF Init, HandInv, MineInv, NoOrphan, Ending

\* A slot at Home is always in somebody's hands, whichever way the call leaves its
\* loops, and the call asks Home for one only when Home has acknowledged all it had.
THEOREM ExecutionSlotsInHand == Spec => []SlotsInHand
<1> DEFINE IInv == TypeOK /\ HandInv /\ MineInv /\ NoOrphan
<1>1. Init => IInv
  BY HandInit
<1>2. IInv /\ [Next]_vars => IInv'
  BY TypeStep, HandStep, MineStep, OrphanStep
<1>3. IInv => SlotsInHand
  BY DEF HandInv, MineInv, SlotsInHand, DispatchHoldsNoSlot
<1> QED BY <1>1, <1>2, <1>3, PTL DEF Spec

-----------------------------------------------------------------------------
\* One more credential makes the set of attempted ones larger by one at most.
LEMMA OneMore ==
  ASSUME NEW S, IsFiniteSet(S), NEW a
  PROVE  /\ IsFiniteSet(S \cup {a}) /\ Cardinality(S) \in Nat /\ Cardinality(S \cup {a}) \in Nat
         /\ Cardinality(S \cup {a}) <= Cardinality(S) + 1
         /\ a \in S => Cardinality(S \cup {a}) = Cardinality(S)
<1>1. IsFiniteSet(S \cup {a}) /\ Cardinality(S) \in Nat
  BY FS_AddElement, FS_CardinalityType
<1>2. Cardinality(S \cup {a}) = IF a \in S THEN Cardinality(S) ELSE Cardinality(S) + 1
  BY FS_AddElement
<1> QED BY <1>1, <1>2

\* Whether a retry of the same credential is allowed, and whether the limit is
\* reached, depends on the round alone.
LEMMA RoundFrame ==
  ASSUME c'.round = c.round
  PROVE  (AllowSame' <=> AllowSame) /\ (AtLimit' <=> AtLimit)
  BY DEF AllowSame, AtLimit

LEMMA FreshRound ==
  ASSUME c'.round = Fresh, pc' \notin {"target", "dispatch", "check", "bind", "exec", "end", "wait"}
  PROVE  RoundInv'
<1>1. /\ Fresh.attempted = {} /\ Fresh.samePending = FALSE
      /\ \A a \in Auth : Fresh.runs[a] = 0
  BY DEF Fresh
<1>2. IsFiniteSet({})
  BY FS_EmptySet
<1> QED BY <1>1, <1>2 DEF RoundInv, Ending

LEMMA RoundStep == TypeOK /\ HandInv /\ RoundInv /\ RoundBounded /\ [Next]_vars => RoundInv' /\ RoundBounded'
<1> SUFFICES ASSUME TypeOK, HandInv, RoundInv, RoundBounded, [Next]_vars PROVE RoundInv' /\ RoundBounded'
  OBVIOUS
<1> USE DEF sesVars, selVars
<1>0. /\ c \in Locals /\ c.round \in Rounds /\ c.round.runs \in [Auth -> Nat] /\ c.round.same \in [Auth -> Nat]
      /\ IsFiniteSet(c.round.attempted) /\ MaxRetryCredentials \in Nat
  BY ConstantsOK DEF TypeOK, Locals, Rounds, RoundInv
<1>B. ASSUME c'.round.runs = c.round.runs, c'.round.attempted = c.round.attempted PROVE RoundBounded'
  BY <1>B DEF RoundBounded
<1>S. ASSUME c'.round = c.round, pc' \in {"pick", "failed", "idle", "closed", "retain"}, pc # "retain" \/ pc' = "retain",
             pc # "failed" \/ pc' = "failed"
      PROVE  RoundInv' /\ RoundBounded'
  BY <1>B, <1>S DEF RoundInv, Ending
<1>T. ASSUME c'.round = c.round, c'.cur = c.cur, target' = target, pc' = pc, c'.then = c.then
      PROVE  RoundInv' /\ RoundBounded'
  BY <1>B, <1>T, RoundFrame DEF RoundInv, Ending, RoomOrSame, CurAuth
<1>F. ASSUME c'.round = Fresh, pc' \notin {"target", "dispatch", "check", "bind", "exec", "end", "wait"}
      PROVE  RoundInv' /\ RoundBounded'
  <2>1. RoundInv'
    BY <1>F, FreshRound
  <2>2. /\ Fresh.attempted = {} /\ \A a \in Auth : Fresh.runs[a] = 0
    BY DEF Fresh
  <2>3. Cardinality({}) = 0
    BY FS_EmptySet
  <2> QED BY <1>0, <1>F, <2>1, <2>2, <2>3 DEF RoundBounded
<1>1. ASSUME NEW s \in Sel, EndOne(s) PROVE RoundInv' /\ RoundBounded'
  <2>1. c'.round = c.round /\ c'.then = c.then /\ pc = "end" /\ pc' = "wait"
    BY <1>1, CallEffects DEF EndOne
  <2> QED BY <1>B, <2>1, RoundFrame DEF RoundInv, Ending, RoomOrSame
<1>2. CASE Acked
  <2>1. c'.round = c.round /\ c'.then = c.then /\ pc = "wait" /\ pc' = "end"
    BY <1>2, CallEffects DEF Acked
  <2> QED BY <1>B, <2>1, RoundFrame DEF RoundInv, Ending, RoomOrSame
<1>3. CASE AckTimeout
  <2>1. c'.round = c.round /\ pc = "wait" /\ pc' = "failed"
    BY <1>0, <1>3, FailEffect DEF AckTimeout
  <2> QED BY <1>S, <2>1
<1>4. CASE EndDone
  <2>1. c' = c /\ pc = "end" /\ pc' = c.then /\ c.then # "idle" /\ UNCHANGED target
    BY <1>4 DEF EndDone, HandInv
  <2>2. pc' \in {"pick", "target", "dispatch", "check", "failed"}
    BY <2>1 DEF TypeOK, Locals
  <2> QED BY <1>B, <2>1, <2>2, RoundFrame DEF RoundInv, Ending, RoomOrSame
<1>5. CASE PickLimit \/ TargetLost \/ DispatchNone \/ DispatchFails
  <2>1. c'.round = c.round /\ pc \in {"pick", "target", "dispatch"} /\ pc' = "failed"
    BY <1>0, <1>5, FailEffect DEF PickLimit, TargetLost, DispatchNone, DispatchFails
  <2> QED BY <1>S, <2>1
<1>6. CASE Pick
  <2>1. c'.round = c.round /\ pc = "pick" /\ pc' = "end" /\ (AllowSame \/ ~AtLimit)
    BY <1>6, PickEffect DEF Pick
  <2> QED BY <1>B, <2>1, RoundFrame DEF RoundInv, Ending, RoomOrSame
<1>7. CASE Target
  <2>1. c'.round = c.round /\ pc = "target" /\ pc' = "end"
    BY <1>0, <1>7, EndThenEffect DEF Target
  <2> QED BY <1>B, <2>1, RoundFrame DEF RoundInv, Ending, RoomOrSame
<1>8. ASSUME NEW l \in Limits, DispatchCooldown(l) PROVE RoundInv' /\ RoundBounded'
  <2>1. c'.round = c.round /\ pc = "dispatch" /\ pc' = "failed"
    BY <1>0, <1>8 DEF DispatchCooldown, Fail, Locals
  <2> QED BY <1>S, <2>1
<1>9. ASSUME NEW l \in Limits, NEW a \in Auth, Dispatch(a, l) PROVE RoundInv' /\ RoundBounded'
  <2>1. c'.round = c.round /\ pc = "dispatch" /\ pc' = "end"
    BY <1>9, DispatchEffect DEF Dispatch
  <2> QED BY <1>B, <2>1, RoundFrame DEF RoundInv, Ending, RoomOrSame
<1>10. CASE Check
  <2>1. /\ pc = "check" /\ UNCHANGED target /\ CurAuth' = CurAuth /\ RoomOrSame
    BY <1>10, CheckFacts DEF Check, CurAuth, RoundInv
  <2>2. /\ c'.round.runs = c.round.runs /\ c'.round.attempted = c.round.attempted
        /\ c'.round.tried = c.round.tried /\ c'.round.last = c.round.last
        /\ c'.round.samePending => c.round.samePending
        /\ c.round.excluded \subseteq c'.round.excluded
        /\ CurAuth \in Auth /\ SecondTry(CurAuth) \in Nat
    BY <1>10, CheckFacts
  <2>3. RoundBounded'
    BY <1>B, <2>2
  <2>4. CASE pc' = "end" /\ c'.then \in {"failed", "pick"}
    BY <2>1, <2>2, <2>3, <2>4 DEF RoundInv, Ending
  <2>5. CASE /\ pc' = "bind"
             /\ c'.round.same = [c.round.same EXCEPT ![CurAuth] = SecondTry(CurAuth)]
             /\ ~(AllowSame /\ AtLimit /\ CurAuth # c.round.last)
             /\ CurAuth \in c.round.tried => CurAuth \notin c.round.excluded
    <3>1. c'.round.same[CurAuth] = SecondTry(CurAuth)
      BY <1>0, <2>2, <2>5
    <3>2. c.round.runs[CurAuth] <= 1
      BY <1>0, <2>1, <2>2, <2>5 DEF RoundInv
    <3>3. c.round.runs[CurAuth] = 1 => SecondTry(CurAuth) >= 1
      BY <1>0, <2>2 DEF RoundInv, SecondTry
    <3>4. CurAuth \in c.round.attempted \/ ~AtLimit
      BY <2>1, <2>5 DEF RoomOrSame, AllowSame, RoundInv
    <3>5. AtLimit' <=> AtLimit
      BY <2>2 DEF AtLimit
    <3> QED BY <2>1, <2>2, <2>3, <2>5, <3>1, <3>2, <3>3, <3>4, <3>5 DEF RoundInv, Ending
  <2> QED BY <1>10, <2>4, <2>5, CheckFacts
<1>11. CASE Bind
  <2>1. pc = "bind" /\ UNCHANGED target
    BY <1>11 DEF Bind
  <2>2. CASE c.cur \in live \ drained
    <3>1. /\ pc' = "exec" /\ CurAuth' = CurAuth
          /\ c'.round.tried = c.round.tried \cup {CurAuth} /\ c'.round.runs = c.round.runs
          /\ c'.round.attempted = c.round.attempted /\ c'.round.same = c.round.same
          /\ c'.round.last = c.round.last /\ c'.round.samePending = c.round.samePending
          /\ c'.round.excluded = c.round.excluded
      BY <1>11, <2>1, <2>2, ExecEffects DEF CurAuth
    <3>2. AtLimit' <=> AtLimit
      BY <3>1 DEF AtLimit
    <3> QED BY <1>B, <2>1, <3>1, <3>2 DEF RoundInv, Ending
  <2>3. CASE c.cur \notin live \ drained
    <3>1. c'.round = c.round /\ pc' = "failed"
      BY <1>0, <1>11, <2>3, FailEffect DEF Bind
    <3> QED BY <1>S, <2>1, <3>1
  <2> QED BY <2>2, <2>3
<1>12. CASE NoModels
  <2>1. /\ pc = "exec" /\ pc' = "end" /\ c'.then = "pick"
        /\ c'.round.tried = c.round.tried /\ c'.round.runs = c.round.runs
        /\ c'.round.attempted = c.round.attempted /\ c'.round.samePending = FALSE
        /\ c'.round.excluded = c.round.excluded \cup {CurAuth}
    BY <1>12, ExecEffects DEF NoModels
  <2> QED BY <1>B, <2>1 DEF RoundInv, Ending
<1>E. ASSUME pc = "exec", CurAuth \in Auth,
             c'.round.runs = [c.round.runs EXCEPT ![CurAuth] = @ + 1],
             c'.round.attempted = c.round.attempted \cup {CurAuth}
      PROVE  RoundBounded' /\ IsFiniteSet(c'.round.attempted)
  <2>1. /\ c.round.runs[CurAuth] <= 1 /\ (CurAuth \in c.round.attempted \/ ~AtLimit)
    BY <1>E DEF RoundInv
  <2>2. \A a \in Auth : c'.round.runs[a] <= 2
    BY <1>0, <1>E, <2>1 DEF RoundBounded
  <2> DEFINE S == c.round.attempted
  <2>3. /\ IsFiniteSet(S \cup {CurAuth}) /\ Cardinality(S) \in Nat /\ Cardinality(S \cup {CurAuth}) \in Nat
        /\ Cardinality(S \cup {CurAuth}) <= Cardinality(S) + 1
        /\ CurAuth \in S => Cardinality(S \cup {CurAuth}) = Cardinality(S)
    BY <1>0, OneMore
  <2>4. MaxRetryCredentials > 0 =>
           /\ Cardinality(S) <= MaxRetryCredentials
           /\ CurAuth \in S \/ ~(Cardinality(S) >= MaxRetryCredentials)
    BY <2>1 DEF AtLimit, RoundBounded
  <2> HIDE DEF S
  <2>5. MaxRetryCredentials > 0 => Cardinality(S \cup {CurAuth}) <= MaxRetryCredentials
    BY <1>0, <2>3, <2>4
  <2> QED BY <1>E, <2>2, <2>3, <2>5 DEF RoundBounded, S
<1>13. CASE ExecStops
  <2>1. pc = "exec" /\ CurAuth \in Auth
    BY <1>13 DEF ExecStops, HandInv, CurAuth
  <2>2. pc' = "failed" /\ c'.round = Executed(c).round
    BY <1>13, <2>1, ExecutedFacts, FailEffect DEF ExecStops
  <2> QED BY <1>0, <1>E, <2>1, <2>2, ExecutedFacts DEF RoundInv, Ending
<1>14. CASE Retain \/ FailReturns
  <2>1. c' = NewCall(None, None) /\ pc' = "idle"
    BY <1>14 DEF Retain, FailReturns, Return
  <2>2. c'.round = Fresh
    BY <2>1 DEF NewCall
  <2> QED BY <1>F, <2>1, <2>2
<1>15. ASSUME NEW excludable \in BOOLEAN, NEW started \in BOOLEAN, NEW stopped \in BOOLEAN,
              ExecFails(excludable, started, stopped)
       PROVE  RoundInv' /\ RoundBounded'
  <2> DEFINE out == excludable \/ c.round.same[CurAuth] > 0
  <2>1. /\ pc = "exec" /\ pc' = "end" /\ CurAuth \in Auth /\ c'.then \in {"failed", "pick"}
        /\ c'.round.runs = [c.round.runs EXCEPT ![CurAuth] = @ + 1]
        /\ c'.round.attempted = c.round.attempted \cup {CurAuth}
        /\ c'.round.tried = c.round.tried /\ c'.round.last = CurAuth
        /\ c'.round.excluded = c.round.excluded \cup (IF out THEN {CurAuth} ELSE {})
    BY <1>15, ExecFailsFacts
  <2>2. RoundBounded' /\ IsFiniteSet(c'.round.attempted)
    BY <1>E, <2>1
  <2>3. /\ c.round.runs[CurAuth] <= 1 /\ CurAuth \in c.round.tried
        /\ c.round.runs[CurAuth] = 1 => c.round.same[CurAuth] >= 1
    BY <2>1 DEF RoundInv
  <2>4. ASSUME NEW a \in Auth \ c'.round.excluded PROVE c'.round.runs[a] <= 1
    <3>1. CASE a # CurAuth
      BY <1>0, <2>1, <2>4, <3>1 DEF RoundInv
    <3>2. CASE a = CurAuth
      <4>1. ~out
        BY <2>1, <2>4, <3>2
      <4>2. c.round.runs[CurAuth] = 0
        BY <1>0, <2>1, <2>3, <4>1
      <4> QED BY <1>0, <2>1, <3>2, <4>2
    <3> QED BY <3>1, <3>2
  <2>5. \A a \in Auth : c'.round.runs[a] > 0 => a \in c'.round.tried
    BY <1>0, <2>1, <2>3 DEF RoundInv
  <2> HIDE DEF out
  <2> QED BY <2>1, <2>2, <2>4, <2>5 DEF RoundInv, Ending
<1>16. ASSUME NEW retain \in BOOLEAN, ExecStarts(retain) PROVE RoundInv' /\ RoundBounded'
  <2>1. pc = "exec" /\ CurAuth \in Auth /\ pc' = "retain" /\ c' = Executed(c)
    BY <1>16 DEF ExecStarts, HandInv, CurAuth
  <2> QED BY <1>0, <1>E, <2>1, ExecutedFacts DEF RoundInv, Ending
<1>17. CASE FailWaits \/ FailRetries
  <2>1. c'.round = Fresh /\ pc' = "pick"
    BY <1>17, CallEffects DEF FailWaits, FailRetries
  <2> QED BY <1>F, <2>1
<1>18. ASSUME NEW r \in Route, NEW pin \in Auth \cup {None}, Begin(r, pin) PROVE RoundInv' /\ RoundBounded'
  <2>1. c'.round = Fresh /\ pc' = "pick"
    BY <1>18 DEF Begin, NewCall
  <2> QED BY <1>F, <2>1
<1>19. ASSUME NEW s \in Sel, Ack(s) PROVE RoundInv' /\ RoundBounded'
  BY <1>19, <1>T, CallEffects DEF Ack
<1>20. ASSUME NEW s \in Sel, Lose(s) \/ PumpEnds(s) \/ ClearEnds(s) PROVE RoundInv' /\ RoundBounded'
  BY <1>20, <1>T DEF Lose, PumpEnds, ClearEnds
<1>21. CASE Drain \/ DisableHome \/ UNCHANGED vars
  BY <1>21, <1>T DEF Drain, DisableHome, vars
<1>22. CASE CloseSession
  BY <1>22, <1>S DEF CloseSession
<1> QED BY <1>1, <1>2, <1>3, <1>4, <1>5, <1>6, <1>7, <1>8, <1>9, <1>10, <1>11, <1>12, <1>13, <1>14,
           <1>15, <1>16, <1>17, <1>18, <1>19, <1>20, <1>21, <1>22 DEF Next, CallStep

\* However Home answers, a round executes a credential twice at most and no more
\* credentials than max-retry-credentials, for any number of credentials.
THEOREM ExecutionRoundBounded == Spec => []RoundBounded
<1> DEFINE IInv == TypeOK /\ HandInv /\ RoundInv /\ RoundBounded
<1>1. Init => IInv
  <2> SUFFICES ASSUME Init PROVE RoundInv /\ RoundBounded
    BY HandInit
  <2>1. /\ c.round.attempted = {} /\ c.round.samePending = FALSE /\ pc = "idle"
        /\ \A a \in Auth : c.round.runs[a] = 0
    BY DEF Init, NewCall, Fresh
  <2>2. IsFiniteSet({}) /\ Cardinality({}) = 0
    BY FS_EmptySet
  <2> QED BY <2>1, <2>2, ConstantsOK DEF RoundInv, RoundBounded, Ending
<1>2. IInv /\ [Next]_vars => IInv'
  BY TypeStep, HandStep, RoundStep
<1> QED BY <1>1, <1>2, PTL DEF Spec

-----------------------------------------------------------------------------
(***************************************************************************)
(* The resources and attempts of a selection, module HomeSelection.        *)
(***************************************************************************)
Closer == Res \cup {Attempts}

SelectionTypes ==
    /\ scope \in {"new", "refused", "bound", "closing", "closed"}
    /\ {byTurn, spared, preserved, ended} \subseteq Attempt \cup {NoAttempt}
    /\ resClosed \in BOOLEAN /\ attClosed \in BOOLEAN
    /\ closers \in Seq(Closer) /\ running \in Seq(Closer)
    /\ resPc \in [Res -> {"no", "added", "late", "refused"}] /\ resCloses \in [Res -> Nat]
    /\ attPc \in [Attempt -> {"no", "running", "refused", "releasing", "released"}]
    /\ cancels \subseteq Attempt /\ toCancel \subseteq Attempt /\ cancelled \subseteq Attempt

Listed(q, x) == \E i \in 1..Len(q) : q[i] = x
Distinct(q) == \A i, j \in 1..Len(q) : q[i] = q[j] => i = j

\* Where the close has got to, in the order its flags are set.
OrderInv ==
    /\ scope \in {"new", "bound"} => ~resClosed
    /\ attClosed => resClosed
    /\ resClosed => closers = <<>>
    /\ ~resClosed => running = <<>>
    /\ attClosed => cancels = {} /\ ~Listed(running, Attempts)
    /\ toCancel # {} => attClosed
    /\ scope \in {"new", "refused"} =>
         /\ closers = <<>> /\ running = <<>>
         /\ \A r \in Res : resPc[r] = "no"
         /\ \A a \in Attempt : attPc[a] = "no"
    /\ scope = "closed" => attClosed /\ running = <<>> /\ toCancel = {}

\* A resource that was added is in one of the lists, once, or it is closed.
ListInv ==
    /\ Distinct(closers) /\ Distinct(running)
    /\ \A r \in Res :
         LET listed == Listed(closers, r) \/ Listed(running, r)
         IN /\ resPc[r] = "added" => resCloses[r] = (IF listed THEN 0 ELSE 1)
            /\ resPc[r] # "added" => ~listed
            /\ resPc[r] \in {"no", "late"} => resCloses[r] = 0
            /\ resPc[r] = "refused" => resCloses[r] = 1

\* A running attempt is to be cancelled, or is cancelled or spared.
AttemptInv ==
    \A a \in Attempt :
        /\ attPc[a] = "no" => a \notin cancels \cup toCancel \cup cancelled
        /\ attPc[a] = "refused" => a \in cancelled
        /\ attPc[a] = "running" =>
             IF attClosed THEN a \in toCancel \cup cancelled \cup {spared} ELSE a \in cancels
        /\ attPc[a] = "running" /\ a \in cancelled => attClosed /\ a # spared

\* The attempt that ended its turn is the one the close spares.
TurnInv ==
    /\ preserved = ended
    /\ byTurn # NoAttempt => byTurn = ended /\ scope \in {"closing", "closed"}
    /\ byTurn # NoAttempt /\ attClosed => spared = byTurn

SelectionInv == SelectionTypes /\ OrderInv /\ ListInv /\ AttemptInv /\ TurnInv

-----------------------------------------------------------------------------
LEMMA AppendFacts ==
  ASSUME NEW S, NEW q \in Seq(S), NEW x \in S, ~Listed(q, x), Distinct(q)
  PROVE  /\ Append(q, x) \in Seq(S) /\ Distinct(Append(q, x))
         /\ \A y : Listed(Append(q, x), y) <=> Listed(q, y) \/ y = x
<1>1. /\ Append(q, x) \in Seq(S) /\ Len(Append(q, x)) = Len(q) + 1 /\ Len(q) \in Nat
      /\ Append(q, x)[Len(q) + 1] = x /\ \A i \in 1..Len(q) : Append(q, x)[i] = q[i]
  OBVIOUS
<1>2. \A i \in 1..(Len(q) + 1) : i = Len(q) + 1 \/ i \in 1..Len(q) BY <1>1
<1> QED BY <1>1, <1>2 DEF Listed, Distinct

LEMMA FrontFacts ==
  ASSUME NEW S, NEW q \in Seq(S), q # <<>>, Distinct(q)
  PROVE  /\ Front(q) \in Seq(S) /\ Distinct(Front(q)) /\ Last(q) \in S /\ Listed(q, Last(q))
         /\ \A y : Listed(Front(q), y) <=> Listed(q, y) /\ y # Last(q)
<1>1. Len(q) \in Nat /\ Len(q) > 0 /\ \A i \in 1..Len(q) : q[i] \in S OBVIOUS
<1>2. /\ Front(q) \in Seq(S) /\ Len(Front(q)) = Len(q) - 1
      /\ \A i \in 1..(Len(q) - 1) : Front(q)[i] = q[i]
  <2>1. 1 \in Int /\ Len(q) - 1 \in Int /\ \A i \in 1..(Len(q) - 1) : q[i] \in S BY <1>1
  <2>2. /\ SubSeq(q, 1, Len(q) - 1) \in Seq(S)
        /\ Len(SubSeq(q, 1, Len(q) - 1)) = IF 1 <= Len(q) - 1 THEN (Len(q) - 1) - 1 + 1 ELSE 0
        /\ \A i \in 1..((Len(q) - 1) - 1 + 1) : SubSeq(q, 1, Len(q) - 1)[i] = q[1 + i - 1]
    BY <2>1, SubSeqProperties
  <2>a. ASSUME NEW n \in Nat, n > 0
        PROVE  /\ (n - 1) - 1 + 1 = n - 1
               /\ (IF 1 <= n - 1 THEN n - 1 ELSE 0) = n - 1
               /\ \A i \in 1..(n - 1) : 1 + i - 1 = i
    BY <2>a
  <2>3. /\ (Len(q) - 1) - 1 + 1 = Len(q) - 1
        /\ (IF 1 <= Len(q) - 1 THEN Len(q) - 1 ELSE 0) = Len(q) - 1
        /\ \A i \in 1..(Len(q) - 1) : 1 + i - 1 = i
    BY <1>1, <2>a
  <2>4. Len(SubSeq(q, 1, Len(q) - 1)) = Len(q) - 1 BY <2>2, <2>3
  <2>5. ASSUME NEW i \in 1..(Len(q) - 1) PROVE SubSeq(q, 1, Len(q) - 1)[i] = q[i]
    <3>1. i \in 1..((Len(q) - 1) - 1 + 1) /\ 1 + i - 1 = i BY <2>3
    <3>2. SubSeq(q, 1, Len(q) - 1)[i] = q[1 + i - 1] BY <2>2, <3>1
    <3> QED BY <3>1, <3>2
  <2> QED BY <2>2, <2>4, <2>5 DEF Front
<1>3. Len(q) \in 1..Len(q) /\ Last(q) = q[Len(q)] BY <1>1 DEF Last
<1>4. \A i \in 1..Len(q) : i = Len(q) \/ i \in 1..(Len(q) - 1) BY <1>1
<1>5. \A i \in 1..(Len(q) - 1) : i \in 1..Len(q) /\ i # Len(q) BY <1>1
<1> QED BY <1>1, <1>2, <1>3, <1>4, <1>5 DEF Listed, Distinct

LEMMA EmptyFacts == /\ Distinct(<<>>) /\ \A x : ~Listed(<<>>, x)
                    /\ \A x : Distinct(<<x>>) /\ \A y : Listed(<<x>>, y) <=> y = x
BY DEF Distinct, Listed

LEMMA SelectionInvInit == SelectionInit => SelectionInv
<1> SUFFICES ASSUME SelectionInit PROVE SelectionInv OBVIOUS
<1> USE DEF SelectionInit
<1>0. <<>> \in Seq(Closer) OBVIOUS
<1>1. SelectionTypes BY <1>0 DEF SelectionTypes
<1>2. OrderInv BY DEF OrderInv
<1>3. ListInv BY EmptyFacts DEF ListInv
<1>4. AttemptInv BY DEF AttemptInv
<1>5. TurnInv BY DEF TurnInv
<1> QED BY <1>1, <1>2, <1>3, <1>4, <1>5 DEF SelectionInv

-----------------------------------------------------------------------------
\* The closer that is called next comes off the list.
LEMMA Popped ==
  ASSUME SelectionTypes, ListInv, running # <<>>
  PROVE  /\ Front(running) \in Seq(Closer) /\ Distinct(Front(running))
         /\ Last(running) \in Closer /\ Listed(running, Last(running))
         /\ \A y : Listed(Front(running), y) <=> Listed(running, y) /\ y # Last(running)
BY FrontFacts DEF SelectionTypes, ListInv

LEMMA SelectionTypeStep ==
  ASSUME SelectionInv, [SelectionNext]_selectionVars
  PROVE  SelectionTypes'
<1> USE DEF SelectionInv, SelectionTypes
<1>0. <<>> \in Seq(Closer) /\ <<Attempts>> \in Seq(Closer) BY DEF Closer
<1>1. ASSUME NEW bound \in BOOLEAN, New(bound) PROVE SelectionTypes' BY <1>0, <1>1 DEF New
<1>2. CASE End \/ TurnEnd BY <1>2 DEF End, TurnEnd, resVars, attVars
<1>3. CASE Close BY <1>0, <1>3 DEF Close, attVars
<1>4. CASE CloseRes
  <2>1. Front(running) \in Seq(Closer) BY <1>4, Popped DEF CloseRes
  <2> QED BY <1>4, <2>1 DEF CloseRes, attVars
<1>5. CASE CloseAttempts
  <2>1. Front(running) \in Seq(Closer) BY <1>5, Popped DEF CloseAttempts
  <2> QED BY <1>5, <2>1 DEF CloseAttempts
<1>6. ASSUME NEW a \in Attempt, CancelOne(a) PROVE SelectionTypes' BY <1>6 DEF CancelOne, resVars
<1>7. CASE CloseDone BY <1>7 DEF CloseDone, resVars, attVars
<1>8. ASSUME NEW r \in Res, Add(r) PROVE SelectionTypes'
  <2>1. Append(closers, r) \in Seq(Closer) BY DEF Closer
  <2> QED BY <1>8, <2>1 DEF Add, attVars
<1>9. ASSUME NEW r \in Res, AddCloses(r) PROVE SelectionTypes' BY <1>9 DEF AddCloses, attVars
<1>10. ASSUME NEW a \in Attempt, TurnPreserve(a) PROVE SelectionTypes' BY <1>10 DEF TurnPreserve, resVars, attVars
<1>11. ASSUME NEW a \in Attempt, AddAttempt(a) PROVE SelectionTypes' BY <1>11 DEF AddAttempt, resVars
<1>12. ASSUME NEW a \in Attempt, Release(a) \/ ReleaseCancels(a) PROVE SelectionTypes'
  BY <1>12 DEF Release, ReleaseCancels, resVars
<1>13. CASE UNCHANGED selectionVars BY <1>13 DEF selectionVars, resVars, attVars
<1> QED BY <1>1, <1>2, <1>3, <1>4, <1>5, <1>6, <1>7, <1>8, <1>9, <1>10, <1>11, <1>12, <1>13
        DEF SelectionNext, CloseStep

LEMMA OrderStep ==
  ASSUME SelectionInv, [SelectionNext]_selectionVars
  PROVE  OrderInv'
<1> USE DEF SelectionInv, SelectionTypes, OrderInv, InUse
<1>1. ASSUME NEW bound \in BOOLEAN, New(bound) PROVE OrderInv'
  <2>1. /\ scope = "new" /\ ~resClosed /\ ~attClosed /\ toCancel = {} /\ running = <<>>
        /\ \A a \in Attempt : attPc[a] = "no"
        /\ \A r \in Res : resPc[r] = "no"
    BY <1>1 DEF New
  <2>2. cancels = {} BY <2>1 DEF AttemptInv
  <2>3. UNCHANGED <<running, resPc, attPc, cancels, toCancel>> BY <1>1 DEF New
  <2>4. ~Listed(running', Attempts) BY <2>1, <2>3, EmptyFacts
  <2>5. CASE bound = TRUE
    <3>1. scope' = "bound" /\ resClosed' = FALSE /\ attClosed' = FALSE BY <1>1, <2>5 DEF New
    <3> QED BY <2>1, <2>2, <2>3, <3>1
  <2>6. CASE bound = FALSE
    <3>1. scope' = "refused" /\ resClosed' = TRUE /\ attClosed' = TRUE /\ closers' = <<>>
      BY <1>1, <2>6 DEF New
    <3> QED BY <2>1, <2>2, <2>3, <2>4, <3>1
  <2> QED BY <2>5, <2>6
<1>2. CASE End \/ TurnEnd BY <1>2 DEF End, TurnEnd, resVars, attVars
<1>3. CASE Close BY <1>3 DEF Close, attVars
<1>4. CASE CloseRes
  <2>1. \A y : Listed(Front(running), y) => Listed(running, y) BY <1>4, Popped DEF CloseRes
  <2> QED BY <1>4, <2>1 DEF CloseRes, attVars
<1>5. CASE CloseAttempts
  <2>1. ~Listed(Front(running), Attempts) BY <1>5, Popped DEF CloseAttempts
  <2> QED BY <1>5, <2>1 DEF CloseAttempts
<1>6. ASSUME NEW a \in Attempt, CancelOne(a) PROVE OrderInv' BY <1>6 DEF CancelOne, resVars
<1>7. CASE CloseDone BY <1>7 DEF CloseDone, resVars, attVars
<1>8. ASSUME NEW r \in Res, Add(r) PROVE OrderInv' BY <1>8 DEF Add, attVars
<1>9. ASSUME NEW r \in Res, AddCloses(r) PROVE OrderInv' BY <1>9 DEF AddCloses, attVars
<1>10. ASSUME NEW a \in Attempt, TurnPreserve(a) PROVE OrderInv' BY <1>10 DEF TurnPreserve, resVars, attVars
<1>11. ASSUME NEW a \in Attempt, AddAttempt(a) PROVE OrderInv' BY <1>11 DEF AddAttempt, resVars
<1>12. ASSUME NEW a \in Attempt, Release(a) \/ ReleaseCancels(a) PROVE OrderInv'
  BY <1>12 DEF Release, ReleaseCancels, resVars
<1>13. CASE UNCHANGED selectionVars BY <1>13 DEF selectionVars, resVars, attVars
<1> QED BY <1>1, <1>2, <1>3, <1>4, <1>5, <1>6, <1>7, <1>8, <1>9, <1>10, <1>11, <1>12, <1>13
        DEF SelectionNext, CloseStep

LEMMA ListStep ==
  ASSUME SelectionInv, [SelectionNext]_selectionVars
  PROVE  ListInv'
<1> USE DEF SelectionInv
<1>U. ASSUME UNCHANGED resVars PROVE ListInv' BY <1>U DEF ListInv, resVars
<1>1. ASSUME NEW bound \in BOOLEAN, New(bound) PROVE ListInv'
  <2>1. /\ closers' \in {<<Attempts>>, <<>>} /\ running = <<>> /\ running' = <<>>
        /\ UNCHANGED <<resPc, resCloses>> /\ \A r \in Res : resPc[r] = "no" /\ r # Attempts
    BY <1>1, SelectionAssumption DEF New, OrderInv
  <2>2. \A r \in Res : ~Listed(closers', r) /\ ~Listed(running', r) BY <2>1, EmptyFacts
  <2>3. Distinct(closers') /\ Distinct(running') BY <2>1, EmptyFacts
  <2> QED BY <2>1, <2>2, <2>3 DEF ListInv
<1>2. CASE End \/ TurnEnd \/ CloseAttempts
  <2>1. CASE End \/ TurnEnd BY <1>U, <2>1 DEF End, TurnEnd
  <2>2. CASE CloseAttempts
    <3>1. /\ Distinct(Front(running)) /\ Last(running) = Attempts
          /\ \A y : Listed(Front(running), y) <=> Listed(running, y) /\ y # Last(running)
      BY <2>2, Popped DEF CloseAttempts
    <3>2. running' = Front(running) /\ UNCHANGED <<closers, resPc, resCloses>> BY <2>2 DEF CloseAttempts
    <3>3. \A r \in Res : Listed(running', r) <=> Listed(running, r)
      BY <3>1, <3>2, SelectionAssumption
    <3> QED BY <3>1, <3>2, <3>3 DEF ListInv
  <2> QED BY <1>2, <2>1, <2>2
<1>3. CASE Close
  <2>1. /\ closers' = <<>> /\ running' = closers /\ running = <<>> /\ UNCHANGED <<resPc, resCloses>>
    BY <1>3 DEF Close, OrderInv
  <2>2. Distinct(closers') /\ \A y : ~Listed(closers', y) /\ ~Listed(running, y) BY <2>1, EmptyFacts
  <2> QED BY <2>1, <2>2 DEF ListInv
<1>4. CASE CloseRes
  <2> DEFINE x == Last(running)
  <2>1. /\ Distinct(Front(running)) /\ Listed(running, x) /\ x \in Res
        /\ \A y : Listed(Front(running), y) <=> Listed(running, y) /\ y # x
    BY <1>4, Popped DEF CloseRes
  <2>2. /\ running' = Front(running) /\ resCloses' = [resCloses EXCEPT ![x] = @ + 1]
        /\ closers' = closers /\ resPc' = resPc
    BY <1>4 DEF CloseRes
  <2> HIDE DEF x
  <2>3. closers = <<>> /\ \A y : ~Listed(closers, y)
    BY <1>4, EmptyFacts DEF CloseRes, OrderInv, SelectionTypes
  <2>4. resPc[x] = "added" /\ resCloses[x] = 0 BY <2>1 DEF ListInv
  <2>5. resCloses'[x] = 1 /\ \A r \in Res : r # x => resCloses'[r] = resCloses[r]
    BY <2>1, <2>2, <2>4 DEF SelectionTypes
  <2>6. ~Listed(running', x) /\ \A r \in Res : r # x => (Listed(running', r) <=> Listed(running, r))
    BY <2>1, <2>2
  <2> QED BY <2>1, <2>2, <2>3, <2>4, <2>5, <2>6 DEF ListInv
<1>5. ASSUME NEW r \in Res, Add(r) PROVE ListInv'
  <2>0. ~Listed(closers, r) /\ ~Listed(running, r) /\ resPc[r] = "no" /\ resCloses[r] = 0 /\ Distinct(closers)
    BY <1>5 DEF Add, ListInv
  <2>1. CASE resClosed
    <3>1. closers' = closers /\ resPc' = [resPc EXCEPT ![r] = "late"] /\ UNCHANGED <<running, resCloses>>
      BY <1>5, <2>1 DEF Add
    <3> QED BY <2>0, <3>1 DEF ListInv, SelectionTypes
  <2>2. CASE ~resClosed
    <3>1. /\ closers' = Append(closers, r) /\ resPc' = [resPc EXCEPT ![r] = "added"]
          /\ UNCHANGED <<running, resCloses>>
      BY <1>5, <2>2 DEF Add
    <3>2. Distinct(closers') /\ \A y : Listed(closers', y) <=> Listed(closers, y) \/ y = r
      BY <2>0, <3>1, AppendFacts DEF SelectionTypes, Closer
    <3> QED BY <2>0, <3>1, <3>2 DEF ListInv, SelectionTypes
  <2> QED BY <2>1, <2>2 DEF SelectionTypes
<1>6. ASSUME NEW r \in Res, AddCloses(r) PROVE ListInv'
  <2>1. /\ resPc[r] = "late" /\ resPc' = [resPc EXCEPT ![r] = "refused"]
        /\ resCloses' = [resCloses EXCEPT ![r] = @ + 1] /\ UNCHANGED <<closers, running>>
    BY <1>6 DEF AddCloses
  <2>2. resCloses[r] = 0 /\ ~Listed(closers, r) /\ ~Listed(running, r) BY <2>1 DEF ListInv
  <2>3. /\ resCloses'[r] = 1 /\ resPc'[r] = "refused"
        /\ \A x \in Res : x # r => resCloses'[x] = resCloses[x] /\ resPc'[x] = resPc[x]
    BY <2>1, <2>2 DEF SelectionTypes
  <2> QED BY <2>1, <2>2, <2>3 DEF ListInv
<1>7. ASSUME NEW a \in Attempt, CancelOne(a) \/ TurnPreserve(a) \/ AddAttempt(a) \/ Release(a) \/ ReleaseCancels(a)
      PROVE  ListInv'
  BY <1>U, <1>7 DEF CancelOne, TurnPreserve, AddAttempt, Release, ReleaseCancels
<1>8. CASE CloseDone \/ UNCHANGED selectionVars BY <1>U, <1>8 DEF CloseDone, selectionVars
<1> QED BY <1>1, <1>2, <1>3, <1>4, <1>5, <1>6, <1>7, <1>8 DEF SelectionNext, CloseStep

LEMMA AttemptStep ==
  ASSUME SelectionInv, [SelectionNext]_selectionVars
  PROVE  AttemptInv'
<1> USE DEF SelectionInv, SelectionTypes, AttemptInv
<1>U. ASSUME UNCHANGED attVars PROVE AttemptInv' BY <1>U DEF attVars
<1>1. ASSUME NEW bound \in BOOLEAN, New(bound) PROVE AttemptInv' BY <1>1 DEF New, OrderInv
<1>2. CASE End \/ TurnEnd \/ Close \/ CloseRes \/ CloseDone
  BY <1>U, <1>2 DEF End, TurnEnd, Close, CloseRes, CloseDone
<1>3. CASE CloseAttempts
  <2>1. ~attClosed BY <1>3, Popped DEF CloseAttempts, OrderInv
  <2> QED BY <1>3, <2>1 DEF CloseAttempts
<1>4. ASSUME NEW a \in Attempt, CancelOne(a) PROVE AttemptInv'
  <2>1. attClosed BY <1>4 DEF CancelOne, OrderInv
  <2> QED BY <1>4, <2>1 DEF CancelOne
<1>5. ASSUME NEW r \in Res, Add(r) \/ AddCloses(r) PROVE AttemptInv' BY <1>U, <1>5 DEF Add, AddCloses
<1>6. ASSUME NEW a \in Attempt, TurnPreserve(a) PROVE AttemptInv' BY <1>U, <1>6 DEF TurnPreserve
<1>7. ASSUME NEW a \in Attempt, AddAttempt(a) PROVE AttemptInv' BY <1>7 DEF AddAttempt
<1>8. ASSUME NEW a \in Attempt, Release(a) PROVE AttemptInv' BY <1>8 DEF Release
<1>9. ASSUME NEW a \in Attempt, ReleaseCancels(a) PROVE AttemptInv' BY <1>9 DEF ReleaseCancels
<1>10. CASE UNCHANGED selectionVars BY <1>U, <1>10 DEF selectionVars
<1> QED BY <1>1, <1>2, <1>3, <1>4, <1>5, <1>6, <1>7, <1>8, <1>9, <1>10 DEF SelectionNext, CloseStep

LEMMA TurnStep ==
  ASSUME SelectionInv, [SelectionNext]_selectionVars
  PROVE  TurnInv'
<1> USE DEF SelectionInv, SelectionTypes, TurnInv, OrderInv
<1>1. ASSUME NEW bound \in BOOLEAN, New(bound) PROVE TurnInv' BY <1>1 DEF New
<1>2. CASE End \/ TurnEnd BY <1>2 DEF End, TurnEnd, resVars, attVars
<1>3. CASE Close \/ CloseRes \/ CloseAttempts \/ CloseDone
  BY <1>3 DEF Close, CloseRes, CloseAttempts, CloseDone, resVars, attVars
<1>4. ASSUME NEW a \in Attempt, CancelOne(a) PROVE TurnInv' BY <1>4 DEF CancelOne, resVars
<1>5. ASSUME NEW r \in Res, Add(r) \/ AddCloses(r) PROVE TurnInv' BY <1>5 DEF Add, AddCloses, attVars
<1>6. ASSUME NEW a \in Attempt, TurnPreserve(a) PROVE TurnInv'
  BY <1>6, SelectionAssumption DEF TurnPreserve, resVars, attVars
<1>7. ASSUME NEW a \in Attempt, AddAttempt(a) \/ Release(a) \/ ReleaseCancels(a) PROVE TurnInv'
  BY <1>7 DEF AddAttempt, Release, ReleaseCancels, resVars
<1>8. CASE UNCHANGED selectionVars BY <1>8 DEF selectionVars, resVars, attVars
<1> QED BY <1>1, <1>2, <1>3, <1>4, <1>5, <1>6, <1>7, <1>8 DEF SelectionNext, CloseStep

\* When the slot is given back everything the executor bound is closed once and no
\* attempt runs on but the spared one; and the attempt that ended its turn is not
\* cut off by the close it asked for.
THEOREM SelectionClosesCleanly == SelectionSpec => []ClosesCleanly
<1>1. SelectionInv /\ [SelectionNext]_selectionVars => SelectionInv'
  BY SelectionTypeStep, OrderStep, ListStep, AttemptStep, TurnStep DEF SelectionInv
<1>2. SelectionInv => ClosesCleanly
  <2>1. SUFFICES ASSUME SelectionInv PROVE ClosesCleanly OBVIOUS
  <2>2. ASSUME scope = "closed" PROVE SlotFreeOfWork
    <3>1. attClosed /\ closers = <<>> /\ running = <<>> /\ toCancel = {}
      BY <2>1, <2>2 DEF SelectionInv, OrderInv
    <3>2. \A r \in Res : ~Listed(closers, r) /\ ~Listed(running, r) BY <3>1, EmptyFacts
    <3>3. \A r \in Res : resPc[r] \in {"added", "refused"} => resCloses[r] = 1
      BY <2>1, <3>2 DEF SelectionInv, ListInv
    <3>4. \A a \in Attempt : attPc[a] \in {"running", "refused"} => a \in cancelled \/ a = spared
      BY <2>1, <3>1 DEF SelectionInv, AttemptInv
    <3> QED BY <3>3, <3>4 DEF SlotFreeOfWork
  <2>3. TurnErrorDelivered
    BY <2>1 DEF SelectionInv, SelectionTypes, AttemptInv, TurnInv, TurnErrorDelivered
  <2> QED BY <2>2, <2>3 DEF ClosesCleanly, SlotFreeOfWork
<1> QED BY <1>1, <1>2, SelectionInvInit, PTL DEF SelectionSpec
=============================================================================
