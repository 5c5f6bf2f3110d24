--------------------------- MODULE RefreshJournal ---------------------------
(***************************************************************************)
(* Refreshing Codex credentials through the refresh journal                *)
(* (internal/auth/codex/refresh_journal.go and refresh_journal_file.go).   *)
(* A call of RefreshTokens claims its grant by making a directory, sends   *)
(* the grant to the provider, records the outcome in a receipt and returns *)
(* it.  A call that finds the grant claimed never sends it: it follows the *)
(* receipts from grant to grant and returns the last credentials.          *)
(*                                                                         *)
(* Calls run in several processes that share the journal directory; calls  *)
(* of one process for one grant are one call here (codexRefreshGroup).     *)
(* Processes crash, and a power loss undoes what was not synchronised: a   *)
(* claim between mkdir and fsync, a receipt between rename and fsync.      *)
(*                                                                         *)
(* A token stands for the credentials it comes with and for its own key    *)
(* (refreshGrantKey is a hash).  The provider is external: it may rotate a *)
(* grant to any token, also to the same or to an old one.                  *)
(***************************************************************************)
EXTENDS Naturals, FiniteSets

CONSTANTS
    Caller,     \* flights of RefreshTokens, one at a time each
    Token,      \* refresh tokens
    First,      \* the token the credential store starts with
    NoToken,    \* no token
    MaxChain    \* receipts a call follows before it gives up (1024)

ASSUME JournalAssumption ==
    /\ IsFiniteSet(Token)
    /\ First \in Token
    /\ NoToken \notin Token
    /\ MaxChain \in Nat \ {0}

\* What an exchange ended with: new credentials, an unknown outcome at some stage, or a
\* rejection.  The stages are not told apart.
Receipt == [kind : {"value"}, next : Token] \cup [kind : {"stage", "rejected"}, next : {NoToken}]

NoReceipt == [kind |-> "none", next |-> NoToken]

VARIABLES
    claim,         \* the directory of the grant: absent, made, or synchronised
    receipt,       \* the receipt file of the grant
    durable,       \* grants whose receipt file is synchronised
    sent,          \* history: how often the grant was sent to the provider
    rotated,       \* history: pairs (grant, new grant) the provider answered or meant to
    expired,       \* grants whose receipt holds expired credentials
    held,          \* tokens some credential store got hold of
    pc,            \* where a call is
    grant,         \* the grant a call was made with
    key,           \* local of journalRefresh
    seen,          \* local of journalRefresh
    last,          \* the grant whose receipt gave value and expires
    outcome,       \* what run returned to the call
    result,        \* the credentials the call returned, and in which role
    settledBefore  \* history: grants with a receipt when the call began

journalVars == <<claim, receipt, durable>>
providerVars == <<sent, rotated>>
locals == <<grant, key, seen, last, outcome>>
callVars == <<pc, locals, result, settledBefore>>
vars == <<journalVars, providerVars, expired, held, callVars>>

NoResult == [by |-> "nobody", value |-> NoToken]

OwnerPc == {"sync", "run", "complete", "syncReceipt"}

TypeOK ==
    /\ claim \in [Token -> {"none", "made", "synced"}]
    /\ receipt \in [Token -> Receipt \cup {NoReceipt}]
    /\ durable \subseteq Token
    /\ sent \in [Token -> Nat]
    /\ rotated \subseteq Token \X Token
    /\ expired \subseteq Token
    /\ held \subseteq Token
    /\ pc \in [Caller -> {"idle", "claim", "read"} \cup OwnerPc]
    /\ grant \in [Caller -> Token]
    /\ key \in [Caller -> Token]
    /\ seen \in [Caller -> SUBSET Token]
    /\ last \in [Caller -> Token]
    /\ outcome \in [Caller -> Receipt \cup {NoReceipt}]
    /\ result \in [Caller -> [by : {"nobody", "owner", "follower"}, value : Token \cup {NoToken}]]
    /\ settledBefore \in [Caller -> SUBSET Token]

Init ==
    /\ claim = [t \in Token |-> "none"]
    /\ receipt = [t \in Token |-> NoReceipt]
    /\ durable = {}
    /\ sent = [t \in Token |-> 0]
    /\ rotated = {}
    /\ expired = {}
    /\ held = {First}
    /\ pc = [c \in Caller |-> "idle"]
    /\ grant = [c \in Caller |-> First]
    /\ key = [c \in Caller |-> First]
    /\ seen = [c \in Caller |-> {}]
    /\ last = [c \in Caller |-> First]
    /\ outcome = [c \in Caller |-> NoReceipt]
    /\ result = [c \in Caller |-> NoResult]
    /\ settledBefore = [c \in Caller |-> {}]

Goto(c, l) == pc' = [pc EXCEPT ![c] = l]

\* The call ends with an error; every stage of refresh_outcome_unknown is one of these.
Fail(c) ==
    /\ Goto(c, "idle")
    /\ UNCHANGED <<held, result>>

\* The call returns credentials, which its caller stores.
Return(c, by, t) ==
    /\ Goto(c, "idle")
    /\ result' = [result EXCEPT ![c] = [by |-> by, value |-> t]]
    /\ held' = held \cup {t}

(***************************************************************************)
(* RefreshTokens and RefreshClaim                                          *)
(***************************************************************************)

RefreshTokens(c, t) ==
    /\ pc[c] = "idle"
    /\ t \in held
    /\ Goto(c, "claim")
    /\ grant' = [grant EXCEPT ![c] = t]
    /\ key' = [key EXCEPT ![c] = t]
    /\ seen' = [seen EXCEPT ![c] = {}]
    /\ last' = [last EXCEPT ![c] = t]
    /\ outcome' = [outcome EXCEPT ![c] = NoReceipt]
    /\ result' = [result EXCEPT ![c] = NoResult]
    /\ settledBefore' = [settledBefore EXCEPT ![c] = {u \in Token : receipt[u] # NoReceipt}]
    /\ UNCHANGED <<journalVars, providerVars, expired, held>>

\* The journal is not reachable: nothing was made.
ClaimFail(c) ==
    /\ pc[c] = "claim"
    /\ Fail(c)
    /\ UNCHANGED <<journalVars, providerVars, expired, locals, settledBefore>>

ClaimExists(c) ==
    /\ pc[c] = "claim"
    /\ claim[key[c]] # "none"
    /\ Goto(c, "read")
    /\ UNCHANGED <<journalVars, providerVars, expired, held, locals, result, settledBefore>>

\* mkdir is the claim: it succeeds for one call only.
ClaimMake(c) ==
    /\ pc[c] = "claim"
    /\ claim[key[c]] = "none"
    /\ claim' = [claim EXCEPT ![key[c]] = "made"]
    /\ Goto(c, "sync")
    /\ UNCHANGED <<receipt, durable, providerVars, expired, held, locals, result, settledBefore>>

\* Mutant: the claim is not synchronised before the exchange.
ClaimNotSynced(c) ==
    /\ pc[c] = "sync"
    /\ Goto(c, "run")
    /\ UNCHANGED <<journalVars, providerVars, expired, held, locals, result, settledBefore>>

ClaimSynced(c) ==
    /\ pc[c] = "sync"
    /\ claim' = [claim EXCEPT ![key[c]] = "synced"]
    /\ Goto(c, "run")
    /\ UNCHANGED <<receipt, durable, providerVars, expired, held, locals, result, settledBefore>>

\* The directory was made and could not be synchronised: it stays, and nobody sends.
ClaimSyncFail(c) ==
    /\ pc[c] = "sync"
    /\ Fail(c)
    /\ UNCHANGED <<journalVars, providerVars, expired, locals, settledBefore>>

(***************************************************************************)
(* The exchange and RefreshComplete                                        *)
(***************************************************************************)

\* What the owner learns of an exchange in which the provider rotated the grant to n or
\* did nothing.  A lost or unreadable answer hides a rotation; a rejection rotates nothing.
Learns(c, n) ==
    \/ /\ n # NoToken
       /\ outcome' = [outcome EXCEPT ![c] = [kind |-> "value", next |-> n]]
    \/ outcome' = [outcome EXCEPT ![c] = [kind |-> "stage", next |-> NoToken]]
    \/ /\ n = NoToken
       /\ outcome' = [outcome EXCEPT ![c] = [kind |-> "rejected", next |-> NoToken]]

Exchange(c, n) ==
    /\ pc[c] = "run"
    /\ sent' = [sent EXCEPT ![key[c]] = @ + 1]
    /\ rotated' = IF n = NoToken THEN rotated ELSE rotated \cup {<<key[c], n>>}
    /\ Learns(c, n)
    /\ Goto(c, "complete")
    /\ UNCHANGED <<journalVars, expired, held, grant, key, seen, last,
                   result, settledBefore>>

\* The request could not be built: an unknown outcome, and nothing was sent.
ExchangeNotSent(c) ==
    /\ pc[c] = "run"
    /\ outcome' = [outcome EXCEPT ![c] = [kind |-> "stage", next |-> NoToken]]
    /\ Goto(c, "complete")
    /\ UNCHANGED <<journalVars, providerVars, expired, held, grant, key, seen, last,
                   result, settledBefore>>

\* The receipt could not be written to its temporary file.
CompleteFail(c) ==
    /\ pc[c] = "complete"
    /\ Fail(c)
    /\ UNCHANGED <<journalVars, providerVars, expired, locals, settledBefore>>

\* The temporary file is synchronised and renamed: other calls see the receipt.
CompleteRename(c) ==
    /\ pc[c] = "complete"
    /\ receipt' = [receipt EXCEPT ![key[c]] = outcome[c]]
    /\ Goto(c, "syncReceipt")
    /\ UNCHANGED <<claim, durable, providerVars, expired, held, locals, result, settledBefore>>

\* journalRefresh returns what run returned.
ReturnOutcome(c) ==
    \/ /\ outcome[c].kind = "value"
       /\ Return(c, "owner", outcome[c].next)
    \/ /\ outcome[c].kind # "value"
       /\ Fail(c)

\* Mutant: an error of the last fsync is ignored.
CompleteUnsynced(c) ==
    /\ pc[c] = "syncReceipt"
    /\ ReturnOutcome(c)
    /\ UNCHANGED <<journalVars, providerVars, expired, locals, settledBefore>>

CompleteSynced(c) ==
    /\ pc[c] = "syncReceipt"
    /\ durable' = durable \cup {key[c]}
    /\ ReturnOutcome(c)
    /\ UNCHANGED <<claim, receipt, providerVars, expired, locals, settledBefore>>

CompleteSyncFail(c) ==
    /\ pc[c] = "syncReceipt"
    /\ Fail(c)
    /\ UNCHANGED <<journalVars, providerVars, expired, locals, settledBefore>>

(***************************************************************************)
(* Following the receipts                                                  *)
(***************************************************************************)

\* Mutant: the loop does not look at the keys it has seen.
MayReadAgain(c) ==
    /\ pc[c] = "read"
    /\ Cardinality(seen[c]) < MaxChain

MayRead(c) ==
    /\ pc[c] = "read"
    /\ Cardinality(seen[c]) < MaxChain
    /\ key[c] \notin seen[c]

\* receipt-chain-limit and receipt-cycle.
ReadStops(c) ==
    /\ pc[c] = "read"
    /\ Cardinality(seen[c]) >= MaxChain \/ key[c] \in seen[c]
    /\ Fail(c)
    /\ UNCHANGED <<journalVars, providerVars, expired, locals, settledBefore>>

ReadFail(c) ==
    /\ MayRead(c)
    /\ Fail(c)
    /\ UNCHANGED <<journalVars, providerVars, expired, locals, settledBefore>>

\* Mutant: a follower clears a grant whose exchange failed, so that it can be tried again.
ReadUnresolvedResets(c) ==
    /\ MayRead(c)
    /\ receipt[key[c]].kind \in {"stage", "rejected"}
    /\ claim' = [claim EXCEPT ![key[c]] = "none"]
    /\ receipt' = [receipt EXCEPT ![key[c]] = NoReceipt]
    /\ durable' = durable \ {key[c]}
    /\ Fail(c)
    /\ UNCHANGED <<providerVars, expired, locals, settledBefore>>

\* A claim without a receipt, an unknown outcome, or a rejection.
ReadUnresolved(c) ==
    /\ MayRead(c)
    /\ \/ receipt[key[c]] = NoReceipt /\ (claim[key[c]] # "none" \/ seen[c] = {})
       \/ receipt[key[c]].kind \in {"stage", "rejected"}
    /\ Fail(c)
    /\ UNCHANGED <<journalVars, providerVars, expired, locals, settledBefore>>

\* Mutant: the late caller keeps its old refresh token.
UsableReceiptOldToken(c, t, v) ==
    \/ t \notin expired /\ Return(c, "follower", grant[c])
    \/ t \in expired /\ Fail(c)

\* usableRefreshReceipt: credentials v from the receipt of grant t.
UsableReceipt(c, t, v) ==
    \/ t \notin expired /\ Return(c, "follower", v)
    \/ t \in expired /\ Fail(c)

\* The provider answered with the same token: its receipt is the last.
ReadSame(c) ==
    /\ MayRead(c)
    /\ receipt[key[c]].kind = "value"
    /\ receipt[key[c]].next = key[c]
    /\ UsableReceipt(c, key[c], key[c])
    /\ UNCHANGED <<journalVars, providerVars, expired, locals, settledBefore>>

\* The receipt names another token: look whether that one was rotated too.
ReadNext(c) ==
    /\ MayRead(c)
    /\ receipt[key[c]].kind = "value"
    /\ receipt[key[c]].next # key[c]
    /\ seen' = [seen EXCEPT ![c] = @ \cup {key[c]}]
    /\ last' = [last EXCEPT ![c] = key[c]]
    /\ key' = [key EXCEPT ![c] = receipt[key[c]].next]
    /\ UNCHANGED <<journalVars, providerVars, expired, held, pc, grant, outcome, result,
                   settledBefore>>

\* Mutant: the first receipt is returned without looking for later rotations.
ReadEndAnywhere(c) ==
    /\ MayRead(c)
    /\ seen[c] # {}
    /\ UsableReceipt(c, last[c], key[c])
    /\ UNCHANGED <<journalVars, providerVars, expired, locals, settledBefore>>

\* No claim for the latest token: its credentials are the current ones.
ReadEnd(c) ==
    /\ MayRead(c)
    /\ claim[key[c]] = "none"
    /\ seen[c] # {}
    /\ UsableReceipt(c, last[c], key[c])
    /\ UNCHANGED <<journalVars, providerVars, expired, locals, settledBefore>>

(***************************************************************************)
(* The environment                                                         *)
(***************************************************************************)

\* The access token of a recorded value expires.
Expire(t) ==
    /\ receipt[t].kind = "value"
    /\ t \notin expired
    /\ expired' = expired \cup {t}
    /\ UNCHANGED <<journalVars, providerVars, held, callVars>>

\* The process of a call stops; the files stay.
Crash(c) ==
    /\ pc[c] # "idle"
    /\ Goto(c, "idle")
    /\ UNCHANGED <<journalVars, providerVars, expired, held, locals, result, settledBefore>>

\* Power is lost: every call stops, and what was not synchronised may be gone.
PowerLoss ==
    \E kept \in SUBSET {t \in Token : claim[t] = "made"},
       read \in SUBSET {t \in Token : receipt[t] # NoReceipt /\ t \notin durable} :
         /\ claim' = [t \in Token |-> IF claim[t] # "made" THEN claim[t]
                                      ELSE IF t \in kept THEN "synced" ELSE "none"]
         /\ receipt' = [t \in Token |-> IF t \in durable \cup read THEN receipt[t] ELSE NoReceipt]
         /\ durable' = durable \cup read
         /\ pc' = [c \in Caller |-> "idle"]
         /\ UNCHANGED <<providerVars, expired, held, locals, result, settledBefore>>

-----------------------------------------------------------------------------
Claiming(c) ==
    \/ ClaimFail(c) \/ ClaimExists(c) \/ ClaimMake(c) \/ ClaimSynced(c) \/ ClaimSyncFail(c)

Owning(c) ==
    \/ \E n \in Token \cup {NoToken} : Exchange(c, n)
    \/ ExchangeNotSent(c)
    \/ CompleteFail(c) \/ CompleteRename(c) \/ CompleteSynced(c) \/ CompleteSyncFail(c)

Following(c) ==
    \/ ReadStops(c) \/ ReadFail(c) \/ ReadUnresolved(c)
    \/ ReadSame(c) \/ ReadNext(c) \/ ReadEnd(c)

CallStep(c) == Claiming(c) \/ Owning(c) \/ Following(c)

Next ==
    \/ \E c \in Caller :
         \/ \E t \in Token : RefreshTokens(c, t)
         \/ CallStep(c)
         \/ Crash(c)
    \/ \E t \in Token : Expire(t)
    \/ PowerLoss

Spec == Init /\ [][Next]_vars

(***************************************************************************)
(* Fairness: a call that is running goes on; its exchange is bounded by    *)
(* codexRefreshTimeout.                                                    *)
(***************************************************************************)
FairSpec == Spec /\ \A c \in Caller : WF_vars(CallStep(c))

(***************************************************************************)
(* Properties                                                              *)
(***************************************************************************)

\* No grant is ever sent twice, whatever crashes, fails, expires or is retried and
\* however many processes try: "Scheduled and forced refreshes cannot resubmit a claimed
\* grant."
SubmittedOnce == \A t \in Token : sent[t] <= 1

\* The credentials an owner returned are in a receipt that no crash can undo: "A
\* successful owner saves a receipt before returning its new credentials."
OwnerRecorded ==
    \A c \in Caller : result[c].by = "owner" =>
        /\ grant[c] \in durable
        /\ receipt[grant[c]] = [kind |-> "value", next |-> result[c].value]

\* v is reached from g by one or more rotations.
Leads(g, v) ==
    \A S \in SUBSET Token :
        (\A p \in rotated : p[1] \in S \cup {g} => p[2] \in S) => v \in S

\* Whatever a call returns, as owner or from receipts, is what the provider rotated its
\* grant to, directly or in several rotations.
AnswersGenuine ==
    \A c \in Caller : result[c].by # "nobody" => Leads(grant[c], result[c].value)

\* A late caller is not given a token whose rotation was recorded before it called: it
\* follows the receipts to the end.
AnswersCurrent ==
    \A c \in Caller : result[c].by = "follower" =>
        \/ result[c].value \notin settledBefore[c]
        \/ <<result[c].value, result[c].value>> \in rotated

\* What journalRefresh returns is both: the provider's own answer, and not one that
\* was known to be superseded when the call began.
AnswersSound == AnswersGenuine /\ AnswersCurrent

\* The journal keeps GrantLedger's promise; an outcome is settled when its receipt can no
\* longer be lost.
Ledger == INSTANCE GrantLedger WITH
    Grant <- Token,
    Outcome <- Receipt,
    Success <- [kind : {"value"}, next : Token],
    Unsettled <- NoReceipt,
    outcome <- [t \in Token |-> IF t \in durable THEN receipt[t] ELSE NoReceipt]

KeepsGrantLedger == Ledger!Spec

\* The stops a call can still make: its own phases as owner, and one read for every
\* receipt the chain limit leaves it as follower.
StepsLeft(c) ==
    CASE pc[c] = "idle" -> 0
      [] pc[c] = "read" -> MaxChain + 1 - Cardinality(seen[c])
      [] pc[c] = "syncReceipt" -> MaxChain + 2
      [] pc[c] = "complete" -> MaxChain + 3
      [] pc[c] = "run" -> MaxChain + 4
      [] pc[c] = "sync" -> MaxChain + 5
      [] pc[c] = "claim" -> MaxChain + 6

\* Every step a running call takes brings it nearer to its return, and no other call and
\* no crash takes it back: journalRefresh cannot go round on receipts that lead in a
\* circle, whatever rotations other processes record meanwhile.
CallAdvances ==
    [][\A c \in Caller :
         (pc[c] # "idle" /\ <<pc[c], key[c], seen[c]>>' # <<pc[c], key[c], seen[c]>>)
             => StepsLeft(c)' < StepsLeft(c)]_vars

\* Every call returns, also when receipts lead in a circle.
CallReturns == \A c \in Caller : pc[c] # "idle" ~> pc[c] = "idle"
=============================================================================
