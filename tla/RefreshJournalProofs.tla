------------------------ MODULE RefreshJournalProofs ------------------------
(***************************************************************************)
(* Proofs about RefreshJournal, for any number of callers and tokens.      *)
(***************************************************************************)
EXTENDS RefreshJournal, FiniteSetTheorems, TLAPS

\* A call that owns the claim of its key.
Owns(c) == pc[c] \in OwnerPc

\* One owner per grant, which has the claim; past the sync the claim cannot be lost.
OwnerInv ==
    /\ \A c, d \in Caller : Owns(c) /\ Owns(d) /\ key[c] = key[d] => c = d
    /\ \A c \in Caller : Owns(c) \/ pc[c] = "claim" => key[c] = grant[c]
    /\ \A c \in Caller : Owns(c) => claim[key[c]] # "none"
    /\ \A c \in Caller : Owns(c) /\ pc[c] # "sync" => claim[key[c]] = "synced"

\* A grant whose claim can still be lost was not sent; neither was one whose owner has
\* not come to the exchange.
SentInv ==
    /\ \A t \in Token : claim[t] # "synced" => sent[t] = 0 /\ receipt[t] = NoReceipt
    /\ \A c \in Caller : pc[c] \in {"sync", "run"} => sent[key[c]] = 0
    /\ \A t \in Token : sent[t] \in {0, 1}

\* A receipt is what the owner learned, and credentials come from a grant that was sent.
ReceiptInv ==
    /\ \A c \in Caller : pc[c] \in {"sync", "run", "complete"} => receipt[key[c]] = NoReceipt
    /\ \A c \in Caller : pc[c] \in {"complete", "syncReceipt"} =>
            outcome[c] \in Receipt /\ (outcome[c].kind = "value" => sent[key[c]] = 1)
    /\ \A c \in Caller : pc[c] = "syncReceipt" => receipt[key[c]] = outcome[c]
    /\ \A t \in Token : receipt[t].kind = "value" => sent[t] = 1
    /\ \A t \in durable : receipt[t] # NoReceipt

JournalInv == TypeOK /\ OwnerInv /\ SentInv /\ ReceiptInv

\* The receipts as records.
LEMMA ReceiptFacts ==
    /\ \A r \in Receipt : r # NoReceipt /\ r.kind \in {"value", "stage", "rejected"}
    /\ \A r \in Receipt : r.kind = "value" => r.next \in Token
    /\ \A n \in Token : [kind |-> "value", next |-> n] \in Receipt
    /\ \A k \in {"stage", "rejected"} : [kind |-> k, next |-> NoToken] \in Receipt
    /\ NoReceipt.kind = "none"
  BY JournalAssumption DEF Receipt, NoReceipt

\* Every step keeps the types.
LEMMA TypeStep == TypeOK /\ [Next]_vars => TypeOK'
<1> SUFFICES ASSUME TypeOK, [Next]_vars PROVE TypeOK'
  OBVIOUS
<1> USE ReceiptFacts, JournalAssumption DEF TypeOK, OwnerPc, NoResult
<1>R. ASSUME NEW c \in Caller,
             Fail(c) \/ \E b \in {"owner", "follower"}, t \in Token : Return(c, b, t)
      PROVE  /\ pc' \in [Caller -> {"idle", "claim", "read"} \cup OwnerPc]
             /\ result' \in [Caller -> [by : {"nobody", "owner", "follower"},
                                        value : Token \cup {NoToken}]]
             /\ held' \subseteq Token
  <2>1. CASE Fail(c)
    BY <2>1 DEF Fail, Goto
  <2>2. ASSUME NEW b \in {"owner", "follower"}, NEW t \in Token, Return(c, b, t)
        PROVE  result' \in [Caller -> [by : {"nobody", "owner", "follower"},
                                       value : Token \cup {NoToken}]]
    <3> DEFINE r == [by |-> b, value |-> t]
    <3>1. r \in [by : {"nobody", "owner", "follower"}, value : Token \cup {NoToken}]
      OBVIOUS
    <3>2. result' = [result EXCEPT ![c] = r]
      BY <2>2 DEF Return
    <3> HIDE DEF r
    <3> QED BY <3>1, <3>2
  <2> QED BY <1>R, <2>1, <2>2 DEF Return, Goto
<1>1. ASSUME NEW c \in Caller, NEW t \in Token, RefreshTokens(c, t) PROVE TypeOK'
  BY <1>1 DEF RefreshTokens, Goto, journalVars, providerVars
<1>2. ASSUME NEW c \in Caller, ClaimFail(c) \/ ClaimSyncFail(c) \/ CompleteFail(c)
                                \/ CompleteSyncFail(c) PROVE TypeOK'
  BY <1>2 DEF ClaimFail, ClaimSyncFail, CompleteFail, CompleteSyncFail, Fail, Goto, journalVars,
     providerVars, locals
<1>3. ASSUME NEW c \in Caller, ClaimExists(c) \/ ClaimMake(c) \/ ClaimSynced(c) PROVE TypeOK'
  BY <1>3 DEF ClaimExists, ClaimMake, ClaimSynced, Goto, journalVars, providerVars, locals
<1>4. ASSUME NEW c \in Caller, NEW n \in Token \cup {NoToken}, Exchange(c, n) PROVE TypeOK'
  <2>1. outcome' \in [Caller -> Receipt \cup {NoReceipt}]
    <3>1. PICK r \in Receipt : outcome' = [outcome EXCEPT ![c] = r]
      BY <1>4 DEF Exchange, Learns
    <3> QED BY <3>1
  <2>2. rotated' \subseteq Token \X Token
    BY <1>4 DEF Exchange
  <2>3. sent' \in [Token -> Nat] /\ pc' \in [Caller -> {"idle", "claim", "read"} \cup OwnerPc]
    BY <1>4 DEF Exchange, Goto
  <2> QED BY <1>4, <2>1, <2>2, <2>3 DEF Exchange, journalVars
<1>5. ASSUME NEW c \in Caller, ExchangeNotSent(c) PROVE TypeOK'
  BY <1>5 DEF ExchangeNotSent, Goto, journalVars, providerVars
<1>6. ASSUME NEW c \in Caller, CompleteRename(c) PROVE TypeOK'
  BY <1>6 DEF CompleteRename, Goto, providerVars, locals
<1>7. ASSUME NEW c \in Caller, CompleteSynced(c) PROVE TypeOK'
  <2>1. Fail(c) \/ \E b \in {"owner", "follower"}, t \in Token : Return(c, b, t)
    BY <1>7 DEF CompleteSynced, ReturnOutcome
  <2> QED BY <1>7, <2>1, <1>R DEF CompleteSynced, providerVars, locals
<1>8. ASSUME NEW c \in Caller, ReadStops(c) \/ ReadFail(c) \/ ReadUnresolved(c) PROVE TypeOK'
  BY <1>8 DEF ReadStops, ReadFail, ReadUnresolved, Fail, Goto, journalVars, providerVars, locals
<1>9. ASSUME NEW c \in Caller, ReadSame(c) \/ ReadEnd(c) PROVE TypeOK'
  <2>1. Fail(c) \/ \E b \in {"owner", "follower"}, t \in Token : Return(c, b, t)
    BY <1>9 DEF ReadSame, ReadEnd, UsableReceipt
  <2> QED BY <1>9, <2>1, <1>R DEF ReadSame, ReadEnd, journalVars, providerVars, locals
<1>10. ASSUME NEW c \in Caller, ReadNext(c) PROVE TypeOK'
  BY <1>10 DEF ReadNext, journalVars, providerVars
<1>11. ASSUME NEW c \in Caller, Crash(c) PROVE TypeOK'
  BY <1>11 DEF Crash, Goto, journalVars, providerVars, locals
<1>12. ASSUME NEW t \in Token, Expire(t) PROVE TypeOK'
  BY <1>12 DEF Expire, journalVars, providerVars, callVars, locals
<1>13. CASE PowerLoss
  BY <1>13 DEF PowerLoss, providerVars, locals
<1>14. CASE UNCHANGED vars
  BY <1>14 DEF vars, journalVars, providerVars, callVars, locals
<1> QED BY <1>1, <1>2, <1>3, <1>4, <1>5, <1>6, <1>7, <1>8, <1>9, <1>10, <1>11, <1>12, <1>13,
           <1>14 DEF Next, CallStep, Claiming, Owning, Following

\* A step that leaves journal and provider alone and makes no call an owner keeps the
\* invariant.
LEMMA QuietStep ==
    ASSUME JournalInv, TypeOK', UNCHANGED <<journalVars, providerVars>>,
           \A c \in Caller : (pc[c] = "claim")' => (key[c] = grant[c])',
           \A c \in Caller : Owns(c)' =>
               Owns(c) /\ UNCHANGED <<pc[c], key[c], grant[c], outcome[c]>>
    PROVE  JournalInv'
<1> USE DEF JournalInv, journalVars, providerVars
<1>1. OwnerInv'
  BY DEF OwnerInv, Owns, OwnerPc
<1>2. SentInv'
  BY DEF SentInv, Owns, OwnerPc
<1>3. ReceiptInv'
  BY DEF ReceiptInv, Owns, OwnerPc
<1> QED BY <1>1, <1>2, <1>3

\* Every step keeps the invariant.
LEMMA JournalInvStep == JournalInv /\ [Next]_vars => JournalInv'
<1> SUFFICES ASSUME JournalInv, [Next]_vars PROVE JournalInv'
  OBVIOUS
<1>T. TypeOK /\ TypeOK'
  BY TypeStep DEF JournalInv
<1>1. ASSUME NEW c \in Caller, NEW t \in Token, RefreshTokens(c, t) PROVE JournalInv'
  BY <1>1, <1>T, QuietStep DEF RefreshTokens, Goto, Owns, OwnerPc, TypeOK, JournalInv,
     OwnerInv
<1>2. ASSUME NEW c \in Caller, ClaimFail(c) \/ ClaimSyncFail(c) \/ CompleteFail(c)
                                \/ CompleteSyncFail(c) PROVE JournalInv'
  BY <1>2, <1>T, QuietStep DEF ClaimFail, ClaimSyncFail, CompleteFail, CompleteSyncFail, Fail,
     Goto, Owns, JournalInv, OwnerInv, OwnerPc, TypeOK, locals
<1>3. ASSUME NEW c \in Caller, ClaimExists(c) PROVE JournalInv'
  BY <1>3, <1>T, QuietStep DEF ClaimExists, Goto, Owns, JournalInv, OwnerInv, OwnerPc,
     TypeOK, locals
<1>4. ASSUME NEW c \in Caller, ClaimMake(c) PROVE JournalInv'
  <2>1. OwnerInv'
    BY <1>4, <1>T DEF JournalInv, OwnerInv, Owns, OwnerPc, TypeOK, Goto, ClaimMake,
       providerVars, locals
  <2>2. SentInv'
    BY <1>4, <1>T, ReceiptFacts DEF JournalInv, OwnerInv, SentInv, Owns, OwnerPc, TypeOK,
       Goto, ClaimMake, providerVars, locals
  <2>3. ReceiptInv'
    BY <1>4, <1>T, ReceiptFacts DEF JournalInv, OwnerInv, SentInv, ReceiptInv, Owns,
       OwnerPc, TypeOK, Goto,
       ClaimMake, providerVars, locals
  <2> QED BY <2>1, <2>2, <2>3, <1>T DEF JournalInv
<1>5. ASSUME NEW c \in Caller, ClaimSynced(c) PROVE JournalInv'
  <2>1. OwnerInv'
    BY <1>5, <1>T DEF JournalInv, OwnerInv, Owns, OwnerPc, TypeOK, Goto, ClaimSynced,
       providerVars, locals
  <2>2. SentInv'
    BY <1>5, <1>T, ReceiptFacts DEF JournalInv, OwnerInv, SentInv, Owns, OwnerPc, TypeOK,
       Goto, ClaimSynced, providerVars, locals
  <2>3. ReceiptInv'
    BY <1>5, <1>T, ReceiptFacts DEF JournalInv, OwnerInv, SentInv, ReceiptInv, Owns,
       OwnerPc, TypeOK, Goto,
       ClaimSynced, providerVars, locals
  <2> QED BY <2>1, <2>2, <2>3, <1>T DEF JournalInv
<1>6. ASSUME NEW c \in Caller, NEW n \in Token \cup {NoToken}, Exchange(c, n) PROVE JournalInv'
  <2>1. OwnerInv'
    BY <1>6, <1>T DEF JournalInv, OwnerInv, Owns, OwnerPc, TypeOK, Goto, Exchange, Learns,
       journalVars
  <2>2. SentInv'
    BY <1>6, <1>T, ReceiptFacts DEF JournalInv, OwnerInv, SentInv, Owns, OwnerPc, TypeOK,
       Goto, Exchange, Learns, journalVars
  <2>3. ReceiptInv'
    BY <1>6, <1>T, ReceiptFacts DEF JournalInv, OwnerInv, SentInv, ReceiptInv, Owns,
       OwnerPc, TypeOK, Goto,
       Exchange, Learns, journalVars
  <2> QED BY <2>1, <2>2, <2>3, <1>T DEF JournalInv
<1>7. ASSUME NEW c \in Caller, ExchangeNotSent(c) PROVE JournalInv'
  <2>1. OwnerInv'
    BY <1>7, <1>T DEF JournalInv, OwnerInv, Owns, OwnerPc, TypeOK, Goto, ExchangeNotSent,
       journalVars, providerVars
  <2>2. SentInv'
    BY <1>7, <1>T, ReceiptFacts DEF JournalInv, OwnerInv, SentInv, Owns, OwnerPc, TypeOK,
       Goto, ExchangeNotSent, journalVars, providerVars
  <2>3. ReceiptInv'
    BY <1>7, <1>T, ReceiptFacts DEF JournalInv, OwnerInv, SentInv, ReceiptInv, Owns,
       OwnerPc, TypeOK, Goto,
       ExchangeNotSent, journalVars, providerVars
  <2> QED BY <2>1, <2>2, <2>3, <1>T DEF JournalInv
<1>8. ASSUME NEW c \in Caller, CompleteRename(c) PROVE JournalInv'
  <2>1. OwnerInv'
    BY <1>8, <1>T DEF JournalInv, OwnerInv, Owns, OwnerPc, TypeOK, Goto, CompleteRename,
       providerVars, locals
  <2>2. SentInv'
    BY <1>8, <1>T, ReceiptFacts DEF JournalInv, OwnerInv, SentInv, Owns, OwnerPc, TypeOK,
       Goto, CompleteRename, providerVars, locals
  <2>3. ReceiptInv'
    BY <1>8, <1>T, ReceiptFacts DEF JournalInv, OwnerInv, SentInv, ReceiptInv, Owns,
       OwnerPc, TypeOK, Goto,
       CompleteRename, providerVars, locals
  <2> QED BY <2>1, <2>2, <2>3, <1>T DEF JournalInv
<1>9. ASSUME NEW c \in Caller, CompleteSynced(c) PROVE JournalInv'
  <2>0. /\ pc[c] = "syncReceipt" /\ pc' = [pc EXCEPT ![c] = "idle"]
        /\ durable' = durable \cup {key[c]}
        /\ UNCHANGED <<claim, receipt, providerVars, locals>>
    BY <1>9 DEF CompleteSynced, ReturnOutcome, Return, Fail, Goto
  <2>1. OwnerInv'
    BY <2>0, <1>T DEF JournalInv, OwnerInv, Owns, OwnerPc, TypeOK, locals
  <2>2. SentInv'
    BY <2>0, <1>T DEF JournalInv, SentInv, TypeOK, providerVars, locals
  <2>3. ReceiptInv'
    BY <2>0, <1>T, ReceiptFacts DEF JournalInv, ReceiptInv, TypeOK, providerVars, locals
  <2> QED BY <2>1, <2>2, <2>3, <1>T DEF JournalInv
<1>10. ASSUME NEW c \in Caller, Following(c) PROVE JournalInv'
  <2>1. UNCHANGED <<journalVars, providerVars>>
    BY <1>10 DEF Following, ReadStops, ReadFail, ReadUnresolved, ReadSame, ReadEnd, ReadNext
  <2>2. ASSUME NEW d \in Caller, Owns(d)' PROVE d # c
    BY <1>10, <2>2, <1>T DEF Following, ReadStops, ReadFail, ReadUnresolved, ReadSame, ReadEnd,
       ReadNext, MayRead, UsableReceipt, Return, Fail, Goto, Owns, OwnerPc, TypeOK
  <2>3. \A d \in Caller : d # c => UNCHANGED <<pc[d], key[d], grant[d], outcome[d]>>
    BY <1>10, <1>T DEF Following, ReadStops, ReadFail, ReadUnresolved, ReadSame, ReadEnd,
       ReadNext, UsableReceipt, Return, Fail, Goto, TypeOK, locals
  <2>4. (pc[c] # "claim")'
    BY <1>10, <1>T DEF Following, ReadStops, ReadFail, ReadUnresolved, ReadSame, ReadEnd,
       ReadNext, MayRead, UsableReceipt, Return, Fail, Goto, TypeOK
  <2> QED BY <2>1, <2>2, <2>3, <2>4, <1>T, QuietStep DEF Owns, JournalInv, OwnerInv
<1>11. ASSUME NEW c \in Caller, Crash(c) PROVE JournalInv'
  BY <1>11, <1>T, QuietStep DEF Crash, Goto, Owns, JournalInv, OwnerInv, OwnerPc, TypeOK, locals
<1>12. ASSUME NEW t \in Token, Expire(t) PROVE JournalInv'
  BY <1>12, <1>T, QuietStep DEF Expire, Owns, JournalInv, OwnerInv, callVars, locals
<1>13. CASE PowerLoss
  <2>1. OwnerInv'
    BY <1>13, <1>T DEF JournalInv, OwnerInv, Owns, OwnerPc, TypeOK, Goto, PowerLoss,
       providerVars, locals
  <2>2. SentInv'
    BY <1>13, <1>T, ReceiptFacts DEF JournalInv, OwnerInv, SentInv, Owns, OwnerPc, TypeOK,
       Goto, PowerLoss, providerVars, locals
  <2>3. ReceiptInv'
    BY <1>13, <1>T, ReceiptFacts DEF JournalInv, OwnerInv, SentInv, ReceiptInv, Owns,
       OwnerPc, TypeOK, Goto,
       PowerLoss, providerVars, locals
  <2> QED BY <2>1, <2>2, <2>3, <1>T DEF JournalInv
<1>14. CASE UNCHANGED vars
  BY <1>14, <1>T, QuietStep DEF vars, Owns, JournalInv, OwnerInv, callVars, locals
<1> QED BY <1>1, <1>2, <1>3, <1>4, <1>5, <1>6, <1>7, <1>8, <1>9, <1>10, <1>11, <1>12, <1>13,
           <1>14 DEF Next, CallStep, Claiming, Owning

LEMMA JournalInvInit == Init => JournalInv
<1> SUFFICES ASSUME Init PROVE JournalInv
  OBVIOUS
<1> USE JournalAssumption DEF Init, Owns, OwnerPc
<1>1. TypeOK
  BY DEF TypeOK, NoResult
<1>2. OwnerInv /\ SentInv
  BY DEF OwnerInv, SentInv
<1>3. ReceiptInv
  BY ReceiptFacts DEF ReceiptInv
<1> QED BY <1>1, <1>2, <1>3 DEF JournalInv

LEMMA JournalInvariant == Spec => []JournalInv
  BY JournalInvInit, JournalInvStep, PTL DEF Spec

\* A refresh grant is sent to the provider at most once, for any number of processes,
\* crashes, power losses, failing writes and retries: the claim is exclusive, it is
\* synchronised before the grant is sent, and nobody removes it (RefreshClaim,
\* journalRefresh).
THEOREM GrantSubmittedOnce == Spec => []SubmittedOnce
<1>1. JournalInv => SubmittedOnce
  BY DEF JournalInv, SentInv, SubmittedOnce
<1> QED BY <1>1, JournalInvariant, PTL

\* What a step does to receipts that are durable, and to results.
LEMMA OwnerRecordedStep == JournalInv /\ OwnerRecorded /\ [Next]_vars => OwnerRecorded'
<1> SUFFICES ASSUME JournalInv, OwnerRecorded, [Next]_vars PROVE OwnerRecorded'
  OBVIOUS
<1>T. TypeOK /\ TypeOK'
  BY TypeStep DEF JournalInv
<1>1. /\ durable \subseteq durable'
      /\ \A t \in durable : receipt'[t] = receipt[t]
  <2>1. CASE UNCHANGED <<receipt, durable>>
    BY <2>1
  <2>2. ASSUME NEW c \in Caller, CompleteRename(c)
        PROVE  durable' = durable /\ \A t \in durable : receipt'[t] = receipt[t]
    BY <2>2, <1>T DEF CompleteRename, JournalInv, ReceiptInv, TypeOK
  <2>3. ASSUME NEW c \in Caller, CompleteSynced(c)
        PROVE  durable \subseteq durable' /\ receipt' = receipt
    BY <2>3 DEF CompleteSynced
  <2>4. CASE PowerLoss
    BY <2>4, <1>T DEF PowerLoss, TypeOK
  <2>5. ASSUME NEW c \in Caller, Claiming(c) \/ Following(c)
                                  \/ (\E n \in Token \cup {NoToken} : Exchange(c, n))
                                  \/ ExchangeNotSent(c) \/ CompleteFail(c)
                                  \/ CompleteSyncFail(c) \/ Crash(c)
                                  \/ (\E t \in Token : RefreshTokens(c, t))
        PROVE UNCHANGED <<receipt, durable>>
    BY <2>5 DEF Claiming, ClaimFail, ClaimExists, ClaimMake, ClaimSynced, ClaimSyncFail,
       Following, ReadStops, ReadFail, ReadUnresolved, ReadSame, ReadNext, ReadEnd, Exchange,
       ExchangeNotSent, CompleteFail, CompleteSyncFail, Crash, RefreshTokens, journalVars
  <2>6. (\E t \in Token : Expire(t)) \/ UNCHANGED vars => UNCHANGED <<receipt, durable>>
    BY DEF Expire, vars, journalVars
  <2> QED BY <2>1, <2>2, <2>3, <2>4, <2>5, <2>6 DEF Next, CallStep, Owning
<1>2. ASSUME NEW c \in Caller, result'[c].by = "owner"
      PROVE  \/ result'[c] = result[c] /\ grant'[c] = grant[c]
             \/ /\ pc[c] = "syncReceipt" /\ outcome[c].kind = "value"
                /\ key[c] \in durable' /\ grant'[c] = grant[c]
                /\ receipt'[key[c]] = receipt[key[c]]
                /\ result'[c].value = outcome[c].next
  <2> DEFINE Same == result'[c] = result[c] /\ grant'[c] = grant[c]
  <2>1. ASSUME NEW d \in Caller, NEW t \in Token, RefreshTokens(d, t) PROVE Same
    BY <1>2, <2>1, <1>T DEF RefreshTokens, NoResult, TypeOK
  <2>2. ASSUME NEW d \in Caller, Claiming(d) \/ (\E n \in Token \cup {NoToken} : Exchange(d, n))
                                  \/ ExchangeNotSent(d) \/ CompleteFail(d)
                                  \/ CompleteRename(d) \/ CompleteSyncFail(d) \/ Crash(d)
                                  \/ ReadStops(d) \/ ReadFail(d) \/ ReadUnresolved(d)
                                  \/ ReadNext(d)
        PROVE  Same
    BY <2>2 DEF Claiming, ClaimFail, ClaimExists, ClaimMake, ClaimSynced, ClaimSyncFail,
       ReadStops, ReadFail, ReadUnresolved, ReadNext, Exchange, ExchangeNotSent, CompleteFail,
       CompleteRename, CompleteSyncFail, Crash, Fail, locals
  <2>3. ASSUME NEW d \in Caller, ReadSame(d) \/ ReadEnd(d) PROVE Same
    <3>1. UNCHANGED grant /\ (UNCHANGED result \/ \E v : Return(d, "follower", v))
      BY <2>3 DEF ReadSame, ReadEnd, UsableReceipt, Fail, locals
    <3> QED BY <3>1, <1>2, <1>T DEF Return, TypeOK
  <2>4. ASSUME NEW d \in Caller, CompleteSynced(d), c # d PROVE Same
    BY <2>4, <1>T DEF CompleteSynced, ReturnOutcome, Return, Fail, TypeOK, locals
  <2>5. ASSUME CompleteSynced(c)
        PROVE  \/ Same
               \/ /\ pc[c] = "syncReceipt" /\ outcome[c].kind = "value"
                  /\ key[c] \in durable' /\ grant'[c] = grant[c]
                  /\ receipt'[key[c]] = receipt[key[c]]
                  /\ result'[c].value = outcome[c].next
    BY <2>5, <1>T DEF CompleteSynced, ReturnOutcome, Return, Fail, TypeOK, locals
  <2>6. (\E t \in Token : Expire(t)) \/ PowerLoss \/ UNCHANGED vars => Same
    BY DEF Expire, PowerLoss, vars, callVars, locals
  <2> HIDE DEF Same
  <2>7. \/ Same
        \/ /\ pc[c] = "syncReceipt" /\ outcome[c].kind = "value"
           /\ key[c] \in durable' /\ grant'[c] = grant[c]
           /\ receipt'[key[c]] = receipt[key[c]]
           /\ result'[c].value = outcome[c].next
    BY <2>1, <2>2, <2>3, <2>4, <2>5, <2>6 DEF Next, CallStep, Owning, Following
  <2> QED BY <2>7 DEF Same
<1>3. ASSUME NEW c \in Caller, result'[c].by = "owner"
      PROVE  /\ grant'[c] \in durable'
             /\ receipt'[grant'[c]] = [kind |-> "value", next |-> result'[c].value]
  <2>1. CASE result'[c] = result[c] /\ grant'[c] = grant[c]
    BY <1>1, <1>3, <2>1 DEF OwnerRecorded
  <2>2. CASE pc[c] = "syncReceipt" /\ outcome[c].kind = "value" /\ key[c] \in durable'
             /\ grant'[c] = grant[c] /\ receipt'[key[c]] = receipt[key[c]]
             /\ result'[c].value = outcome[c].next
    <3>1. key[c] = grant[c] /\ receipt[key[c]] = outcome[c] /\ outcome[c] \in Receipt
      BY <2>2 DEF JournalInv, OwnerInv, ReceiptInv, Owns, OwnerPc
    <3>2. outcome[c] = [kind |-> "value", next |-> outcome[c].next]
      BY <2>2, <3>1 DEF Receipt
    <3> QED BY <2>2, <3>1, <3>2
  <2> QED BY <1>2, <1>3, <2>1, <2>2
<1> QED BY <1>3 DEF OwnerRecorded

\* Credentials returned by the owner of a refresh are in a receipt that survives any crash
\* or power loss, since RefreshComplete synchronises the receipt before journalRefresh
\* returns.
THEOREM OwnerAnswersRecorded == Spec => []OwnerRecorded
<1>1. Init => OwnerRecorded
  BY DEF Init, OwnerRecorded, NoResult
<1> QED BY <1>1, JournalInvariant, OwnerRecordedStep, PTL DEF Spec

(***************************************************************************)
(* What calls return.  A receipt with credentials tells of a rotation that *)
(* happened; a follower stands on a token its grant leads to; and what was *)
(* recorded when a call began is still recorded while it runs, since only  *)
(* a power loss undoes a receipt and it ends every call.                   *)
(***************************************************************************)
Rotates(r, t) == r.kind = "value" => <<t, r.next>> \in rotated

\* v is reached from g by one or more of the rotations R.
LeadsBy(R, g, v) ==
    \A S \in SUBSET Token : (\A p \in R : p[1] \in S \cup {g} => p[2] \in S) => v \in S

\* What holds of one call: as owner, as follower, and of what it returned.
ChainOK(c) ==
    /\ pc[c] = "claim" => seen[c] = {}
    /\ pc[c] \in {"complete", "syncReceipt"} => Rotates(outcome[c], key[c])
    /\ pc[c] = "read" => \/ key[c] = grant[c] /\ seen[c] = {}
                         \/ LeadsBy(rotated, grant[c], key[c])
    /\ pc[c] # "idle" => \A t \in settledBefore[c] : receipt[t] # NoReceipt
    /\ result[c].by # "nobody" => LeadsBy(rotated, grant[c], result[c].value)
    /\ result[c].by = "follower" => \/ result[c].value \notin settledBefore[c]
                                    \/ <<result[c].value, result[c].value>> \in rotated

ChainInv ==
    /\ \A t \in Token : Rotates(receipt[t], t)
    /\ \A c \in Caller : ChainOK(c)

\* One rotation leads on.
LEMMA LeadsOn ==
  ASSUME NEW R, NEW g, NEW t, NEW n \in Token, <<t, n>> \in R, t = g \/ LeadsBy(R, g, t)
  PROVE  LeadsBy(R, g, n)
BY DEF LeadsBy

\* More rotations lead at least as far.
LEMMA LeadsStays ==
  ASSUME NEW R, NEW Q, R \subseteq Q, NEW g, NEW v, LeadsBy(R, g, v)
  PROVE  LeadsBy(Q, g, v)
BY DEF LeadsBy

\* The variables that belong to one call.
Still(c) ==
    /\ pc'[c] = pc[c] /\ grant'[c] = grant[c] /\ key'[c] = key[c] /\ seen'[c] = seen[c]
    /\ outcome'[c] = outcome[c] /\ result'[c] = result[c]
    /\ settledBefore'[c] = settledBefore[c]

\* A step of another call, or an expiry, leaves a call alone.
LEMMA OthersStill ==
  ASSUME TypeOK, [Next]_vars, NEW c \in Caller,
         ~CallStep(c), ~Crash(c), ~PowerLoss, \A t \in Token : ~RefreshTokens(c, t)
  PROVE  Still(c)
<1> USE DEF TypeOK, Still
<1>1. ASSUME NEW d \in Caller, d # c, NEW t \in Token, RefreshTokens(d, t) PROVE Still(c)
  BY <1>1 DEF RefreshTokens, Goto
<1>2. ASSUME NEW d \in Caller, d # c, Claiming(d) PROVE Still(c)
  BY <1>2 DEF Claiming, ClaimFail, ClaimExists, ClaimMake, ClaimSynced, ClaimSyncFail, Fail,
     Goto, locals
<1>3. ASSUME NEW d \in Caller, d # c, NEW n \in Token \cup {NoToken},
             Exchange(d, n) \/ ExchangeNotSent(d)
      PROVE  Still(c)
  BY <1>3 DEF Exchange, ExchangeNotSent, Learns, Goto
<1>4. ASSUME NEW d \in Caller, d # c,
             CompleteFail(d) \/ CompleteRename(d) \/ CompleteSynced(d) \/ CompleteSyncFail(d)
      PROVE  Still(c)
  BY <1>4 DEF CompleteFail, CompleteRename, CompleteSynced, CompleteSyncFail, ReturnOutcome,
     Return, Fail, Goto, locals
<1>5. ASSUME NEW d \in Caller, d # c, Following(d) PROVE Still(c)
  BY <1>5 DEF Following, ReadStops, ReadFail, ReadUnresolved, ReadSame, ReadNext, ReadEnd,
     UsableReceipt, Return, Fail, Goto, locals
<1>6. ASSUME NEW d \in Caller, d # c, Crash(d) PROVE Still(c)
  BY <1>6 DEF Crash, Goto, locals
<1>7. (\E t \in Token : Expire(t)) \/ UNCHANGED vars => Still(c)
  BY DEF Expire, vars, callVars, locals
<1>8. ASSUME NEW d \in Caller, d # c, ExchangeNotSent(d) PROVE Still(c)
  BY <1>3, <1>8
<1> HIDE DEF Still
<1> QED BY <1>1, <1>2, <1>3, <1>4, <1>5, <1>6, <1>7, <1>8 DEF Next, CallStep, Owning

\* Rotations are never undone; a receipt is only written where there was none, and only
\* a power loss takes one away.
LEMMA JournalGrows ==
  ASSUME JournalInv, [Next]_vars
  PROVE  /\ rotated \subseteq rotated'
         /\ \A t \in Token :
              \/ receipt'[t] = receipt[t]
              \/ receipt'[t] = NoReceipt /\ PowerLoss
              \/ \E c \in Caller : /\ CompleteRename(c) /\ key[c] = t
                                   /\ receipt[t] = NoReceipt /\ receipt'[t] = outcome[c]
<1> DEFINE Grows == /\ rotated \subseteq rotated'
                    /\ \A t \in Token :
                         \/ receipt'[t] = receipt[t]
                         \/ receipt'[t] = NoReceipt /\ PowerLoss
                         \/ \E c \in Caller :
                              /\ CompleteRename(c) /\ key[c] = t
                              /\ receipt[t] = NoReceipt /\ receipt'[t] = outcome[c]
<1>1. ASSUME NEW c \in Caller, CompleteRename(c) PROVE Grows
  BY <1>1 DEF CompleteRename, JournalInv, TypeOK, ReceiptInv, providerVars
<1>2. ASSUME PowerLoss PROVE Grows
  BY <1>2 DEF PowerLoss, JournalInv, TypeOK, providerVars
<1>3. ASSUME NEW c \in Caller, NEW n \in Token \cup {NoToken}, Exchange(c, n) PROVE Grows
  BY <1>3 DEF Exchange, journalVars
<1>4. ASSUME NEW c \in Caller, Claiming(c) \/ Following(c) \/ ExchangeNotSent(c)
                                \/ CompleteFail(c) \/ CompleteSyncFail(c) \/ Crash(c)
                                \/ CompleteSynced(c) \/ (\E t \in Token : RefreshTokens(c, t))
      PROVE Grows
  <2>1. UNCHANGED <<rotated, receipt>>
    BY <1>4 DEF Claiming, ClaimFail, ClaimExists, ClaimMake, ClaimSynced, ClaimSyncFail,
       Following, ReadStops, ReadFail, ReadUnresolved, ReadSame, ReadNext, ReadEnd,
       ExchangeNotSent, CompleteFail, CompleteSyncFail, CompleteSynced, Crash, RefreshTokens,
       journalVars, providerVars
  <2> QED BY <2>1
<1>5. (\E t \in Token : Expire(t)) \/ UNCHANGED vars => Grows
  BY DEF Expire, vars, journalVars, providerVars
<1> HIDE DEF Grows
<1>6. Grows
  BY <1>1, <1>2, <1>3, <1>4, <1>5 DEF Next, CallStep, Owning
<1> QED BY <1>6 DEF Grows

LEMMA ChainInvStep == JournalInv /\ ChainInv /\ [Next]_vars => ChainInv'
<1> SUFFICES ASSUME JournalInv, ChainInv, [Next]_vars PROVE ChainInv'
  OBVIOUS
<1>T. TypeOK /\ TypeOK' /\ rotated \subseteq rotated'
  BY TypeStep, JournalGrows DEF JournalInv
<1>R. ASSUME NEW t \in Token PROVE Rotates(receipt[t], t)'
  <2>1. CASE receipt'[t] = receipt[t]
    BY <1>T, <2>1 DEF ChainInv, Rotates
  <2>2. CASE receipt'[t] = NoReceipt
    BY <2>2, ReceiptFacts DEF Rotates
  <2>3. ASSUME NEW c \in Caller, CompleteRename(c), key[c] = t, receipt'[t] = outcome[c]
        PROVE  Rotates(receipt[t], t)'
    BY <1>T, <2>3 DEF ChainInv, ChainOK, Rotates, CompleteRename
  <2> QED BY <2>1, <2>2, <2>3, JournalGrows
<1>S. ASSUME ~PowerLoss, NEW t \in Token, receipt[t] # NoReceipt PROVE receipt'[t] # NoReceipt
  BY <1>S, JournalGrows
<1>C. ASSUME NEW c \in Caller PROVE ChainOK(c)'
  <2>0. ChainOK(c)
    BY DEF ChainInv
  <2> USE <1>T DEF TypeOK
  <2>D. settledBefore[c] \subseteq Token /\ key[c] \in Token /\ grant[c] \in Token
    OBVIOUS
  <2>L. ASSUME NEW v, LeadsBy(rotated, grant[c], v) PROVE LeadsBy(rotated', grant[c], v)
    BY <2>L, LeadsStays
  \* What was returned stays true while it is kept.
  <2>K. ASSUME result'[c] = result[c], grant'[c] = grant[c], settledBefore'[c] = settledBefore[c]
        PROVE  /\ result'[c].by # "nobody" => LeadsBy(rotated', grant[c], result[c].value)
               /\ result'[c].by = "follower" =>
                     \/ result'[c].value \notin settledBefore'[c]
                     \/ <<result'[c].value, result'[c].value>> \in rotated'
    <3>1. result[c].by # "nobody" => LeadsBy(rotated', grant[c], result[c].value)
      BY <2>0, <2>L, <2>K DEF ChainOK
    <3> QED BY <2>0, <2>K, <3>1 DEF ChainOK
  <2>E. ASSUME pc'[c] = "idle", result'[c] = result[c], grant'[c] = grant[c],
               settledBefore'[c] = settledBefore[c]
        PROVE  ChainOK(c)'
    BY <2>K, <2>E DEF ChainOK
  <2>1. CASE Still(c) /\ ~PowerLoss
    <3>1. pc[c] = "read" => (key[c] = grant[c] /\ seen[c] = {}) \/ LeadsBy(rotated', grant[c], key[c])
      BY <2>0, <2>1, <2>L DEF ChainOK, Still
    <3>2. pc[c] # "idle" => \A t \in settledBefore[c] : receipt'[t] # NoReceipt
      BY <2>0, <2>1, <2>D, <1>S DEF ChainOK
    <3>3. pc[c] \in {"complete", "syncReceipt"} => Rotates(outcome[c], key[c])'
      BY <2>0, <2>1 DEF ChainOK, Rotates, Still
    <3> QED BY <2>0, <2>1, <2>K, <3>1, <3>2, <3>3 DEF ChainOK, Still
  <2>2. CASE PowerLoss
    BY <2>2, <2>E DEF PowerLoss, locals
  <2>3. CASE Crash(c)
    BY <2>3, <2>E DEF Crash, Goto, locals
  <2>4. ASSUME NEW t \in Token, RefreshTokens(c, t) PROVE ChainOK(c)'
    BY <2>4 DEF RefreshTokens, Goto, ChainOK, NoResult, journalVars
  <2>5. CASE ClaimFail(c) \/ ClaimSyncFail(c) \/ CompleteFail(c) \/ CompleteSyncFail(c)
             \/ ReadStops(c) \/ ReadFail(c) \/ ReadUnresolved(c)
    BY <2>5, <2>E DEF ClaimFail, ClaimSyncFail, CompleteFail, CompleteSyncFail, ReadStops,
       ReadFail, ReadUnresolved, Fail, Goto, locals
  <2>6. CASE ClaimExists(c) \/ ClaimMake(c) \/ ClaimSynced(c)
    <3>1. UNCHANGED <<receipt, rotated, result, grant, key, seen, settledBefore>>
      BY <2>6 DEF ClaimExists, ClaimMake, ClaimSynced, journalVars, providerVars, locals
    <3>2. pc'[c] \in {"read", "sync", "run"} /\ pc[c] # "idle"
          /\ (pc'[c] = "read" => pc[c] = "claim")
      BY <2>6 DEF ClaimExists, ClaimMake, ClaimSynced, Goto
    <3>3. pc[c] = "claim" => key[c] = grant[c]
      BY DEF JournalInv, OwnerInv
    <3> QED BY <2>0, <2>K, <3>1, <3>2, <3>3 DEF ChainOK
  <2>7. ASSUME NEW n \in Token \cup {NoToken}, Exchange(c, n) PROVE ChainOK(c)'
    <3>1. Rotates(outcome[c], key[c])'
      BY <2>7 DEF Exchange, Learns, Rotates
    <3>2. /\ pc'[c] = "complete" /\ pc[c] # "idle"
          /\ UNCHANGED <<receipt, result, grant, settledBefore>>
      BY <2>7 DEF Exchange, Goto, journalVars
    <3> QED BY <2>0, <2>K, <3>1, <3>2 DEF ChainOK
  <2>8. CASE ExchangeNotSent(c)
    <3>1. Rotates(outcome[c], key[c])'
      BY <2>8 DEF ExchangeNotSent, Rotates
    <3>2. /\ pc'[c] = "complete" /\ pc[c] # "idle"
          /\ UNCHANGED <<receipt, result, grant, settledBefore>>
      BY <2>8 DEF ExchangeNotSent, Goto, journalVars
    <3> QED BY <2>0, <2>K, <3>1, <3>2 DEF ChainOK
  <2>9. CASE CompleteRename(c)
    <3>1. /\ pc'[c] = "syncReceipt" /\ pc[c] = "complete"
          /\ UNCHANGED <<rotated, outcome, key, result, grant, settledBefore>>
      BY <2>9 DEF CompleteRename, Goto, providerVars, locals
    <3>2. ~PowerLoss
      BY <3>1 DEF PowerLoss
    <3>3. \A t \in settledBefore[c] : receipt'[t] # NoReceipt
      BY <2>0, <2>D, <3>1, <3>2, <1>S DEF ChainOK
    <3> QED BY <2>0, <2>K, <3>1, <3>3 DEF ChainOK, Rotates
  <2>10. CASE CompleteSynced(c)
    <3>1. CASE outcome[c].kind # "value"
      BY <2>10, <2>E, <3>1 DEF CompleteSynced, ReturnOutcome, Fail, Goto, locals
    <3>2. CASE outcome[c].kind = "value"
      <4>1. key[c] = grant[c] /\ <<grant[c], outcome[c].next>> \in rotated
        BY <2>0, <2>10, <3>2 DEF CompleteSynced, ChainOK, Rotates, JournalInv, OwnerInv, Owns,
           OwnerPc
      <4>2. outcome[c].next \in Token
        BY <2>10, <3>2, ReceiptFacts DEF CompleteSynced, JournalInv, ReceiptInv
      <4>3. LeadsBy(rotated, grant[c], outcome[c].next)
        BY <4>1, <4>2, LeadsOn
      <4>4. /\ pc'[c] = "idle" /\ UNCHANGED <<grant, rotated>>
            /\ result'[c].by = "owner" /\ result'[c].value = outcome[c].next
        BY <2>10, <3>2 DEF CompleteSynced, ReturnOutcome, Return, Goto, providerVars, locals
      <4> QED BY <4>3, <4>4 DEF ChainOK
    <3> QED BY <3>1, <3>2
  <2>11. CASE ReadNext(c)
    <3>1. receipt[key[c]].next \in Token /\ <<key[c], receipt[key[c]].next>> \in rotated
      BY <2>11, ReceiptFacts DEF ReadNext, ChainInv, Rotates
    <3>2. key[c] = grant[c] \/ LeadsBy(rotated, grant[c], key[c])
      BY <2>0, <2>11 DEF ReadNext, MayRead, ChainOK
    <3>3. LeadsBy(rotated, grant[c], receipt[key[c]].next)
      BY <3>1, <3>2, LeadsOn
    <3>4. /\ key'[c] = receipt[key[c]].next /\ pc[c] = "read"
          /\ UNCHANGED <<pc, receipt, rotated, result, grant, settledBefore>>
      BY <2>11 DEF ReadNext, MayRead, journalVars, providerVars
    <3>5. LeadsBy(rotated', grant'[c], key'[c])
      BY <3>3, <3>4
    <3> QED BY <2>0, <2>K, <3>4, <3>5 DEF ChainOK
  <2>12. CASE ReadSame(c) \/ ReadEnd(c)
    <3>1. pc'[c] = "idle" /\ UNCHANGED <<grant, settledBefore, rotated>>
      BY <2>12 DEF ReadSame, ReadEnd, UsableReceipt, Return, Fail, Goto, locals, providerVars
    <3>2. CASE result' = result
      BY <2>E, <3>1, <3>2
    <3>3. CASE result' # result
      <4>1. result'[c].by = "follower" /\ result'[c].value = key[c]
        BY <2>12, <3>3 DEF ReadSame, ReadEnd, UsableReceipt, Return, Fail
      <4>2. LeadsBy(rotated, grant[c], key[c])
        <5>1. CASE ReadSame(c)
          <6>1. <<key[c], key[c]>> \in rotated /\ (key[c] = grant[c] \/ LeadsBy(rotated, grant[c], key[c]))
            BY <2>0, <5>1 DEF ReadSame, MayRead, ChainInv, Rotates, ChainOK
          <6> QED BY <6>1, LeadsOn
        <5>2. CASE ReadEnd(c)
          BY <2>0, <5>2 DEF ReadEnd, MayRead, ChainOK
        <5> QED BY <2>12, <5>1, <5>2
      <4>3. key[c] \notin settledBefore[c] \/ <<key[c], key[c]>> \in rotated
        <5>1. CASE ReadSame(c)
          BY <5>1 DEF ReadSame, ChainInv, Rotates
        <5>2. CASE ReadEnd(c)
          BY <2>0, <5>2 DEF ReadEnd, MayRead, ChainOK, JournalInv, SentInv
        <5> QED BY <2>12, <5>1, <5>2
      <4> QED BY <3>1, <4>1, <4>2, <4>3 DEF ChainOK
    <3> QED BY <3>2, <3>3
  <2> QED BY <2>1, <2>2, <2>3, <2>4, <2>5, <2>6, <2>7, <2>8, <2>9, <2>10, <2>11, <2>12,
             OthersStill DEF CallStep, Claiming, Owning, Following
<1> QED BY <1>R, <1>C DEF ChainInv

\* What journalRefresh returns, to the owner of a refresh or to a call that came late, is
\* what the provider rotated the call's grant to, and a late call never gets a token
\* whose rotation was recorded before it began (AnswersSound), through any crashes and
\* for chains of any length.
THEOREM RefreshAnswersSound == Spec => []AnswersSound
<1>1. Init => ChainInv
  BY ReceiptFacts DEF Init, ChainInv, ChainOK, Rotates, NoResult
<1>2. ChainInv => AnswersSound
  BY DEF ChainInv, ChainOK, AnswersSound, AnswersGenuine, AnswersCurrent, Leads, LeadsBy
<1> QED BY <1>1, <1>2, JournalInvariant, ChainInvStep, PTL DEF Spec

-----------------------------------------------------------------------------
(***************************************************************************)
(* A call comes nearer to its return with every step: the receipts it has  *)
(* followed are counted, and the count has a limit.                        *)
(***************************************************************************)
SeenInv ==
    \A c \in Caller : /\ Cardinality(seen[c]) <= MaxChain
                      /\ pc[c] = "claim" => seen[c] = {}

LEMMA SeenFinite ==
  ASSUME NEW S \in SUBSET Token, NEW t \in Token
  PROVE  /\ Cardinality(S) \in Nat
         /\ t \notin S => Cardinality(S \cup {t}) = Cardinality(S) + 1
<1>1. IsFiniteSet(S)
  BY JournalAssumption, FS_Subset
<1> QED BY <1>1, FS_CardinalityType, FS_AddElement

\* How a step changes where a call is.
LEMMA PlaceStep ==
  ASSUME TypeOK, SeenInv, [Next]_vars, NEW c \in Caller
  PROVE  \/ UNCHANGED <<pc[c], key[c], seen[c]>>
         \/ pc'[c] = "idle" /\ seen'[c] = seen[c]
         \/ pc[c] = "idle" /\ pc'[c] = "claim" /\ seen'[c] = {}
         \/ pc[c] = "claim" /\ pc'[c] \in {"read", "sync"} /\ seen'[c] = seen[c]
         \/ pc[c] = "sync" /\ pc'[c] = "run" /\ seen'[c] = seen[c]
         \/ pc[c] = "run" /\ pc'[c] = "complete" /\ seen'[c] = seen[c]
         \/ pc[c] = "complete" /\ pc'[c] = "syncReceipt" /\ seen'[c] = seen[c]
         \/ /\ pc[c] = "read" /\ pc'[c] = "read"
            /\ Cardinality(seen[c]) < MaxChain
            /\ Cardinality(seen'[c]) = Cardinality(seen[c]) + 1
<1> USE DEF TypeOK
<1>1. CASE Still(c)
  BY <1>1 DEF Still
<1>2. CASE Crash(c) \/ PowerLoss
  BY <1>2 DEF Crash, PowerLoss, Goto, locals
<1>3. ASSUME NEW t \in Token, RefreshTokens(c, t)
      PROVE  pc[c] = "idle" /\ pc'[c] = "claim" /\ seen'[c] = {}
  BY <1>3 DEF RefreshTokens, Goto
<1>4. ASSUME Claiming(c)
      PROVE  /\ seen'[c] = seen[c]
             /\ \/ pc'[c] = "idle"
                \/ pc[c] = "claim" /\ pc'[c] \in {"read", "sync"}
                \/ pc[c] = "sync" /\ pc'[c] = "run"
  BY <1>4 DEF Claiming, ClaimFail, ClaimExists, ClaimMake, ClaimSynced, ClaimSyncFail, Fail,
     Goto, locals
<1>5. ASSUME Owning(c)
      PROVE  /\ seen'[c] = seen[c]
             /\ \/ pc'[c] = "idle"
                \/ pc[c] = "run" /\ pc'[c] = "complete"
                \/ pc[c] = "complete" /\ pc'[c] = "syncReceipt"
  BY <1>5 DEF Owning, Exchange, ExchangeNotSent, CompleteFail, CompleteRename, CompleteSynced,
     CompleteSyncFail, ReturnOutcome, Return, Fail, Goto, locals
<1>6. ASSUME ReadNext(c)
      PROVE  /\ pc[c] = "read" /\ pc'[c] = "read" /\ Cardinality(seen[c]) < MaxChain
             /\ Cardinality(seen'[c]) = Cardinality(seen[c]) + 1
  <2>1. seen[c] \in SUBSET Token /\ key[c] \in Token /\ key[c] \notin seen[c]
        /\ seen'[c] = seen[c] \cup {key[c]}
    BY <1>6 DEF ReadNext, MayRead
  <2>2. Cardinality(seen'[c]) = Cardinality(seen[c]) + 1
    BY <2>1, SeenFinite
  <2> QED BY <1>6, <2>2 DEF ReadNext, MayRead
<1>7. ASSUME ReadStops(c) \/ ReadFail(c) \/ ReadUnresolved(c) \/ ReadSame(c) \/ ReadEnd(c)
      PROVE  pc'[c] = "idle" /\ seen'[c] = seen[c]
  BY <1>7 DEF ReadStops, ReadFail, ReadUnresolved, ReadSame, ReadEnd, UsableReceipt, Return, Fail,
     Goto, locals
<1> QED BY <1>1, <1>2, <1>3, <1>4, <1>5, <1>6, <1>7, OthersStill DEF CallStep, Following

LEMMA SeenInvStep == TypeOK /\ SeenInv /\ [Next]_vars => SeenInv'
<1> SUFFICES ASSUME TypeOK, SeenInv, [Next]_vars, NEW c \in Caller
             PROVE  /\ Cardinality(seen'[c]) <= MaxChain
                    /\ pc'[c] = "claim" => seen'[c] = {}
  BY DEF SeenInv
<1>1. Cardinality(seen[c]) \in Nat /\ MaxChain \in Nat /\ Cardinality({}) = 0
  BY SeenFinite, FS_EmptySet, JournalAssumption DEF TypeOK
<1> QED BY <1>1, PlaceStep DEF SeenInv

\* Every step a running call takes brings it nearer to its return and nothing takes it
\* back (CallAdvances): following receipts cannot go round in a circle, whatever other
\* processes record and however long the chains are.
THEOREM RefreshAdvances == Spec => CallAdvances
<1>1. Init => SeenInv
  BY FS_EmptySet, JournalAssumption DEF Init, SeenInv
<1>2. TypeOK /\ SeenInv /\ [Next]_vars =>
        [\A c \in Caller :
           (pc[c] # "idle" /\ <<pc[c], key[c], seen[c]>>' # <<pc[c], key[c], seen[c]>>)
               => StepsLeft(c)' < StepsLeft(c)]_vars
  <2> SUFFICES ASSUME TypeOK, SeenInv, [Next]_vars, NEW c \in Caller, pc[c] # "idle",
                      <<pc[c], key[c], seen[c]>>' # <<pc[c], key[c], seen[c]>>
               PROVE  StepsLeft(c)' < StepsLeft(c)
    OBVIOUS
  <2>1. /\ Cardinality(seen[c]) \in Nat /\ Cardinality(seen[c]) <= MaxChain
        /\ MaxChain \in Nat
    BY SeenFinite, JournalAssumption DEF TypeOK, SeenInv
  <2>2. pc[c] \in {"claim", "read", "sync", "run", "complete", "syncReceipt"}
    BY DEF TypeOK, OwnerPc
  <2>3. StepsLeft(c) \in Nat /\ StepsLeft(c) > 0
    BY <2>1, <2>2 DEF StepsLeft
  <2>4. CASE pc'[c] = "idle"
    BY <2>3, <2>4 DEF StepsLeft
  <2>5. CASE pc[c] = "claim" /\ pc'[c] \in {"read", "sync"} /\ seen'[c] = seen[c]
    BY <2>1, <2>5 DEF StepsLeft
  <2>6. CASE \/ pc[c] = "sync" /\ pc'[c] = "run"
             \/ pc[c] = "run" /\ pc'[c] = "complete"
             \/ pc[c] = "complete" /\ pc'[c] = "syncReceipt"
    BY <2>1, <2>6 DEF StepsLeft
  <2>7. CASE /\ pc[c] = "read" /\ pc'[c] = "read"
             /\ Cardinality(seen'[c]) = Cardinality(seen[c]) + 1
    BY <2>1, <2>7 DEF StepsLeft
  <2> QED BY <2>4, <2>5, <2>6, <2>7, PlaceStep
<1>3. Spec => []TypeOK
  BY JournalInvariant, PTL DEF JournalInv
<1> QED BY <1>1, <1>2, <1>3, SeenInvStep, PTL DEF Spec, CallAdvances

(***************************************************************************)
(* The journal implements GrantLedger.                                     *)
(***************************************************************************)

\* What GrantLedger's outcome stands for.
Settled == [t \in Token |-> IF t \in durable THEN receipt[t] ELSE NoReceipt]

\* A step of the journal is a Send, a Settle or nothing for the ledger.
LEMMA LedgerStep == JournalInv /\ [Next]_vars => [Ledger!Next]_<<sent, Settled>>
<1> SUFFICES ASSUME JournalInv, [Next]_vars PROVE [Ledger!Next]_<<sent, Settled>>
  OBVIOUS
<1>T. TypeOK /\ TypeOK'
  BY TypeStep DEF JournalInv
<1>1. ASSUME NEW c \in Caller, NEW n \in Token \cup {NoToken}, Exchange(c, n)
      PROVE  Ledger!Send(key[c])
  <2>1. pc[c] = "run" /\ sent[key[c]] = 0 /\ key[c] \in Token /\ receipt[key[c]] = NoReceipt
    BY <1>1, <1>T DEF Exchange, JournalInv, SentInv, ReceiptInv, TypeOK
  <2> QED BY <1>1, <2>1, <1>T DEF Ledger!Send, Exchange, journalVars, TypeOK
<1>2. ASSUME NEW c \in Caller, CompleteRename(c) PROVE UNCHANGED <<sent, Settled>>
  <2>1. key[c] \notin durable
    BY <1>2, <1>T DEF CompleteRename, JournalInv, ReceiptInv
  <2> QED BY <1>2, <2>1, <1>T DEF CompleteRename, Settled, providerVars, TypeOK
<1>3. ASSUME UNCHANGED sent, durable \subseteq durable',
             \A t \in Token : t \in durable => receipt'[t] = receipt[t],
             \A t \in Token : t \in durable' => receipt'[t] = receipt[t]
      PROVE  Ledger!Settle
  <2>1. Settled' \in [Token -> Receipt \cup {NoReceipt}]
    BY <1>T DEF Settled, TypeOK
  <2>2. ASSUME NEW t \in Token, Settled'[t] # Settled[t]
        PROVE  /\ Settled[t] = NoReceipt
               /\ Settled'[t] \in [kind : {"value"}, next : Token] => sent[t] = 1
    <3>1. t \notin durable /\ t \in durable' /\ Settled'[t] = receipt[t]
      BY <2>2, <1>3 DEF Settled
    <3>2. Settled[t] = NoReceipt
      BY <3>1 DEF Settled
    <3>3. receipt[t] \in [kind : {"value"}, next : Token] => receipt[t].kind = "value"
      OBVIOUS
    <3> QED BY <3>1, <3>2, <3>3 DEF JournalInv, ReceiptInv
  <2> QED BY <2>1, <2>2, <1>3 DEF Ledger!Settle, Settled
<1>4. ASSUME NEW c \in Caller, CompleteSynced(c) PROVE Ledger!Settle
  BY <1>3, <1>4 DEF CompleteSynced, providerVars
<1>5. CASE PowerLoss
  <2>1. Ledger!Settle
    BY <1>3, <1>5, <1>T DEF PowerLoss, providerVars, TypeOK
  <2> QED BY <2>1 DEF Ledger!Next
<1>6. ASSUME NEW c \in Caller, Claiming(c) \/ Following(c) \/ ExchangeNotSent(c)
                                \/ CompleteFail(c) \/ CompleteSyncFail(c) \/ Crash(c)
                                \/ (\E t \in Token : RefreshTokens(c, t))
      PROVE UNCHANGED <<sent, Settled>>
  <2>1. UNCHANGED <<sent, receipt, durable>>
    BY <1>6 DEF Claiming, ClaimFail, ClaimExists, ClaimMake, ClaimSynced, ClaimSyncFail,
       Following, ReadStops, ReadFail, ReadUnresolved, ReadSame, ReadNext, ReadEnd,
       ExchangeNotSent, CompleteFail, CompleteSyncFail, Crash, RefreshTokens, journalVars,
       providerVars
  <2> QED BY <2>1 DEF Settled
<1>7. (\E t \in Token : Expire(t)) \/ UNCHANGED vars => UNCHANGED <<sent, Settled>>
  BY DEF Expire, vars, journalVars, providerVars, Settled
<1> QED
  <2>1. ASSUME NEW c \in Caller, NEW n \in Token \cup {NoToken}, Exchange(c, n)
        PROVE  Ledger!Next
    BY <1>1, <2>1, <1>T DEF Ledger!Next, TypeOK
  <2>2. ASSUME NEW c \in Caller, CompleteSynced(c) PROVE Ledger!Next
    BY <1>4, <2>2 DEF Ledger!Next
  <2> QED BY <1>2, <1>5, <1>6, <1>7, <2>1, <2>2 DEF Next, CallStep, Owning

\* The journal implements GrantLedger for any number of callers and tokens: what is done
\* by files, fsync and receipts amounts to sending each grant at most once and settling
\* its outcome for good.
THEOREM ImplementsGrantLedger == Spec => KeepsGrantLedger
<1>1. Init => Ledger!Init
  BY DEF Init, Ledger!Init
<1> QED BY <1>1, JournalInvariant, LedgerStep, PTL
        DEF Spec, KeepsGrantLedger, Ledger!Spec, Settled
=============================================================================
