----------------------------- MODULE RedisQueue -----------------------------
(***************************************************************************)
(* The in-memory usage queue (internal/redisqueue/queue.go) with its       *)
(* producers, its subscribers, the clients that pop it and the forwarder   *)
(* that carries records to Home (Service.startHomeUsageForwarder).         *)
(*                                                                         *)
(* A record goes to the subscribers if there are any and is queued         *)
(* otherwise.  Enqueue looks at `enabled', publishes and queues in three   *)
(* steps; SetEnabled(false) stores, clears and closes in three.  A notice  *)
(* of NotifyUsageRefresh is only published.  The error queue is the same   *)
(* structure, and EnqueueError the first two steps of Enqueue.  Compaction *)
(* of the slice behind items[head:] does not change what the queue holds   *)
(* and is left out.                                                        *)
(***************************************************************************)
EXTENDS Naturals, SequencesExt

CONSTANTS
    Rec,        \* what is published: usage records and refresh notices
    Kept,       \* the usage records, queued when nobody subscribes
    Hello,      \* usageSupportRefreshPayload, which opens every usage subscription
    Sub,        \* subscriptions that may be made
    Buffer,     \* capacity of a subscriber's channel
    Retention,  \* retentionSeconds
    Batch,      \* how many records the forwarder pops at once
    MaxTime,    \* bound on the clock
    MaxToggles  \* bound on the calls of SetEnabled

ASSUME QueueAssumption ==
    /\ Kept \subseteq Rec /\ Hello \notin Rec /\ Rec \cap {"pop", "push", "requeue"} = {}
    /\ Buffer \in Nat \ {0} /\ Batch \in Nat \ {0}
    /\ Retention \in Nat /\ MaxTime \in Nat /\ MaxToggles \in Nat

VARIABLES
    clock, enabled, toggles,
    clearing,   \* SetEnabled(false) has stored and not cleared yet
    items,      \* items[head:]: records with enqueuedAt
    subscribed, \* subscriptions made so far
    subs,       \* keys of q.subscribers
    toClose,    \* channels taken out of the map whose close is still to come, per caller
    closes,     \* how often a subscriber's channel was closed
    buf,        \* what is in a subscriber's channel
    pc,         \* where the Enqueue of a record is
    stamp,      \* the `now' its enqueue read before locking
    held,       \* records the forwarder popped and has not pushed
    fwd,        \* the forwarder: "pop", "push", "requeue", or the record it enqueues again
    pub,        \* history: records sent to the subscribers, in order, taken or not
    from,       \* history: Len(pub) when a subscription was made
    got,        \* history: what a subscriber received
    homeGot,    \* Home, external: records received
    unsure,     \* records whose push failed though Home received them
    gone        \* history: records popped by a client, expired, cleared or refused

fwdVars == <<held, fwd, homeGot, unsure>>
chanVars == <<subscribed, subs, toClose, closes, buf, from, got>>
timeVars == <<clock, enabled, toggles, clearing>>
vars == <<timeVars, items, chanVars, pc, stamp, fwdVars, pub, gone>>

Init ==
    /\ clock = 0 /\ enabled = TRUE /\ toggles = 0 /\ clearing = FALSE
    /\ items = <<>> /\ subs = {} /\ subscribed = {}
    /\ toClose = [s \in Sub |-> 0] /\ closes = [s \in Sub |-> 0]
    /\ buf = [s \in Sub |-> <<>>] /\ from = [s \in Sub |-> 0] /\ got = [s \in Sub |-> <<>>]
    /\ pc = [r \in Rec |-> IF r \in Kept THEN "new" ELSE "publish"] /\ stamp = [r \in Rec |-> 0]
    /\ held = <<>> /\ fwd = "pop" /\ homeGot = {} /\ unsure = {} /\ pub = <<>> /\ gone = {}

Records(q) == {q[i].rec : i \in DOMAIN q}

\* pruneLocked: drop what is expired at the head.
Fresh(item) == item.at + Retention >= clock
Pruned(q) ==
    LET i == SelectInSeq(q, Fresh) IN IF i = 0 THEN <<>> ELSE SubSeq(q, i, Len(q))

-----------------------------------------------------------------------------
(* Enqueue and NotifyUsageRefresh.                                         *)

CheckEnabled(r) ==
    /\ pc[r] \in {"new", "again"}
    /\ pc' = [pc EXCEPT ![r] = IF enabled THEN "publish" ELSE "done"]
    /\ gone' = IF enabled THEN gone ELSE gone \cup {r}
    /\ UNCHANGED <<timeVars, items, chanVars, stamp, fwdVars, pub>>

\* Mutant: a subscriber whose channel is full misses the record and stays.
PublishSkips(r) ==
    /\ pc[r] = "publish"
    /\ pc' = [pc EXCEPT ![r] = IF subs = {} /\ r \in Kept THEN "stamp" ELSE "done"]
    /\ pub' = IF subs = {} THEN pub ELSE Append(pub, r)
    /\ buf' = [s \in Sub |-> IF s \in subs /\ Len(buf[s]) < Buffer THEN Append(buf[s], r) ELSE buf[s]]
    /\ UNCHANGED <<timeVars, items, subscribed, subs, toClose, closes, from, got, stamp, fwdVars, gone>>

\* publishToSubscribers: whoever cannot take the record is dropped and closed.  It
\* reports success if there was anybody to send to, taken by somebody or not.
Publish(r) ==
    /\ pc[r] = "publish"
    /\ pc' = [pc EXCEPT ![r] = IF subs = {} /\ r \in Kept THEN "stamp" ELSE "done"]
    /\ pub' = IF subs = {} THEN pub ELSE Append(pub, r)
    /\ LET full == {s \in subs : Len(buf[s]) >= Buffer} IN
         /\ subs' = subs \ full
         /\ closes' = [s \in Sub |-> IF s \in full THEN closes[s] + 1 ELSE closes[s]]
         /\ buf' = [s \in Sub |-> IF s \in subs \ full THEN Append(buf[s], r) ELSE buf[s]]
    /\ UNCHANGED <<timeVars, items, subscribed, toClose, from, got, stamp, fwdVars, gone>>

\* enqueue reads the clock before it locks.
ReadClock(r) ==
    /\ pc[r] = "stamp"
    /\ pc' = [pc EXCEPT ![r] = "enqueue"] /\ stamp' = [stamp EXCEPT ![r] = clock]
    /\ UNCHANGED <<timeVars, items, chanVars, fwdVars, pub, gone>>

Enqueue(r) ==
    /\ pc[r] = "enqueue"
    /\ pc' = [pc EXCEPT ![r] = "done"]
    /\ items' = Append(Pruned(items), [rec |-> r, at |-> stamp[r]])
    /\ gone' = gone \cup (Records(items) \ Records(Pruned(items)))
    /\ UNCHANGED <<timeVars, chanVars, stamp, fwdVars, pub>>

-----------------------------------------------------------------------------
(* Subscribers: subscribe, unsubscribe, and streamRedisSubscription.       *)

Subscribe(s) ==
    /\ s \notin subscribed
    /\ subscribed' = subscribed \cup {s} /\ subs' = subs \cup {s}
    /\ buf' = [buf EXCEPT ![s] = <<Hello>>] /\ from' = [from EXCEPT ![s] = Len(pub)]
    /\ UNCHANGED <<timeVars, items, toClose, closes, got, pc, stamp, fwdVars, pub, gone>>

Read(s) ==
    /\ buf[s] # <<>>
    /\ got' = [got EXCEPT ![s] = Append(@, Head(buf[s]))] /\ buf' = [buf EXCEPT ![s] = Tail(@)]
    /\ UNCHANGED <<timeVars, items, subscribed, subs, toClose, closes, from, pc, stamp, fwdVars, pub, gone>>

\* Mutant: unsubscribe closes a channel that somebody else took out of the map.
UnsubscribeBlind(s) ==
    /\ s \in subscribed /\ toClose[s] = 0
    /\ subs' = subs \ {s} /\ toClose' = [toClose EXCEPT ![s] = @ + 1]
    /\ UNCHANGED <<timeVars, items, subscribed, closes, buf, from, got, pc, stamp, fwdVars, pub, gone>>

Unsubscribe(s) ==
    /\ s \in subs
    /\ subs' = subs \ {s} /\ toClose' = [toClose EXCEPT ![s] = @ + 1]
    /\ UNCHANGED <<timeVars, items, subscribed, closes, buf, from, got, pc, stamp, fwdVars, pub, gone>>

\* unsubscribe and clear close outside the lock.
CloseChan(s) ==
    /\ toClose[s] > 0
    /\ toClose' = [toClose EXCEPT ![s] = @ - 1] /\ closes' = [closes EXCEPT ![s] = @ + 1]
    /\ UNCHANGED <<timeVars, items, subscribed, subs, buf, from, got, pc, stamp, fwdVars, pub, gone>>

-----------------------------------------------------------------------------
(* SetEnabled, the clock, and a client's PopOldest.                        *)

SetEnabled(value) ==
    /\ toggles < MaxToggles /\ ~clearing
    /\ enabled' = value /\ toggles' = toggles + 1 /\ clearing' = ~value
    /\ UNCHANGED <<clock, items, chanVars, pc, stamp, fwdVars, pub, gone>>

Clear ==
    /\ clearing
    /\ clearing' = FALSE /\ items' = <<>> /\ gone' = gone \cup Records(items)
    /\ subs' = {} /\ toClose' = [s \in Sub |-> IF s \in subs THEN toClose[s] + 1 ELSE toClose[s]]
    /\ UNCHANGED <<clock, enabled, toggles, subscribed, closes, buf, from, got, pc, stamp, fwdVars, pub>>

Tick ==
    /\ clock < MaxTime /\ clock' = clock + 1
    /\ UNCHANGED <<enabled, toggles, clearing, items, chanVars, pc, stamp, fwdVars, pub, gone>>

\* A management client or LPOP takes the oldest record.
Pop ==
    /\ enabled /\ items # <<>>
    /\ items' = SubSeq(Pruned(items), 2, Len(Pruned(items)))
    /\ gone' = gone \cup (Records(items) \ Records(items'))
    /\ UNCHANGED <<timeVars, chanVars, pc, stamp, fwdVars, pub>>

-----------------------------------------------------------------------------
(* The forwarder of Home mode.                                             *)

FwdPop ==
    /\ fwd = "pop" /\ enabled /\ items # <<>>
    /\ LET q == Pruned(items)
           n == IF Len(q) < Batch THEN Len(q) ELSE Batch
       IN  /\ held' = [i \in 1..n |-> q[i].rec]
           /\ items' = SubSeq(q, n + 1, Len(q))
           /\ gone' = gone \cup (Records(items) \ Records(q))
           /\ fwd' = IF n = 0 THEN "pop" ELSE "push"
    /\ UNCHANGED <<timeVars, chanVars, pc, stamp, homeGot, unsure, pub>>

FwdPush ==
    /\ fwd = "push"
    /\ homeGot' = homeGot \cup {Head(held)} /\ held' = Tail(held)
    /\ fwd' = IF Tail(held) = <<>> THEN "pop" ELSE "push"
    /\ UNCHANGED <<timeVars, items, chanVars, pc, stamp, unsure, pub, gone>>

\* Mutant: the record whose push failed is not enqueued again.
FwdPushFailDrops(arrived) ==
    /\ fwd = "push"
    /\ fwd' = "requeue" /\ held' = Tail(held)
    /\ homeGot' = IF arrived THEN homeGot \cup {Head(held)} ELSE homeGot
    /\ unsure' = IF arrived THEN unsure \cup {Head(held)} ELSE unsure
    /\ UNCHANGED <<timeVars, items, chanVars, pc, stamp, pub, gone>>

\* LPushUsage fails, possibly after Home received the record.
FwdPushFail(arrived) ==
    /\ fwd = "push"
    /\ fwd' = "requeue"
    /\ homeGot' = IF arrived THEN homeGot \cup {Head(held)} ELSE homeGot
    /\ unsure' = IF arrived THEN unsure \cup {Head(held)} ELSE unsure
    /\ UNCHANGED <<timeVars, items, chanVars, pc, stamp, held, pub, gone>>

\* What was not pushed goes through Enqueue again, one record after the other.
FwdRequeue ==
    /\ fwd = "requeue" /\ held # <<>>
    /\ fwd' = Head(held) /\ held' = Tail(held) /\ pc' = [pc EXCEPT ![Head(held)] = "again"]
    /\ UNCHANGED <<timeVars, items, chanVars, stamp, homeGot, unsure, pub, gone>>

FwdRequeued ==
    /\ fwd \in Rec /\ pc[fwd] = "done"
    /\ fwd' = IF held = <<>> THEN "pop" ELSE "requeue"
    /\ UNCHANGED <<timeVars, items, chanVars, pc, stamp, held, homeGot, unsure, pub, gone>>

-----------------------------------------------------------------------------
Next ==
    \/ \E r \in Rec : CheckEnabled(r) \/ Publish(r) \/ ReadClock(r) \/ Enqueue(r)
    \/ \E s \in Sub : Subscribe(s) \/ Read(s) \/ Unsubscribe(s) \/ CloseChan(s)
    \/ (\E value \in BOOLEAN : SetEnabled(value)) \/ Clear \/ Tick \/ Pop
    \/ FwdPop \/ FwdPush \/ (\E arrived \in BOOLEAN : FwdPushFail(arrived)) \/ FwdRequeue \/ FwdRequeued

Spec == Init /\ [][Next]_vars

-----------------------------------------------------------------------------
(* Properties.                                                             *)

\* What a subscriber has read and what waits in its channel.
Stream(s) == got[s] \o buf[s]
Delivered(r) == \E s \in subscribed : r \in ToSet(Stream(s))

\* The places a record can be found in.
Places(r) == {p \in {"queue", "held", "subscriber", "home", "gone"} :
    CASE p = "queue" -> r \in Records(items)
      [] p = "held" -> r \in ToSet(held)
      [] p = "subscriber" -> Delivered(r)
      [] p = "home" -> r \in homeGot
      [] OTHER -> r \in gone}

\* Nobody took a published record, and a subscriber that had filled its channel was
\* closed at that very record.
Refused(r) ==
    /\ ~Delivered(r)
    /\ \E i \in DOMAIN pub, s \in subscribed \ subs :
          /\ pub[i] = r /\ from[s] + Len(Stream(s)) = i
          /\ Len(Stream(s)) >= Buffer /\ closes[s] > 0

\* When the Enqueue of a usage record has returned, the record is in exactly one
\* place, whatever subscribers, pops, failed pushes and switches of the queue came
\* in between, and it can be lost in one way only: published when the channel of
\* every subscriber was full (publishToSubscribers returns true, so it is not queued
\* either), it is nowhere.  Only a push whose answer was lost may leave it in two.
AccountedOnce ==
    \A r \in Kept :
        /\ pc[r] = "done" => Places(r) # {} \/ Refused(r)
        /\ r \notin unsure => (\A p, q \in Places(r) : p = q) /\ (Refused(r) => Places(r) = {})

\* A subscription is a gapless piece of what was published: what a subscriber has
\* read and what is in its channel is the greeting followed by every record
\* published since, all of them for as long as it is subscribed.
GaplessStream ==
    \A s \in subscribed :
        LET all == <<Hello>> \o SubSeq(pub, from[s] + 1, Len(pub))
        IN  IsPrefix(Stream(s), all) /\ (s \in subs => Stream(s) = all)

\* A channel is closed once, by the one caller that took it out of the map, and a
\* subscriber that can still be published to is open: anything else would panic.
ClosedOnce ==
    \A s \in Sub : closes[s] + toClose[s] <= (IF s \in subscribed \ subs THEN 1 ELSE 0)

\* What a subscriber of the queue can rely on, however it ends: by itself, by a
\* full buffer or by the queue being switched off.
SubscriptionSound == GaplessStream /\ ClosedOnce
=============================================================================
