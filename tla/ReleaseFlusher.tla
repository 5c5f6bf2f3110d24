--------------------------- MODULE ReleaseFlusher ---------------------------
(***************************************************************************)
(* The flusher that carries release sequences to Home                      *)
(* (internal/home/concurrency_release.go).  MarkDirty is the registry's    *)
(* release sink; Run sends the dirty groups and retries what fails; Flush  *)
(* waits for everything to be acknowledged.  A frame carries a cumulative  *)
(* sequence, so Home keeps the largest it received: resending is harmless, *)
(* forgetting a sequence leaks a slot for good.                            *)
(*                                                                         *)
(* Durations are abstracted: a timer that is set may fire.  What is kept   *)
(* of nextDelay is backingOff, which decides whether a wake-up counts.     *)
(***************************************************************************)
EXTENDS Naturals, ReleaseGroups

CONSTANTS
    MaxSeq,        \* bound on the sequences marked
    FlushCall,     \* calls of Flush
    MaxLifetimes   \* bound on the number of Home lifetimes

ASSUME FlusherAssumption == MaxSeq \in Nat /\ MaxLifetimes \in Nat

VARIABLES
    latest,       \* groups[g].Latest
    acked,        \* groups[g].Acked
    waiters,      \* (group, sequence) of the tickets not completed yet
    tickets,      \* history: (group, sequence) of every ticket issued
    dirty,        \* pending[g], 0 when absent
    sender,       \* f.send is not nil
    unsignalled,  \* calls between unlocking f.mu and f.signal()
    wake,         \* the wake channel holds its token
    force,        \* the force channel holds a context
    runPc,        \* where Run is: "stopped", "select", "send" or "flushed"
    cancelled,    \* Run's context is cancelled
    timerOn,      \* timerC is not nil
    backingOff,   \* local of Run
    batch,        \* the copied pairs flush still has to send
    failed,       \* local of flush
    flushPc,      \* where a call of Flush is
    flushGoal,    \* history: Latest of every group when the call was made
    lifetimes,    \* Home lifetimes started so far
    homeSeq       \* Home, external: the largest sequence received per group

loopVars == <<runPc, cancelled, timerOn, backingOff, batch, failed>>
markVars == <<latest, acked, waiters, tickets, dirty>>
flushVars == <<flushPc, flushGoal>>
flusherVars == <<loopVars, markVars, flushVars, sender, unsignalled, wake, force, lifetimes, homeSeq>>

\* The types of the sequences; the other variables are flags and program counters.
SeqTypeOK ==
    /\ latest \in [Group -> Nat] /\ acked \in [Group -> Nat] /\ dirty \in [Group -> Nat]
    /\ waiters \subseteq Group \X Nat /\ tickets \subseteq Group \X Nat
    /\ flushPc \in [FlushCall -> {"idle", "poll", "ok", "timedOut"}]
    /\ flushGoal \in [FlushCall -> [Group -> Nat]]
    /\ homeSeq \in [Group -> Nat]

Larger(m, n) == IF m >= n THEN m ELSE n

Dirty == {g \in Group : dirty[g] # 0}

\* newReleaseFlusher, before the first lifetime is attached.
FlusherInit ==
    /\ latest = [g \in Group |-> 0] /\ acked = [g \in Group |-> 0]
    /\ waiters = {} /\ tickets = {}
    /\ dirty = [g \in Group |-> 0]
    /\ sender = FALSE /\ wake = FALSE /\ force = FALSE
    /\ unsignalled = 0
    /\ runPc = "stopped"
    /\ cancelled = FALSE /\ timerOn = FALSE /\ backingOff = FALSE
    /\ batch = {} /\ failed = FALSE
    /\ flushPc = [c \in FlushCall |-> "idle"]
    /\ flushGoal = [c \in FlushCall |-> [g \in Group |-> 0]]
    /\ lifetimes = 0
    /\ homeSeq = [g \in Group |-> 0]

(***************************************************************************)
(* Marking and signalling                                                  *)
(***************************************************************************)

\* The f.mu section of MarkDirty.  A sequence Home has acknowledged already gets a
\* completed ticket; sequences may arrive in any order.
MarkDirty(g, n) ==
    /\ tickets' = tickets \cup {<<g, n>>}
    /\ \/ /\ n <= acked[g]
          /\ UNCHANGED <<latest, waiters, dirty>>
       \/ /\ n > acked[g]
          /\ waiters' = waiters \cup {<<g, n>>}
          /\ latest' = [latest EXCEPT ![g] = Larger(@, n)]
          /\ dirty' = [dirty EXCEPT ![g] = Larger(@, n)]
    /\ unsignalled' = unsignalled + 1
    /\ UNCHANGED <<loopVars, acked, flushVars, sender, wake, force, lifetimes, homeSeq>>

\* signal: the token is dropped when the channel is full.
signal ==
    /\ unsignalled > 0
    /\ unsignalled' = unsignalled - 1
    /\ wake' = TRUE
    /\ UNCHANGED <<loopVars, markVars, flushVars, sender, force, lifetimes, homeSeq>>

(***************************************************************************)
(* Run                                                                     *)
(***************************************************************************)

\* A lifetime sets the configuration and the sender, each followed by a signal, and
\* starts Run with a timer that is due.
StartLifetime ==
    /\ runPc = "stopped"
    /\ lifetimes < MaxLifetimes
    /\ lifetimes' = lifetimes + 1
    /\ sender' = TRUE
    /\ wake' = TRUE
    /\ runPc' = "select"
    /\ cancelled' = FALSE
    /\ timerOn' = TRUE
    /\ backingOff' = FALSE
    /\ UNCHANGED <<batch, failed, markVars, flushVars, unsignalled, force, homeSeq>>

\* releaseCancel.  The last lifetime of the model is not cancelled.
CancelLifetime ==
    /\ runPc # "stopped"
    /\ ~cancelled
    /\ lifetimes < MaxLifetimes
    /\ cancelled' = TRUE
    /\ UNCHANGED <<runPc, timerOn, backingOff, batch, failed, markVars, flushVars, sender,
                   unsignalled, wake, force, lifetimes, homeSeq>>

RunReturn ==
    /\ runPc = "select"
    /\ cancelled
    /\ runPc' = "stopped"
    /\ UNCHANGED <<cancelled, timerOn, backingOff, batch, failed, markVars, flushVars,
                   sender, unsignalled, wake, force, lifetimes, homeSeq>>

\* A wake-up makes the timer due, unless Run is backing off: the timer runs then.
RunWake ==
    /\ runPc = "select"
    /\ wake
    /\ wake' = FALSE
    /\ timerOn' = (timerOn \/ ~backingOff)
    /\ UNCHANGED <<runPc, cancelled, backingOff, batch, failed, markVars, flushVars, sender,
                   unsignalled, force, lifetimes, homeSeq>>

\* flush, up to the first send: with nothing pending or no sender it returns at once.
BeginFlush ==
    /\ failed' = FALSE
    /\ \/ /\ Dirty # {} /\ sender
          /\ batch' = {<<g, dirty[g]>> : g \in Dirty}
          /\ runPc' = "send"
       \/ /\ Dirty = {} \/ ~sender
          /\ batch' = {}
          /\ runPc' = "flushed"

RunForce ==
    /\ runPc = "select"
    /\ force
    /\ force' = FALSE
    /\ timerOn' = TRUE
    /\ BeginFlush
    /\ UNCHANGED <<cancelled, backingOff, markVars, flushVars, sender, unsignalled, wake,
                   lifetimes, homeSeq>>

RunTimer ==
    /\ runPc = "select"
    /\ timerOn
    /\ BeginFlush
    /\ UNCHANGED <<cancelled, timerOn, backingOff, markVars, flushVars, sender, unsignalled,
                   wake, force, lifetimes, homeSeq>>

HomeReceives(g, n) == homeSeq' = [homeSeq EXCEPT ![g] = Larger(@, n)]

\* Mutant: a successful send clears the group even if it was marked again meanwhile.
SendOkForgets(g, n) ==
    /\ runPc = "send"
    /\ <<g, n>> \in batch
    /\ batch' = batch \ {<<g, n>>}
    /\ HomeReceives(g, n)
    /\ acked' = [acked EXCEPT ![g] = Larger(@, n)]
    /\ waiters' = {w \in waiters : w[1] # g \/ w[2] > acked'[g]}
    /\ dirty' = [dirty EXCEPT ![g] = 0]
    /\ UNCHANGED <<runPc, cancelled, timerOn, backingOff, failed, latest, tickets, flushVars,
                   sender, unsignalled, wake, force, lifetimes>>

\* Mutant: every ticket of the group is completed, newer sequences included.
SendOkCompletesAll(g, n) ==
    /\ runPc = "send"
    /\ <<g, n>> \in batch
    /\ batch' = batch \ {<<g, n>>}
    /\ HomeReceives(g, n)
    /\ acked' = [acked EXCEPT ![g] = Larger(@, n)]
    /\ waiters' = {w \in waiters : w[1] # g}
    /\ dirty' = [dirty EXCEPT ![g] = IF @ <= acked'[g] THEN 0 ELSE @]
    /\ UNCHANGED <<runPc, cancelled, timerOn, backingOff, failed, latest, tickets, flushVars,
                   sender, unsignalled, wake, force, lifetimes>>

\* One group sent and acknowledged: tickets up to the sequence complete, and the group
\* stays dirty if a later sequence was marked during the send.
SendOk(g, n) ==
    /\ runPc = "send"
    /\ <<g, n>> \in batch
    /\ batch' = batch \ {<<g, n>>}
    /\ HomeReceives(g, n)
    /\ acked' = [acked EXCEPT ![g] = Larger(@, n)]
    /\ waiters' = {w \in waiters : w[1] # g \/ w[2] > acked'[g]}
    /\ dirty' = [dirty EXCEPT ![g] = IF @ <= acked'[g] THEN 0 ELSE @]
    /\ UNCHANGED <<runPc, cancelled, timerOn, backingOff, failed, latest, tickets, flushVars,
                   sender, unsignalled, wake, force, lifetimes>>

\* The send failed: Home may or may not have received the frame.
SendFail(g, n) ==
    /\ runPc = "send"
    /\ <<g, n>> \in batch
    /\ batch' = batch \ {<<g, n>>}
    /\ HomeReceives(g, n) \/ UNCHANGED homeSeq
    /\ failed' = TRUE
    /\ UNCHANGED <<runPc, cancelled, timerOn, backingOff, markVars, flushVars, sender,
                   unsignalled, wake, force, lifetimes>>

FlushSent ==
    /\ runPc = "send"
    /\ batch = {}
    /\ runPc' = "flushed"
    /\ UNCHANGED <<cancelled, timerOn, backingOff, batch, failed, markVars, flushVars, sender,
                   unsignalled, wake, force, lifetimes, homeSeq>>

\* Mutant: after a failure the timer is left to the next wake-up.
RunRearmOnWake ==
    /\ runPc = "flushed"
    /\ backingOff' = failed
    /\ timerOn' = (Dirty # {} /\ ~failed)
    /\ runPc' = "select"
    /\ UNCHANGED <<cancelled, batch, failed, markVars, flushVars, sender, unsignalled, wake,
                   force, lifetimes, homeSeq>>

\* nextDelay, then the timer is stopped only if nothing is pending and nothing failed.
RunRearm ==
    /\ runPc = "flushed"
    /\ backingOff' = failed
    /\ timerOn' = (Dirty # {} \/ failed)
    /\ runPc' = "select"
    /\ UNCHANGED <<cancelled, batch, failed, markVars, flushVars, sender, unsignalled, wake,
                   force, lifetimes, homeSeq>>

(***************************************************************************)
(* Flush                                                                   *)
(***************************************************************************)

\* forceFlush drops the context when the channel is full.
FlushStart(c) ==
    /\ flushPc[c] = "idle"
    /\ force' = TRUE
    /\ flushPc' = [flushPc EXCEPT ![c] = "poll"]
    /\ flushGoal' = [flushGoal EXCEPT ![c] = latest]
    /\ UNCHANGED <<loopVars, markVars, sender, unsignalled, wake, lifetimes, homeSeq>>

\* Mutant: Flush returns as soon as its forced flush was taken up.
FlushDoneEarly(c) ==
    /\ flushPc[c] = "poll"
    /\ ~force
    /\ flushPc' = [flushPc EXCEPT ![c] = "ok"]
    /\ UNCHANGED <<loopVars, markVars, flushGoal, sender, unsignalled, wake, force,
                   lifetimes, homeSeq>>

FlushDone(c) ==
    /\ flushPc[c] = "poll"
    /\ Dirty = {}
    /\ flushPc' = [flushPc EXCEPT ![c] = "ok"]
    /\ UNCHANGED <<loopVars, markVars, flushGoal, sender, unsignalled, wake, force,
                   lifetimes, homeSeq>>

FlushTimeout(c) ==
    /\ flushPc[c] = "poll"
    /\ Dirty # {}
    /\ flushPc' = [flushPc EXCEPT ![c] = "timedOut"]
    /\ UNCHANGED <<loopVars, markVars, flushGoal, sender, unsignalled, wake, force,
                   lifetimes, homeSeq>>

-----------------------------------------------------------------------------
SomeSend(S(_, _)) == \E g \in Group, n \in 1..MaxSeq : S(g, n)

RunStep ==
    \/ RunReturn \/ RunWake \/ RunForce \/ RunTimer \/ FlushSent \/ RunRearm
    \/ SomeSend(SendOk) \/ SomeSend(SendFail)

FlushStep(c) == FlushStart(c) \/ FlushDone(c) \/ FlushTimeout(c)

\* What happens inside the flusher; MarkDirty belongs to its caller.
Internal ==
    \/ signal \/ StartLifetime \/ CancelLifetime \/ RunStep
    \/ \E c \in FlushCall : FlushStep(c)

\* A release may be marked at any time, in any order, and marked again.
Mark == \E g \in Group, n \in 1..MaxSeq : <<g, n>> \notin tickets /\ MarkDirty(g, n)

FlusherNext == Internal \/ Mark

FlusherSpec == FlusherInit /\ [][FlusherNext]_flusherVars

(***************************************************************************)
(* Fairness: Run and the callers of signal keep running, the subscriber    *)
(* loop starts the next lifetime, and sends to Home do not fail for ever.  *)
(***************************************************************************)
FlusherFairness ==
    /\ WF_flusherVars(signal)
    /\ WF_flusherVars(StartLifetime)
    /\ WF_flusherVars(RunReturn)
    /\ WF_flusherVars(RunWake)
    /\ SF_flusherVars(RunTimer)
    /\ WF_flusherVars(FlushSent)
    /\ WF_flusherVars(RunRearm)
    /\ \A g \in Group :
         /\ WF_flusherVars(\E n \in 1..MaxSeq : SendOk(g, n) \/ SendFail(g, n))
         /\ SF_flusherVars(\E n \in 1..MaxSeq : SendOk(g, n))

FlusherFairSpec == FlusherSpec /\ FlusherFairness

(***************************************************************************)
(* Properties                                                              *)
(***************************************************************************)

\* A completed ticket means Home has the sequence, however sends, failures, restarts
\* and late or repeated marks interleave.
TicketsTrue == \A w \in tickets \ waiters : w[2] <= homeSeq[w[1]]

\* No marked sequence is forgotten: until Home acknowledges the latest sequence of a
\* group, the group stays dirty with that sequence, also when it was marked while an
\* older one was being sent.
NothingForgotten == \A g \in Group : latest[g] > acked[g] => dirty[g] = latest[g]

\* A call of Flush that returns nil had every sequence marked before the call
\* acknowledged by Home.
FlushTrue == \A c \in FlushCall : flushPc[c] = "ok" =>
                 \A g \in Group : flushGoal[c][g] <= homeSeq[g]

\* A ticket is completed sooner or later: no order of marking, waking, backing off and
\* restarting leaves a dirty group with a stopped timer and no wake-up to come.
TicketsComplete ==
    \A g \in Group, n \in 1..MaxSeq : <<g, n>> \in waiters ~> <<g, n>> \notin waiters
=============================================================================
