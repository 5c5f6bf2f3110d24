----------------------------- MODULE AutoRefresh -----------------------------
(***************************************************************************)
(* Background renewal of credentials                                       *)
(* (sdk/cliproxy/auth/auto_refresh_loop.go, conductor_refresh.go and the   *)
(* credential operations of conductor_lifecycle.go).                       *)
(*                                                                         *)
(* A loop keeps a heap of credentials by the time of their next check and  *)
(* a set of dirty ones whose check must be recomputed.  A due credential   *)
(* becomes a job: it is entered in Manager.refreshJobs, its                *)
(* NextRefreshAfter becomes the job's pending marker, and the job goes     *)
(* through a bounded channel to the loop's workers.  Requests refresh      *)
(* credentials too, and management calls register, replace and remove      *)
(* them, at any moment.                                                    *)
(*                                                                         *)
(* One step is one critical section of Manager.mu or of the loop's mutex.  *)
(* Every change of a credential ends, after its unlock, with a call that   *)
(* marks the credential dirty or unschedules it in the loop that is        *)
(* current by then: note[p] is the call process p still has to make.       *)
(*                                                                         *)
(* Time is abstract: an entry of the heap may come due at any moment, and  *)
(* a NextRefreshAfter in the future (wait) may pass at any moment.         *)
(***************************************************************************)
EXTENDS Naturals, Sequences, FiniteSets, Functions

CONSTANTS
  Creds,      \* credential ids
  Managers,   \* goroutines that register, replace and remove credentials
  Requests,   \* goroutines of requests whose credential was refused
  Loops,      \* 1..n: the loops StartAutoRefresh creates, in this order
  Workers,    \* the workers of each loop
  QueueCap,   \* room in a loop's channel of jobs
  MaxOps,     \* bound on the operations of both and on Stop
  None, Later, Stale

ASSUME RefreshAssumption ==
  /\ Loops = 1 .. Cardinality(Loops)
  /\ QueueCap \in Nat \ {0} /\ MaxOps \in Nat
  /\ None # Later /\ None # Stale /\ Later # Stale
  /\ None \notin Loops /\ Later \notin Loops /\ Stale \notin Loops
  /\ None \notin [loop : Loops, epoch : Nat, running : BOOLEAN]
  /\ (Managers \cup Requests) \cap (Loops \X Workers) = {}

VARIABLES
  auth,       \* credential -> its entry in Manager.auths
  refreshJobs,\* credential -> its registered job, or None
  lock,       \* credential -> the process in refreshAuthForRequestAtEpoch
  current,    \* Manager.refreshLoop, or None
  loop,       \* loop -> its state
  queue,      \* loop -> its channel of jobs
  act,        \* request or worker -> the refresh it is in
  note,       \* process -> the call it owes the current loop, or None
  ops         \* operations performed

vars == <<auth, refreshJobs, lock, current, loop, queue, act, note, ops>>

WorkerIds == Loops \X Workers
Callers == Managers \cup Requests
Actors == Callers \cup WorkerIds
Go(l) == <<l>>  \* the goroutine of loop l, as a process
Processes == Actors \cup {Go(l) : l \in Loops}

Idle == [pc |-> "idle", cred |-> None, job |-> 0, base |-> <<0, 0>>, next |-> None]

\* sched: nextRefreshCheckAt yields a time; wait: that time is still to come,
\* because the tokens are fresh or NextRefreshAfter is in the future.  next:
\* NextRefreshAfter is zero (None), the pending marker of a loop's job, the
\* marker of a job that has ended, put back by a caller (Stale), or another
\* time (Later).  ver: CredentialVersion, as far as anyone compares it: a
\* refresh's own increment is seen by nobody, because refreshes exclude each
\* other.  epoch survives a removal (Manager.authEpochs).  tokens: the
\* registration and version the stored tokens descend from.
Entry(e, v, s, w) ==
  [here |-> TRUE, epoch |-> e, ver |-> v, tokens |-> <<e, v>>, sched |-> s,
   next |-> None, wait |-> w]

Init ==
  /\ auth \in [Creds -> {Entry(1, 1, s, FALSE) : s \in BOOLEAN}]
  /\ refreshJobs = [c \in Creds |-> None]
  /\ lock = [c \in Creds |-> None]
  /\ current = None
  /\ loop = [l \in Loops |-> [pc |-> "new", live |-> TRUE, heap |-> {},
                              dirty |-> {}, wake |-> FALSE, mode |-> "due",
                              todo |-> {}, hand |-> None, epoch |-> 0]]
  /\ queue = [l \in Loops |-> <<>>]
  /\ act = [a \in Actors |-> Idle]
  /\ note = [p \in Processes |-> None]
  /\ ops = 0

----------------------------------------------------------------------------
\* The decisions the loop and the jobs take from a credential's entry.

Schedulable(c) == auth[c].here /\ auth[c].sched
shouldRefresh(c) == Schedulable(c) /\ ~auth[c].wait

Owe(p, kind, c) ==
  note' = [note EXCEPT ![p] = [kind |-> kind, cred |-> c]]

Free(p) == note[p] = None

----------------------------------------------------------------------------
\* queueRefreshReschedule and queueRefreshUnschedule: read the current loop
\* under Manager.mu, then mark or remove under that loop's mutex.  Both are
\* one step here: a call that catches the loop just before it is replaced
\* marks a loop that is already cancelled.

Reschedule(l, c) ==
  [loop EXCEPT ![l].dirty = @ \cup {c}, ![l].wake = TRUE]

Removed(l, c) ==
  [loop EXCEPT ![l].dirty = @ \ {c}, ![l].heap = @ \ {c}]

Notify(p) ==
  /\ ~Free(p)
  /\ loop' = IF current = None THEN loop
             ELSE IF note[p].kind = "reschedule" THEN Reschedule(current, note[p].cred)
             ELSE Removed(current, note[p].cred)
  /\ note' = [note EXCEPT ![p] = None]
  /\ UNCHANGED <<auth, refreshJobs, lock, current, queue, act, ops>>

----------------------------------------------------------------------------
\* Register, Update and RemoveIf of a caller.  The store's I/O inside them is
\* outside Manager.mu but inside the credential's mutation gate, so their
\* effect is the publication.

Begin(a) == act[a] = Idle /\ Free(a) /\ ops < MaxOps /\ ops' = ops + 1

Registered(c, l, e) ==
  refreshJobs[c] # None /\ refreshJobs[c].loop = l /\ refreshJobs[c].epoch = e

\* A caller takes what it will publish later: a copy of the entry (GetByID,
\* List, the argument of Modify's callback), or a record built anew, which has
\* no epoch and may borrow the entry's NextRefreshAfter (service_auth.go,
\* auth_files_crud.go).
Copy(a, c) ==
  /\ Begin(a) /\ auth[c].here
  /\ \E e \in {0, auth[c].epoch}, n \in {None, auth[c].next} :
       /\ e # 0 => n = auth[c].next
       /\ act' = [act EXCEPT ![a] = [Idle EXCEPT !.pc = "edit", !.cred = c, !.job = e, !.next = n]]
  /\ UNCHANGED <<auth, refreshJobs, lock, current, loop, queue, note>>

\* What a time n taken earlier means when it is published in registration e:
\* a marker is one of a job that is still registered, or of one that has ended.
Published(c, n, e) ==
  IF n \in Loops THEN {Stale} \cup {l \in {n} : Registered(c, l, e)} ELSE {n}

\* A new record, or one a caller has built and finds nothing to update.
Register(a, c) ==
  /\ \/ Begin(a)
     \/ act[a].pc = "edit" /\ act[a].cred = c /\ act[a].job = 0 /\ ~auth[c].here /\ UNCHANGED ops
  /\ \E s, w \in BOOLEAN, n \in Published(c, act[a].next, auth[c].epoch + 1) :
       auth' = [auth EXCEPT ![c] = [here |-> TRUE, epoch |-> @.epoch + 1,
                  ver |-> IF @.here THEN @.ver + 1 ELSE 1,
                  tokens |-> <<@.epoch + 1, IF @.here THEN @.ver + 1 ELSE 1>>,
                  sched |-> s, next |-> n, wait |-> w]]
  /\ act' = [act EXCEPT ![a] = Idle]
  /\ Owe(a, "reschedule", c)
  /\ UNCHANGED <<refreshJobs, lock, current, loop, queue>>

\* The record is published in place of the entry, whatever has happened since
\* it was taken, unless the credential is gone or of a newer registration.
\* With its own tokens (changed: they are not the entry's) it begins a new
\* version.  NextRefreshAfter is the record's; or the entry's, for a snapshot
\* of the file with the same tokens; or zero, for new tokens with the entry's
\* time; or a time the caller chose or the merge derived.
Update(a, c) ==
  /\ act[a].pc = "edit" /\ act[a].cred = c
  /\ IF ~auth[c].here \/ (act[a].job # 0 /\ act[a].job < auth[c].epoch)
     THEN UNCHANGED <<auth, note>>
     ELSE /\ \E s, w, changed \in BOOLEAN :
            \E n \in Published(c, act[a].next, auth[c].epoch) \cup {Later}
                       \cup (IF changed THEN {None} ELSE {auth[c].next}) :
              auth' = [auth EXCEPT ![c] = [here |-> TRUE, epoch |-> @.epoch,
                         ver |-> IF changed THEN @.ver + 1 ELSE @.ver,
                         tokens |-> IF changed THEN <<@.epoch, @.ver + 1>> ELSE @.tokens,
                         sched |-> s, next |-> n, wait |-> w]]
          /\ Owe(a, "reschedule", c)
  /\ act' = [act EXCEPT ![a] = Idle]
  /\ UNCHANGED <<refreshJobs, lock, current, loop, queue, ops>>

RemoveIf(a, c) ==
  /\ Begin(a) /\ auth[c].here
  /\ auth' = [auth EXCEPT ![c].here = FALSE, ![c].epoch = @ + 1]
  /\ Owe(a, "unschedule", c)
  /\ UNCHANGED <<refreshJobs, lock, current, loop, queue, act>>

\* A request refreshes the credential it was refused with (epoch 0: any).
RefreshForRequest(a, c) ==
  /\ Begin(a)
  /\ act' = [act EXCEPT ![a] = [Idle EXCEPT !.pc = "refresh", !.cred = c]]
  /\ UNCHANGED <<auth, refreshJobs, lock, current, loop, queue, note>>

----------------------------------------------------------------------------
\* StartAutoRefresh and StopAutoRefresh.

Cancelled ==
  IF current = None THEN loop ELSE [loop EXCEPT ![current].live = FALSE]

Start(l) ==
  /\ loop[l].pc = "new" /\ \A k \in 1 .. l - 1 : loop[k].pc \notin {"new", "start", "rebuild"}
  /\ current' = None
  /\ loop' = [Cancelled EXCEPT ![l].pc = "start"]
  /\ UNCHANGED <<auth, refreshJobs, lock, queue, act, note, ops>>

Publish(l) ==
  /\ loop[l].pc = "start"
  /\ current' = l
  /\ loop' = [loop EXCEPT ![l].pc = "rebuild", ![l].mode = "read"]
  /\ UNCHANGED <<auth, refreshJobs, lock, queue, act, note, ops>>

\* rebuild reads the credentials under Manager.mu and fills the heap under
\* the loop's mutex; then the loop's goroutine starts.
RebuildRead(l) ==
  /\ loop[l].pc = "rebuild" /\ loop[l].mode = "read"
  /\ loop' = [loop EXCEPT ![l].todo = {c \in Creds : Schedulable(c)}, ![l].mode = "fill"]
  /\ UNCHANGED <<auth, refreshJobs, lock, current, queue, act, note, ops>>

RebuildFill(l) ==
  /\ loop[l].pc = "rebuild" /\ loop[l].mode = "fill"
  /\ loop' = [loop EXCEPT ![l].heap = loop[l].todo, ![l].todo = {}, ![l].pc = "wait"]
  /\ UNCHANGED <<auth, refreshJobs, lock, current, queue, act, note, ops>>

Stop ==
  /\ current # None /\ ops < MaxOps
  /\ loop' = Cancelled
  /\ current' = None
  /\ ops' = ops + 1
  /\ UNCHANGED <<auth, refreshJobs, lock, queue, act, note>>

----------------------------------------------------------------------------
\* The goroutine of a loop.

Drained(l) ==
  [loop EXCEPT ![l].todo = loop[l].dirty, ![l].dirty = {}, ![l].mode = "apply",
               ![l].pc = "pick"]

\* The wake token is there: applyDirty drains the dirty set.
Wake(l) ==
  /\ loop[l].pc = "wait" /\ loop[l].wake
  /\ loop' = [Drained(l) EXCEPT ![l].wake = FALSE]
  /\ UNCHANGED <<auth, refreshJobs, lock, current, queue, act, note, ops>>

\* The timer fires: popDue takes the entries whose time has come.
Timer(l) ==
  /\ loop[l].pc = "wait"
  /\ \E S \in SUBSET loop[l].heap \ {{}} :
       loop' = [loop EXCEPT ![l].heap = @ \ S, ![l].todo = S, ![l].mode = "due",
                            ![l].pc = "pick"]
  /\ UNCHANGED <<auth, refreshJobs, lock, current, queue, act, note, ops>>

TimerFor(l, c) == Timer(l) /\ c \in loop[l].heap /\ c \notin loop'[l].heap

\* After the due entries applyDirty drains the dirty ones, after those the
\* loop waits again; after the releases its goroutine ends.
PickNone(l) ==
  /\ loop[l].pc = "pick" /\ loop[l].todo = {} /\ Free(Go(l))
  /\ loop' = CASE loop[l].mode = "due" -> Drained(l)
               [] loop[l].mode = "apply" -> [loop EXCEPT ![l].pc = "wait"]
               [] OTHER -> [loop EXCEPT ![l].pc = "dead"]
  /\ UNCHANGED <<auth, refreshJobs, lock, current, queue, act, note, ops>>

\* The reads of handleDueAuth and applyDirty: what to do is decided here and
\* done after the unlock.
Decision(l, c) ==
  IF ~Schedulable(c) THEN (IF loop[l].mode = "due" /\ ~auth[c].here THEN "pick" ELSE "remove")
  ELSE IF loop[l].mode = "due" /\ shouldRefresh(c) THEN "mark" ELSE "upsert"

Pick(l) ==
  /\ loop[l].pc = "pick" /\ loop[l].mode \in {"due", "apply"} /\ Free(Go(l))
  /\ \E c \in loop[l].todo :
       loop' = [loop EXCEPT ![l].todo = @ \ {c}, ![l].hand = c,
                  ![l].epoch = auth[c].epoch, ![l].pc = Decision(l, c)]
  /\ UNCHANGED <<auth, refreshJobs, lock, current, queue, act, note, ops>>

Upsert(l) ==
  /\ loop[l].pc = "upsert" /\ Free(Go(l))
  /\ loop' = [loop EXCEPT ![l].heap = @ \cup {loop[l].hand}, ![l].pc = "pick", ![l].hand = None, ![l].epoch = 0]
  /\ UNCHANGED <<auth, refreshJobs, lock, current, queue, act, note, ops>>

Remove(l) ==
  /\ loop[l].pc = "remove"
  /\ loop' = [Removed(l, loop[l].hand) EXCEPT ![l].pc = "pick", ![l].hand = None, ![l].epoch = 0]
  /\ UNCHANGED <<auth, refreshJobs, lock, current, queue, act, note, ops>>

\* Of the credentials that are not scheduled any more, the ones refused
\* upstream get no job.
CanMark(c, e) ==
  auth[c].here /\ auth[c].epoch = e /\ refreshJobs[c] = None
  /\ ~(auth[c].next # None /\ auth[c].wait)

MarkPending(l) ==
  LET c == loop[l].hand IN
  /\ loop[l].pc = "mark" /\ CanMark(c, loop[l].epoch)
  /\ refreshJobs' = [refreshJobs EXCEPT ![c] =
                       [loop |-> l, epoch |-> loop[l].epoch, running |-> FALSE]]
  /\ auth' = [auth EXCEPT ![c].next = l, ![c].wait = TRUE]
  /\ Owe(Go(l), "reschedule", c)
  /\ loop' = [loop EXCEPT ![l].pc = "send"]
  /\ UNCHANGED <<lock, current, queue, act, ops>>

\* The job was refused: the credential is read once more.
MarkRefused(l) ==
  LET c == loop[l].hand IN
  /\ loop[l].pc = "mark" /\ (~CanMark(c, loop[l].epoch) \/ ~auth[c].sched)
  /\ loop' = [loop EXCEPT ![l].pc = "again"]
  /\ UNCHANGED <<auth, refreshJobs, lock, current, queue, act, note, ops>>

ReadAgain(l) ==
  /\ loop[l].pc = "again"
  /\ loop' = [loop EXCEPT ![l].pc = IF Schedulable(loop[l].hand) THEN "upsert" ELSE "remove"]
  /\ UNCHANGED <<auth, refreshJobs, lock, current, queue, act, note, ops>>

\* A loop cancelled between the test of its context and the select may still
\* send.
Send(l) ==
  /\ loop[l].pc = "send" /\ Free(Go(l))
  /\ Len(queue[l]) < QueueCap
  /\ queue' = [queue EXCEPT ![l] = Append(@, [cred |-> loop[l].hand, epoch |-> loop[l].epoch])]
  /\ loop' = [loop EXCEPT ![l].pc = "pick", ![l].hand = None, ![l].epoch = 0]
  /\ UNCHANGED <<auth, refreshJobs, lock, current, act, note, ops>>

\* MUTANT: the marker stays when the job is finished.
FinishKeepsMarker(p, c, l, e, retryAt, queuedOnly) ==
  IF ~Registered(c, l, e) \/ (queuedOnly /\ refreshJobs[c].running)
  THEN UNCHANGED <<auth, refreshJobs, note>>
  ELSE /\ refreshJobs' = [refreshJobs EXCEPT ![c] = None]
       /\ auth' = auth
       /\ Owe(p, "reschedule", c)

\* finishRefreshJob: the job leaves the register, and its marker, when the
\* credential still carries it, gives way to retryAt.
Finish(p, c, l, e, retryAt, queuedOnly) ==
  IF ~Registered(c, l, e) \/ (queuedOnly /\ refreshJobs[c].running)
  THEN UNCHANGED <<auth, refreshJobs, note>>
  ELSE /\ refreshJobs' = [refreshJobs EXCEPT ![c] = None]
       /\ auth' = IF auth[c].here /\ auth[c].epoch = e /\ auth[c].next = l
                  THEN [auth EXCEPT ![c].next = retryAt, ![c].wait = (retryAt = Later)]
                  ELSE auth
       /\ Owe(p, "reschedule", c)

\* MUTANT: a job that finds the queue full is dropped but stays registered.
GiveBackDrops(l) ==
  /\ loop[l].pc = "send" /\ Free(Go(l))
  /\ Len(queue[l]) >= QueueCap \/ ~loop[l].live
  /\ loop' = [loop EXCEPT ![l].pc = "upsert"]
  /\ UNCHANGED <<auth, refreshJobs, lock, current, queue, act, note, ops>>

\* The queue is full, or the loop was cancelled.
GiveBack(l) ==
  /\ loop[l].pc = "send" /\ Free(Go(l))
  /\ Len(queue[l]) >= QueueCap \/ ~loop[l].live
  /\ Finish(Go(l), loop[l].hand, l, loop[l].epoch, Later, FALSE)
  /\ loop' = [loop EXCEPT ![l].pc = "upsert"]
  /\ UNCHANGED <<lock, current, queue, act, ops>>

\* run returns: releaseQueuedJobs collects the jobs of this loop that no
\* worker has begun, and finishes them one by one.
Exit(l) ==
  /\ loop[l].pc = "wait" /\ ~loop[l].live
  /\ loop' = [loop EXCEPT ![l].pc = "pick", ![l].mode = "release",
       ![l].heap = {}, ![l].dirty = {}, ![l].wake = FALSE,  \* never read again
       ![l].todo = {c \in Creds : refreshJobs[c] # None /\ refreshJobs[c].loop = l
                                  /\ ~refreshJobs[c].running}]
  /\ UNCHANGED <<auth, refreshJobs, lock, current, queue, act, note, ops>>

Release(l) ==
  /\ loop[l].pc = "pick" /\ loop[l].mode = "release" /\ Free(Go(l))
  /\ \E c \in loop[l].todo :
       /\ IF refreshJobs[c] # None /\ refreshJobs[c].loop = l
          THEN Finish(Go(l), c, l, refreshJobs[c].epoch, None, TRUE)
          ELSE UNCHANGED <<auth, refreshJobs, note>>
       /\ loop' = [loop EXCEPT ![l].todo = @ \ {c}]
  /\ UNCHANGED <<lock, current, queue, act, ops>>

----------------------------------------------------------------------------
\* A worker: take a job, begin it, refresh, finish it.  A worker of a
\* cancelled loop may still take one.

TakeJob(w) ==
  LET l == w[1] IN
  /\ act[w] = Idle /\ Free(w) /\ queue[l] # <<>>
  /\ act' = [act EXCEPT ![w] = [Idle EXCEPT !.pc = "begin",
               !.cred = Head(queue[l]).cred, !.job = Head(queue[l]).epoch]]
  /\ queue' = [queue EXCEPT ![l] = Tail(@)]
  /\ UNCHANGED <<auth, refreshJobs, lock, current, loop, note, ops>>

CanBegin(w, c, e) ==
  /\ loop[w[1]].live
  /\ Registered(c, w[1], e)
  /\ auth[c].here /\ auth[c].epoch = e

BeginJob(w) ==
  LET c == act[w].cred IN
  /\ act[w].pc = "begin" /\ CanBegin(w, c, act[w].job)
  /\ refreshJobs' = [refreshJobs EXCEPT ![c].running = TRUE]
  /\ act' = [act EXCEPT ![w].pc = "refresh"]
  /\ UNCHANGED <<auth, lock, current, loop, queue, note, ops>>

BeginRefused(w) ==
  /\ act[w].pc = "begin" /\ ~CanBegin(w, act[w].cred, act[w].job)
  /\ act' = [act EXCEPT ![w].pc = "finish"]
  /\ UNCHANGED <<auth, refreshJobs, lock, current, loop, queue, note, ops>>

FinishJob(w) ==
  /\ act[w].pc = "finish" /\ Free(w)
  /\ Finish(w, act[w].cred, w[1], act[w].job, None, FALSE)
  /\ act' = [act EXCEPT ![w] = Idle]
  /\ UNCHANGED <<lock, current, loop, queue, ops>>

----------------------------------------------------------------------------
\* refreshAuthForRequestAtEpoch, for workers and requests alike.

After(a) == IF a \in Callers THEN Idle
            ELSE [Idle EXCEPT !.pc = "finish", !.cred = act[a].cred, !.job = act[a].job]

\* Take the credential's refresh lock and read its entry.  A credential that
\* is gone, of another registration, or refused upstream is not refreshed.
Snapshot(a) ==
  LET c == act[a].cred  e == act[a].job IN
  /\ act[a].pc = "refresh" /\ lock[c] = None
  /\ \/ /\ ~auth[c].here \/ (e # 0 /\ auth[c].epoch # e) \/ ~auth[c].sched
        /\ act' = [act EXCEPT ![a] = After(a)]
        /\ UNCHANGED lock
     \/ /\ auth[c].here /\ (e = 0 \/ auth[c].epoch = e)
        /\ act' = [act EXCEPT ![a] = [@ EXCEPT !.pc = "exec", !.next = auth[c].next,
                     !.base = <<auth[c].epoch, auth[c].ver>>]]
        /\ lock' = [lock EXCEPT ![c] = a]
  /\ UNCHANGED <<auth, refreshJobs, current, loop, queue, note, ops>>

\* The provider answers (external): with new tokens, with an error that is
\* final or not, or the call was cancelled.

\* MUTANT: only the registration is compared, not the version.
SameEpoch(a, c) == auth[c].here /\ auth[c].epoch = act[a].base[1]

\* The entry is still the one the refresh started from.
SameBase(a, c) ==
  auth[c].here /\ <<auth[c].epoch, auth[c].ver>> = act[a].base

ToUnlock(a) == act' = [act EXCEPT ![a].pc = "unlock"]

CommitOk(a) ==
  LET c == act[a].cred IN
  /\ act[a].pc = "exec" /\ SameBase(a, c)
  /\ \E n \in {None, Later}, keep \in BOOLEAN :
       \* Later: the tokens did not help (refreshIneffectiveBackoff).
       \* keep: NextRefreshAfter changed while the store was writing (two
       \* times that look alike here may differ).
       auth' = [auth EXCEPT ![c] = [@ EXCEPT !.tokens = act[a].base, !.wait = TRUE,
                  !.next = IF keep \/ (n = None /\ act[a].next = None) THEN auth[c].next ELSE n]]
  /\ Owe(a, "reschedule", c)
  /\ ToUnlock(a)
  /\ UNCHANGED <<refreshJobs, lock, current, loop, queue, ops>>

CommitFailed(a) ==
  LET c == act[a].cred IN
  /\ act[a].pc = "exec" /\ SameBase(a, c)
  /\ \/ /\ auth' = [auth EXCEPT ![c].sched = FALSE, ![c].next = None, ![c].wait = FALSE]
        /\ Owe(a, "unschedule", c)
     \/ \* a back-off, or none when another partition of the grant is healthy
        /\ \E n \in {None, Later} :
             auth' = [auth EXCEPT ![c].next = n, ![c].wait = (n = Later)]
        /\ Owe(a, "reschedule", c)
  /\ ToUnlock(a)
  /\ UNCHANGED <<refreshJobs, lock, current, loop, queue, ops>>

\* The entry has changed, or the key must be stored first and was not: the
\* result is discarded.
CommitDiscarded(a) ==
  /\ act[a].pc = "exec"
  /\ ToUnlock(a)
  /\ UNCHANGED <<auth, refreshJobs, lock, current, loop, queue, note, ops>>

CommitCanceled(a) ==
  LET c == act[a].cred IN
  /\ act[a].pc = "exec"
  /\ auth' = IF auth[c].here /\ (auth[c].next = None \/ ~auth[c].wait)
             THEN [auth EXCEPT ![c].next = Later, ![c].wait = TRUE] ELSE auth
  /\ Owe(a, "reschedule", c)
  /\ ToUnlock(a)
  /\ UNCHANGED <<refreshJobs, lock, current, loop, queue, ops>>

Unlock(a) ==
  /\ act[a].pc = "unlock" /\ Free(a)
  /\ lock' = [lock EXCEPT ![act[a].cred] = None]
  /\ act' = [act EXCEPT ![a] = After(a)]
  /\ UNCHANGED <<auth, refreshJobs, current, loop, queue, note, ops>>

----------------------------------------------------------------------------
\* Time passes.
Expire(c) ==
  /\ auth[c].here /\ auth[c].wait
  /\ auth' = [auth EXCEPT ![c].wait = FALSE]
  /\ UNCHANGED <<refreshJobs, lock, current, loop, queue, act, note, ops>>

ManagerStep(a) == \E c \in Creds : Register(a, c) \/ Copy(a, c) \/ Update(a, c) \/ RemoveIf(a, c)

LoopStep(l) ==
  \/ Publish(l) \/ RebuildRead(l) \/ RebuildFill(l)
  \/ PickNone(l) \/ Pick(l) \/ Upsert(l) \/ Remove(l)
  \/ MarkPending(l) \/ MarkRefused(l) \/ ReadAgain(l) \/ Send(l) \/ GiveBack(l)
  \/ Release(l)

WorkerStep(w) == TakeJob(w) \/ BeginJob(w) \/ BeginRefused(w) \/ FinishJob(w)

RefreshStep(a) ==
  \/ Snapshot(a) \/ CommitOk(a) \/ CommitFailed(a)
  \/ CommitDiscarded(a) \/ CommitCanceled(a) \/ Unlock(a)

Next ==
  \/ \E p \in Processes : Notify(p)
  \/ \E a \in Managers : ManagerStep(a)
  \/ \E a \in Requests, c \in Creds : RefreshForRequest(a, c)
  \/ \E l \in Loops : Start(l) \/ Wake(l) \/ Timer(l) \/ Exit(l) \/ LoopStep(l)
  \/ Stop
  \/ \E w \in WorkerIds : WorkerStep(w)
  \/ \E a \in Actors : RefreshStep(a)
  \/ \E c \in Creds : Expire(c)

Spec == Init /\ [][Next]_vars

\* Goroutines that can step do; a select with several ready cases takes each
\* again and again (Go chooses at random); times in the future arrive; a
\* provider answers.  Nothing obliges callers, Start or Stop.
Fairness ==
  /\ \A p \in Processes : WF_vars(Notify(p))
  /\ \A l \in Loops : /\ WF_vars(LoopStep(l))
                      /\ SF_vars(Wake(l)) /\ SF_vars(Exit(l))
                      /\ \A c \in Creds : SF_vars(TimerFor(l, c))
  /\ \A w \in WorkerIds : WF_vars(WorkerStep(w))
  /\ \A a \in Actors : SF_vars(RefreshStep(a))
  /\ \A c \in Creds : WF_vars(Expire(c))

FairSpec == Spec /\ Fairness

----------------------------------------------------------------------------
(***************************************************************************)
(* Properties                                                              *)
(***************************************************************************)

\* The types of the state: a credential's NextRefreshAfter is zero, a loop's
\* marker or another time, channels keep within their capacity, and every
\* registered job names a loop.
TypeOK ==
  /\ \A c \in Creds :
       /\ auth[c].next \in {None, Later, Stale} \cup Loops
       /\ auth[c].here => auth[c].ver \in Nat \ {0}
       /\ refreshJobs[c] # None => refreshJobs[c].loop \in Loops
       /\ lock[c] \in Actors \cup {None}
  /\ current \in Loops \cup {None}
  /\ \A l \in Loops : Len(queue[l]) <= QueueCap /\ loop[l].heap \cup loop[l].dirty \subseteq Creds
  /\ ops \in 0 .. MaxOps

\* Who has job <<c, l, e>> in hand: the loop that has marked and not yet sent
\* it, the channel, a worker.
Holders(c, l, e) ==
  {<<"loop", k>> : k \in {k \in {l} : loop[k].pc = "send" /\ loop[k].hand = c
                                     /\ loop[k].epoch = e}}
  \cup {<<"queue", i>> : i \in {i \in 1 .. Len(queue[l]) :
                                  queue[l][i] = [cred |-> c, epoch |-> e]}}
  \cup {<<"worker", w>> : w \in {w \in {l} \X Workers : act[w].pc # "idle"
                                    /\ act[w].cred = c /\ act[w].job = e}}

\* markRefreshPending, the bounded channel, beginRefreshJob and
\* finishRefreshJob together: a registered job is in exactly one hand, so it
\* is neither run twice nor left over when the channel was full, the loop was
\* restarted or the credential was registered anew.
JobInOneHand ==
  \A c \in Creds : refreshJobs[c] # None =>
    Cardinality(Holders(c, refreshJobs[c].loop, refreshJobs[c].epoch)) = 1

\* releaseQueuedJobs: a loop that has ended leaves no job behind except the
\* ones its workers are running, which finish them.
EndedLoopKeepsNoJob ==
  \A c \in Creds : refreshJobs[c] # None /\ loop[refreshJobs[c].loop].pc = "dead" =>
    /\ refreshJobs[c].running
    /\ \E w \in WorkerIds : w[1] = refreshJobs[c].loop /\ act[w].cred = c
                             /\ act[w].job = refreshJobs[c].epoch

\* finishRefreshJob clears only its own marker, and always: a credential that
\* carries a pending marker has the job the marker stands for, in whatever
\* order refreshes, updates, restarts and releases happened.  The one marker
\* without a job is a Stale one: a caller that took its record before the job
\* ended has put the marker back; it stands for no job and is a time like any
\* other, at most refreshPendingBackoff away.
MarkerHasJob ==
  \A c \in Creds : auth[c].here /\ auth[c].next \in Loops =>
    Registered(c, auth[c].next, auth[c].epoch)

\* The three together: every job, and every marker that stands for one, is
\* accounted for, with the channel full, the loop restarted or the credential
\* registered anew.
JobsAccounted == JobInOneHand /\ EndedLoopKeepsNoJob /\ MarkerHasJob

\* The epoch and version checks of refreshAuthForRequestAtEpoch and
\* updateInternalLocked: a refresh that was started before a credential was
\* replaced or registered anew never puts its tokens in place of the new ones.
TokensOfNewest ==
  \A c \in Creds : auth[c].here => auth[c].tokens = <<auth[c].epoch, auth[c].ver>>

\* beginRefreshJob and finishRefreshJob: a job ends, whatever becomes of its
\* loop and of its credential, so that the next one can be made.
JobsEnd ==
  \A c \in Creds, l \in Loops :
    (refreshJobs[c] # None /\ refreshJobs[c].loop = l)
      ~> (refreshJobs[c] = None \/ refreshJobs[c].loop # l)

Refreshing(c) == \E a \in Actors : act[a].pc = "exec" /\ act[a].cred = c

Fresh(c) == auth[c].next = None /\ auth[c].wait

\* "StartAutoRefresh launches a background loop that evaluates auth freshness
\* every few seconds and triggers refresh operations when required"
\* (conductor_refresh.go:51): a credential that needs a renewal gets one
\* while a loop is running.
DueIsRefreshed ==
  \A c \in Creds :
    (shouldRefresh(c) /\ current # None)
      ~> (Refreshing(c) \/ ~Schedulable(c) \/ Fresh(c) \/ current = None)
=============================================================================
