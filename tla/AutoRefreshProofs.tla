-------------------------- MODULE AutoRefreshProofs --------------------------
(***************************************************************************)
(* Proofs about AutoRefresh, for any number of credentials, callers, loops *)
(* and workers, any capacity of the channel and any bound on operations.   *)
(***************************************************************************)
EXTENDS AutoRefresh, TLAPS, FiniteSetTheorems

Times == {None, Later, Stale} \cup Loops

Entries ==
  [here : BOOLEAN, epoch : Nat, ver : Nat, tokens : Nat \X Nat, sched : BOOLEAN,
   next : Times, wait : BOOLEAN]

JobNames == [cred : Creds, epoch : Nat]
Jobs == [loop : Loops, epoch : Nat, running : BOOLEAN]

LoopStates ==
  [pc : {"new", "start", "rebuild", "wait", "pick", "upsert", "remove", "mark", "again",
         "send", "dead"},
   live : BOOLEAN, heap : SUBSET Creds, dirty : SUBSET Creds, wake : BOOLEAN,
   mode : {"due", "read", "fill", "apply", "release"},
   todo : SUBSET Creds, hand : Creds \cup {None}, epoch : Nat]

Acts ==
  [pc : {"idle", "edit", "begin", "refresh", "exec", "unlock", "finish"}, cred : Creds \cup {None},
   job : Nat, base : Nat \X Nat, next : Times]

Notes == [kind : {"reschedule", "unschedule"}, cred : Creds]

Shape ==
  /\ auth \in [Creds -> Entries]
  /\ refreshJobs \in [Creds -> Jobs \cup {None}]
  /\ current \in Loops \cup {None}
  /\ loop \in [Loops -> LoopStates]
  /\ queue \in [Loops -> Seq(JobNames)]
  /\ act \in [Actors -> Acts]
  /\ note \in [Processes -> Notes \cup {None}]

\* A goroutine past its read has a credential in hand, and the release of the
\* queued jobs is the last thing a loop does.
LoopFull(r) ==
  /\ r.pc \in {"upsert", "remove", "mark", "again", "send"} => r.hand \in Creds
  /\ r.mode = "release" => r.pc \in {"pick", "dead"}
  /\ r.pc = "dead" => r.mode = "release"
  /\ r.pc \in {"pick", "upsert", "remove", "mark", "again", "send"} => r.mode \in {"due", "apply", "release"}

HandsFull ==
  /\ \A l \in Loops : LoopFull(loop[l])
  /\ \A a \in Actors : act[a].pc # "idle" => act[a].cred \in Creds

(***************************************************************************)
(* Where a job is.  HoldInv: no two hands ever have the same job, a        *)
(* registered job is in some hand, and as long as its loop does not        *)
(* release its jobs what is in a hand is registered, so that a new job     *)
(* finds no other of its name.                                             *)
(***************************************************************************)
InLoop(l, c, e) == loop[l].pc = "send" /\ loop[l].hand = c /\ loop[l].epoch = e
InQueue(l, i, c, e) ==
  i \in 1 .. Len(queue[l]) /\ queue[l][i].cred = c /\ queue[l][i].epoch = e
InWorker(l, x, c, e) ==
  act[<<l, x>>].pc # "idle" /\ act[<<l, x>>].cred = c /\ act[<<l, x>>].job = e

Held(l, c, e) ==
  InLoop(l, c, e) \/ (\E i \in Nat : InQueue(l, i, c, e)) \/ (\E x \in Workers : InWorker(l, x, c, e))

Exclusive(l, c, e) ==
  /\ InLoop(l, c, e) => /\ \A i \in Nat : ~InQueue(l, i, c, e)
                        /\ \A x \in Workers : ~InWorker(l, x, c, e)
  /\ \A i, j \in Nat : InQueue(l, i, c, e) /\ InQueue(l, j, c, e) => i = j
  /\ \A i \in Nat, x \in Workers : ~(InQueue(l, i, c, e) /\ InWorker(l, x, c, e))
  /\ \A x, y \in Workers : InWorker(l, x, c, e) /\ InWorker(l, y, c, e) => x = y

HoldAt(l, c, e) ==
  /\ Exclusive(l, c, e)
  /\ Registered(c, l, e) => Held(l, c, e)
  /\ Registered(c, l, e) /\ refreshJobs[c].running => \E x \in Workers : InWorker(l, x, c, e)
  /\ loop[l].mode # "release" /\ Held(l, c, e) => Registered(c, l, e)
  /\ loop[l].mode = "release" /\ Registered(c, l, e) /\ ~refreshJobs[c].running =>
       loop[l].pc = "pick" /\ c \in loop[l].todo

HoldInv == \A l \in Loops, c \in Creds, e \in Nat : HoldAt(l, c, e)

JobInv == Shape /\ HandsFull /\ HoldInv

(***************************************************************************)
(* The shape of the state.                                                 *)
(***************************************************************************)

\* A step that writes one loop's state, one credential's entry, one actor.
LEMMA LoopWrite ==
  ASSUME Shape, HandsFull, NEW l \in Loops, loop' = [loop EXCEPT ![l] = loop'[l]],
         loop'[l] \in LoopStates, LoopFull(loop'[l])
  PROVE  loop' \in [Loops -> LoopStates] /\ \A k \in Loops : LoopFull(loop'[k])
BY DEF Shape, HandsFull

LEMMA AuthWrite ==
  ASSUME Shape, NEW c \in Creds, auth' = [auth EXCEPT ![c] = auth'[c]], auth'[c] \in Entries
  PROVE  auth' \in [Creds -> Entries]
BY DEF Shape

LEMMA ActWrite ==
  ASSUME Shape, HandsFull, NEW a \in Actors, act' = [act EXCEPT ![a] = act'[a]],
         act'[a] \in Acts, act'[a].pc # "idle" => act'[a].cred \in Creds
  PROVE  act' \in [Actors -> Acts] /\ \A b \in Actors : act'[b].pc # "idle" => act'[b].cred \in Creds
BY DEF Shape, HandsFull

LEMMA OweShape ==
  ASSUME Shape, NEW p \in Processes, NEW c \in Creds,
         Owe(p, "reschedule", c) \/ Owe(p, "unschedule", c)
  PROVE  note' \in [Processes -> Notes \cup {None}]
<1>1. [kind |-> "reschedule", cred |-> c] \in Notes /\ [kind |-> "unschedule", cred |-> c] \in Notes
  BY DEF Notes
<1> QED BY <1>1 DEF Owe, Shape

\* finishRefreshJob keeps the shape of what it writes.
LEMMA FinishShape ==
  ASSUME Shape, NEW p \in Processes, NEW c \in Creds, NEW l \in Loops, NEW e \in Nat,
         NEW retryAt \in {None, Later}, NEW q \in BOOLEAN, Finish(p, c, l, e, retryAt, q)
  PROVE  /\ auth' \in [Creds -> Entries]
         /\ refreshJobs' \in [Creds -> Jobs \cup {None}]
         /\ note' \in [Processes -> Notes \cup {None}]
<1> DEFINE w == (retryAt = Later)
<1>w. w \in BOOLEAN OBVIOUS
<1>1. auth' \in [Creds -> Entries]
  <2>1. auth' = auth \/ auth' = [auth EXCEPT ![c].next = retryAt, ![c].wait = w]
    BY DEF Finish
  <2> HIDE DEF w
  <2>2. CASE auth' = [auth EXCEPT ![c].next = retryAt, ![c].wait = w]
    <3>1. auth'[c] \in Entries BY <1>w, <2>2 DEF Shape, Entries, Times
    <3>2. auth' = [auth EXCEPT ![c] = auth'[c]] BY <2>2 DEF Shape
    <3> QED BY <3>1, <3>2, AuthWrite
  <2> QED BY <2>1, <2>2 DEF Shape
<1>2. refreshJobs' \in [Creds -> Jobs \cup {None}]
  BY DEF Finish, Shape
<1>3. note' \in [Processes -> Notes \cup {None}]
  BY OweShape DEF Finish, Shape
<1> QED BY <1>1, <1>2, <1>3

LEMMA Places ==
  /\ \A l \in Loops : Go(l) \in Processes
  /\ \A a \in Actors : a \in Processes
  /\ \A w \in WorkerIds : w \in Actors /\ w[1] \in Loops /\ w[2] \in Workers /\ w = <<w[1], w[2]>>
  /\ \A l \in Loops, x \in Workers : <<l, x>> \in WorkerIds /\ <<l, x>> \notin Callers
  /\ \A a \in Callers : a \in Actors
BY RefreshAssumption DEF Processes, Actors, WorkerIds, Callers

LEMMA ShapeInit == Init => Shape /\ HandsFull
<1> SUFFICES ASSUME Init PROVE Shape /\ HandsFull OBVIOUS
<1>1. auth \in [Creds -> Entries]
  <2>1. \A b \in BOOLEAN : Entry(1, 1, b, FALSE) \in Entries
    BY DEF Entry, Entries, Times
  <2> QED BY <2>1 DEF Init
<1>2. loop \in [Loops -> LoopStates] /\ act \in [Actors -> Acts]
  BY DEF Init, LoopStates, Acts, Idle, Times
<1>3. refreshJobs \in [Creds -> Jobs \cup {None}] /\ current \in Loops \cup {None}
      /\ queue \in [Loops -> Seq(JobNames)]
      /\ note \in [Processes -> Notes \cup {None}]
  BY DEF Init
<1>4. HandsFull
  BY DEF Init, HandsFull, LoopFull, Idle
<1> QED BY <1>1, <1>2, <1>3, <1>4 DEF Shape

\* What the loop's goroutine writes into its own state.
LEMMA UpsertRecord ==
  ASSUME NEW r \in LoopStates, NEW H \in SUBSET Creds
  PROVE  LET s == [r EXCEPT !.heap = H, !.pc = "pick", !.hand = None, !.epoch = 0]
         IN  s \in LoopStates /\ s.pc = "pick" /\ s.mode = r.mode
BY DEF LoopStates

LEMMA RemoveRecord ==
  ASSUME NEW r \in LoopStates, NEW D \in SUBSET Creds, NEW H \in SUBSET Creds
  PROVE  LET s == [r EXCEPT !.dirty = D, !.heap = H, !.pc = "pick", !.hand = None, !.epoch = 0]
         IN  s \in LoopStates /\ s.pc = "pick" /\ s.mode = r.mode
BY DEF LoopStates

LEMMA SendRecord ==
  ASSUME NEW r \in LoopStates
  PROVE  LET s == [r EXCEPT !.pc = "pick", !.hand = None, !.epoch = 0]
         IN  s \in LoopStates /\ s.pc = "pick" /\ s.mode = r.mode
BY DEF LoopStates

LEMMA ShapeNotify ==
  ASSUME Shape, HandsFull, NEW p \in Processes, Notify(p) PROVE Shape' /\ HandsFull'
<1>0. note[p].cred \in Creds
  BY DEF Notify, Free, Shape, Notes
<1>1. CASE current = None
  BY <1>1 DEF Shape, HandsFull, Notify
<1>2. CASE current \in Loops
  <2>1. loop' = Reschedule(current, note[p].cred) \/ loop' = Removed(current, note[p].cred)
    BY <1>2, RefreshAssumption DEF Notify
  <2>2. loop' = [loop EXCEPT ![current] = loop'[current]]
    BY <1>2, <2>1 DEF Reschedule, Removed, Shape
  <2>3. loop'[current] \in LoopStates /\ LoopFull(loop'[current])
    <3>1. LoopFull(loop[current]) /\ loop[current] \in LoopStates BY <1>2 DEF HandsFull, Shape
    <3>2. CASE loop' = Reschedule(current, note[p].cred)
      <4>1. \E D \in SUBSET Creds : loop'[current] = [loop[current] EXCEPT !.dirty = D, !.wake = TRUE]
        BY <1>0, <1>2, <3>2 DEF Reschedule, Shape, LoopStates
      <4> QED BY <3>1, <4>1 DEF LoopStates, LoopFull
    <3>3. CASE loop' = Removed(current, note[p].cred)
      <4>1. \E D, H \in SUBSET Creds : loop'[current] = [loop[current] EXCEPT !.dirty = D, !.heap = H]
        BY <1>2, <3>3 DEF Removed, Shape, LoopStates
      <4> QED BY <3>1, <4>1 DEF LoopStates, LoopFull
    <3> QED BY <2>1, <3>2, <3>3
  <2> QED BY <1>2, <2>2, <2>3, LoopWrite DEF Notify, Shape, HandsFull
<1> QED BY <1>1, <1>2 DEF Shape

\* A time that is published again: a marker among them has its job.
LEMMA PublishedTimes ==
  ASSUME NEW c \in Creds, NEW m \in Times, NEW e, NEW n \in Published(c, m, e)
  PROVE  n \in Times /\ (n \in Loops => Registered(c, n, e))
BY RefreshAssumption DEF Published, Times

\* What Register and Update put in place of an entry: a time, and a marker
\* only where the job behind it is registered.
Replaces(c, e) ==
  /\ auth' = [auth EXCEPT ![c] = auth'[c]]
  /\ auth'[c] \in Entries /\ auth'[c].epoch = e
  /\ auth'[c].tokens = <<auth'[c].epoch, auth'[c].ver>>
     \/ (/\ auth'[c].here = auth[c].here /\ auth'[c].epoch = auth[c].epoch
         /\ auth'[c].ver = auth[c].ver /\ auth'[c].tokens = auth[c].tokens)
  /\ auth'[c].next \in Loops =>
       \/ Registered(c, auth'[c].next, e)
       \/ auth'[c].next = auth[c].next /\ auth[c].here /\ e = auth[c].epoch

LEMMA RegisterReplaces ==
  ASSUME Shape, NEW a \in Managers, NEW c \in Creds, Register(a, c)
  PROVE  Replaces(c, auth[c].epoch + 1)
<1>a. a \in Actors BY Places DEF Callers
<1>m. act[a].next \in Times BY <1>a DEF Shape, Acts
<1>e. auth[c].epoch \in Nat /\ auth[c].ver \in Nat /\ auth[c].here \in BOOLEAN BY DEF Shape, Entries
<1> DEFINE e == auth[c].epoch + 1
           v == IF auth[c].here THEN auth[c].ver + 1 ELSE 1
<1>1. PICK s \in BOOLEAN, w \in BOOLEAN, n \in Published(c, act[a].next, e) :
        auth' = [auth EXCEPT ![c] = [here |-> TRUE, epoch |-> e, ver |-> v, tokens |-> <<e, v>>,
                                     sched |-> s, next |-> n, wait |-> w]]
  BY DEF Register
<1>2. e \in Nat /\ v \in Nat BY <1>e
<1>3. n \in Times /\ (n \in Loops => Registered(c, n, e)) BY <1>m, PublishedTimes
<1> HIDE DEF e, v
<1>4. auth'[c] = [here |-> TRUE, epoch |-> e, ver |-> v, tokens |-> <<e, v>>,
                  sched |-> s, next |-> n, wait |-> w]
  BY <1>1 DEF Shape
<1>5. auth' = [auth EXCEPT ![c] = auth'[c]] BY <1>1, <1>4
<1>6. auth'[c] \in Entries BY <1>2, <1>3, <1>4 DEF Entries
<1>7. Replaces(c, e)
  <2>1. auth'[c].epoch = e /\ auth'[c].next = n /\ auth'[c].tokens = <<auth'[c].epoch, auth'[c].ver>>
    BY <1>4
  <2>2. auth'[c].next \in Loops => Registered(c, auth'[c].next, e) BY <1>3, <2>1
  <2> HIDE DEF Registered
  <2> QED BY <1>5, <1>6, <2>1, <2>2 DEF Replaces
<1> QED BY <1>7 DEF e

LEMMA UpdateReplaces ==
  ASSUME Shape, NEW a \in Managers, NEW c \in Creds, Update(a, c)
  PROVE  auth' = auth \/ Replaces(c, auth[c].epoch)
<1>a. a \in Actors BY Places DEF Callers
<1>m. act[a].next \in Times BY <1>a DEF Shape, Acts
<1>e. auth[c].epoch \in Nat /\ auth[c].ver \in Nat /\ auth[c].here \in BOOLEAN
      /\ auth[c].tokens \in Nat \X Nat /\ auth[c].next \in Times
  BY DEF Shape, Entries
<1>1. SUFFICES ASSUME ~(~auth[c].here \/ (act[a].job # 0 /\ act[a].job < auth[c].epoch))
               PROVE  Replaces(c, auth[c].epoch)
  BY DEF Update
<1> DEFINE e == auth[c].epoch
<1>2. PICK s \in BOOLEAN, w \in BOOLEAN, changed \in BOOLEAN :
        \E n \in Published(c, act[a].next, e) \cup {Later} \cup (IF changed THEN {None} ELSE {auth[c].next}) :
          auth' = [auth EXCEPT ![c] = [here |-> TRUE, epoch |-> e,
                     ver |-> IF changed THEN auth[c].ver + 1 ELSE auth[c].ver,
                     tokens |-> IF changed THEN <<e, auth[c].ver + 1>> ELSE auth[c].tokens,
                     sched |-> s, next |-> n, wait |-> w]]
  BY <1>1 DEF Update
<1> DEFINE v == IF changed THEN auth[c].ver + 1 ELSE auth[c].ver
           t == IF changed THEN <<e, auth[c].ver + 1>> ELSE auth[c].tokens
<1>3. PICK n \in Published(c, act[a].next, e) \cup {Later} \cup (IF changed THEN {None} ELSE {auth[c].next}) :
          auth' = [auth EXCEPT ![c] = [here |-> TRUE, epoch |-> e, ver |-> v, tokens |-> t,
                     sched |-> s, next |-> n, wait |-> w]]
  BY <1>2
<1>4. v \in Nat /\ t \in Nat \X Nat /\ (t = <<e, v>> \/ (v = auth[c].ver /\ t = auth[c].tokens)) BY <1>e
<1>5. n \in Times /\ (n \in Loops => Registered(c, n, e) \/ n = auth[c].next)
  <2>1. CASE n \in Published(c, act[a].next, e) BY <1>m, <2>1, PublishedTimes
  <2>2. CASE n \in {None, Later, auth[c].next} BY <1>e, <2>2, RefreshAssumption DEF Times
  <2> QED BY <1>3, <2>1, <2>2
<1>h. auth[c].here /\ e \in Nat BY <1>1, <1>e
<1> HIDE DEF v, t
<1>6. auth'[c] = [here |-> TRUE, epoch |-> e, ver |-> v, tokens |-> t, sched |-> s, next |-> n, wait |-> w]
  BY <1>3 DEF Shape
<1>7. auth' = [auth EXCEPT ![c] = auth'[c]] BY <1>3, <1>6
<1>8. auth'[c] \in Entries BY <1>4, <1>5, <1>6, <1>h DEF Entries
<1> QED BY <1>4, <1>5, <1>6, <1>7, <1>8, <1>h DEF Replaces

LEMMA ShapeManager ==
  ASSUME Shape, HandsFull, NEW a \in Managers, ManagerStep(a) PROVE Shape' /\ HandsFull'
<1> PICK c \in Creds : Register(a, c) \/ Copy(a, c) \/ Update(a, c) \/ RemoveIf(a, c) BY DEF ManagerStep
<1>a. a \in Processes /\ a \in Actors BY Places DEF Callers
<1>1. UNCHANGED <<refreshJobs, current, loop, queue>>
  BY DEF Register, Copy, Update, RemoveIf
<1>2. note' \in [Processes -> Notes \cup {None}]
  <2>1. CASE Owe(a, "reschedule", c) \/ Owe(a, "unschedule", c) BY <1>a, <2>1, OweShape
  <2>2. CASE note' = note BY <2>2 DEF Shape
  <2> QED BY <2>1, <2>2 DEF Register, Copy, Update, RemoveIf
<1>3. act' \in [Actors -> Acts] /\ \A b \in Actors : act'[b].pc # "idle" => act'[b].cred \in Creds
  <2>0. Idle \in Acts /\ Idle.pc = "idle" BY DEF Idle, Acts, Times
  <2>1. CASE act' = act BY <2>1 DEF Shape, HandsFull
  <2>2. CASE act' = [act EXCEPT ![a] = Idle] BY <1>a, <2>0, <2>2 DEF Shape, HandsFull
  <2>3. CASE Copy(a, c)
    <3>1. PICK e \in {0, auth[c].epoch}, n \in {None, auth[c].next} :
            act' = [act EXCEPT ![a] = [Idle EXCEPT !.pc = "edit", !.cred = c, !.job = e, !.next = n]]
      BY <2>3 DEF Copy
    <3>2. e \in Nat /\ n \in Times BY DEF Shape, Entries, Times
    <3>3. [Idle EXCEPT !.pc = "edit", !.cred = c, !.job = e, !.next = n] \in Acts
      BY <3>2 DEF Idle, Acts
    <3>4. [Idle EXCEPT !.pc = "edit", !.cred = c, !.job = e, !.next = n].cred = c BY DEF Idle
    <3> QED BY <1>a, <3>1, <3>3, <3>4 DEF Shape, HandsFull
  <2> QED BY <2>1, <2>2, <2>3 DEF Register, Update, RemoveIf
<1>4. auth' \in [Creds -> Entries]
  <2>1. CASE Register(a, c) BY <2>1, RegisterReplaces, AuthWrite DEF Replaces
  <2>2. CASE Update(a, c) BY <2>2, UpdateReplaces, AuthWrite DEF Replaces, Shape
  <2>3. CASE RemoveIf(a, c)
    <3>e. auth[c].epoch \in Nat BY DEF Shape, Entries
    <3>a. auth'[c] = [auth[c] EXCEPT !.here = FALSE, !.epoch = auth[c].epoch + 1]
      BY <2>3 DEF RemoveIf, Shape
    <3>0. \E e \in Nat : auth'[c] = [auth[c] EXCEPT !.here = FALSE, !.epoch = e]
      <4> DEFINE e == auth[c].epoch + 1
      <4>1. e \in Nat BY <3>e
      <4>2. auth'[c] = [auth[c] EXCEPT !.here = FALSE, !.epoch = e] BY <3>a
      <4> HIDE DEF e
      <4> QED BY <4>1, <4>2
    <3>1. auth'[c] \in Entries BY <3>0 DEF Shape, Entries
    <3>2. auth' = [auth EXCEPT ![c] = auth'[c]] BY <2>3 DEF RemoveIf, Shape
    <3> QED BY <3>1, <3>2, AuthWrite
  <2>4. CASE Copy(a, c) BY <2>4 DEF Copy, Shape
  <2> QED BY <2>1, <2>2, <2>3, <2>4
<1> QED BY <1>1, <1>2, <1>3, <1>4 DEF Shape, HandsFull

LEMMA ShapeRequest ==
  ASSUME Shape, HandsFull, NEW a \in Requests, NEW c \in Creds, RefreshForRequest(a, c)
  PROVE  Shape' /\ HandsFull'
<1>a. a \in Actors BY Places DEF Callers
<1>1. act' = [act EXCEPT ![a] = act'[a]]
  BY <1>a DEF RefreshForRequest, Shape
<1>2. act'[a] \in Acts /\ act'[a].cred \in Creds
  BY <1>a DEF RefreshForRequest, Shape, Acts, Idle, Times
<1> QED BY <1>a, <1>1, <1>2, ActWrite DEF RefreshForRequest, Shape, HandsFull

LEMMA ShapeExpire ==
  ASSUME Shape, HandsFull, NEW c \in Creds, Expire(c) PROVE Shape' /\ HandsFull'
BY DEF Expire, Shape, HandsFull, Entries

LEMMA ShapeControl ==
  ASSUME Shape, HandsFull, NEW l \in Loops,
         Start(l) \/ Publish(l) \/ RebuildRead(l) \/ RebuildFill(l) \/ Stop
  PROVE  Shape' /\ HandsFull'
<1>1. UNCHANGED <<auth, refreshJobs, queue, act, note>>
  BY DEF Start, Publish, RebuildRead, RebuildFill, Stop
<1>2. current' \in Loops \cup {None}
  BY DEF Start, Publish, RebuildRead, RebuildFill, Stop, Shape
<1> SUFFICES loop' \in [Loops -> LoopStates] /\ \A k \in Loops : LoopFull(loop'[k])
  BY <1>1, <1>2 DEF Shape, HandsFull
<1>3. CASE Start(l) \/ Stop
  <2>1. Cancelled \in [Loops -> LoopStates] /\ \A k \in Loops : LoopFull(Cancelled[k])
    <3>1. CASE current = None BY <3>1 DEF Cancelled, Shape, HandsFull
    <3>2. CASE current \in Loops
      <4>1. Cancelled = [loop EXCEPT ![current].live = FALSE]
        BY <3>2, RefreshAssumption DEF Cancelled
      <4>0. [loop[current] EXCEPT !.live = FALSE] \in LoopStates BY <3>2 DEF Shape, LoopStates
      <4>2. Cancelled \in [Loops -> LoopStates] BY <3>2, <4>0, <4>1 DEF Shape
      <4>3. \A k \in Loops : Cancelled[k].pc = loop[k].pc /\ Cancelled[k].mode = loop[k].mode
                             /\ Cancelled[k].hand = loop[k].hand
        BY <3>2, <4>1 DEF Shape, LoopStates
      <4> QED BY <4>2, <4>3 DEF HandsFull, LoopFull
    <3> QED BY <3>1, <3>2 DEF Shape
  <2> HIDE DEF Cancelled
  <2>2. CASE Start(l)
    <3>1. loop' = [Cancelled EXCEPT ![l].pc = "start"] /\ Cancelled[l].pc = "new"
      BY <2>2, RefreshAssumption DEF Start, Cancelled, Shape, LoopStates
    <3> QED BY <2>1, <3>1 DEF LoopStates, LoopFull
  <2>3. CASE Stop
    BY <2>1, <2>3 DEF Stop
  <2> QED BY <1>3, <2>2, <2>3
<1>4. CASE Publish(l) \/ RebuildRead(l) \/ RebuildFill(l)
  <2>1. loop' = [loop EXCEPT ![l] = loop'[l]]
    BY <1>4 DEF Publish, RebuildRead, RebuildFill, Shape
  <2>2. loop'[l] \in LoopStates
    <3>1. CASE Publish(l)
      <4>1. loop'[l] = [loop[l] EXCEPT !.pc = "rebuild", !.mode = "read"] BY <3>1 DEF Publish, Shape
      <4> QED BY <4>1 DEF Shape, LoopStates
    <3>2. CASE RebuildRead(l)
      <4> DEFINE T == {c \in Creds : Schedulable(c)}
      <4>1. T \in SUBSET Creds OBVIOUS
      <4>2. loop' = [loop EXCEPT ![l].todo = T, ![l].mode = "fill"] BY <3>2 DEF RebuildRead
      <4> HIDE DEF T
      <4>3. loop'[l] = [loop[l] EXCEPT !.todo = T, !.mode = "fill"] BY <4>2 DEF Shape
      <4>4. loop[l] \in LoopStates BY DEF Shape
      <4> QED BY ONLY <4>1, <4>3, <4>4 DEF LoopStates
    <3>3. CASE RebuildFill(l)
      <4>1. \E H \in SUBSET Creds : loop'[l] = [loop[l] EXCEPT !.heap = H, !.todo = {}, !.pc = "wait"]
        BY <3>3 DEF RebuildFill, Shape, LoopStates
      <4> QED BY <4>1 DEF Shape, LoopStates
    <3> QED BY <1>4, <3>1, <3>2, <3>3
  <2>3. LoopFull(loop'[l])
    <3>1. loop'[l].pc \in {"rebuild", "wait"} /\ loop'[l].mode \in {"read", "fill"}
      BY <1>4 DEF Publish, RebuildRead, RebuildFill, Shape, LoopStates
    <3> QED BY <3>1 DEF LoopFull
  <2> QED BY <2>1, <2>2, <2>3, LoopWrite
<1> QED BY <1>3, <1>4

LEMMA ShapeLoop ==
  ASSUME Shape, HandsFull, NEW l \in Loops,
         Wake(l) \/ Timer(l) \/ PickNone(l) \/ Pick(l) \/ Upsert(l) \/ Remove(l)
         \/ MarkRefused(l) \/ ReadAgain(l) \/ Exit(l)
  PROVE  Shape' /\ HandsFull'
<1>1. UNCHANGED <<auth, refreshJobs, current, queue, act, note>>
  BY DEF Wake, Timer, PickNone, Pick, Upsert, Remove, MarkRefused, ReadAgain, Exit
<1>2. loop' = [loop EXCEPT ![l] = loop'[l]]
  BY DEF Wake, Timer, PickNone, Pick, Upsert, Remove, Removed, MarkRefused, ReadAgain, Exit, Drained, Shape
<1>f. LoopFull(loop[l]) /\ loop[l] \in LoopStates
  BY DEF HandsFull, Shape
<1> SUFFICES loop'[l] \in LoopStates /\ LoopFull(loop'[l])
  BY <1>1, <1>2, LoopWrite DEF Shape, HandsFull
<1>3. CASE Wake(l)
  <2>1. loop'[l] = [loop[l] EXCEPT !.todo = loop[l].dirty, !.dirty = {}, !.mode = "apply",
                                   !.pc = "pick", !.wake = FALSE]
    BY <1>3 DEF Wake, Drained, Shape
  <2> QED BY <1>f, <2>1 DEF LoopStates, LoopFull
<1>4. CASE Timer(l)
  <2>a. PICK S \in SUBSET loop[l].heap :
          loop' = [loop EXCEPT ![l].heap = @ \ S, ![l].todo = S, ![l].mode = "due",
                               ![l].pc = "pick"]
    BY <1>4 DEF Timer
  <2>0. loop'[l] = [loop[l] EXCEPT !.heap = @ \ S, !.todo = S, !.mode = "due", !.pc = "pick"]
    BY <2>a DEF Shape
  <2>1. \E H, T \in SUBSET Creds :
          loop'[l] = [loop[l] EXCEPT !.heap = H, !.todo = T, !.mode = "due", !.pc = "pick"]
    <3>1. loop[l].heap \ S \in SUBSET Creds /\ S \in SUBSET Creds BY <1>f DEF LoopStates
    <3> QED BY <2>0, <3>1
  <2> QED BY <1>f, <2>1 DEF LoopStates, LoopFull
<1>5. CASE PickNone(l)
  <2>1. CASE loop[l].mode = "due"
    <3>1. loop'[l] = [loop[l] EXCEPT !.todo = loop[l].dirty, !.dirty = {}, !.mode = "apply", !.pc = "pick"]
      BY <1>5, <2>1 DEF PickNone, Drained, Shape
    <3> QED BY <1>f, <3>1 DEF LoopStates, LoopFull
  <2>2. CASE loop[l].mode = "apply"
    <3>1. loop'[l] = [loop[l] EXCEPT !.pc = "wait"]
      BY <1>5, <2>2 DEF PickNone, Shape
    <3> QED BY <1>f, <2>2, <3>1 DEF LoopStates, LoopFull
  <2>3. CASE loop[l].mode \notin {"due", "apply"}
    <3>1. loop'[l] = [loop[l] EXCEPT !.pc = "dead"] /\ loop[l].pc = "pick"
      BY <1>5, <2>3 DEF PickNone, Shape
    <3>2. loop[l].mode = "release" BY <1>f, <2>3, <1>5 DEF LoopStates, LoopFull, PickNone
    <3> QED BY <1>f, <3>2, <3>1 DEF LoopStates, LoopFull
  <2> QED BY <2>1, <2>2, <2>3
<1>6. CASE Pick(l)
  <2> PICK c \in loop[l].todo :
         loop' = [loop EXCEPT ![l].todo = @ \ {c}, ![l].hand = c,
                  ![l].epoch = auth[c].epoch, ![l].pc = Decision(l, c)]
    BY <1>6 DEF Pick
  <2>1. Decision(l, c) \in {"pick", "remove", "mark", "upsert"} BY DEF Decision
  <2>2. c \in Creds /\ loop[l].mode \in {"due", "apply"}
    BY <1>f, <1>6 DEF Pick, LoopStates
  <2>3. auth[c].epoch \in Nat BY <2>2 DEF Shape, Entries
  <2>4. PICK T \in SUBSET Creds, e \in Nat, q \in {"pick", "remove", "mark", "upsert"} :
          loop'[l] = [loop[l] EXCEPT !.todo = T, !.hand = c, !.epoch = e, !.pc = q]
    <3>1. loop[l].todo \ {c} \in SUBSET Creds BY <1>f DEF LoopStates
    <3>2. loop'[l] = [loop[l] EXCEPT !.todo = loop[l].todo \ {c}, !.hand = c, !.epoch = auth[c].epoch,
                                     !.pc = Decision(l, c)]
      BY DEF Shape
    <3> DEFINE T == loop[l].todo \ {c}
               e == auth[c].epoch
               q == Decision(l, c)
    <3>3. T \in SUBSET Creds /\ e \in Nat /\ q \in {"pick", "remove", "mark", "upsert"}
      BY <2>1, <2>3, <3>1
    <3>4. loop'[l] = [loop[l] EXCEPT !.todo = T, !.hand = c, !.epoch = e, !.pc = q] BY <3>2
    <3> HIDE DEF T, e, q
    <3> QED BY ONLY <3>3, <3>4, Zenon
  <2>5. /\ loop'[l] \in LoopStates /\ loop'[l].pc = q /\ loop'[l].hand = c
        /\ loop'[l].mode = loop[l].mode
    <3> DEFINE r == loop[l]
    <3>1. r \in LoopStates BY <1>f
    <3>2. loop'[l] = [r EXCEPT !.todo = T, !.hand = c, !.epoch = e, !.pc = q] BY <2>4
    <3> HIDE DEF r
    <3>3. LET s == [r EXCEPT !.todo = T, !.hand = c, !.epoch = e, !.pc = q]
          IN  s \in LoopStates /\ s.pc = q /\ s.mode = r.mode /\ s.hand = c
      <4>1. c \in Creds /\ T \in SUBSET Creds /\ e \in Nat /\ q \in {"pick", "remove", "mark", "upsert"}
        BY <2>2
      <4> QED BY ONLY <3>1, <4>1 DEF LoopStates
    <3> QED BY <3>2, <3>3, Zenon DEF r
  <2> QED BY <2>2, <2>5 DEF LoopFull
<1>7. CASE Upsert(l)
  <2>1. \E H \in SUBSET Creds :
          loop'[l] = [loop[l] EXCEPT !.heap = H, !.pc = "pick", !.hand = None, !.epoch = 0]
    <3>1. loop[l].heap \cup {loop[l].hand} \in SUBSET Creds
      BY <1>f, <1>7 DEF Upsert, LoopStates, LoopFull
    <3> QED BY <1>7, <3>1 DEF Upsert, Shape
  <2>2. loop[l].mode \in {"due", "apply"} BY <1>f, <1>7 DEF Upsert, LoopFull
  <2>3. loop'[l] \in LoopStates /\ loop'[l].pc = "pick" /\ loop'[l].mode = loop[l].mode
    BY <1>f, <2>1, UpsertRecord, Zenon
  <2> QED BY <2>2, <2>3 DEF LoopFull
<1>8. CASE Remove(l)
  <2>1. \E D, H \in SUBSET Creds :
          loop'[l] = [loop[l] EXCEPT !.dirty = D, !.heap = H, !.pc = "pick", !.hand = None, !.epoch = 0]
    <3>1. loop[l].heap \ {loop[l].hand} \in SUBSET Creds /\ loop[l].dirty \ {loop[l].hand} \in SUBSET Creds
      BY <1>f DEF LoopStates
    <3> QED BY <1>8, <3>1 DEF Remove, Removed, Shape
  <2>2. loop[l].mode \in {"due", "apply"} BY <1>f, <1>8 DEF Remove, LoopFull
  <2>3. loop'[l] \in LoopStates /\ loop'[l].pc = "pick" /\ loop'[l].mode = loop[l].mode
    <3> DEFINE r == loop[l]
    <3>1. PICK D, H \in SUBSET Creds :
            loop'[l] = [r EXCEPT !.dirty = D, !.heap = H, !.pc = "pick", !.hand = None, !.epoch = 0]
      BY <2>1
    <3>2. r \in LoopStates BY <1>f
    <3> HIDE DEF r
    <3>3. LET s == [r EXCEPT !.dirty = D, !.heap = H, !.pc = "pick", !.hand = None, !.epoch = 0]
          IN  s \in LoopStates /\ s.pc = "pick" /\ s.mode = r.mode
      BY <3>2, RemoveRecord
    <3> QED BY <3>1, <3>3, Zenon DEF r
  <2> QED BY <2>2, <2>3 DEF LoopFull
<1>9. CASE MarkRefused(l) \/ ReadAgain(l)
  <2>1. \E q \in {"again", "upsert", "remove"} : loop'[l] = [loop[l] EXCEPT !.pc = q]
    BY <1>9 DEF MarkRefused, ReadAgain, Shape
  <2>2. loop[l].pc \in {"mark", "again"} BY <1>9 DEF MarkRefused, ReadAgain
  <2> QED BY <1>f, <2>1, <2>2 DEF LoopStates, LoopFull
<1>10. CASE Exit(l)
  <2>1. \E S \in SUBSET Creds :
          loop'[l] = [loop[l] EXCEPT !.pc = "pick", !.mode = "release", !.heap = {}, !.dirty = {},
                                     !.wake = FALSE, !.todo = S]
    BY <1>10 DEF Exit, Shape
  <2> QED BY <1>f, <2>1 DEF LoopStates, LoopFull
<1> QED BY <1>3, <1>4, <1>5, <1>6, <1>7, <1>8, <1>9, <1>10

LEMMA ShapeMark ==
  ASSUME Shape, HandsFull, NEW l \in Loops, MarkPending(l) PROVE Shape' /\ HandsFull'
<1> DEFINE c == loop[l].hand
<1>1. c \in Creds /\ loop[l].epoch \in Nat /\ loop[l].mode \in {"due", "apply"}
  BY DEF MarkPending, HandsFull, LoopFull, Shape, LoopStates
<1> HIDE DEF c
<1>2. refreshJobs' \in [Creds -> Jobs \cup {None}]
  <2>1. refreshJobs' = [refreshJobs EXCEPT ![c] = [loop |-> l, epoch |-> loop[l].epoch, running |-> FALSE]]
    BY DEF MarkPending, c
  <2>2. [loop |-> l, epoch |-> loop[l].epoch, running |-> FALSE] \in Jobs
    BY <1>1 DEF Jobs
  <2> QED BY <2>1, <2>2 DEF Shape
<1>3. auth' \in [Creds -> Entries]
  <2>1. auth' = [auth EXCEPT ![c].next = l, ![c].wait = TRUE] BY DEF MarkPending, c
  <2>2. auth'[c] \in Entries BY <1>1, <2>1 DEF Shape, Entries, Times
  <2>3. auth' = [auth EXCEPT ![c] = auth'[c]] BY <1>1, <2>1 DEF Shape
  <2> QED BY <1>1, <2>2, <2>3, AuthWrite
<1>4. note' \in [Processes -> Notes \cup {None}]
  BY <1>1, Places DEF MarkPending, Owe, Shape, Notes, c
<1>5. loop' = [loop EXCEPT ![l].pc = "send"] /\ UNCHANGED <<current, queue, act>>
  BY DEF MarkPending
<1>6. loop'[l] \in LoopStates /\ LoopFull(loop'[l]) /\ loop' = [loop EXCEPT ![l] = loop'[l]]
  BY <1>1, <1>5 DEF Shape, LoopStates, LoopFull, c
<1> QED BY <1>2, <1>3, <1>4, <1>5, <1>6, LoopWrite DEF Shape, HandsFull

LEMMA ShapeSend ==
  ASSUME Shape, HandsFull, NEW l \in Loops, Send(l) PROVE Shape' /\ HandsFull'
<1>1. loop[l].hand \in Creds /\ loop[l].epoch \in Nat /\ loop[l].mode \in {"due", "apply"}
  BY DEF Send, HandsFull, LoopFull, Shape, LoopStates
<1>2. queue' \in [Loops -> Seq(JobNames)]
  <2> DEFINE job == [cred |-> loop[l].hand, epoch |-> loop[l].epoch]
  <2>1. job \in JobNames BY <1>1 DEF JobNames
  <2>2. queue' = [queue EXCEPT ![l] = Append(queue[l], job)] BY DEF Send
  <2> HIDE DEF job
  <2>3. Append(queue[l], job) \in Seq(JobNames) BY <2>1 DEF Shape
  <2> QED BY <2>2, <2>3 DEF Shape
<1>3. loop'[l] = [loop[l] EXCEPT !.pc = "pick", !.hand = None, !.epoch = 0]
  BY DEF Send, Shape
<1>4. loop'[l] \in LoopStates /\ loop'[l].pc = "pick" /\ loop'[l].mode = loop[l].mode
  <2>1. loop[l] \in LoopStates BY DEF Shape
  <2> QED BY <1>3, <2>1, SendRecord, Zenon
<1>5. loop' = [loop EXCEPT ![l] = loop'[l]]
  BY DEF Send, Shape
<1>6. LoopFull(loop'[l])
  BY <1>1, <1>4 DEF LoopFull
<1> QED BY <1>2, <1>4, <1>5, <1>6, LoopWrite DEF Send, Shape, HandsFull

LEMMA ShapeGiveBack ==
  ASSUME Shape, HandsFull, NEW l \in Loops, GiveBack(l) PROVE Shape' /\ HandsFull'
<1>1. loop[l].hand \in Creds /\ loop[l].epoch \in Nat /\ loop[l].mode \in {"due", "apply"}
  BY DEF GiveBack, HandsFull, LoopFull, Shape, LoopStates
<1>2. /\ auth' \in [Creds -> Entries] /\ refreshJobs' \in [Creds -> Jobs \cup {None}]
      /\ note' \in [Processes -> Notes \cup {None}]
  <2>1. Finish(Go(l), loop[l].hand, l, loop[l].epoch, Later, FALSE) BY DEF GiveBack
  <2> QED BY <1>1, <2>1, FinishShape, Places
<1>3. loop' = [loop EXCEPT ![l].pc = "upsert"] /\ UNCHANGED <<current, queue, act>>
  BY DEF GiveBack
<1>4. loop'[l] \in LoopStates /\ LoopFull(loop'[l]) /\ loop' = [loop EXCEPT ![l] = loop'[l]]
  BY <1>1, <1>3 DEF Shape, LoopStates, LoopFull
<1> QED BY <1>2, <1>3, <1>4, LoopWrite DEF Shape, HandsFull

LEMMA ShapeRelease ==
  ASSUME Shape, HandsFull, NEW l \in Loops, Release(l) PROVE Shape' /\ HandsFull'
<1>0. loop[l].pc = "pick" /\ loop[l].mode = "release" /\ UNCHANGED <<current, queue, act>>
  BY DEF Release
<1> PICK c \in loop[l].todo :
      /\ IF refreshJobs[c] # None /\ refreshJobs[c].loop = l
         THEN Finish(Go(l), c, l, refreshJobs[c].epoch, None, TRUE)
         ELSE UNCHANGED <<auth, refreshJobs, note>>
      /\ loop' = [loop EXCEPT ![l].todo = @ \ {c}]
  BY DEF Release
<1>1. c \in Creds BY DEF Shape, LoopStates
<1>2. /\ auth' \in [Creds -> Entries] /\ refreshJobs' \in [Creds -> Jobs \cup {None}]
      /\ note' \in [Processes -> Notes \cup {None}]
  <2>1. CASE refreshJobs[c] # None /\ refreshJobs[c].loop = l
    <3>1. refreshJobs[c].epoch \in Nat BY <1>1, <2>1 DEF Shape, Jobs
    <3> QED BY <1>1, <2>1, <3>1, FinishShape, Places
  <2> QED BY <2>1 DEF Shape
<1>3. loop'[l] \in LoopStates /\ LoopFull(loop'[l]) /\ loop' = [loop EXCEPT ![l] = loop'[l]]
  BY <1>0 DEF Shape, LoopStates, LoopFull
<1> QED BY <1>0, <1>2, <1>3, LoopWrite DEF Shape, HandsFull

LEMMA ShapeWorker ==
  ASSUME Shape, HandsFull, NEW w \in WorkerIds, WorkerStep(w) PROVE Shape' /\ HandsFull'
<1>0. w \in Actors /\ w \in Processes /\ w[1] \in Loops BY Places
<1>1. CASE TakeJob(w)
  <2>1. queue[w[1]] # <<>> /\ UNCHANGED <<auth, refreshJobs, current, loop, note>>
    BY <1>1 DEF TakeJob
  <2>2. Head(queue[w[1]]) \in JobNames
    BY <1>0, <2>1 DEF Shape
  <2>3. queue' \in [Loops -> Seq(JobNames)]
    BY <1>0, <1>1, <2>1 DEF Shape, TakeJob
  <2>4. act'[w] = [Idle EXCEPT !.pc = "begin", !.cred = Head(queue[w[1]]).cred,
                               !.job = Head(queue[w[1]]).epoch]
    BY <1>0, <1>1 DEF TakeJob, Shape
  <2>5. act' = [act EXCEPT ![w] = act'[w]]
    BY <1>0, <1>1 DEF TakeJob, Shape
  <2>6. act'[w] \in Acts /\ act'[w].cred \in Creds
    <3> DEFINE d == Head(queue[w[1]]).cred
               e == Head(queue[w[1]]).epoch
    <3>1. d \in Creds /\ e \in Nat BY <2>2 DEF JobNames
    <3>2. act'[w] = [Idle EXCEPT !.pc = "begin", !.cred = d, !.job = e] BY <2>4
    <3> HIDE DEF d, e
    <3>3. act'[w] = [pc |-> "begin", cred |-> d, job |-> e, base |-> <<0, 0>>, next |-> None]
      BY <3>2 DEF Idle
    <3>4. None \in Times /\ <<0, 0>> \in Nat \X Nat BY DEF Times
    <3> QED BY <3>1, <3>3, <3>4 DEF Acts
  <2> QED BY <1>0, <2>1, <2>3, <2>5, <2>6, ActWrite DEF Shape, HandsFull
<1>2. CASE BeginJob(w)
  <2>1. act[w].cred \in Creds BY <1>0, <1>2 DEF BeginJob, HandsFull
  <2>2. refreshJobs[act[w].cred] # None BY <1>2 DEF BeginJob, CanBegin, Registered
  <2>3. refreshJobs[act[w].cred] \in Jobs BY <2>1, <2>2 DEF Shape
  <2>4. refreshJobs' \in [Creds -> Jobs \cup {None}]
    <3>1. [refreshJobs[act[w].cred] EXCEPT !.running = TRUE] \in Jobs BY <2>3 DEF Jobs
    <3> QED BY <1>2, <3>1 DEF BeginJob, Shape
  <2>5. act' = [act EXCEPT ![w] = act'[w]] /\ act'[w] \in Acts /\ act'[w].cred = act[w].cred
    BY <1>0, <1>2 DEF BeginJob, Shape, Acts
  <2> QED BY <1>0, <1>2, <2>1, <2>4, <2>5, ActWrite DEF BeginJob, Shape, HandsFull
<1>3. CASE BeginRefused(w)
  <2>1. act[w].cred \in Creds BY <1>0, <1>3 DEF BeginRefused, HandsFull
  <2>2. act' = [act EXCEPT ![w] = act'[w]] /\ act'[w] \in Acts /\ act'[w].cred = act[w].cred
    BY <1>0, <1>3 DEF BeginRefused, Shape, Acts
  <2> QED BY <1>0, <1>3, <2>1, <2>2, ActWrite DEF BeginRefused, Shape, HandsFull
<1>4. CASE FinishJob(w)
  <2>1. act[w].cred \in Creds /\ act[w].job \in Nat
    BY <1>0, <1>4 DEF FinishJob, HandsFull, Shape, Acts
  <2>2. /\ auth' \in [Creds -> Entries] /\ refreshJobs' \in [Creds -> Jobs \cup {None}]
        /\ note' \in [Processes -> Notes \cup {None}]
    <3>1. Finish(w, act[w].cred, w[1], act[w].job, None, FALSE) BY <1>4 DEF FinishJob
    <3> QED BY <1>0, <2>1, <3>1, FinishShape
  <2>3. act' = [act EXCEPT ![w] = act'[w]] /\ act'[w] = Idle
    BY <1>0, <1>4 DEF FinishJob, Shape
  <2>4. Idle \in Acts /\ Idle.pc = "idle" BY DEF Idle, Acts, Times
  <2> QED BY <1>0, <1>4, <2>2, <2>3, <2>4, ActWrite DEF FinishJob, Shape, HandsFull
<1> QED BY <1>1, <1>2, <1>3, <1>4 DEF WorkerStep

\* The refreshes: what they write of the credential and of themselves.
LEMMA ShapeRefresh ==
  ASSUME Shape, HandsFull, NEW a \in Actors, RefreshStep(a) PROVE Shape' /\ HandsFull'
<1> DEFINE c == act[a].cred
<1>0. a \in Processes /\ c \in Creds /\ act[a] \in Acts
  BY Places DEF RefreshStep, Snapshot, CommitOk, CommitFailed, CommitDiscarded, CommitCanceled, Unlock,
                HandsFull, Shape
<1>1. UNCHANGED <<refreshJobs, current, loop, queue>>
  BY DEF RefreshStep, Snapshot, CommitOk, CommitFailed, CommitDiscarded, CommitCanceled, Unlock
<1>2. note' \in [Processes -> Notes \cup {None}]
  <2>1. note' = note \/ Owe(a, "reschedule", c) \/ Owe(a, "unschedule", c)
    BY DEF RefreshStep, Snapshot, CommitOk, CommitFailed, CommitDiscarded, CommitCanceled, Unlock
  <2> QED BY <1>0, <2>1, OweShape DEF Shape
<1>3. act' = [act EXCEPT ![a] = act'[a]]
  BY DEF RefreshStep, Snapshot, CommitOk, CommitFailed, CommitDiscarded, CommitCanceled, Unlock,
         ToUnlock, Shape
<1>4. act'[a] \in Acts /\ (act'[a].pc # "idle" => act'[a].cred \in Creds)
  <2>1. After(a) \in Acts /\ (After(a).pc # "idle" => After(a).cred \in Creds)
    <3>1. Idle \in Acts /\ Idle.pc = "idle" BY DEF Idle, Acts, Times
    <3>2. ASSUME NEW d \in Creds, NEW e \in Nat
          PROVE  [Idle EXCEPT !.pc = "finish", !.cred = d, !.job = e] \in Acts
                 /\ [Idle EXCEPT !.pc = "finish", !.cred = d, !.job = e].cred = d
      BY DEF Idle, Acts, Times
    <3>3. act[a].job \in Nat BY <1>0 DEF Acts
    <3> QED BY <1>0, <3>1, <3>2, <3>3 DEF After
  <2>2. CASE Snapshot(a)
    <3>1. CASE act'[a] = [act[a] EXCEPT !.pc = "exec", !.next = auth[c].next,
                                        !.base = <<auth[c].epoch, auth[c].ver>>]
      <4>1. auth[c].next \in Times /\ auth[c].epoch \in Nat /\ auth[c].ver \in Nat
        BY <1>0 DEF Shape, Entries
      <4>2. <<auth[c].epoch, auth[c].ver>> \in Nat \X Nat BY <4>1
      <4>3. ASSUME NEW b \in Nat \X Nat, NEW n \in Times
            PROVE  /\ [act[a] EXCEPT !.pc = "exec", !.next = n, !.base = b] \in Acts
                   /\ [act[a] EXCEPT !.pc = "exec", !.next = n, !.base = b].cred = c
        BY <1>0 DEF Acts
      <4> QED BY <1>0, <3>1, <4>1, <4>2, <4>3
    <3>2. CASE act'[a] = After(a) BY <2>1, <3>2
    <3> QED BY <2>2, <3>1, <3>2 DEF Snapshot, Shape
  <2>3. CASE Unlock(a) BY <2>1, <2>3 DEF Unlock, Shape
  <2>4. CASE ToUnlock(a)
    <3>1. act'[a] = [act[a] EXCEPT !.pc = "unlock"] BY <2>4 DEF ToUnlock, Shape
    <3> QED BY <1>0, <3>1 DEF Acts
  <2> QED BY <2>2, <2>3, <2>4 DEF RefreshStep, CommitOk, CommitFailed, CommitDiscarded, CommitCanceled
<1>5. auth' \in [Creds -> Entries]
  <2>1. ASSUME NEW n \in Times, NEW v \in BOOLEAN, auth' = [auth EXCEPT ![c].next = n, ![c].wait = v]
        PROVE  auth' \in [Creds -> Entries]
    <3>1. auth'[c] = [auth[c] EXCEPT !.next = n, !.wait = v] BY <1>0, <2>1 DEF Shape
    <3>2. auth'[c] \in Entries BY <1>0, <3>1 DEF Shape, Entries
    <3>3. auth' = [auth EXCEPT ![c] = auth'[c]] BY <1>0, <2>1 DEF Shape
    <3> QED BY <1>0, <3>2, <3>3, AuthWrite
  <2>2. CASE CommitOk(a)
    <3>1. PICK n \in Times : auth' = [auth EXCEPT ![c] =
                [@ EXCEPT !.tokens = act[a].base, !.wait = TRUE, !.next = n]]
      <4>1. PICK n \in {None, Later}, keep \in BOOLEAN :
              auth' = [auth EXCEPT ![c] = [@ EXCEPT !.tokens = act[a].base, !.wait = TRUE,
                  !.next = IF keep \/ (n = None /\ act[a].next = None) THEN auth[c].next ELSE n]]
        BY <2>2 DEF CommitOk
      <4>2. auth[c].next \in Times /\ n \in Times BY <1>0 DEF Shape, Entries, Times
      <4>3. (IF keep \/ (n = None /\ act[a].next = None) THEN auth[c].next ELSE n) \in Times BY <4>2
      <4> DEFINE m == IF keep \/ (n = None /\ act[a].next = None) THEN auth[c].next ELSE n
      <4>4. m \in Times BY <4>3
      <4>5. auth' = [auth EXCEPT ![c] = [@ EXCEPT !.tokens = act[a].base, !.wait = TRUE, !.next = m]]
        BY <4>1
      <4> HIDE DEF m
      <4> QED BY <4>4, <4>5
    <3>2. act[a].base \in Nat \X Nat BY <1>0 DEF Acts
    <3>3. ASSUME NEW r \in Entries, NEW b \in Nat \X Nat
          PROVE  [r EXCEPT !.tokens = b, !.wait = TRUE, !.next = n] \in Entries
      BY DEF Entries
    <3>4. auth[c] \in Entries BY <1>0 DEF Shape
    <3> QED BY <1>0, <3>1, <3>2, <3>3, <3>4 DEF Shape
  <2>3. CASE CommitFailed(a)
    <3>1. ASSUME auth' = [auth EXCEPT ![c].sched = FALSE, ![c].next = None, ![c].wait = FALSE]
          PROVE  auth' \in [Creds -> Entries]
      <4>1. auth'[c] = [auth[c] EXCEPT !.sched = FALSE, !.next = None, !.wait = FALSE]
        BY <1>0, <3>1 DEF Shape
      <4>0. auth[c] \in Entries /\ None \in Times BY <1>0 DEF Shape, Times
      <4>2. auth'[c] \in Entries BY <4>0, <4>1 DEF Entries
      <4>3. auth' = [auth EXCEPT ![c] = auth'[c]] BY <1>0, <3>1 DEF Shape
      <4> QED BY <1>0, <4>2, <4>3, AuthWrite
    <3>2. ASSUME NEW n \in {None, Later}, auth' = [auth EXCEPT ![c].next = n, ![c].wait = (n = Later)]
          PROVE  auth' \in [Creds -> Entries]
      <4> DEFINE v == (n = Later)
      <4>1. v \in BOOLEAN /\ n \in Times BY DEF Times
      <4>2. auth' = [auth EXCEPT ![c].next = n, ![c].wait = v] BY <3>2
      <4> HIDE DEF v
      <4> QED BY <2>1, <4>1, <4>2
    <3> QED BY <2>3, <3>1, <3>2 DEF CommitFailed
  <2>4. CASE CommitCanceled(a)
    <3>1. auth' = auth \/ auth' = [auth EXCEPT ![c].next = Later, ![c].wait = TRUE]
      BY <2>4 DEF CommitCanceled
    <3>2. Later \in Times BY DEF Times
    <3> QED BY <2>1, <3>1, <3>2 DEF Shape
  <2> QED BY <2>2, <2>3, <2>4 DEF RefreshStep, Snapshot, CommitDiscarded, Unlock, Shape
<1> QED BY <1>1, <1>2, <1>3, <1>4, <1>5, ActWrite DEF Shape, HandsFull

LEMMA ShapeNext == Shape /\ HandsFull /\ [Next]_vars => Shape' /\ HandsFull'
<1> SUFFICES ASSUME Shape, HandsFull, [Next]_vars PROVE Shape' /\ HandsFull' OBVIOUS
<1>1. CASE UNCHANGED vars BY <1>1 DEF vars, Shape, HandsFull
<1>2. ASSUME NEW p \in Processes, Notify(p) PROVE Shape' /\ HandsFull' BY <1>2, ShapeNotify
<1>3. ASSUME NEW a \in Managers, ManagerStep(a) PROVE Shape' /\ HandsFull' BY <1>3, ShapeManager
<1>4. ASSUME NEW a \in Requests, NEW c \in Creds, RefreshForRequest(a, c) PROVE Shape' /\ HandsFull'
  BY <1>4, ShapeRequest
<1>5. ASSUME NEW l \in Loops, Start(l) \/ Wake(l) \/ Timer(l) \/ Exit(l) \/ LoopStep(l)
      PROVE  Shape' /\ HandsFull'
  BY <1>5, ShapeControl, ShapeLoop, ShapeMark, ShapeSend, ShapeGiveBack, ShapeRelease DEF LoopStep
<1>6. CASE Stop
  <2>1. current \in Loops BY <1>6 DEF Stop, Shape
  <2> QED BY <1>6, <2>1, ShapeControl
<1>7. ASSUME NEW w \in WorkerIds, WorkerStep(w) PROVE Shape' /\ HandsFull' BY <1>7, ShapeWorker
<1>8. ASSUME NEW a \in Actors, RefreshStep(a) PROVE Shape' /\ HandsFull' BY <1>8, ShapeRefresh
<1>9. ASSUME NEW c \in Creds, Expire(c) PROVE Shape' /\ HandsFull' BY <1>9, ShapeExpire
<1> QED BY <1>1, <1>2, <1>3, <1>4, <1>5, <1>6, <1>7, <1>8, <1>9 DEF Next

(***************************************************************************)
(* Tokens and markers: what the steps that write a credential's entry, or  *)
(* the register of jobs, leave true of it.                                 *)
(***************************************************************************)
Writes ==
  \/ \E a \in Managers, c \in Creds : Register(a, c) \/ Update(a, c) \/ RemoveIf(a, c)
  \/ \E l \in Loops : MarkPending(l) \/ GiveBack(l) \/ Release(l)
  \/ \E w \in WorkerIds : BeginJob(w) \/ FinishJob(w)
  \/ \E a \in Actors : CommitOk(a) \/ CommitFailed(a) \/ CommitCanceled(a)
  \/ \E c \in Creds : Expire(c)

LEMMA OnlyWrites == [Next]_vars => UNCHANGED <<auth, refreshJobs>> \/ Writes
<1> SUFFICES ASSUME [Next]_vars PROVE UNCHANGED <<auth, refreshJobs>> \/ Writes OBVIOUS
<1>1. CASE UNCHANGED vars BY <1>1 DEF vars
<1>2. CASE \E p \in Processes : Notify(p) BY <1>2 DEF Notify
<1>3. CASE \E a \in Managers : ManagerStep(a) BY <1>3 DEF ManagerStep, Copy, Writes
<1>4. CASE \E a \in Requests, c \in Creds : RefreshForRequest(a, c) BY <1>4 DEF RefreshForRequest
<1>5. CASE \E l \in Loops : Start(l) \/ Wake(l) \/ Timer(l) \/ Exit(l) \/ LoopStep(l)
  <2> PICK l \in Loops : Start(l) \/ Wake(l) \/ Timer(l) \/ Exit(l) \/ LoopStep(l) BY <1>5
  <2>1. MarkPending(l) \/ GiveBack(l) \/ Release(l) => Writes BY DEF Writes
  <2>2. CASE Start(l) \/ Wake(l) \/ Timer(l) \/ Exit(l) \/ Publish(l) \/ RebuildRead(l) \/ RebuildFill(l)
    BY <2>2 DEF Start, Wake, Timer, Exit, Publish, RebuildRead, RebuildFill
  <2>3. CASE PickNone(l) \/ Pick(l) \/ Upsert(l) \/ Remove(l) \/ MarkRefused(l) \/ ReadAgain(l) \/ Send(l)
    BY <2>3 DEF PickNone, Pick, Upsert, Remove, MarkRefused, ReadAgain, Send
  <2> QED BY <2>1, <2>2, <2>3 DEF LoopStep
<1>6. CASE Stop BY <1>6 DEF Stop
<1>7. CASE \E w \in WorkerIds : WorkerStep(w) BY <1>7 DEF WorkerStep, TakeJob, BeginRefused, Writes
<1>8. CASE \E a \in Actors : RefreshStep(a)
  BY <1>8 DEF RefreshStep, Snapshot, CommitDiscarded, Unlock, Writes
<1>9. CASE \E c \in Creds : Expire(c) BY <1>9 DEF Writes
<1> QED BY <1>1, <1>2, <1>3, <1>4, <1>5, <1>6, <1>7, <1>8, <1>9 DEF Next

\* What finishRefreshJob does: nothing, or it takes job <<c, l, e>> off the
\* register, and its marker off the credential.
LEMMA FinishEffect ==
  ASSUME Shape, NEW p \in Processes, NEW c \in Creds, NEW l \in Loops, NEW e \in Nat,
         NEW retryAt \in {None, Later}, NEW q \in BOOLEAN, Finish(p, c, l, e, retryAt, q)
  PROVE  /\ \A d \in Creds \ {c} : auth'[d] = auth[d]
         /\ auth'[c].here = auth[c].here /\ auth'[c].epoch = auth[c].epoch
         /\ auth'[c].ver = auth[c].ver /\ auth'[c].tokens = auth[c].tokens
         /\ \/ UNCHANGED <<auth, refreshJobs>> /\ (~Registered(c, l, e) \/ (q /\ refreshJobs[c].running))
            \/ /\ Registered(c, l, e) /\ refreshJobs' = [refreshJobs EXCEPT ![c] = None]
               /\ auth[c].here /\ auth[c].epoch = e /\ auth[c].next = l => auth'[c].next = retryAt
               /\ ~(auth[c].here /\ auth[c].epoch = e /\ auth[c].next = l) => auth' = auth
<1> DEFINE w == (retryAt = Later)
<1>1. auth' = auth \/ auth' = [auth EXCEPT ![c].next = retryAt, ![c].wait = w]
  BY DEF Finish
<1>2. CASE ~Registered(c, l, e) \/ (q /\ refreshJobs[c].running)
  BY <1>2 DEF Finish
<1>3. CASE ~(~Registered(c, l, e) \/ (q /\ refreshJobs[c].running))
  <2>1. refreshJobs' = [refreshJobs EXCEPT ![c] = None] BY <1>3 DEF Finish
  <2>2. auth[c].here /\ auth[c].epoch = e /\ auth[c].next = l =>
          auth' = [auth EXCEPT ![c].next = retryAt, ![c].wait = w]
    BY <1>3 DEF Finish
  <2>3. ~(auth[c].here /\ auth[c].epoch = e /\ auth[c].next = l) => auth' = auth
    BY <1>3 DEF Finish
  <2> HIDE DEF w
  <2> QED BY <1>1, <1>3, <2>1, <2>2, <2>3 DEF Shape, Entries
<1> QED BY <1>2, <1>3

\* The three callers of finishRefreshJob.
Finishes ==
  \/ \E l \in Loops : GiveBack(l) \/ Release(l)
  \/ \E w \in WorkerIds : FinishJob(w)

LEMMA FinishersFinish ==
  ASSUME Shape, HandsFull, Finishes
  PROVE  \/ UNCHANGED <<auth, refreshJobs>>
         \/ \E p \in Processes, c \in Creds, l \in Loops, e \in Nat, retryAt \in {None, Later}, q \in BOOLEAN :
              Finish(p, c, l, e, retryAt, q)
<1>1. ASSUME NEW l \in Loops, GiveBack(l)
      PROVE  \E p \in Processes, c \in Creds, k \in Loops, e \in Nat, retryAt \in {None, Later}, q \in BOOLEAN :
               Finish(p, c, k, e, retryAt, q)
  <2>1. loop[l].hand \in Creds /\ loop[l].epoch \in Nat
    BY <1>1 DEF GiveBack, HandsFull, LoopFull, Shape, LoopStates
  <2>2. Finish(Go(l), loop[l].hand, l, loop[l].epoch, Later, FALSE) BY <1>1 DEF GiveBack
  <2> QED BY <2>1, <2>2, Places, Zenon
<1>2. ASSUME NEW l \in Loops, Release(l)
      PROVE  \/ UNCHANGED <<auth, refreshJobs>>
             \/ \E p \in Processes, c \in Creds, k \in Loops, e \in Nat, retryAt \in {None, Later}, q \in BOOLEAN :
                  Finish(p, c, k, e, retryAt, q)
  <2>1. PICK c \in loop[l].todo :
          IF refreshJobs[c] # None /\ refreshJobs[c].loop = l
          THEN Finish(Go(l), c, l, refreshJobs[c].epoch, None, TRUE)
          ELSE UNCHANGED <<auth, refreshJobs, note>>
    BY <1>2 DEF Release
  <2>2. c \in Creds BY DEF Shape, LoopStates
  <2>3. refreshJobs[c] # None => refreshJobs[c].epoch \in Nat BY <2>2 DEF Shape, Jobs
  <2> QED BY <2>1, <2>2, <2>3, Places, Zenon
<1>3. ASSUME NEW w \in WorkerIds, FinishJob(w)
      PROVE  \E p \in Processes, c \in Creds, k \in Loops, e \in Nat, retryAt \in {None, Later}, q \in BOOLEAN :
               Finish(p, c, k, e, retryAt, q)
  <2>0. w \in Actors /\ w \in Processes /\ w[1] \in Loops BY Places
  <2>1. act[w].cred \in Creds /\ act[w].job \in Nat
    BY <1>3, <2>0 DEF FinishJob, HandsFull, Shape, Acts
  <2>2. Finish(w, act[w].cred, w[1], act[w].job, None, FALSE) BY <1>3 DEF FinishJob
  <2> QED BY <2>0, <2>1, <2>2, Zenon
<1> QED BY <1>1, <1>2, <1>3 DEF Finishes

LEMMA TokensNext ==
  ASSUME Shape, HandsFull, TokensOfNewest, [Next]_vars PROVE TokensOfNewest'
<1>k. ASSUME \A d \in Creds : /\ auth'[d].here = auth[d].here /\ auth'[d].epoch = auth[d].epoch
                              /\ auth'[d].ver = auth[d].ver /\ auth'[d].tokens = auth[d].tokens
      PROVE  TokensOfNewest'
  BY <1>k DEF TokensOfNewest
<1>1. CASE UNCHANGED <<auth, refreshJobs>> BY <1>1, <1>k
<1>2. CASE Finishes
  <2>1. CASE UNCHANGED <<auth, refreshJobs>> BY <2>1, <1>k
  <2>2. ASSUME NEW p \in Processes, NEW c \in Creds, NEW l \in Loops, NEW e \in Nat,
               NEW retryAt \in {None, Later}, NEW q \in BOOLEAN, Finish(p, c, l, e, retryAt, q)
        PROVE  TokensOfNewest'
    BY <1>k, <2>2, FinishEffect
  <2> QED BY <1>2, <2>1, <2>2, FinishersFinish
<1>3. ASSUME NEW a \in Managers, NEW c \in Creds, Register(a, c) \/ Update(a, c) PROVE TokensOfNewest'
  <2>1. auth' = auth \/ \E e : Replaces(c, e) BY <1>3, RegisterReplaces, UpdateReplaces
  <2>2. CASE auth' = auth BY <1>k, <2>2
  <2>3. ASSUME NEW e, Replaces(c, e) PROVE TokensOfNewest'
    <3>1. \A d \in Creds \ {c} : auth'[d] = auth[d] BY <2>3 DEF Replaces, Shape
    <3> QED BY <2>3, <3>1 DEF Replaces, TokensOfNewest
  <2> QED BY <2>1, <2>2, <2>3
<1>5. ASSUME NEW a \in Managers, NEW c \in Creds, RemoveIf(a, c) PROVE TokensOfNewest'
  <2>1. ~auth'[c].here /\ \A d \in Creds \ {c} : auth'[d] = auth[d] BY <1>5 DEF RemoveIf, Shape, Entries
  <2> QED BY <2>1 DEF TokensOfNewest
<1>6. ASSUME NEW l \in Loops, MarkPending(l) PROVE TokensOfNewest'
  <2>1. auth' = [auth EXCEPT ![loop[l].hand].next = l, ![loop[l].hand].wait = TRUE]
    BY <1>6 DEF MarkPending
  <2> QED BY <1>k, <2>1 DEF Shape, Entries
<1>7. ASSUME NEW w \in WorkerIds, BeginJob(w) PROVE TokensOfNewest'
  BY <1>7, <1>k DEF BeginJob
<1>8. ASSUME NEW a \in Actors, CommitOk(a) PROVE TokensOfNewest'
  <2> DEFINE c == act[a].cred
  <2>1. c \in Creds BY <1>8 DEF CommitOk, HandsFull
  <2>2. <<auth[c].epoch, auth[c].ver>> = act[a].base BY <1>8 DEF CommitOk, SameBase
  <2>3. \E n : auth' = [auth EXCEPT ![c] = [@ EXCEPT !.tokens = act[a].base, !.wait = TRUE, !.next = n]]
    BY <1>8 DEF CommitOk
  <2>4. /\ \A d \in Creds \ {c} : auth'[d] = auth[d]
        /\ auth'[c].tokens = act[a].base /\ auth'[c].epoch = auth[c].epoch /\ auth'[c].ver = auth[c].ver
    BY <2>1, <2>3 DEF Shape, Entries
  <2> QED BY <2>2, <2>4 DEF TokensOfNewest
<1>9. ASSUME NEW a \in Actors, CommitFailed(a) PROVE TokensOfNewest'
  <2> DEFINE c == act[a].cred
  <2>1. CASE auth' = [auth EXCEPT ![c].sched = FALSE, ![c].next = None, ![c].wait = FALSE]
    BY <1>k, <2>1 DEF Shape, Entries
  <2>2. ASSUME NEW n, NEW v, auth' = [auth EXCEPT ![c].next = n, ![c].wait = v] PROVE TokensOfNewest'
    BY <1>k, <2>2 DEF Shape, Entries
  <2>3. \A n : auth' # [auth EXCEPT ![c].next = n, ![c].wait = (n = Later)] \/ TokensOfNewest'
    <3> TAKE n
    <3> DEFINE v == (n = Later)
    <3>1. auth' # [auth EXCEPT ![c].next = n, ![c].wait = v] \/ TokensOfNewest'
      <4> HIDE DEF v
      <4> QED BY <2>2
    <3> QED BY <3>1
  <2> QED BY <1>9, <2>1, <2>3 DEF CommitFailed
<1>10. ASSUME NEW a \in Actors, CommitCanceled(a) PROVE TokensOfNewest'
  <2>1. auth' = auth \/ auth' = [auth EXCEPT ![act[a].cred].next = Later, ![act[a].cred].wait = TRUE]
    BY <1>10 DEF CommitCanceled
  <2>2. CASE auth' = auth BY <1>k, <2>2
  <2>3. CASE auth' = [auth EXCEPT ![act[a].cred].next = Later, ![act[a].cred].wait = TRUE]
    BY <1>k, <2>3 DEF Shape, Entries
  <2> QED BY <2>1, <2>2, <2>3
<1>11. ASSUME NEW c \in Creds, Expire(c) PROVE TokensOfNewest'
  BY <1>11, <1>k DEF Expire, Shape, Entries
<1> QED BY <1>1, <1>2, <1>3, <1>5, <1>6, <1>7, <1>8, <1>9, <1>10, <1>11, OnlyWrites
        DEF Writes, Finishes

\* refreshAuthForRequestAtEpoch: a refresh never puts the tokens of an older
\* registration or version of the credential in place of newer ones, however
\* refreshes, replacements and removals are interleaved.
THEOREM RefreshTokensOfNewest == Spec => []TokensOfNewest
<1>1. Init => TokensOfNewest BY DEF Init, TokensOfNewest, Entry
<1>2. Shape /\ HandsFull /\ TokensOfNewest /\ [Next]_vars => TokensOfNewest' BY TokensNext
<1> QED BY <1>1, <1>2, ShapeInit, ShapeNext, PTL DEF Spec

\* An entry that does not carry a marker, or the one it carried, is fine as
\* long as the job behind the marker stays.
LEMMA MarkerKept ==
  ASSUME MarkerHasJob, NEW c \in Creds,
         \A d \in Creds \ {c} : auth'[d] = auth[d],
         \A d \in Creds, l \in Loops : \A e : Registered(d, l, e) => Registered(d, l, e)',
         auth'[c].next \notin Loops \/ (/\ auth'[c].next = auth[c].next
                                       /\ auth'[c].here = auth[c].here /\ auth'[c].epoch = auth[c].epoch)
  PROVE  MarkerHasJob'
BY DEF MarkerHasJob

LEMMA MarkerNext ==
  ASSUME Shape, HandsFull, MarkerHasJob, [Next]_vars PROVE MarkerHasJob'
<1>t. None \notin Loops /\ Later \notin Loops BY RefreshAssumption
<1>u. ASSUME refreshJobs' = refreshJobs
      PROVE  \A d \in Creds, l \in Loops : \A e : Registered(d, l, e) => Registered(d, l, e)'
  BY <1>u DEF Registered
<1>1. CASE UNCHANGED <<auth, refreshJobs>> BY <1>1 DEF MarkerHasJob, Registered
<1>2. CASE Finishes
  <2>1. CASE UNCHANGED <<auth, refreshJobs>> BY <2>1 DEF MarkerHasJob, Registered
  <2>2. ASSUME NEW p \in Processes, NEW c \in Creds, NEW l \in Loops, NEW e \in Nat,
               NEW retryAt \in {None, Later}, NEW q \in BOOLEAN, Finish(p, c, l, e, retryAt, q)
        PROVE  MarkerHasJob'
    <3>1. CASE UNCHANGED <<auth, refreshJobs>> BY <3>1 DEF MarkerHasJob, Registered
    <3>2. CASE ~UNCHANGED <<auth, refreshJobs>>
      <4>1. /\ Registered(c, l, e) /\ refreshJobs' = [refreshJobs EXCEPT ![c] = None]
            /\ \A d \in Creds \ {c} : auth'[d] = auth[d]
            /\ auth'[c].here = auth[c].here /\ auth'[c].epoch = auth[c].epoch
            /\ auth[c].here /\ auth[c].epoch = e /\ auth[c].next = l => auth'[c].next = retryAt
            /\ ~(auth[c].here /\ auth[c].epoch = e /\ auth[c].next = l) => auth' = auth
        BY <2>2, <3>2, FinishEffect
      <4>2. ASSUME NEW d \in Creds, auth'[d].here, auth'[d].next \in Loops
            PROVE  /\ refreshJobs'[d] # None /\ refreshJobs'[d].loop = auth'[d].next
                   /\ refreshJobs'[d].epoch = auth'[d].epoch
        <5>1. CASE d # c
          <6>1. Registered(d, auth[d].next, auth[d].epoch) BY <4>1, <4>2, <5>1 DEF MarkerHasJob
          <6> QED BY <4>1, <5>1, <6>1 DEF Registered, Shape
        <5>2. CASE d = c
          <6>1. ~(auth[c].here /\ auth[c].epoch = e /\ auth[c].next = l) BY <1>t, <4>1, <4>2, <5>2
          <6>2. auth' = auth BY <4>1, <6>1
          <6>3. Registered(c, auth[c].next, auth[c].epoch) BY <4>2, <5>2, <6>2 DEF MarkerHasJob
          <6> QED BY <4>1, <4>2, <5>2, <6>1, <6>2, <6>3 DEF Registered
        <5> QED BY <5>1, <5>2
      <4> QED BY <4>2 DEF MarkerHasJob, Registered
    <3> QED BY <3>1, <3>2
  <2> QED BY <1>2, <2>1, <2>2, FinishersFinish
<1>3. ASSUME NEW a \in Managers, NEW c \in Creds, Register(a, c) \/ Update(a, c) PROVE MarkerHasJob'
  <2>0. refreshJobs' = refreshJobs BY <1>3 DEF Register, Update
  <2>1. auth' = auth \/ \E e : Replaces(c, e) BY <1>3, RegisterReplaces, UpdateReplaces
  <2>2. CASE auth' = auth BY <2>0, <2>2 DEF MarkerHasJob, Registered
  <2>3. ASSUME NEW e, Replaces(c, e) PROVE MarkerHasJob'
    <3>1. \A d \in Creds \ {c} : auth'[d] = auth[d] BY <2>3 DEF Replaces, Shape
    <3>2. auth'[c].next \in Loops => Registered(c, auth'[c].next, auth'[c].epoch)
      BY <2>3 DEF Replaces, MarkerHasJob
    <3>3. \A d \in Creds : auth'[d].here /\ auth'[d].next \in Loops =>
            Registered(d, auth'[d].next, auth'[d].epoch)
      BY <3>1, <3>2 DEF MarkerHasJob
    <3> QED BY <2>0, <3>3 DEF MarkerHasJob, Registered
  <2> QED BY <2>1, <2>2, <2>3
<1>5. ASSUME NEW a \in Managers, NEW c \in Creds, RemoveIf(a, c) PROVE MarkerHasJob'
  <2>1. ~auth'[c].here /\ \A d \in Creds \ {c} : auth'[d] = auth[d] BY <1>5 DEF RemoveIf, Shape, Entries
  <2>2. refreshJobs' = refreshJobs BY <1>5 DEF RemoveIf
  <2> QED BY <2>1, <2>2 DEF MarkerHasJob, Registered
<1>6. ASSUME NEW l \in Loops, MarkPending(l) PROVE MarkerHasJob'
  <2> DEFINE c == loop[l].hand
             job == [loop |-> l, epoch |-> loop[l].epoch, running |-> FALSE]
  <2>1. c \in Creds /\ loop[l].epoch \in Nat
    BY <1>6 DEF MarkPending, HandsFull, LoopFull, Shape, LoopStates
  <2>2. refreshJobs' = [refreshJobs EXCEPT ![c] = job] /\ auth[c].epoch = loop[l].epoch
    BY <1>6 DEF MarkPending, CanMark
  <2>3. job # None
    <3>1. job \in [loop : Loops, epoch : Nat, running : BOOLEAN] BY <2>1
    <3> QED BY <3>1, RefreshAssumption
  <2>4. auth' = [auth EXCEPT ![c].next = l, ![c].wait = TRUE] BY <1>6 DEF MarkPending
  <2>5. auth'[c].next = l /\ auth'[c].epoch = auth[c].epoch /\ \A d \in Creds \ {c} : auth'[d] = auth[d]
    BY <2>1, <2>4 DEF Shape, Entries
  <2>6. refreshJobs'[c] = job /\ \A d \in Creds \ {c} : refreshJobs'[d] = refreshJobs[d]
    BY <2>1, <2>2 DEF Shape
  <2>7. ASSUME NEW d \in Creds, auth'[d].here, auth'[d].next \in Loops
        PROVE  /\ refreshJobs'[d] # None /\ refreshJobs'[d].loop = auth'[d].next
                   /\ refreshJobs'[d].epoch = auth'[d].epoch
    <3>1. CASE d = c
      <4>1. job.loop = l /\ job.epoch = loop[l].epoch OBVIOUS
      <4> HIDE DEF job
      <4> QED BY <2>2, <2>3, <2>5, <2>6, <3>1, <4>1
    <3>2. CASE d # c BY <2>5, <2>6, <2>7, <3>2 DEF MarkerHasJob, Registered
    <3> QED BY <3>1, <3>2
  <2> QED BY <2>7 DEF MarkerHasJob, Registered
<1>7. ASSUME NEW w \in WorkerIds, BeginJob(w) PROVE MarkerHasJob'
  <2> DEFINE c == act[w].cred
  <2>1. refreshJobs[c] # None /\ auth' = auth /\ refreshJobs' = [refreshJobs EXCEPT ![c].running = TRUE]
    BY <1>7 DEF BeginJob, CanBegin, Registered
  <2>2. c \in Creds BY <1>7, Places DEF BeginJob, HandsFull
  <2>3. refreshJobs[c] \in Jobs BY <2>1, <2>2 DEF Shape
  <2>4. refreshJobs'[c] \in Jobs /\ refreshJobs'[c].loop = refreshJobs[c].loop
        /\ refreshJobs'[c].epoch = refreshJobs[c].epoch
    BY <2>1, <2>2, <2>3 DEF Shape, Jobs
  <2>5. refreshJobs'[c] # None BY <2>4, RefreshAssumption DEF Jobs
  <2>6. \A d \in Creds \ {c} : refreshJobs'[d] = refreshJobs[d] BY <2>1 DEF Shape
  <2> QED BY <2>1, <2>2, <2>4, <2>5, <2>6 DEF MarkerHasJob, Registered
<1>8. ASSUME NEW a \in Actors, CommitOk(a) PROVE MarkerHasJob'
  <2> DEFINE c == act[a].cred
  <2>1. c \in Creds /\ refreshJobs' = refreshJobs BY <1>8 DEF CommitOk, HandsFull
  <2>2. PICK n \in {None, Later, auth[c].next} :
          auth' = [auth EXCEPT ![c] = [@ EXCEPT !.tokens = act[a].base, !.wait = TRUE, !.next = n]]
    BY <1>8 DEF CommitOk
  <2>3. /\ \A d \in Creds \ {c} : auth'[d] = auth[d]
        /\ auth'[c].next = n /\ auth'[c].epoch = auth[c].epoch /\ auth'[c].here = auth[c].here
    BY <2>1, <2>2 DEF Shape, Entries
  <2> QED BY <1>t, <1>u, <2>1, <2>3, MarkerKept
<1>9. ASSUME NEW a \in Actors, CommitFailed(a) PROVE MarkerHasJob'
  <2> DEFINE c == act[a].cred
  <2>1. c \in Creds /\ refreshJobs' = refreshJobs BY <1>9 DEF CommitFailed, HandsFull
  <2>2. auth'[c].next \in {None, Later} /\ \A d \in Creds \ {c} : auth'[d] = auth[d]
    <3>1. CASE auth' = [auth EXCEPT ![c].sched = FALSE, ![c].next = None, ![c].wait = FALSE]
      BY <2>1, <3>1 DEF Shape, Entries
    <3>2. ASSUME NEW n \in {None, Later}, NEW v, auth' = [auth EXCEPT ![c].next = n, ![c].wait = v]
          PROVE  auth'[c].next \in {None, Later} /\ \A d \in Creds \ {c} : auth'[d] = auth[d]
      BY <2>1, <3>2 DEF Shape, Entries
    <3>3. CASE \E n \in {None, Later} : auth' = [auth EXCEPT ![c].next = n, ![c].wait = (n = Later)]
      <4> PICK n \in {None, Later} : auth' = [auth EXCEPT ![c].next = n, ![c].wait = (n = Later)] BY <3>3
      <4> DEFINE v == (n = Later)
      <4>1. auth' = [auth EXCEPT ![c].next = n, ![c].wait = v] OBVIOUS
      <4> HIDE DEF v
      <4> QED BY <3>2, <4>1
    <3> QED BY <1>9, <3>1, <3>3 DEF CommitFailed
  <2> QED BY <1>t, <1>u, <2>1, <2>2, MarkerKept
<1>10. ASSUME NEW a \in Actors, CommitCanceled(a) PROVE MarkerHasJob'
  <2> DEFINE c == act[a].cred
  <2>1. c \in Creds /\ refreshJobs' = refreshJobs BY <1>10 DEF CommitCanceled, HandsFull
  <2>2. CASE auth' = auth BY <2>1, <2>2 DEF MarkerHasJob, Registered
  <2>3. CASE auth' = [auth EXCEPT ![c].next = Later, ![c].wait = TRUE]
    <3>1. auth'[c].next = Later /\ \A d \in Creds \ {c} : auth'[d] = auth[d]
      BY <2>1, <2>3 DEF Shape, Entries
    <3> QED BY <1>t, <1>u, <2>1, <3>1, MarkerKept
  <2> QED BY <1>10, <2>2, <2>3 DEF CommitCanceled
<1>11. ASSUME NEW c \in Creds, Expire(c) PROVE MarkerHasJob'
  <2>1. /\ auth'[c].next = auth[c].next /\ auth'[c].here = auth[c].here /\ auth'[c].epoch = auth[c].epoch
        /\ \A d \in Creds \ {c} : auth'[d] = auth[d]
    BY <1>11 DEF Expire, Shape, Entries
  <2>2. refreshJobs' = refreshJobs BY <1>11 DEF Expire
  <2> QED BY <1>u, <2>1, <2>2, MarkerKept
<1> QED BY <1>1, <1>2, <1>3, <1>5, <1>6, <1>7, <1>8, <1>9, <1>10, <1>11, OnlyWrites
        DEF Writes, Finishes

(***************************************************************************)
(* Hands.  Most steps leave every job where it is.                         *)
(***************************************************************************)
SameLoop(l) ==
  /\ loop'[l].pc = "send" <=> loop[l].pc = "send"
  /\ loop[l].pc = "send" => loop'[l].hand = loop[l].hand /\ loop'[l].epoch = loop[l].epoch
  /\ loop'[l].mode = "release" <=> loop[l].mode = "release"
  /\ loop[l].mode = "release" => loop'[l].pc = loop[l].pc /\ loop'[l].todo = loop[l].todo

SameJob(w) ==
  /\ act'[w].pc = "idle" <=> act[w].pc = "idle"
  /\ act[w].pc # "idle" => act'[w].cred = act[w].cred /\ act'[w].job = act[w].job

SameLoops == \A l \in Loops : SameLoop(l)
SameJobs == \A l \in Loops, x \in Workers : SameJob(<<l, x>>)
SameHands == SameLoops /\ SameJobs /\ UNCHANGED <<refreshJobs, queue>>

LEMMA HoldsSame == ASSUME HoldInv, SameHands PROVE HoldInv'
<1> SUFFICES ASSUME NEW l \in Loops, NEW c \in Creds, NEW e \in Nat PROVE HoldAt(l, c, e)'
  BY DEF HoldInv
<1>1. InLoop(l, c, e)' <=> InLoop(l, c, e) BY DEF InLoop, SameHands, SameLoops, SameLoop
<1>2. \A i \in Nat : InQueue(l, i, c, e)' <=> InQueue(l, i, c, e) BY DEF InQueue, SameHands
<1>3. \A x \in Workers : InWorker(l, x, c, e)' <=> InWorker(l, x, c, e)
  BY DEF InWorker, SameHands, SameJobs, SameJob
<1>4. Registered(c, l, e)' <=> Registered(c, l, e) BY DEF Registered, SameHands
<1>5. /\ loop'[l].mode = "release" <=> loop[l].mode = "release"
      /\ loop[l].mode = "release" => loop'[l].pc = loop[l].pc /\ loop'[l].todo = loop[l].todo
  BY DEF SameHands, SameLoops, SameLoop
<1>6. HoldAt(l, c, e) /\ refreshJobs' = refreshJobs BY DEF HoldInv, SameHands
<1>7. Held(l, c, e)' <=> Held(l, c, e) BY <1>1, <1>2, <1>3 DEF Held
<1>8. Exclusive(l, c, e)' BY <1>1, <1>2, <1>3, <1>6 DEF HoldAt, Exclusive
<1> HIDE DEF Held, Exclusive, InLoop, InQueue, InWorker, Registered
<1> QED BY <1>3, <1>4, <1>5, <1>6, <1>7, <1>8 DEF HoldAt

\* A step of loop l that neither begins, ends nor happens in "send".
LEMMA LoopsSame ==
  ASSUME Shape, NEW l \in Loops, loop' = [loop EXCEPT ![l] = loop'[l]],
         loop[l].pc # "send", loop'[l].pc # "send", loop[l].mode # "release", loop'[l].mode # "release"
  PROVE  SameLoops
BY DEF SameLoops, SameLoop, Shape

LEMMA LoopSteps ==
  ASSUME Shape, HandsFull, NEW l \in Loops,
         \/ Publish(l) \/ RebuildRead(l) \/ RebuildFill(l) \/ Wake(l) \/ Timer(l)
         \/ (PickNone(l) /\ loop[l].mode # "release")
         \/ Pick(l) \/ Upsert(l) \/ Remove(l) \/ MarkRefused(l) \/ ReadAgain(l)
  PROVE  SameHands
<1>1. UNCHANGED <<refreshJobs, queue, act>>
  BY DEF Publish, RebuildRead, RebuildFill, Wake, Timer, PickNone, Pick, Upsert, Remove, MarkRefused, ReadAgain
<1>2. LoopFull(loop[l]) /\ loop[l] \in LoopStates BY DEF HandsFull, Shape
<1>3. loop[l].pc # "send" /\ loop[l].mode # "release"
  BY <1>2 DEF Publish, RebuildRead, RebuildFill, Wake, Timer, PickNone, Pick, Upsert, Remove, MarkRefused,
              ReadAgain, LoopFull
<1>4. loop' = [loop EXCEPT ![l] = loop'[l]]
  <2>1. CASE Publish(l) \/ RebuildRead(l) \/ RebuildFill(l) \/ Wake(l) \/ Timer(l) \/ Pick(l)
    BY <2>1 DEF Publish, RebuildRead, RebuildFill, Wake, Timer, Pick, Drained, Shape
  <2>2. CASE PickNone(l) \/ Upsert(l) \/ Remove(l) \/ MarkRefused(l) \/ ReadAgain(l)
    BY <2>2 DEF PickNone, Upsert, Remove, MarkRefused, ReadAgain, Removed, Drained, Shape
  <2> QED BY <2>1, <2>2
<1>5. loop'[l].pc # "send" /\ loop'[l].mode # "release"
  <2>1. CASE Publish(l) BY <1>3, <2>1 DEF Publish, Shape, LoopStates
  <2>2. CASE RebuildRead(l) BY <1>3, <2>2 DEF RebuildRead, Shape, LoopStates
  <2>3. CASE RebuildFill(l) BY <1>3, <2>3 DEF RebuildFill, Shape, LoopStates
  <2>4. CASE Wake(l) BY <1>3, <2>4 DEF Wake, Drained, Shape, LoopStates
  <2>5. CASE Timer(l)
    <3>1. PICK S : loop' = [loop EXCEPT ![l].heap = @ \ S, ![l].todo = S, ![l].mode = "due", ![l].pc = "pick"]
      BY <2>5 DEF Timer
    <3> QED BY <3>1 DEF Shape, LoopStates
  <2>6. CASE PickNone(l) /\ loop[l].mode # "release"
    BY <1>2, <1>3, <2>6 DEF PickNone, Drained, Shape, LoopStates, LoopFull
  <2>7. CASE Pick(l)
    <3>1. \A c : Decision(l, c) # "send" BY DEF Decision
    <3>2. PICK c : loop' = [loop EXCEPT ![l].todo = @ \ {c}, ![l].hand = c, ![l].epoch = auth[c].epoch,
                                        ![l].pc = Decision(l, c)]
      BY <2>7 DEF Pick
    <3>3. loop'[l].pc = Decision(l, c) /\ loop'[l].mode = loop[l].mode BY <3>2 DEF Shape, LoopStates
    <3> QED BY <1>3, <3>1, <3>3
  <2>8. CASE Upsert(l) BY <1>3, <2>8 DEF Upsert, Shape, LoopStates
  <2>9. CASE Remove(l) BY <1>3, <2>9 DEF Remove, Removed, Shape, LoopStates
  <2>10. CASE MarkRefused(l) \/ ReadAgain(l)
    BY <1>3, <2>10 DEF MarkRefused, ReadAgain, Shape, LoopStates
  <2> QED BY <2>1, <2>2, <2>3, <2>4, <2>5, <2>6, <2>7, <2>8, <2>9, <2>10
<1> QED BY <1>1, <1>3, <1>4, <1>5, LoopsSame DEF SameHands, SameJobs, SameJob

LEMMA OtherSteps ==
  ASSUME Shape, HandsFull,
         \/ \E p \in Processes : Notify(p)
         \/ \E a \in Managers : ManagerStep(a)
         \/ \E a \in Requests, c \in Creds : RefreshForRequest(a, c)
         \/ \E l \in Loops : Start(l)
         \/ Stop
         \/ \E w \in WorkerIds : BeginRefused(w)
         \/ \E c \in Creds : Expire(c)
  PROVE  SameHands
<1>1. ASSUME NEW p \in Processes, Notify(p) PROVE SameHands
  <2>1. SameLoops
    <3>1. CASE loop' = loop BY <3>1 DEF SameLoops, SameLoop
    <3>2. CASE current \in Loops /\ loop' = Reschedule(current, note[p].cred)
      BY <3>2 DEF SameLoops, SameLoop, Reschedule, Shape, LoopStates
    <3>3. CASE current \in Loops /\ loop' = Removed(current, note[p].cred)
      BY <3>3 DEF SameLoops, SameLoop, Removed, Shape, LoopStates
    <3> QED BY <1>1, <3>1, <3>2, <3>3 DEF Notify, Shape
  <2> QED BY <1>1, <2>1 DEF Notify, SameHands, SameJobs, SameJob
<1>2. ASSUME NEW a \in Managers, ManagerStep(a) PROVE SameHands
  <2>0. PICK c \in Creds : Register(a, c) \/ Copy(a, c) \/ Update(a, c) \/ RemoveIf(a, c) BY <1>2 DEF ManagerStep
  <2>1. UNCHANGED <<refreshJobs, loop, queue>> BY <2>0 DEF Register, Copy, Update, RemoveIf
  <2>2. \E r : act' = [act EXCEPT ![a] = r]
    <3>1. CASE RemoveIf(a, c)
      <4>1. act' = [act EXCEPT ![a] = act[a]] BY <3>1 DEF RemoveIf, Shape
      <4> QED BY <4>1
    <3>2. CASE Register(a, c) \/ Copy(a, c) \/ Update(a, c) BY <3>2 DEF Register, Copy, Update
    <3> QED BY <2>0, <3>1, <3>2
  <2>3. \A l \in Loops, x \in Workers : act'[<<l, x>>] = act[<<l, x>>]
    <3>1. ASSUME NEW l \in Loops, NEW x \in Workers PROVE <<l, x>> # a
      BY <3>1, Places DEF Callers
    <3>2. \A w \in Actors : w # a => act'[w] = act[w] BY <2>2 DEF Shape
    <3>3. \A l \in Loops, x \in Workers : <<l, x>> \in Actors BY DEF Actors, WorkerIds
    <3> QED BY <3>1, <3>2, <3>3
  <2> QED BY <2>1, <2>3 DEF SameHands, SameJobs, SameJob, SameLoops, SameLoop
<1>3. ASSUME NEW a \in Requests, NEW c \in Creds, RefreshForRequest(a, c) PROVE SameHands
  <2>1. \A l \in Loops, x \in Workers : act'[<<l, x>>] = act[<<l, x>>]
    <3>1. ASSUME NEW l \in Loops, NEW x \in Workers PROVE <<l, x>> # a
      BY <3>1, Places DEF Callers
    <3>2. act' = [act EXCEPT ![a] = [Idle EXCEPT !.pc = "refresh", !.cred = c]]
      BY <1>3 DEF RefreshForRequest
    <3>3. \A w \in Actors : w # a => act'[w] = act[w]
      BY <3>2 DEF Shape
    <3>4. \A l \in Loops, x \in Workers : <<l, x>> \in Actors
      BY DEF Actors, WorkerIds
    <3> QED BY <3>1, <3>3, <3>4
  <2> QED BY <1>3, <2>1 DEF RefreshForRequest, SameHands, SameJobs, SameJob, SameLoops, SameLoop
<1>4. /\ Cancelled \in [Loops -> LoopStates]
      /\ \A k \in Loops : /\ Cancelled[k].pc = loop[k].pc /\ Cancelled[k].mode = loop[k].mode
                          /\ Cancelled[k].hand = loop[k].hand /\ Cancelled[k].epoch = loop[k].epoch
                          /\ Cancelled[k].todo = loop[k].todo
  <2>1. CASE current = None BY <2>1 DEF Cancelled, Shape
  <2>2. CASE current \in Loops
    <3>1. Cancelled = [loop EXCEPT ![current].live = FALSE]
      BY <2>2, RefreshAssumption DEF Cancelled
    <3>2. [loop[current] EXCEPT !.live = FALSE] \in LoopStates BY <2>2 DEF Shape, LoopStates
    <3> QED BY <2>2, <3>1, <3>2 DEF Shape, LoopStates
  <2> QED BY <2>1, <2>2 DEF Shape
<1> HIDE DEF Cancelled
<1>5. ASSUME NEW l \in Loops, Start(l) PROVE SameHands
  <2>1. loop' = [Cancelled EXCEPT ![l].pc = "start"] /\ loop[l].pc = "new" BY <1>5 DEF Start
  <2>2. LoopFull(loop[l]) BY DEF HandsFull
  <2>3. SameLoops BY <1>4, <2>1, <2>2 DEF SameLoops, SameLoop, LoopStates, LoopFull
  <2> QED BY <1>5, <2>3 DEF Start, SameHands, SameJobs, SameJob
<1>6. CASE Stop
  BY <1>4, <1>6 DEF Stop, SameHands, SameJobs, SameJob, SameLoops, SameLoop
<1>7. ASSUME NEW w \in WorkerIds, BeginRefused(w) PROVE SameHands
  <2>1. SameJobs BY <1>7, Places DEF BeginRefused, SameJobs, SameJob, Shape, Acts
  <2> QED BY <1>7, <2>1 DEF BeginRefused, SameHands, SameLoops, SameLoop
<1>8. ASSUME NEW c \in Creds, Expire(c) PROVE SameHands
  BY <1>8 DEF Expire, SameHands, SameJobs, SameJob, SameLoops, SameLoop
<1> QED BY <1>1, <1>2, <1>3, <1>5, <1>6, <1>7, <1>8

LEMMA RefreshSteps ==
  ASSUME Shape, HandsFull, NEW a \in Actors, RefreshStep(a) PROVE SameHands
<1>1. UNCHANGED <<loop, refreshJobs, queue>>
  BY DEF RefreshStep, Snapshot, CommitOk, CommitFailed, CommitDiscarded, CommitCanceled, Unlock
<1>2. act[a].pc # "idle" /\ act[a] \in Acts
  BY DEF RefreshStep, Snapshot, CommitOk, CommitFailed, CommitDiscarded, CommitCanceled, Unlock, Shape
<1>3. act' = [act EXCEPT ![a] = act'[a]]
  BY DEF RefreshStep, Snapshot, CommitOk, CommitFailed, CommitDiscarded, CommitCanceled, Unlock,
         ToUnlock, Shape
<1>4. a \in WorkerIds => act'[a].pc # "idle" /\ act'[a].cred = act[a].cred /\ act'[a].job = act[a].job
  <2>0. SUFFICES ASSUME a \in WorkerIds
                 PROVE  act'[a].pc # "idle" /\ act'[a].cred = act[a].cred /\ act'[a].job = act[a].job
    OBVIOUS
  <2>1. CASE act'[a] = After(a)
    <3>1. a \notin Callers BY <2>0, RefreshAssumption DEF WorkerIds, Callers
    <3>2. act'[a] = [Idle EXCEPT !.pc = "finish", !.cred = act[a].cred, !.job = act[a].job]
      BY <2>1, <3>1 DEF After
    <3> QED BY <3>2 DEF Idle
  <2>2. CASE act'[a] = [act[a] EXCEPT !.pc = "unlock"] BY <1>2, <2>2 DEF Acts
  <2>3. CASE \E n, b : act'[a] = [act[a] EXCEPT !.pc = "exec", !.next = n, !.base = b]
    BY <1>2, <2>3 DEF Acts
  <2>4. \/ act'[a] = After(a) \/ act'[a] = [act[a] EXCEPT !.pc = "unlock"]
        \/ \E n, b : act'[a] = [act[a] EXCEPT !.pc = "exec", !.next = n, !.base = b]
    <3>1. CASE Snapshot(a)
      <4>1. CASE act' = [act EXCEPT ![a] = After(a)] BY <4>1 DEF Shape
      <4>2. CASE act' # [act EXCEPT ![a] = After(a)]
        <5> DEFINE n == auth[act[a].cred].next
                   b == <<auth[act[a].cred].epoch, auth[act[a].cred].ver>>
        <5>1. act' = [act EXCEPT ![a] = [@ EXCEPT !.pc = "exec", !.next = n, !.base = b]]
          BY <3>1, <4>2 DEF Snapshot
        <5> HIDE DEF n, b
        <5>2. act'[a] = [act[a] EXCEPT !.pc = "exec", !.next = n, !.base = b] BY <5>1 DEF Shape
        <5> QED BY <5>2
      <4> QED BY <4>1, <4>2
    <3>2. CASE Unlock(a) BY <3>2 DEF Unlock, Shape
    <3>3. CASE ToUnlock(a) BY <3>3 DEF ToUnlock, Shape
    <3> QED BY <3>1, <3>2, <3>3 DEF RefreshStep, CommitOk, CommitFailed, CommitDiscarded, CommitCanceled
  <2> QED BY <2>1, <2>2, <2>3, <2>4
<1>5. SameJobs
  <2>1. SUFFICES ASSUME NEW l \in Loops, NEW x \in Workers PROVE SameJob(<<l, x>>) BY DEF SameJobs
  <2>2. <<l, x>> \in WorkerIds /\ <<l, x>> \in Actors BY Places
  <2>3. CASE <<l, x>> = a BY <1>2, <1>4, <2>2, <2>3 DEF SameJob
  <2>4. CASE <<l, x>> # a BY <1>3, <2>2, <2>4 DEF SameJob, Shape
  <2> QED BY <2>3, <2>4
<1> QED BY <1>1, <1>5 DEF SameHands, SameLoops, SameLoop

\* Of a loop, a credential and an epoch that a step does not concern.
LEMMA HoldsElsewhere ==
  ASSUME NEW l \in Loops, NEW c \in Creds, NEW e \in Nat, HoldAt(l, c, e),
         InLoop(l, c, e)' <=> InLoop(l, c, e),
         \A i \in Nat : InQueue(l, i, c, e)' <=> InQueue(l, i, c, e),
         \A x \in Workers : InWorker(l, x, c, e)' <=> InWorker(l, x, c, e),
         Registered(c, l, e)' <=> Registered(c, l, e),
         Registered(c, l, e) => (refreshJobs'[c].running <=> refreshJobs[c].running),
         loop'[l].mode = "release" <=> loop[l].mode = "release",
         loop[l].mode = "release" => loop'[l].pc = loop[l].pc /\ (c \in loop[l].todo => c \in loop'[l].todo)
  PROVE  HoldAt(l, c, e)'
<1>1. Held(l, c, e)' <=> Held(l, c, e) BY DEF Held
<1>2. Exclusive(l, c, e)' BY DEF HoldAt, Exclusive
<1> HIDE DEF Held, Exclusive, InLoop, InQueue, InWorker, Registered
<1> QED BY <1>1, <1>2 DEF HoldAt

\* markRefreshPending: the credential had no job, so no hand has one of the
\* new one's name.
LEMMA HoldsMark ==
  ASSUME Shape, HandsFull, HoldInv, NEW l \in Loops, MarkPending(l) PROVE HoldInv'
<1> DEFINE d == loop[l].hand
           f == loop[l].epoch
           job == [loop |-> l, epoch |-> f, running |-> FALSE]
<1>1. d \in Creds /\ f \in Nat /\ loop[l].mode \in {"due", "apply"} /\ loop[l].pc = "mark"
  BY DEF MarkPending, HandsFull, LoopFull, Shape, LoopStates
<1>2. refreshJobs[d] = None /\ refreshJobs' = [refreshJobs EXCEPT ![d] = job]
      /\ loop' = [loop EXCEPT ![l].pc = "send"] /\ UNCHANGED <<queue, act>>
  BY DEF MarkPending, CanMark
<1>3. job # None
  <2>1. job \in [loop : Loops, epoch : Nat, running : BOOLEAN] BY <1>1
  <2> QED BY <2>1, RefreshAssumption
<1>4. job.loop = l /\ job.epoch = f /\ job.running = FALSE OBVIOUS
<1>5. /\ loop'[l].pc = "send" /\ loop'[l].hand = d /\ loop'[l].epoch = f /\ loop'[l].mode = loop[l].mode
      /\ \A k \in Loops \ {l} : loop'[k] = loop[k]
  BY <1>2 DEF Shape, LoopStates
<1>6. refreshJobs'[d] = job /\ \A c \in Creds \ {d} : refreshJobs'[c] = refreshJobs[c]
  BY <1>1, <1>2 DEF Shape
<1> HIDE DEF d, f, job
<1> SUFFICES ASSUME NEW k \in Loops, NEW c \in Creds, NEW e \in Nat PROVE HoldAt(k, c, e)'
  BY DEF HoldInv
<1>7. HoldAt(k, c, e) BY DEF HoldInv
<1>8. /\ \A i \in Nat : InQueue(k, i, c, e)' <=> InQueue(k, i, c, e)
      /\ \A x \in Workers : InWorker(k, x, c, e)' <=> InWorker(k, x, c, e)
  BY <1>2 DEF InQueue, InWorker
<1>9. CASE k = l /\ c = d /\ e = f
  <2>1. ~Registered(c, k, e) /\ loop[k].mode # "release" BY <1>1, <1>2, <1>9 DEF Registered
  <2>2. ~Held(k, c, e) BY <1>7, <2>1 DEF HoldAt
  <2>3. InLoop(k, c, e)' /\ Registered(c, k, e)' /\ ~refreshJobs'[c].running
    BY <1>3, <1>4, <1>5, <1>6, <1>9 DEF InLoop, Registered
  <2>4. /\ \A i \in Nat : ~InQueue(k, i, c, e)'
        /\ \A x \in Workers : ~InWorker(k, x, c, e)'
    BY <1>8, <2>2 DEF Held
  <2>5. loop'[k].mode # "release" BY <1>1, <1>5, <1>9
  <2>6. Exclusive(k, c, e)' BY <2>4 DEF Exclusive
  <2>7. Held(k, c, e)' BY <2>3 DEF Held
  <2> QED BY <2>3, <2>5, <2>6, <2>7 DEF HoldAt
<1>10. CASE ~(k = l /\ c = d /\ e = f)
  <2>1. InLoop(k, c, e)' <=> InLoop(k, c, e) BY <1>1, <1>5, <1>10 DEF InLoop
  <2>2. Registered(c, k, e)' <=> Registered(c, k, e)
    BY <1>2, <1>4, <1>6, <1>10 DEF Registered
  <2>3. Registered(c, k, e) => refreshJobs'[c].running = refreshJobs[c].running
    BY <1>2, <1>6 DEF Registered
  <2>4. loop'[k].mode = loop[k].mode /\ (loop[k].mode = "release" => loop'[k] = loop[k])
    BY <1>1, <1>5
  <2> QED BY <1>7, <1>8, <2>1, <2>2, <2>3, <2>4, HoldsElsewhere
<1> QED BY <1>9, <1>10

\* The channel takes the job from the loop.
LEMMA HoldsSend ==
  ASSUME Shape, HandsFull, HoldInv, NEW l \in Loops, Send(l) PROVE HoldInv'
<1> DEFINE d == loop[l].hand
           f == loop[l].epoch
           job == [cred |-> d, epoch |-> f]
           n == Len(queue[l])
<1>1. d \in Creds /\ f \in Nat /\ loop[l].mode \in {"due", "apply"} /\ loop[l].pc = "send"
  BY DEF Send, HandsFull, LoopFull, Shape, LoopStates
<1>2. queue' = [queue EXCEPT ![l] = Append(@, job)] /\ UNCHANGED <<refreshJobs, act>>
  BY DEF Send
<1>3. /\ loop'[l].pc = "pick" /\ loop'[l].mode = loop[l].mode
      /\ \A k \in Loops \ {l} : loop'[k] = loop[k]
  BY DEF Send, Shape, LoopStates
<1>4. job.cred = d /\ job.epoch = f /\ n \in Nat /\ queue[l] \in Seq(JobNames)
  BY DEF Shape
<1>5. job \in JobNames BY <1>1 DEF JobNames
<1>6. InLoop(l, d, f) BY <1>1 DEF InLoop
<1> HIDE DEF d, f, job
<1>7. /\ Len(queue'[l]) = n + 1 /\ queue'[l][n + 1] = job
      /\ \A i \in 1 .. n : queue'[l][i] = queue[l][i]
      /\ \A k \in Loops \ {l} : queue'[k] = queue[k]
  BY <1>2, <1>4, <1>5 DEF Shape
<1> HIDE DEF n
<1> SUFFICES ASSUME NEW k \in Loops, NEW c \in Creds, NEW e \in Nat PROVE HoldAt(k, c, e)'
  BY DEF HoldInv
<1>8. HoldAt(k, c, e) BY DEF HoldInv
<1>9. /\ \A x \in Workers : InWorker(k, x, c, e)' <=> InWorker(k, x, c, e)
      /\ Registered(c, k, e)' <=> Registered(c, k, e)
      /\ refreshJobs' = refreshJobs
  BY <1>2 DEF InWorker, Registered
<1>10. CASE k = l /\ c = d /\ e = f
  <2>1. InLoop(k, c, e) BY <1>6, <1>10
  <2>2. /\ \A i \in Nat : ~InQueue(k, i, c, e)
        /\ \A x \in Workers : ~InWorker(k, x, c, e)
    BY <1>8, <2>1 DEF HoldAt, Exclusive
  <2>3. \A i \in Nat : InQueue(k, i, c, e)' <=> i = n + 1
    <3> TAKE i \in Nat
    <3>1. CASE i \in 1 .. n
      <4>1. ~InQueue(k, i, c, e) BY <2>2
      <4> QED BY <1>4, <1>7, <1>10, <3>1, <4>1 DEF InQueue, n
    <3>2. CASE i \notin 1 .. n BY <1>4, <1>7, <1>10, <3>2 DEF InQueue
    <3> QED BY <3>1, <3>2
  <2>4. ~InLoop(k, c, e)' BY <1>3, <1>10 DEF InLoop
  <2>5. Exclusive(k, c, e)'
    BY <1>9, <2>2, <2>3, <2>4 DEF Exclusive
  <2>6. Registered(c, k, e) /\ loop[k].mode # "release" BY <1>1, <1>8, <1>10, <2>1 DEF HoldAt, Held
  <2>7. ~refreshJobs[c].running BY <1>8, <2>2, <2>6 DEF HoldAt
  <2>8. Held(k, c, e)' BY <1>4, <2>3 DEF Held
  <2> QED BY <1>3, <1>9, <1>10, <2>5, <2>6, <2>7, <2>8 DEF HoldAt
<1>11. CASE ~(k = l /\ c = d /\ e = f)
  <2>1. InLoop(k, c, e)' <=> InLoop(k, c, e)
    BY <1>1, <1>3, <1>11 DEF InLoop, d, f
  <2>2. \A i \in Nat : InQueue(k, i, c, e)' <=> InQueue(k, i, c, e)
    BY <1>4, <1>7, <1>11 DEF InQueue, n
  <2>3. loop'[k].mode = loop[k].mode /\ (loop[k].mode = "release" => loop'[k] = loop[k])
    BY <1>1, <1>3
  <2> QED BY <1>8, <1>9, <2>1, <2>2, <2>3, HoldsElsewhere
<1> QED BY <1>10, <1>11

\* The register after finishRefreshJob has taken job <<d, l, f>> off it.
LEMMA OffRegister ==
  ASSUME Shape, NEW d \in Creds, NEW l \in Loops, NEW f \in Nat, Registered(d, l, f),
         refreshJobs' = [refreshJobs EXCEPT ![d] = None]
  PROVE  \A k \in Loops, c \in Creds, e \in Nat :
           /\ Registered(c, k, e)' <=> Registered(c, k, e) /\ ~(k = l /\ c = d /\ e = f)
           /\ Registered(c, k, e)' => refreshJobs'[c] = refreshJobs[c]
<1>1. refreshJobs'[d] = None /\ \A c \in Creds \ {d} : refreshJobs'[c] = refreshJobs[c]
  BY DEF Shape
<1> QED BY <1>1 DEF Registered

\* The channel is full or the loop is cancelled: the job is given back by the
\* only hand that has it.
LEMMA HoldsGiveBack ==
  ASSUME Shape, HandsFull, HoldInv, NEW l \in Loops, GiveBack(l) PROVE HoldInv'
<1> DEFINE d == loop[l].hand
           f == loop[l].epoch
<1>1. d \in Creds /\ f \in Nat /\ loop[l].mode \in {"due", "apply"} /\ loop[l].pc = "send"
  BY DEF GiveBack, HandsFull, LoopFull, Shape, LoopStates
<1>2. InLoop(l, d, f) BY <1>1 DEF InLoop
<1>3. Registered(d, l, f) BY <1>1, <1>2 DEF HoldInv, HoldAt, Held
<1>4. refreshJobs' = [refreshJobs EXCEPT ![d] = None]
  <2>1. Finish(Go(l), d, l, f, Later, FALSE) BY DEF GiveBack
  <2> QED BY <1>3, <2>1 DEF Finish
<1>5. UNCHANGED <<queue, act>> BY DEF GiveBack
<1>6. /\ loop'[l].pc = "upsert" /\ loop'[l].mode = loop[l].mode
      /\ \A k \in Loops \ {l} : loop'[k] = loop[k]
  BY DEF GiveBack, Shape, LoopStates
<1> SUFFICES ASSUME NEW k \in Loops, NEW c \in Creds, NEW e \in Nat PROVE HoldAt(k, c, e)'
  BY DEF HoldInv
<1>7. HoldAt(k, c, e) BY DEF HoldInv
<1>8. /\ \A i \in Nat : InQueue(k, i, c, e)' <=> InQueue(k, i, c, e)
      /\ \A x \in Workers : InWorker(k, x, c, e)' <=> InWorker(k, x, c, e)
  BY <1>5 DEF InQueue, InWorker
<1>9. /\ Registered(c, k, e)' <=> Registered(c, k, e) /\ ~(k = l /\ c = d /\ e = f)
      /\ Registered(c, k, e)' => refreshJobs'[c] = refreshJobs[c]
  BY <1>1, <1>3, <1>4, OffRegister
<1>10. CASE k = l /\ c = d /\ e = f
  <2>1. ~Held(k, c, e)'
    <3>1. ~InLoop(k, c, e)' BY <1>6, <1>10 DEF InLoop
    <3>2. /\ \A i \in Nat : ~InQueue(k, i, c, e)
          /\ \A x \in Workers : ~InWorker(k, x, c, e)
      BY <1>2, <1>7, <1>10 DEF HoldAt, Exclusive
    <3> QED BY <1>8, <3>1, <3>2 DEF Held
  <2>2. Exclusive(k, c, e)' BY <2>1 DEF Held, Exclusive
  <2> QED BY <1>9, <1>10, <2>1, <2>2 DEF HoldAt
<1>11. CASE ~(k = l /\ c = d /\ e = f)
  <2>1. InLoop(k, c, e)' <=> InLoop(k, c, e) BY <1>6, <1>11 DEF InLoop
  <2>2. loop'[k].mode = loop[k].mode /\ (loop[k].mode = "release" => loop'[k] = loop[k])
    BY <1>1, <1>6
  <2> HIDE DEF d, f
  <2> QED BY <1>7, <1>8, <1>9, <1>11, <2>1, <2>2, HoldsElsewhere
<1> QED BY <1>10, <1>11

\* releaseQueuedJobs: it collects every job no worker has begun ...
LEMMA HoldsExit ==
  ASSUME Shape, HandsFull, HoldInv, NEW l \in Loops, Exit(l) PROVE HoldInv'
<1>1. UNCHANGED <<refreshJobs, queue, act>> /\ loop[l].pc = "wait" BY DEF Exit
<1>2. /\ loop'[l].pc = "pick" /\ loop'[l].mode = "release"
      /\ loop'[l].todo = {c \in Creds : refreshJobs[c] # None /\ refreshJobs[c].loop = l
                                         /\ ~refreshJobs[c].running}
      /\ \A k \in Loops \ {l} : loop'[k] = loop[k]
  BY DEF Exit, Shape, LoopStates
<1>3. LoopFull(loop[l]) BY DEF HandsFull
<1>4. loop[l].mode # "release" BY <1>1, <1>3 DEF LoopFull
<1> SUFFICES ASSUME NEW k \in Loops, NEW c \in Creds, NEW e \in Nat PROVE HoldAt(k, c, e)'
  BY DEF HoldInv
<1>5. HoldAt(k, c, e) BY DEF HoldInv
<1>6. /\ \A i \in Nat : InQueue(k, i, c, e)' <=> InQueue(k, i, c, e)
      /\ \A x \in Workers : InWorker(k, x, c, e)' <=> InWorker(k, x, c, e)
      /\ Registered(c, k, e)' <=> Registered(c, k, e)
  BY <1>1 DEF InQueue, InWorker, Registered
<1>7. InLoop(k, c, e)' <=> InLoop(k, c, e) BY <1>1, <1>2 DEF InLoop
<1>8. CASE k # l
  BY <1>1, <1>2, <1>5, <1>6, <1>7, <1>8, HoldsElsewhere
<1>9. CASE k = l
  <2>1. Held(k, c, e)' <=> Held(k, c, e) BY <1>6, <1>7 DEF Held
  <2>2. Exclusive(k, c, e)' BY <1>5, <1>6, <1>7 DEF HoldAt, Exclusive
  <2>3. Registered(c, k, e) /\ ~refreshJobs[c].running => c \in loop'[k].todo
    BY <1>2, <1>9 DEF Registered
  <2> HIDE DEF Held, Exclusive
  <2> QED BY <1>1, <1>2, <1>5, <1>6, <1>9, <2>1, <2>2, <2>3 DEF HoldAt
<1> QED BY <1>8, <1>9

\* ... gives each back unless a worker has begun it since ...
LEMMA HoldsRelease ==
  ASSUME Shape, HandsFull, HoldInv, NEW l \in Loops, Release(l) PROVE HoldInv'
<1>0. loop[l].pc = "pick" /\ loop[l].mode = "release" /\ UNCHANGED <<queue, act>>
  BY DEF Release
<1> PICK d \in loop[l].todo :
      /\ IF refreshJobs[d] # None /\ refreshJobs[d].loop = l
         THEN Finish(Go(l), d, l, refreshJobs[d].epoch, None, TRUE)
         ELSE UNCHANGED <<auth, refreshJobs, note>>
      /\ loop' = [loop EXCEPT ![l].todo = @ \ {d}]
  BY DEF Release
<1>1. d \in Creds BY DEF Shape, LoopStates
<1>2. /\ loop'[l].pc = "pick" /\ loop'[l].mode = "release" /\ loop'[l].todo = loop[l].todo \ {d}
      /\ \A k \in Loops \ {l} : loop'[k] = loop[k]
  BY <1>0 DEF Shape, LoopStates
<1>3. \/ refreshJobs' = refreshJobs /\ ~(refreshJobs[d] # None /\ refreshJobs[d].loop = l /\ ~refreshJobs[d].running)
      \/ /\ refreshJobs[d] # None /\ refreshJobs[d].loop = l
         /\ refreshJobs' = [refreshJobs EXCEPT ![d] = None]
  BY DEF Finish, Registered
<1> SUFFICES ASSUME NEW k \in Loops, NEW c \in Creds, NEW e \in Nat PROVE HoldAt(k, c, e)'
  BY DEF HoldInv
<1>4. HoldAt(k, c, e) BY DEF HoldInv
<1>5. /\ \A i \in Nat : InQueue(k, i, c, e)' <=> InQueue(k, i, c, e)
      /\ \A x \in Workers : InWorker(k, x, c, e)' <=> InWorker(k, x, c, e)
  BY <1>0 DEF InQueue, InWorker
<1>6. InLoop(k, c, e)' <=> InLoop(k, c, e) BY <1>0, <1>2 DEF InLoop
<1>7. CASE k # l
  <2>1. refreshJobs'[c] = refreshJobs[c] \/ (refreshJobs[c].loop = l /\ refreshJobs'[c] = None)
    BY <1>1, <1>3 DEF Shape
  <2>2. Registered(c, k, e)' <=> Registered(c, k, e) BY <1>7, <2>1 DEF Registered
  <2>3. Registered(c, k, e) => refreshJobs'[c].running = refreshJobs[c].running
    BY <1>7, <2>1 DEF Registered
  <2> QED BY <1>2, <1>4, <1>5, <1>6, <1>7, <2>2, <2>3, HoldsElsewhere
<1>8. CASE k = l
  <2>1. Held(k, c, e)' <=> Held(k, c, e) BY <1>5, <1>6 DEF Held
  <2>2. Exclusive(k, c, e)' BY <1>4, <1>5, <1>6 DEF HoldAt, Exclusive
  <2>3. Registered(c, k, e)' => Registered(c, k, e) /\ refreshJobs'[c] = refreshJobs[c]
    BY <1>1, <1>3 DEF Registered, Shape
  <2>4. Registered(c, k, e)' /\ ~refreshJobs'[c].running => c # d
    BY <1>1, <1>3, <1>8 DEF Registered, Shape
  <2> HIDE DEF Held, Exclusive
  <2> QED BY <1>0, <1>2, <1>4, <1>5, <1>8, <2>1, <2>2, <2>3, <2>4 DEF HoldAt
<1> QED BY <1>7, <1>8

\* ... and ends when there is none left.
LEMMA HoldsEnd ==
  ASSUME Shape, HandsFull, HoldInv, NEW l \in Loops, PickNone(l), loop[l].mode = "release" PROVE HoldInv'
<1>0. UNCHANGED <<refreshJobs, queue, act>> /\ loop[l].todo = {} /\ loop[l].pc = "pick" BY DEF PickNone
<1>1. /\ loop'[l].pc = "dead" /\ loop'[l].mode = "release"
      /\ \A k \in Loops \ {l} : loop'[k] = loop[k]
  <2>1. loop' = [loop EXCEPT ![l].pc = "dead"] BY DEF PickNone
  <2> QED BY <2>1 DEF Shape, LoopStates
<1> SUFFICES ASSUME NEW k \in Loops, NEW c \in Creds, NEW e \in Nat PROVE HoldAt(k, c, e)'
  BY DEF HoldInv
<1>4. HoldAt(k, c, e) BY DEF HoldInv
<1>5. /\ \A i \in Nat : InQueue(k, i, c, e)' <=> InQueue(k, i, c, e)
      /\ \A x \in Workers : InWorker(k, x, c, e)' <=> InWorker(k, x, c, e)
      /\ Registered(c, k, e)' <=> Registered(c, k, e)
  BY <1>0 DEF InQueue, InWorker, Registered
<1>6. InLoop(k, c, e)' <=> InLoop(k, c, e) BY <1>0, <1>1 DEF InLoop
<1>7. CASE k # l
  BY <1>0, <1>1, <1>4, <1>5, <1>6, <1>7, HoldsElsewhere
<1>8. CASE k = l
  <2>1. Held(k, c, e)' <=> Held(k, c, e) BY <1>5, <1>6 DEF Held
  <2>2. Exclusive(k, c, e)' BY <1>4, <1>5, <1>6 DEF HoldAt, Exclusive
  <2>3. ~(Registered(c, k, e) /\ ~refreshJobs[c].running) BY <1>0, <1>4, <1>8 DEF HoldAt
  <2> HIDE DEF Held, Exclusive
  <2> QED BY <1>0, <1>1, <1>4, <1>5, <1>8, <2>1, <2>2, <2>3 DEF HoldAt
<1> QED BY <1>7, <1>8

\* A worker takes the first job of the channel.
LEMMA HoldsTake ==
  ASSUME Shape, HandsFull, HoldInv, NEW l \in Loops, NEW y \in Workers, TakeJob(<<l, y>>) PROVE HoldInv'
<1> DEFINE w == <<l, y>>
           d == Head(queue[l]).cred
           f == Head(queue[l]).epoch
<1>0. w \in WorkerIds /\ w \in Actors /\ w[1] = l BY Places
<1>1. act[w] = Idle /\ queue[l] # <<>> /\ UNCHANGED <<refreshJobs, loop>>
      /\ queue' = [queue EXCEPT ![l] = Tail(@)]
      /\ act' = [act EXCEPT ![w] = [Idle EXCEPT !.pc = "begin", !.cred = d, !.job = f]]
  BY <1>0 DEF TakeJob
<1>2. queue[l] \in Seq(JobNames) BY DEF Shape
<1>3. Len(queue[l]) \in Nat \ {0} /\ queue[l][1] = Head(queue[l]) BY <1>1, <1>2
<1>4. /\ Len(queue'[l]) = Len(queue[l]) - 1
      /\ \A i \in 1 .. Len(queue'[l]) : queue'[l][i] = queue[l][i + 1]
      /\ \A k \in Loops \ {l} : queue'[k] = queue[k]
  BY <1>1, <1>2, <1>3 DEF Shape
<1>5. /\ act'[w].pc = "begin" /\ act'[w].cred = d /\ act'[w].job = f /\ act[w].pc = "idle"
      /\ \A a \in Actors \ {w} : act'[a] = act[a]
  <2>1. act'[w] = [Idle EXCEPT !.pc = "begin", !.cred = d, !.job = f]
        /\ \A a \in Actors \ {w} : act'[a] = act[a]
    BY <1>0, <1>1 DEF Shape
  <2>2. act[w].pc = "idle" BY <1>1 DEF Idle
  <2> HIDE DEF d, f, w
  <2>3. act'[w] = [pc |-> "begin", cred |-> d, job |-> f, base |-> <<0, 0>>, next |-> None]
    BY <2>1 DEF Idle
  <2> QED BY <2>1, <2>2, <2>3
<1> SUFFICES ASSUME NEW k \in Loops, NEW c \in Creds, NEW e \in Nat PROVE HoldAt(k, c, e)'
  BY DEF HoldInv
<1>6. HoldAt(k, c, e) BY DEF HoldInv
<1>7. (InLoop(k, c, e)' <=> InLoop(k, c, e)) /\ (Registered(c, k, e)' <=> Registered(c, k, e))
  BY <1>1 DEF InLoop, Registered
<1>8. \A x \in Workers : k # l \/ x # y => (InWorker(k, x, c, e)' <=> InWorker(k, x, c, e))
  <2> SUFFICES ASSUME NEW x \in Workers, k # l \/ x # y PROVE InWorker(k, x, c, e)' <=> InWorker(k, x, c, e)
    OBVIOUS
  <2>1. <<k, x>> \in Actors /\ <<k, x>> # w BY Places
  <2> HIDE DEF w
  <2> QED BY <1>5, <2>1 DEF InWorker
<1>9. CASE k # l
  <2>1. \A i \in Nat : InQueue(k, i, c, e)' <=> InQueue(k, i, c, e) BY <1>4, <1>9 DEF InQueue
  <2> QED BY <1>1, <1>6, <1>7, <1>8, <1>9, <2>1, HoldsElsewhere
<1>10. CASE k = l
  <2>1. \A i \in Nat : InQueue(k, i, c, e)' => InQueue(k, i + 1, c, e) /\ i + 1 # 1
    BY <1>3, <1>4, <1>10 DEF InQueue
  <2>2. InWorker(k, y, c, e)' <=> InQueue(k, 1, c, e)
    BY <1>3, <1>5, <1>10 DEF InWorker, InQueue
  <2>3. ~InWorker(k, y, c, e) BY <1>5, <1>10 DEF InWorker
  <2>4. \A i \in Nat : InQueue(k, i, c, e) => i = 1 \/ \E j \in Nat : InQueue(k, j, c, e)'
    <3> SUFFICES ASSUME NEW i \in Nat, InQueue(k, i, c, e), i # 1 PROVE \E j \in Nat : InQueue(k, j, c, e)'
      OBVIOUS
    <3>1. i - 1 \in Nat /\ InQueue(k, i - 1, c, e)' BY <1>3, <1>4, <1>10 DEF InQueue
    <3> QED BY <3>1
  <2>5. Held(k, c, e)' <=> Held(k, c, e)
    <3>1. Held(k, c, e) => Held(k, c, e)'
      <4>1. CASE InLoop(k, c, e) BY <1>7, <4>1 DEF Held
      <4>2. ASSUME NEW i \in Nat, InQueue(k, i, c, e) PROVE Held(k, c, e)'
        BY <2>2, <2>4, <4>2 DEF Held
      <4>3. ASSUME NEW x \in Workers, InWorker(k, x, c, e) PROVE Held(k, c, e)'
        BY <1>8, <2>3, <4>3 DEF Held
      <4> QED BY <4>1, <4>2, <4>3 DEF Held
    <3>2. Held(k, c, e)' => Held(k, c, e)
      <4>1. ASSUME NEW i \in Nat, InQueue(k, i, c, e)' PROVE Held(k, c, e)
        BY <2>1, <4>1 DEF Held
      <4>2. ASSUME NEW x \in Workers, InWorker(k, x, c, e)' PROVE Held(k, c, e)
        BY <1>8, <2>2, <4>2 DEF Held
      <4> QED BY <1>7, <4>1, <4>2 DEF Held
    <3> QED BY <3>1, <3>2
  <2>x. Exclusive(k, c, e) BY <1>6 DEF HoldAt
  <2>6. Exclusive(k, c, e)'
    <3>1. ASSUME InLoop(k, c, e)'
          PROVE  (\A i \in Nat : ~InQueue(k, i, c, e)') /\ (\A x \in Workers : ~InWorker(k, x, c, e)')
      BY <1>7, <1>8, <2>x, <2>1, <2>2, <3>1 DEF Exclusive
    <3>2. ASSUME NEW i \in Nat, NEW j \in Nat, InQueue(k, i, c, e)', InQueue(k, j, c, e)' PROVE i = j
      <4>1. i + 1 = j + 1 BY <2>x, <2>1, <3>2 DEF Exclusive
      <4> QED BY <4>1
    <3>3. ASSUME NEW i \in Nat, NEW x \in Workers, InQueue(k, i, c, e)', InWorker(k, x, c, e)' PROVE FALSE
      <4>1. InQueue(k, i + 1, c, e) /\ i + 1 # 1 /\ i + 1 \in Nat BY <2>1, <3>3
      <4>2. CASE x = y BY <2>x, <2>2, <3>3, <4>1, <4>2 DEF Exclusive
      <4>3. CASE x # y BY <1>8, <2>x, <3>3, <4>1, <4>3 DEF Exclusive
      <4> QED BY <4>2, <4>3
    <3>4. ASSUME NEW x \in Workers, NEW z \in Workers, InWorker(k, x, c, e)', InWorker(k, z, c, e)' PROVE x = z
      <4>1. CASE x # y /\ z # y BY <1>8, <2>x, <3>4, <4>1 DEF Exclusive
      <4>2. CASE x = y /\ z # y BY <1>8, <2>x, <2>2, <3>4, <4>2 DEF Exclusive
      <4>3. CASE x # y /\ z = y BY <1>8, <2>x, <2>2, <3>4, <4>3 DEF Exclusive
      <4> QED BY <4>1, <4>2, <4>3
    <3> QED BY <3>1, <3>2, <3>3, <3>4 DEF Exclusive
  <2>7. Registered(c, k, e) /\ refreshJobs[c].running => \E x \in Workers : InWorker(k, x, c, e)'
    BY <1>6, <1>8, <2>3 DEF HoldAt
  <2> HIDE DEF Held, Exclusive
  <2> QED BY <1>1, <1>6, <1>7, <2>5, <2>6, <2>7 DEF HoldAt
<1> QED BY <1>9, <1>10

\* beginRefreshJob: the worker's job is running now.
LEMMA HoldsBegin ==
  ASSUME Shape, HandsFull, HoldInv, NEW l \in Loops, NEW y \in Workers, BeginJob(<<l, y>>) PROVE HoldInv'
<1> DEFINE w == <<l, y>>
           d == act[w].cred
           f == act[w].job
<1>0. w \in WorkerIds /\ w \in Actors /\ w[1] = l BY Places
<1>1. act[w].pc = "begin" /\ Registered(d, l, f) /\ UNCHANGED <<queue, loop>>
      /\ refreshJobs' = [refreshJobs EXCEPT ![d].running = TRUE]
      /\ act' = [act EXCEPT ![w].pc = "refresh"]
  BY <1>0 DEF BeginJob, CanBegin
<1>2. d \in Creds BY <1>0, <1>1 DEF HandsFull
<1>3. refreshJobs[d] \in Jobs BY <1>1, <1>2 DEF Registered, Shape
<1>4. /\ refreshJobs'[d] \in Jobs /\ refreshJobs'[d].loop = refreshJobs[d].loop
      /\ refreshJobs'[d].epoch = refreshJobs[d].epoch
      /\ \A c \in Creds \ {d} : refreshJobs'[c] = refreshJobs[c]
  BY <1>1, <1>2, <1>3 DEF Shape, Jobs
<1>5. refreshJobs'[d] # None BY <1>4, RefreshAssumption DEF Jobs
<1>6. /\ act'[w].pc = "refresh" /\ act'[w].cred = d /\ act'[w].job = f
      /\ \A a \in Actors \ {w} : act'[a] = act[a]
  BY <1>0, <1>1 DEF Shape, Acts
<1> SUFFICES ASSUME NEW k \in Loops, NEW c \in Creds, NEW e \in Nat PROVE HoldAt(k, c, e)'
  BY DEF HoldInv
<1>7. HoldAt(k, c, e) BY DEF HoldInv
<1>8. /\ InLoop(k, c, e)' <=> InLoop(k, c, e)
      /\ \A i \in Nat : InQueue(k, i, c, e)' <=> InQueue(k, i, c, e)
  BY <1>1 DEF InLoop, InQueue
<1>9. \A x \in Workers : InWorker(k, x, c, e)' <=> InWorker(k, x, c, e)
  <2> TAKE x \in Workers
  <2>1. <<k, x>> \in Actors BY Places
  <2>2. CASE <<k, x>> = w BY <1>1, <1>6, <2>2 DEF InWorker
  <2>3. CASE <<k, x>> # w
    <3> HIDE DEF w
    <3> QED BY <1>6, <2>1, <2>3 DEF InWorker
  <2> QED BY <2>2, <2>3
<1>10. Registered(c, k, e)' <=> Registered(c, k, e)
  BY <1>1, <1>2, <1>4, <1>5 DEF Registered
<1>11. CASE c # d
  <2>1. Registered(c, k, e) => refreshJobs'[c].running = refreshJobs[c].running BY <1>4, <1>11
  <2> QED BY <1>1, <1>7, <1>8, <1>9, <1>10, <2>1, HoldsElsewhere
<1>12. CASE c = d
  <2>1. Held(k, c, e)' <=> Held(k, c, e) BY <1>8, <1>9 DEF Held
  <2>2. Exclusive(k, c, e)' BY <1>7, <1>8, <1>9 DEF HoldAt, Exclusive
  <2>3. refreshJobs'[c].running = TRUE BY <1>1, <1>2, <1>3, <1>12 DEF Shape, Jobs
  <2>4. Registered(c, k, e) => InWorker(k, y, c, e)'
    <3>1. Registered(c, k, e) => k = l /\ e = f BY <1>1, <1>12 DEF Registered
    <3>2. InWorker(l, y, d, f)' BY <1>6 DEF InWorker
    <3> QED BY <1>9, <1>12, <1>1, <3>1 DEF InWorker
  <2> HIDE DEF Held, Exclusive
  <2> QED BY <1>1, <1>7, <1>10, <2>1, <2>2, <2>3, <2>4 DEF HoldAt
<1> QED BY <1>11, <1>12

\* finishRefreshJob of a worker: the job leaves the register, unless the
\* loop's release was first, and the only hand that had it.
LEMMA HoldsFinish ==
  ASSUME Shape, HandsFull, HoldInv, NEW l \in Loops, NEW y \in Workers, FinishJob(<<l, y>>) PROVE HoldInv'
<1> DEFINE w == <<l, y>>
           d == act[w].cred
           f == act[w].job
<1>0. w \in WorkerIds /\ w \in Actors /\ w \in Processes /\ w[1] = l BY Places
<1>1. act[w].pc = "finish" /\ UNCHANGED <<queue, loop>> /\ act' = [act EXCEPT ![w] = Idle]
  BY DEF FinishJob
<1>2. d \in Creds /\ f \in Nat BY <1>0, <1>1 DEF HandsFull, Shape, Acts
<1>3. \/ ~Registered(d, l, f) /\ refreshJobs' = refreshJobs
      \/ Registered(d, l, f) /\ refreshJobs' = [refreshJobs EXCEPT ![d] = None]
  <2>1. Finish(w, d, l, f, None, FALSE) BY <1>0 DEF FinishJob
  <2> QED BY <2>1 DEF Finish
<1>4. act'[w].pc = "idle" /\ \A a \in Actors \ {w} : act'[a] = act[a]
  BY <1>0, <1>1 DEF Shape, Idle
<1>5. InWorker(l, y, d, f) BY <1>1 DEF InWorker
<1> SUFFICES ASSUME NEW k \in Loops, NEW c \in Creds, NEW e \in Nat PROVE HoldAt(k, c, e)'
  BY DEF HoldInv
<1>6. HoldAt(k, c, e) BY DEF HoldInv
<1>7. /\ InLoop(k, c, e)' <=> InLoop(k, c, e)
      /\ \A i \in Nat : InQueue(k, i, c, e)' <=> InQueue(k, i, c, e)
  BY <1>1 DEF InLoop, InQueue
<1>8. \A x \in Workers : InWorker(k, x, c, e)' <=> InWorker(k, x, c, e) /\ ~(k = l /\ x = y)
  <2> TAKE x \in Workers
  <2>1. <<k, x>> \in Actors BY Places
  <2>2. CASE k = l /\ x = y BY <1>4, <2>2 DEF InWorker
  <2>3. CASE ~(k = l /\ x = y)
    <3>1. <<k, x>> # w BY <2>3
    <3> HIDE DEF w
    <3> QED BY <1>4, <2>1, <2>3, <3>1 DEF InWorker
  <2> QED BY <2>2, <2>3
<1>9. /\ Registered(c, k, e)' <=> Registered(c, k, e) /\ ~(k = l /\ c = d /\ e = f)
      /\ Registered(c, k, e)' => refreshJobs'[c] = refreshJobs[c]
  BY <1>2, <1>3, OffRegister DEF Registered
<1>10. CASE k = l /\ c = d /\ e = f
  <2>1. /\ ~InLoop(k, c, e)' /\ \A i \in Nat : ~InQueue(k, i, c, e)'
        /\ \A x \in Workers : ~InWorker(k, x, c, e)'
    BY <1>5, <1>6, <1>7, <1>8, <1>10 DEF HoldAt, Exclusive
  <2>2. ~Held(k, c, e)' /\ Exclusive(k, c, e)' BY <2>1 DEF Held, Exclusive
  <2> QED BY <1>9, <1>10, <2>2 DEF HoldAt
<1>11. CASE ~(k = l /\ c = d /\ e = f)
  <2>1. \A x \in Workers : InWorker(k, x, c, e)' <=> InWorker(k, x, c, e)
    BY <1>8, <1>11 DEF InWorker
  <2> HIDE DEF w, d, f
  <2> QED BY <1>1, <1>6, <1>7, <1>9, <1>11, <2>1, HoldsElsewhere
<1> QED BY <1>10, <1>11

LEMMA HoldsNext == Shape /\ HandsFull /\ HoldInv /\ [Next]_vars => HoldInv'
<1> SUFFICES ASSUME Shape, HandsFull, HoldInv, [Next]_vars PROVE HoldInv' OBVIOUS
<1>1. CASE UNCHANGED vars
  <2>1. SameHands BY <1>1 DEF vars, SameHands, SameLoops, SameLoop, SameJobs, SameJob
  <2> QED BY <2>1, HoldsSame
<1>2. CASE \/ \E p \in Processes : Notify(p)
           \/ \E a \in Managers : ManagerStep(a)
           \/ \E a \in Requests, c \in Creds : RefreshForRequest(a, c)
           \/ \E l \in Loops : Start(l)
           \/ Stop
           \/ \E w \in WorkerIds : BeginRefused(w)
           \/ \E c \in Creds : Expire(c)
  BY <1>2, OtherSteps, HoldsSame
<1>3. ASSUME NEW l \in Loops, Wake(l) \/ Timer(l) \/ Exit(l) \/ LoopStep(l) PROVE HoldInv'
  <2>1. CASE PickNone(l)
    BY <2>1, LoopSteps, HoldsSame, HoldsEnd
  <2> QED BY <1>3, <2>1, LoopSteps, HoldsSame, HoldsMark, HoldsSend, HoldsGiveBack, HoldsExit, HoldsRelease
          DEF LoopStep
<1>4. ASSUME NEW w \in WorkerIds, TakeJob(w) \/ BeginJob(w) \/ FinishJob(w) PROVE HoldInv'
  <2>1. PICK l \in Loops, y \in Workers : w = <<l, y>> BY DEF WorkerIds
  <2> QED BY <1>4, <2>1, HoldsTake, HoldsBegin, HoldsFinish
<1>5. ASSUME NEW a \in Actors, RefreshStep(a) PROVE HoldInv' BY <1>5, RefreshSteps, HoldsSame
<1> QED BY <1>1, <1>2, <1>3, <1>4, <1>5 DEF Next, WorkerStep

LEMMA HoldsInit == Init => HoldInv
<1> SUFFICES ASSUME Init, NEW l \in Loops, NEW c \in Creds, NEW e \in Nat PROVE HoldAt(l, c, e)
  BY DEF HoldInv
<1>1. ~InLoop(l, c, e) /\ ~Registered(c, l, e) BY DEF Init, InLoop, Registered
<1>2. \A i \in Nat : ~InQueue(l, i, c, e) BY DEF Init, InQueue
<1>3. \A x \in Workers : ~InWorker(l, x, c, e) BY Places DEF Init, InWorker, Idle
<1> QED BY <1>1, <1>2, <1>3 DEF HoldAt, Exclusive, Held

\* A job that is held, and by no two hands, has one holder.
LEMMA OneHolder ==
  ASSUME Shape, HoldInv, NEW c \in Creds, refreshJobs[c] # None
  PROVE  Cardinality(Holders(c, refreshJobs[c].loop, refreshJobs[c].epoch)) = 1
<1> DEFINE l == refreshJobs[c].loop
           e == refreshJobs[c].epoch
<1>1. refreshJobs[c] \in Jobs BY DEF Shape
<1>2. l \in Loops /\ e \in Nat BY <1>1 DEF Jobs
<1>3. Registered(c, l, e) BY DEF Registered
<1> HIDE DEF l, e
<1>4. Held(l, c, e) /\ Exclusive(l, c, e) BY <1>2, <1>3 DEF HoldInv, HoldAt
<1>5. \A h : h \in Holders(c, l, e) <=>
        \/ h = <<"loop", l>> /\ InLoop(l, c, e)
        \/ \E i \in Nat : h = <<"queue", i>> /\ InQueue(l, i, c, e)
        \/ \E x \in Workers : h = <<"worker", <<l, x>>>> /\ InWorker(l, x, c, e)
  <2>1. queue[l] \in Seq(JobNames) /\ Len(queue[l]) \in Nat BY <1>2 DEF Shape
  <2>2. \A i \in 1 .. Len(queue[l]) : queue[l][i] = [cred |-> c, epoch |-> e] <=> InQueue(l, i, c, e)
    <3> TAKE i \in 1 .. Len(queue[l])
    <3>1. queue[l][i] \in JobNames BY <2>1
    <3> QED BY <3>1 DEF InQueue, JobNames
  <2>3. \A i \in Nat : InQueue(l, i, c, e) => i \in 1 .. Len(queue[l]) BY DEF InQueue
  <2>4. \A i \in 1 .. Len(queue[l]) : i \in Nat BY <2>1
  <2>5. \A w \in {l} \X Workers : \E x \in Workers : w = <<l, x>> OBVIOUS
  <2>6. \A x \in Workers : <<l, x>> \in {l} \X Workers OBVIOUS
  <2> TAKE h
  <2> DEFINE A == {<<"loop", k>> : k \in {k \in {l} : loop[k].pc = "send" /\ loop[k].hand = c
                                                    /\ loop[k].epoch = e}}
             B == {<<"queue", i>> : i \in {i \in 1 .. Len(queue[l]) :
                                              queue[l][i] = [cred |-> c, epoch |-> e]}}
             C == {<<"worker", w>> : w \in {w \in {l} \X Workers : act[w].pc # "idle"
                                              /\ act[w].cred = c /\ act[w].job = e}}
  <2>7. h \in A <=> h = <<"loop", l>> /\ InLoop(l, c, e) BY DEF InLoop
  <2>8. h \in B <=> \E i \in Nat : h = <<"queue", i>> /\ InQueue(l, i, c, e)
    BY <2>2, <2>3, <2>4
  <2>9. h \in C <=> \E x \in Workers : h = <<"worker", <<l, x>>>> /\ InWorker(l, x, c, e)
    BY <2>5, <2>6 DEF InWorker
  <2>10. h \in Holders(c, l, e) <=> h \in A \/ h \in B \/ h \in C BY DEF Holders
  <2> HIDE DEF A, B, C
  <2> QED BY <2>7, <2>8, <2>9, <2>10
<1>6. \E h : Holders(c, l, e) = {h}
  <2>1. CASE InLoop(l, c, e)
    <3>1. Holders(c, l, e) = {<<"loop", l>>} BY <1>4, <1>5, <2>1 DEF Exclusive
    <3> QED BY <3>1
  <2>2. ASSUME NEW i \in Nat, InQueue(l, i, c, e) PROVE \E h : Holders(c, l, e) = {h}
    <3>1. Holders(c, l, e) = {<<"queue", i>>} BY <1>4, <1>5, <2>2 DEF Exclusive
    <3> QED BY <3>1
  <2>3. ASSUME NEW x \in Workers, InWorker(l, x, c, e) PROVE \E h : Holders(c, l, e) = {h}
    <3>1. Holders(c, l, e) = {<<"worker", <<l, x>>>>} BY <1>4, <1>5, <2>3 DEF Exclusive
    <3> QED BY <3>1
  <2> QED BY <1>4, <2>1, <2>2, <2>3 DEF Held
<1> QED BY <1>6, FS_Singleton DEF l, e

\* markRefreshPending, the bounded channel, beginRefreshJob, finishRefreshJob
\* and releaseQueuedJobs: every registered job is in exactly one hand, a loop
\* that has ended leaves only the jobs its workers are running, and a
\* credential's pending marker stands for a registered job.
THEOREM RefreshJobsAccounted == Spec => []JobsAccounted
<1>1. Init => MarkerHasJob
  BY RefreshAssumption DEF Init, MarkerHasJob, Entry
<1>2. Shape /\ HandsFull /\ MarkerHasJob /\ [Next]_vars => MarkerHasJob' BY MarkerNext
<1>3. JobInv /\ MarkerHasJob => JobsAccounted
  <2> SUFFICES ASSUME JobInv, MarkerHasJob PROVE JobsAccounted OBVIOUS
  <2>1. JobInOneHand BY OneHolder DEF JobInOneHand, JobInv
  <2>2. EndedLoopKeepsNoJob
    <3> SUFFICES ASSUME NEW c \in Creds, refreshJobs[c] # None, loop[refreshJobs[c].loop].pc = "dead"
                 PROVE  /\ refreshJobs[c].running
                        /\ \E w \in WorkerIds : w[1] = refreshJobs[c].loop /\ act[w].cred = c
                                                 /\ act[w].job = refreshJobs[c].epoch
      BY DEF EndedLoopKeepsNoJob
    <3> DEFINE l == refreshJobs[c].loop
               e == refreshJobs[c].epoch
    <3>1. refreshJobs[c] \in Jobs BY DEF JobInv, Shape
    <3>2. l \in Loops /\ e \in Nat BY <3>1 DEF Jobs
    <3>3. Registered(c, l, e) /\ loop[l].pc = "dead" BY DEF Registered
    <3>4. LoopFull(loop[l]) BY <3>2 DEF JobInv, HandsFull
    <3> HIDE DEF l, e
    <3>5. loop[l].mode = "release" BY <3>3, <3>4 DEF LoopFull
    <3>6. HoldAt(l, c, e) BY <3>2 DEF JobInv, HoldInv
    <3>7. refreshJobs[c].running BY <3>3, <3>5, <3>6 DEF HoldAt
    <3>8. PICK x \in Workers : InWorker(l, x, c, e) BY <3>3, <3>6, <3>7 DEF HoldAt
    <3>9. <<l, x>> \in WorkerIds /\ <<l, x>>[1] = l BY <3>2, Places
    <3>10. act[<<l, x>>].cred = c /\ act[<<l, x>>].job = e BY <3>8 DEF InWorker
    <3> QED BY <3>7, <3>9, <3>10 DEF l, e
  <2> QED BY <2>1, <2>2 DEF JobsAccounted
<1> QED BY <1>1, <1>2, <1>3, ShapeInit, ShapeNext, HoldsInit, HoldsNext, PTL DEF Spec, JobInv
=============================================================================
