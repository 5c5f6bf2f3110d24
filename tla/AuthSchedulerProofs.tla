------------------------- MODULE AuthSchedulerProofs -------------------------
(***************************************************************************)
(* Proofs about AuthScheduler, for any number of models, goroutines and    *)
(* operations.                                                             *)
(***************************************************************************)
EXTENDS AuthScheduler, TLAPS

(***************************************************************************)
(* Snapshots under way: those a caller is about to apply, the one a        *)
(* rebuild starts from and the one the scheduler holds.                    *)
(***************************************************************************)
Pending(p) == caller[p].pc = "apply"
HasSnap(c) == c.kind \in {"whole", "result"}

InFlight(s) ==
  \/ \E p \in Callers : Pending(p) /\ HasSnap(caller[p].call) /\ s = caller[p].call.snap
  \/ syncer.pc = "rebuild" /\ syncer.snap # Absent /\ s = syncer.snap
  \/ meta # Absent /\ s = meta.auth

\* The stamp a call carries; a tombstone is older than every snapshot of its epoch.
CallStamp(c) == IF HasSnap(c) THEN Stamp(c.snap) ELSE <<c.epoch, 0>>

\* Calls whose arrival brings the shard of m up to date.
Covers(c, m) == c.kind = "whole" \/ (c.kind = "result" /\ (c.scoped \/ m \in c.target))

Calls ==
  [kind : {"none", "whole", "result", "tombstone"}, snap : Creds \cup {Absent},
   target : SUBSET Models, scoped : BOOLEAN, epoch : Nat]
CallerStates == [pc : {"idle", "apply", "bump", "refresh"}, bump : BOOLEAN, call : Calls]
SyncStates ==
  [pc : {"idle", "check", "snapshot", "rebuild", "recheck"}, ver : Nat,
   snap : Creds \cup {Absent}]

TypeOK ==
  /\ now \in Nat /\ epoch \in Nat /\ regEpoch \in Nat /\ version \in Nat /\ synced \in Nat
  /\ auth \in Creds \cup {Absent} /\ models \in SUBSET Models
  /\ meta \in Metas \cup {Absent} /\ latest \in Nat \X Nat
  /\ shard \in [Models -> Entries \cup {Absent, Unbuilt}]
  /\ caller \in [Callers -> CallerStates] /\ syncer \in SyncStates
  /\ overtaken \in BOOLEAN

(***************************************************************************)
(* Stamps.  The manager's own stamp is the newest; the epoch of a removal  *)
(* belongs to nothing else; the scheduler's stamp is that of what it       *)
(* holds.                                                                  *)
(***************************************************************************)
SnapOK(s) ==
  /\ s \in Creds /\ s.gen > 0 /\ s.epoch <= epoch
  /\ s.epoch = epoch => auth # Absent /\ s.gen <= auth.gen

Tombstone(p) == Pending(p) /\ ~HasSnap(caller[p].call)

StampInv ==
  /\ auth # Absent => auth.epoch = epoch /\ auth.gen > 0
  /\ \A s : InFlight(s) => SnapOK(s)
  /\ latest[1] <= epoch /\ (latest[1] = epoch /\ auth # Absent => latest[2] <= auth.gen)
  /\ meta # Absent => latest = Stamp(meta.auth) /\ ~meta.auth.disabled
  /\ \A p \in Callers : Tombstone(p) =>
       LET e == caller[p].call.epoch
       IN /\ e <= epoch /\ e # latest[1] /\ (auth # Absent => e # epoch)
          /\ \A s : InFlight(s) => s.epoch # e
          /\ \A q \in Callers : Tombstone(q) /\ caller[q].call.epoch = e => q = p

(***************************************************************************)
(* What the scheduler has been told.  From some stamp x of the present     *)
(* epoch on, snapshots say what the manager says; the call with stamp x is *)
(* still under way, or the scheduler has seen x or something newer.  It    *)
(* has lost the credential then only if that is going to be noticed.       *)
(***************************************************************************)
Agreed(x) ==
  \A s : InFlight(s) /\ ~Newer(x, Stamp(s)) => auth # Absent /\ Data(s) = Data(auth)

Lost == Active(auth) /\ meta = Absent

ToldAt(x) ==
  /\ x[1] = epoch /\ Agreed(x)
  /\ \/ Newer(x, latest) /\ \E p \in Callers : Pending(p) /\ CallStamp(caller[p].call) = x
     \/ ~Newer(x, latest) /\ (Lost => version # synced)

ToldInv == \E x \in Nat \X Nat : ToldAt(x)

\* The models the scheduler knows of, and the synchronisations that look after them.
SyncInv ==
  /\ synced <= version
  /\ syncer.pc # "idle" => synced < version /\ syncer.ver <= version
  /\ meta # Absent => /\ meta.regEpoch <= regEpoch
                      /\ meta.regEpoch = regEpoch => meta.models = models
                      /\ meta.regEpoch # regEpoch => version # synced
  /\ meta = Absent => \A m \in Models : shard[m] \in {Absent, Unbuilt}

(***************************************************************************)
(* Shards.  Two snapshots that are not older than what the scheduler has   *)
(* seen say the same of a model, or a call that covers the model is on its *)
(* way and its stamp lies between them.                                    *)
(***************************************************************************)
View(a, m) == <<a.epoch, a.tag, BlockedUntil(a, m)>>
Known(s) == InFlight(s) \/ (auth # Absent /\ s = auth)
Between(s, t, m) ==
  \E p \in Callers : /\ Pending(p) /\ Covers(caller[p].call, m)
                     /\ LET x == CallStamp(caller[p].call)
                        IN Newer(x, Stamp(s)) /\ ~Newer(x, Stamp(t))

PairInv ==
  \A s, t : \A m \in Models :
    Known(s) /\ Known(t) /\ ~Newer(latest, Stamp(s)) /\ ~Newer(Stamp(s), Stamp(t)) =>
      View(s, m) = View(t, m) \/ Between(s, t, m)

Covered(m) == \E p \in Callers : Pending(p) /\ Covers(caller[p].call, m)

ShardInv ==
  meta # Absent /\ ~overtaken =>
    \A m \in Models : shard[m] \in {Unbuilt, Entry(meta, m)} \/ Covered(m)

-----------------------------------------------------------------------------
(***************************************************************************)
(* The operators the module is built from.                                 *)
(***************************************************************************)

\* Newer is a linear order.
LEMMA NewerFacts ==
  ASSUME NEW x \in Nat \X Nat, NEW y \in Nat \X Nat, NEW z \in Nat \X Nat
  PROVE  /\ ~Newer(x, x)
         /\ Newer(x, y) => ~Newer(y, x)
         /\ ~Newer(x, y) /\ ~Newer(y, z) => ~Newer(x, z)
         /\ Newer(x, y) /\ ~Newer(z, y) => Newer(x, z)
         /\ ~Newer(y, x) /\ Newer(y, z) => Newer(x, z)
         /\ ~Newer(x, y) /\ ~Newer(y, x) => x = y
BY DEF Newer

LEMMA StampType ==
  ASSUME NEW a \in Creds
  PROVE  Stamp(a) \in Nat \X Nat /\ Stamp(a)[1] = a.epoch /\ Stamp(a)[2] = a.gen
BY DEF Stamp, Creds

LEMMA LargerType ==
  ASSUME NEW i \in Int, NEW j \in Int
  PROVE  Larger(i, j) \in Int
BY DEF Larger

LEMMA RegisteredType ==
  ASSUME NEW e \in Nat, NEW d \in BOOLEAN
  PROVE  /\ Registered(e, d) \in Creds
         /\ Registered(e, d).epoch = e /\ Registered(e, d).gen = 1
BY DEF Registered, Creds

\* What the parts of an operation leave alone.
LEMMA ClearedType ==
  ASSUME NEW a \in Creds
  PROVE  /\ Cleared(a) \in Creds
         /\ Cleared(a).epoch = a.epoch /\ Cleared(a).gen = a.gen /\ Cleared(a).tag = a.tag
<1> DEFINE f == [m \in Models |-> IF a.state[m] >= 0 THEN 0 ELSE a.state[m]]
           q == 0
           u == FALSE
<1>1. f \in [Models -> Int] /\ q \in Int /\ u \in BOOLEAN BY DEF Creds
<1>2. Cleared(a) = [a EXCEPT !.quota = q, !.unavailable = u, !.state = f] BY DEF Cleared
<1> HIDE DEF f, q, u
<1>3. LET b == [a EXCEPT !.quota = q, !.unavailable = u, !.state = f]
      IN  b \in Creds /\ b.epoch = a.epoch /\ b.gen = a.gen /\ b.tag = a.tag
  BY <1>1 DEF Creds
<1> QED BY <1>2, <1>3

LEMMA AggregatedType ==
  ASSUME NEW a \in Creds
  PROVE  /\ Aggregated(a) \in Creds
         /\ Aggregated(a).epoch = a.epoch /\ Aggregated(a).gen = a.gen /\ Aggregated(a).tag = a.tag
         /\ Aggregated(a).quota = a.quota /\ Aggregated(a).state = a.state
<1> DEFINE u == \/ a.quota > now
                \/ HasState(a) # {} /\ \A m \in HasState(a) : a.state[m] > now
<1>1. u \in BOOLEAN OBVIOUS
<1>2. Aggregated(a) = [a EXCEPT !.unavailable = u] BY DEF Aggregated
<1> HIDE DEF u
<1> QED BY <1>1, <1>2 DEF Creds

LEMMA DataFacts ==
  ASSUME NEW a \in Creds, NEW b \in Creds, Data(a) = Data(b)
  PROVE  /\ a.epoch = b.epoch /\ a.disabled = b.disabled
<1>1. /\ a.epoch = Data(a).epoch /\ a.disabled = Data(a).disabled
      /\ b.epoch = Data(b).epoch /\ b.disabled = Data(b).disabled
  BY DEF Data, Creds
<1> QED BY <1>1

\* What shards keep of a credential depends on its data only.
LEMMA DataView ==
  ASSUME NEW a \in Creds, NEW b \in Creds, NEW m \in Models, Data(a) = Data(b)
  PROVE  View(a, m) = View(b, m)
<1>1. /\ a.epoch = Data(a).epoch /\ a.tag = Data(a).tag /\ a.quota = Data(a).quota /\ a.state = Data(a).state
      /\ b.epoch = Data(b).epoch /\ b.tag = Data(b).tag /\ b.quota = Data(b).quota /\ b.state = Data(b).state
  BY DEF Data, Creds
<1> QED BY <1>1 DEF View, BlockedUntil

LEMMA NextGen ==
  ASSUME NEW a \in Creds
  PROVE  LET b == [a EXCEPT !.gen = @ + 1]
         IN  b \in Creds /\ b.gen = a.gen + 1 /\ b.epoch = a.epoch /\ Data(b) = Data(a)
             /\ b.disabled = a.disabled /\ \A m \in Models : View(b, m) = View(a, m)
<1> DEFINE g == a.gen + 1
<1>1. g \in Nat BY DEF Creds
<1> HIDE DEF g
<1> DEFINE b == [a EXCEPT !.gen = g]
<1>2. /\ b \in Creds /\ b.gen = g /\ b.epoch = a.epoch /\ b.disabled = a.disabled /\ b.tag = a.tag
      /\ b.quota = a.quota /\ b.state = a.state
  BY <1>1 DEF Creds
<1>3. Data(b) = Data(a) BY <1>1 DEF Data, Creds
<1>4. \A m \in Models : View(b, m) = View(a, m) BY <1>2 DEF View, BlockedUntil
<1> QED BY <1>2, <1>3, <1>4 DEF g

-----------------------------------------------------------------------------
(***************************************************************************)
(* The steps, as far as the invariants tell them apart.  An operation      *)
(* changes the credential and leaves a call to be made: a snapshot with a  *)
(* stamp newer than all others, or a tombstone.  The call covers every     *)
(* model of which the operation changed anything.                          *)
(***************************************************************************)
NewCall(p, c) ==
  /\ ~Pending(p) /\ c \in Calls
  /\ \E b \in BOOLEAN : caller' = [caller EXCEPT ![p] = [pc |-> "apply", bump |-> b, call |-> c]]

NewSnap(c) ==
  /\ HasSnap(c) /\ c.snap = auth' /\ auth' \in Creds /\ auth'.epoch = epoch' /\ auth'.gen > 0
  /\ \/ epoch' = epoch + 1 /\ c.kind = "whole"
     \/ /\ epoch' = epoch /\ auth # Absent /\ auth'.gen = auth.gen + 1
        /\ \A m \in Models : View(auth, m) = View(auth', m) \/ Covers(c, m)

NewTombstone(c) == ~HasSnap(c) /\ auth' = Absent /\ epoch' = epoch + 1 /\ c.epoch = epoch + 1

Changes(p) ==
  /\ \E c : NewCall(p, c) /\ (NewSnap(c) \/ NewTombstone(c))
  /\ UNCHANGED <<now, regVars, version, synced, schedVars, syncer>>

\* The calls operations make.
LEMMA CallTypes ==
  ASSUME NEW a \in Creds, NEW T \in SUBSET Models, NEW b \in BOOLEAN, NEW e \in Nat
  PROVE  /\ LET c == Whole(a) IN c \in Calls /\ c.kind = "whole" /\ c.snap = a
         /\ LET c == [NoCall EXCEPT !.kind = "result", !.snap = a, !.scoped = b, !.target = T]
            IN  c \in Calls /\ c.kind = "result" /\ c.snap = a /\ c.scoped = b /\ c.target = T
         /\ LET c == [NoCall EXCEPT !.kind = "result", !.snap = a, !.scoped = TRUE]
            IN  c \in Calls /\ c.kind = "result" /\ c.snap = a /\ c.scoped
         /\ LET c == [NoCall EXCEPT !.kind = "tombstone", !.epoch = e]
            IN  c \in Calls /\ c.kind = "tombstone" /\ c.epoch = e
BY DEF Whole, NoCall, Calls

\* A caller that begins an operation is idle.
LEMMA BeginFree ==
  ASSUME NEW p, Begin(p) PROVE ~Pending(p)
BY DEF Begin, Idle, Pending

LEMMA WholeChange ==
  ASSUME TypeOK, StampInv, NEW p \in Callers, NEW b \in BOOLEAN, Begin(p), auth' \in Creds,
         auth'.epoch = epoch', auth'.gen > 0,
         epoch' = epoch + 1 \/ (epoch' = epoch /\ auth # Absent /\ auth'.gen = auth.gen + 1),
         Call(p, Whole(auth'), b), UNCHANGED <<now, regVars, version, synced, schedVars, syncer>>
  PROVE  Changes(p)
<1> DEFINE c == Whole(auth')
<1>1. c \in Calls /\ c.kind = "whole" /\ c.snap = auth' BY CallTypes
<1>2. caller' = [caller EXCEPT ![p] = [pc |-> "apply", bump |-> b, call |-> c]] BY DEF Call
<1> HIDE DEF c
<1>3. NewCall(p, c) BY <1>1, <1>2, BeginFree DEF NewCall
<1>4. NewSnap(c) BY <1>1 DEF NewSnap, HasSnap, Covers
<1> QED BY <1>3, <1>4 DEF Changes

LEMMA OperationChanges ==
  ASSUME TypeOK, StampInv, NEW p \in Callers,
         \/ \E d \in BOOLEAN : Register(p, d) \/ Update(p, d)
         \/ RemoveIf(p) \/ ResetQuota(p)
         \/ \E m \in Models, d \in Deadlines \cup {-1} :
              MarkQuota(p, m, d) \/ \E rejects \in BOOLEAN : MarkResult(p, m, d, rejects)
         \/ \E d \in Deadlines : MarkUsageExhausted(p, d)
  PROVE  Changes(p)
<1>a. auth # Absent => auth \in Creds /\ auth.epoch = epoch /\ auth.gen \in Nat
                       /\ auth.state \in [Models -> Int] /\ auth.quota \in Int
  BY DEF TypeOK, StampInv, Creds
<1>d. \A d \in Deadlines \cup {-1} : d \in Int
  BY SchedulerAssumption DEF Deadlines
<1>1. ASSUME NEW d \in BOOLEAN, Register(p, d) PROVE Changes(p)
  <2>1. epoch' \in Nat /\ epoch' = epoch + 1 BY <1>1 DEF Register, TypeOK
  <2>2. auth' = Registered(epoch', d) BY <1>1, <2>1 DEF Register
  <2>3. auth' \in Creds /\ auth'.epoch = epoch' /\ auth'.gen = 1 BY <2>1, <2>2, RegisteredType
  <2>4. auth'.gen > 0 BY <2>3
  <2> QED BY <1>1, <2>1, <2>3, <2>4, WholeChange DEF Register
<1>2. ASSUME NEW d \in BOOLEAN, Update(p, d) PROVE Changes(p)
  <2> DEFINE a == IF d THEN Cleared(auth) ELSE auth
             g == a.gen + 1
             t == a.tag + 1
  <2>1. a \in Creds /\ a.epoch = epoch /\ a.gen = auth.gen
    BY <1>2, <1>a, ClearedType DEF Update
  <2>2. g \in Nat /\ t \in Nat /\ g = auth.gen + 1 /\ g > 0 BY <2>1, <1>a DEF Creds
  <2>3. auth' = [a EXCEPT !.gen = g, !.tag = t, !.disabled = d] BY <1>2 DEF Update
  <2> HIDE DEF a, g, t
  <2>4. auth' \in Creds /\ auth'.epoch = epoch /\ auth'.gen = g BY <2>1, <2>2, <2>3 DEF Creds
  <2>5. epoch' = epoch /\ auth # Absent BY <1>2 DEF Update
  <2> QED BY <1>2, <2>2, <2>4, <2>5, WholeChange DEF Update
<1>3. ASSUME RemoveIf(p) PROVE Changes(p)
  <2> DEFINE c == [NoCall EXCEPT !.kind = "tombstone", !.epoch = epoch + 1]
  <2>1. epoch + 1 \in Nat BY DEF TypeOK
  <2>2. c \in Calls /\ c.kind = "tombstone" /\ c.epoch = epoch + 1 BY <2>1 DEF NoCall, Calls
  <2>3. caller' = [caller EXCEPT ![p] = [pc |-> "apply", bump |-> TRUE, call |-> c]]
    BY <1>3 DEF RemoveIf, Call
  <2> HIDE DEF c
  <2>4. NewCall(p, c) BY <1>3, <2>2, <2>3, BeginFree DEF NewCall, RemoveIf
  <2>5. NewTombstone(c) BY <1>3, <2>2 DEF NewTombstone, HasSnap, RemoveIf
  <2> QED BY <1>3, <2>4, <2>5 DEF Changes, RemoveIf
<1>4. ASSUME ResetQuota(p) PROVE Changes(p)
  <2> DEFINE a == Cleared(auth)
  <2>1. a \in Creds /\ a.epoch = epoch /\ a.gen = auth.gen /\ auth # Absent /\ auth.gen \in Nat
    BY <1>4, <1>a, ClearedType DEF ResetQuota
  <2>2. auth' = [a EXCEPT !.gen = @ + 1] BY <1>4 DEF ResetQuota
  <2> HIDE DEF a
  <2>3. auth' \in Creds /\ auth'.gen = auth.gen + 1 /\ auth'.epoch = epoch
    BY <2>1, <2>2, NextGen
  <2>4. auth'.gen > 0 /\ epoch' = epoch BY <1>4, <2>1, <2>3 DEF ResetQuota
  <2> QED BY <1>4, <2>1, <2>3, <2>4, WholeChange DEF ResetQuota
<1>5. ASSUME NEW d \in Deadlines, MarkUsageExhausted(p, d) PROVE Changes(p)
  <2>1. PICK kept : auth' = Aggregated([auth EXCEPT !.gen = @ + 1,
               !.state = [m \in Models |-> IF m \in models \ kept THEN d ELSE @[m]]])
    BY <1>5 DEF MarkUsageExhausted
  <2> DEFINE f == [m \in Models |-> IF m \in models \ kept THEN d ELSE auth.state[m]]
             g == auth.gen + 1
             a == [auth EXCEPT !.gen = g, !.state = f]
  <2>2. auth # Absent BY <1>5 DEF MarkUsageExhausted
  <2>3. f \in [Models -> Int] /\ g \in Nat /\ g > 0 BY <1>a, <1>d, <2>2
  <2>4. auth' = Aggregated(a) BY <2>1
  <2>g. g = auth.gen + 1 OBVIOUS
  <2> HIDE DEF f, g
  <2>5. a \in Creds /\ a.epoch = epoch /\ a.gen = g BY <1>a, <2>2, <2>3 DEF Creds
  <2> HIDE DEF a
  <2>6. auth' \in Creds /\ auth'.epoch = epoch /\ auth'.gen = g BY <2>4, <2>5, AggregatedType
  <2> QED BY <1>5, <2>2, <2>3, <2>6, <2>g, WholeChange DEF MarkUsageExhausted
<1>6. ASSUME NEW m \in Models, NEW d \in Deadlines \cup {-1}, MarkQuota(p, m, d) PROVE Changes(p)
  <2> DEFINE f == [n \in Models |-> IF n = m \/ auth.state[n] >= 0 THEN Larger(auth.state[n], d) ELSE auth.state[n]]
             g == auth.gen + 1
             q == Larger(auth.quota, d)
             a == [auth EXCEPT !.gen = g, !.quota = q, !.state = f]
             c == [NoCall EXCEPT !.kind = "result", !.snap = auth', !.scoped = TRUE]
  <2>2. auth # Absent BY <1>6 DEF MarkQuota
  <2>3. f \in [Models -> Int] /\ g \in Nat /\ g > 0 /\ q \in Int
    <3>1. \A n \in Models : auth.state[n] \in Int BY <1>a, <2>2
    <3>2. \A n \in Models : Larger(auth.state[n], d) \in Int BY <3>1, <1>d, LargerType
    <3>3. q \in Int BY <1>a, <1>d, <2>2, LargerType
    <3> QED BY <1>a, <2>2, <3>1, <3>2, <3>3
  <2>4. auth' = Aggregated(a) BY <1>6 DEF MarkQuota
  <2>g. g = auth.gen + 1 OBVIOUS
  <2> HIDE DEF f, g, q
  <2>5. a \in Creds /\ a.epoch = epoch /\ a.gen = g BY <1>a, <2>2, <2>3 DEF Creds
  <2> HIDE DEF a
  <2>6. auth' \in Creds /\ auth'.epoch = epoch /\ auth'.gen = g BY <2>4, <2>5, AggregatedType
  <2>7. c \in Calls /\ c.kind = "result" /\ c.snap = auth' /\ c.scoped BY <2>6 DEF NoCall, Calls
  <2>8. caller' = [caller EXCEPT ![p] = [pc |-> "apply", bump |-> FALSE, call |-> c]]
    BY <1>6 DEF MarkQuota, Call
  <2> HIDE DEF c
  <2>9. NewCall(p, c) BY <1>6, <2>7, <2>8, BeginFree DEF NewCall, MarkQuota
  <2>10. NewSnap(c) BY <1>6, <2>2, <2>3, <2>6, <2>7, <2>g DEF NewSnap, HasSnap, Covers, MarkQuota
  <2> QED BY <1>6, <2>9, <2>10 DEF Changes, MarkQuota
<1>7. ASSUME NEW m \in Models, NEW d \in Deadlines \cup {-1}, NEW r \in BOOLEAN, MarkResult(p, m, d, r)
      PROVE Changes(p)
  <2> DEFINE f == [auth.state EXCEPT ![m] = d]
             g == auth.gen + 1
             a == [auth EXCEPT !.gen = g, !.state = f]
             T == IF r THEN {} ELSE {m}
             c == [NoCall EXCEPT !.kind = "result", !.snap = auth', !.scoped = r, !.target = T]
  <2>2. auth # Absent BY <1>7 DEF MarkResult
  <2>3. f \in [Models -> Int] /\ g \in Nat /\ g > 0 /\ T \in SUBSET Models
        /\ \A n \in Models \ {m} : f[n] = auth.state[n]
    BY <1>a, <1>d, <2>2
  <2>4. auth' = Aggregated(a)
    <3>1. a = [auth EXCEPT !.gen = @ + 1, !.state[m] = d] OBVIOUS
    <3> QED BY <1>7, <3>1 DEF MarkResult
  <2>g. g = auth.gen + 1 /\ (~r => T = {m}) OBVIOUS
  <2>c. c = [NoCall EXCEPT !.kind = "result", !.snap = auth', !.scoped = r,
                             !.target = IF r THEN {} ELSE {m}] OBVIOUS
  <2> HIDE DEF f, g, T
  <2>5. /\ a \in Creds /\ a.epoch = epoch /\ a.gen = g /\ a.tag = auth.tag /\ a.quota = auth.quota
        /\ a.state = f
    BY <1>a, <2>2, <2>3 DEF Creds
  <2> HIDE DEF a
  <2>6. /\ auth' \in Creds /\ auth'.epoch = epoch /\ auth'.gen = g /\ auth'.tag = auth.tag
        /\ auth'.quota = auth.quota /\ auth'.state = f
    BY <2>4, <2>5, AggregatedType
  <2>7. c \in Calls /\ c.kind = "result" /\ c.snap = auth' /\ c.scoped = r /\ c.target = T
    BY <2>6, <2>3 DEF NoCall, Calls
  <2>8. caller' = [caller EXCEPT ![p] = [pc |-> "apply", bump |-> FALSE, call |-> c]]
    BY <1>7, <2>c DEF MarkResult, Call
  <2> HIDE DEF c
  <2>9. NewCall(p, c) BY <1>7, <2>7, <2>8, BeginFree DEF NewCall, MarkResult
  <2>10. \A n \in Models : View(auth, n) = View(auth', n) \/ Covers(c, n)
    BY <1>a, <2>2, <2>3, <2>6, <2>7, <2>g DEF View, BlockedUntil, Covers
  <2>11. NewSnap(c) BY <1>7, <2>2, <2>3, <2>6, <2>7, <2>10, <2>g DEF NewSnap, HasSnap, MarkResult
  <2> QED BY <1>7, <2>9, <2>11 DEF Changes, MarkResult
<1> QED BY <1>1, <1>2, <1>3, <1>4, <1>5, <1>6, <1>7

\* What the scheduler keeps has its type.
LEMMA BuiltType ==
  ASSUME TypeOK, NEW a \in Creds
  PROVE  /\ Built(a) \in Metas /\ Built(a) # Absent
         /\ Built(a).auth = a /\ Built(a).models = models /\ Built(a).regEpoch = regEpoch
<1>1. Built(a) \in Metas BY DEF Built, Metas, TypeOK
<1> QED BY <1>1, SchedulerAssumption DEF Built

LEMMA EntryType ==
  ASSUME NEW mt \in Metas \cup {Absent}, NEW m \in Models
  PROVE  Entry(mt, m) \in Entries \cup {Absent} /\ Entry(mt, m) # Unbuilt
<1>1. CASE mt # Absent
  <2>1. mt.auth \in Creds BY <1>1 DEF Metas
  <2>2. mt.auth.epoch \in Nat /\ mt.auth.tag \in Nat /\ mt.auth.quota \in Int /\ mt.auth.state[m] \in Int
    BY <2>1 DEF Creds
  <2>3. BlockedUntil(mt.auth, m) \in Int BY <2>2, LargerType DEF BlockedUntil
  <2> QED BY <2>2, <2>3, SchedulerAssumption DEF Entry, Entries
<1>2. CASE mt = Absent BY <1>2, SchedulerAssumption DEF Entry
<1> QED BY <1>1, <1>2

LEMMA PublishType ==
  ASSUME TypeOK, NEW mt \in Metas \cup {Absent}, NEW T, Publish(mt, T)
  PROVE  /\ meta' \in Metas \cup {Absent} /\ overtaken' \in BOOLEAN
         /\ shard' \in [Models -> Entries \cup {Absent, Unbuilt}]
<1>1. \A m \in Models : Entry(mt, m) \in Entries \cup {Absent, Unbuilt} BY EntryType
<1>2. \A m \in Models : shard[m] \in Entries \cup {Absent, Unbuilt} BY DEF TypeOK
<1>3. shard' \in [Models -> Entries \cup {Absent, Unbuilt}] BY <1>1, <1>2 DEF Publish
<1> QED BY <1>3 DEF Publish

(***************************************************************************)
(* A call is dropped, because the scheduler has seen something newer, or   *)
(* it is taken.                                                            *)
(***************************************************************************)
Dropped(c) == Newer(latest, CallStamp(c)) /\ latest' = latest /\ meta' = meta

Taken(c) ==
  /\ ~Newer(latest, CallStamp(c)) /\ latest' = CallStamp(c)
  /\ meta' = IF HasSnap(c) /\ ~c.snap.disabled THEN Built(c.snap) ELSE Absent

Applies(p) ==
  /\ Pending(p) /\ ~Pending(p)' /\ caller'[p] \in CallerStates
  /\ caller' = [caller EXCEPT ![p] = caller'[p]]
  /\ Dropped(caller[p].call) \/ Taken(caller[p].call)
  /\ UNCHANGED <<now, mgrVars, regVars, version, synced, syncer>>

\* Which shards a call rewrites.
Rewrites(c) ==
  \/ c.kind = "whole" /\ Dropped(c) /\ overtaken' = TRUE /\ shard' = shard
  \/ meta = Absent /\ meta' = Absent /\ shard' = shard /\ overtaken' = overtaken
  \/ ~HasSnap(c) /\ meta' = meta /\ shard' = shard /\ overtaken' = overtaken
  \/ Dropped(c) /\ \E T \in SUBSET Models : Publish(meta, T) /\ \A m \in Models : Covers(c, m) => m \in T
  \/ /\ Taken(c)
     /\ \E T \in SUBSET Models :
          /\ Publish(meta', T)
          /\ \/ T = Models
             \/ /\ \A m \in Models : Covers(c, m) => m \in T
                /\ HasSnap(c) /\ meta # Absent /\ meta' # Absent /\ meta.regEpoch = regEpoch

LEMMA ApplyFacts ==
  ASSUME TypeOK, StampInv, NEW p \in Callers, Apply(p)
  PROVE  Applies(p) /\ Rewrites(caller[p].call)
         /\ shard' \in [Models -> Entries \cup {Absent, Unbuilt}] /\ overtaken' \in BOOLEAN
<1> DEFINE c == caller[p].call
<1>c. c \in Calls /\ caller[p] \in CallerStates BY DEF TypeOK, CallerStates
<1>p. Pending(p) BY DEF Apply, Pending
<1>1. /\ caller' = [caller EXCEPT ![p] = caller'[p]] /\ ~Pending(p)' /\ caller'[p] \in CallerStates
  <2> DEFINE b == [Idle EXCEPT !.pc = "bump"]
  <2>1. Idle \in CallerStates /\ Idle.pc = "idle" /\ b \in CallerStates /\ b.pc = "bump"
    BY DEF Idle, CallerStates, NoCall, Calls
  <2>2. caller' = [caller EXCEPT ![p] = IF @.bump THEN b ELSE Idle] BY DEF Apply
  <2> HIDE DEF b
  <2> QED BY <2>1, <2>2 DEF Pending, TypeOK
<1>2. UNCHANGED <<now, mgrVars, regVars, version, synced, syncer>> BY DEF Apply
<1>t. shard \in [Models -> Entries \cup {Absent, Unbuilt}] /\ overtaken \in BOOLEAN
      /\ meta \in Metas \cup {Absent} /\ latest \in Nat \X Nat
  BY DEF TypeOK
<1>s. HasSnap(c) => c.snap \in Creds /\ CallStamp(c) = Stamp(c.snap)
  BY <1>p DEF StampInv, InFlight, SnapOK, CallStamp
<1> SUFFICES /\ Dropped(c) \/ Taken(c)
             /\ Rewrites(c)
             /\ shard' \in [Models -> Entries \cup {Absent, Unbuilt}] /\ overtaken' \in BOOLEAN
  BY <1>1, <1>2, <1>p DEF Applies
<1>3. CASE c.kind = "whole"
  <2>0. UpsertWhole(c.snap) BY <1>3 DEF Apply
  <2>1. CASE Stale(c.snap)
    BY <1>s, <1>t, <1>3, <2>0, <2>1 DEF UpsertWhole, Keep, Stale, HasSnap, Dropped, Rewrites
  <2>2. CASE ~Stale(c.snap)
    <3> DEFINE mt == IF c.snap.disabled THEN Absent ELSE Built(c.snap)
    <3>1. latest' = Stamp(c.snap) /\ Publish(mt, Models) BY <2>0, <2>2 DEF UpsertWhole
    <3>2. mt \in Metas \cup {Absent} BY <1>s, <1>3, BuiltType DEF HasSnap
    <3>3. meta' = mt BY <3>1 DEF Publish
    <3>4. Taken(c) BY <1>s, <1>3, <2>2, <3>1, <3>3 DEF Taken, HasSnap, Stale
    <3>5. Publish(meta', Models) BY <3>1, <3>3
    <3> HIDE DEF mt
    <3>6. Rewrites(c) BY <3>4, <3>5 DEF Rewrites
    <3> QED BY <3>1, <3>2, <3>4, <3>6, PublishType
  <2> QED BY <2>1, <2>2
<1>4. CASE c.kind = "result"
  <2>0. UpsertResult(c) BY <1>4 DEF Apply
  <2>1. CASE Stale(c.snap)
    <3>1. UpsertLate(c) BY <2>0, <2>1 DEF UpsertResult
    <3>2. CASE meta = Absent
      BY <1>s, <1>t, <1>4, <2>1, <3>1, <3>2 DEF UpsertLate, Stale, HasSnap, Dropped, Rewrites
    <3>3. CASE meta # Absent
      <4> DEFINE T == IF c.scoped THEN Models ELSE c.target
      <4>1. Publish(meta, T) /\ latest' = latest BY <3>1, <3>3 DEF UpsertLate
      <4>2. T \in SUBSET Models /\ \A m \in Models : Covers(c, m) => m \in T
        BY <1>c, <1>4 DEF Calls, Covers
      <4> HIDE DEF T
      <4>3. Dropped(c) BY <1>s, <1>4, <2>1, <4>1 DEF Dropped, Publish, Stale, HasSnap
      <4>4. Rewrites(c) BY <4>1, <4>2, <4>3 DEF Rewrites
      <4> QED BY <1>t, <4>1, <4>3, <4>4, PublishType
    <3> QED BY <3>2, <3>3
  <2>2. CASE ~Stale(c.snap) /\ c.snap.disabled
    <3>1. latest' = Stamp(c.snap) /\ Publish(Absent, Models) BY <2>0, <2>2 DEF UpsertResult
    <3>2. meta' = Absent BY <3>1 DEF Publish
    <3>3. Taken(c) BY <1>s, <1>4, <2>2, <3>1, <3>2 DEF Taken, HasSnap, Stale
    <3>4. Rewrites(c) BY <3>1, <3>2, <3>3 DEF Rewrites
    <3> QED BY <3>1, <3>3, <3>4, PublishType
  <2>3. CASE ~Stale(c.snap) /\ ~c.snap.disabled
    <3> DEFINE mt == Built(c.snap)
    <3>0. mt \in Metas /\ mt # Absent BY <1>s, <1>4, BuiltType DEF HasSnap
    <3>1. PICK T \in {Models, c.target} :
            /\ latest' = Stamp(c.snap) /\ Publish(mt, T)
            /\ T = Models \/ (T = c.target /\ ~c.scoped /\ meta # Absent /\ meta.regEpoch = regEpoch)
      <4> DEFINE same == meta # Absent /\ meta.models # {} /\ meta.regEpoch = regEpoch
                 was == meta # Absent /\ CredentialBlocked(meta.auth, Cardinality(mt.models))
                 changed == was # CredentialBlocked(c.snap, Cardinality(mt.models))
      <4>1. latest' = Stamp(c.snap)
            /\ Publish(mt, IF ~same \/ c.scoped \/ changed THEN Models ELSE c.target)
        BY <2>0, <2>3 DEF UpsertResult
      <4> HIDE DEF changed, mt
      <4> QED BY <4>1
    <3>2. meta' = mt BY <3>1 DEF Publish
    <3>3. Taken(c) BY <1>s, <1>4, <2>3, <3>1, <3>2 DEF Taken, HasSnap, Stale
    <3> HIDE DEF mt
    <3>4. T \in SUBSET Models /\ (T = Models \/ \A m \in Models : Covers(c, m) => m \in T)
      BY <1>c, <1>4, <3>1 DEF Calls, Covers
    <3>5. Publish(meta', T) BY <3>1, <3>2
    <3>6. Rewrites(c) BY <1>4, <3>0, <3>1, <3>2, <3>3, <3>4, <3>5 DEF Rewrites, HasSnap
    <3> QED BY <3>0, <3>1, <3>3, <3>6, PublishType
  <2> QED BY <2>1, <2>2, <2>3
<1>5. CASE c.kind \notin {"whole", "result"}
  <2>0. RecordRemovalTombstone(c.epoch) BY <1>5 DEF Apply
  <2>1. ~HasSnap(c) /\ CallStamp(c) = <<c.epoch, 0>> /\ c.epoch \in Nat
    BY <1>5, <1>c DEF HasSnap, CallStamp, Calls
  <2>2. CASE c.epoch < latest[1]
    BY <1>t, <2>0, <2>1, <2>2 DEF RecordRemovalTombstone, Keep, Dropped, Rewrites, Newer
  <2>3. CASE ~(c.epoch < latest[1])
    <3>1. latest' = <<c.epoch, 0>> /\ Publish(Absent, Models)
      BY <2>0, <2>3 DEF RecordRemovalTombstone
    <3>2. c.epoch # latest[1] BY <1>p, <2>1 DEF StampInv, Tombstone
    <3>3. ~Newer(latest, <<c.epoch, 0>>) BY <1>t, <2>1, <2>3, <3>2 DEF Newer
    <3>4. meta' = Absent BY <3>1 DEF Publish
    <3>5. Taken(c) BY <2>1, <3>1, <3>3, <3>4 DEF Taken
    <3>6. Rewrites(c) BY <3>1, <3>4, <3>5 DEF Rewrites
    <3> QED BY <3>1, <3>5, <3>6, PublishType
  <2> QED BY <2>2, <2>3
<1> QED BY <1>3, <1>4, <1>5

\* A rebuild schedules nothing, or a snapshot that was under way and is not old.
Rebuilds ==
  /\ syncer.pc = "rebuild" /\ syncer'.pc = "recheck" /\ syncer'.ver = syncer.ver
  /\ shard' = [m \in Models |-> Unbuilt]
  /\ \/ meta' = Absent /\ latest' = latest
     \/ \E a : /\ InFlight(a) /\ a \in Creds /\ ~a.disabled /\ ~Newer(latest, Stamp(a))
               /\ meta' = Built(a) /\ latest' = Stamp(a)
  /\ UNCHANGED <<now, mgrVars, regVars, version, synced, caller>>

LEMMA RebuildFacts ==
  ASSUME TypeOK, StampInv, SyncRebuilds
  PROVE  Rebuilds
<1> DEFINE a == RebuildFrom(syncer.snap)
<1>1. /\ syncer.pc = "rebuild" /\ syncer' = [syncer EXCEPT !.pc = "recheck"]
      /\ shard' = [m \in Models |-> Unbuilt]
      /\ UNCHANGED <<now, mgrVars, regVars, version, synced, caller>>
  BY DEF SyncRebuilds, SyncTo
<1>2. syncer'.pc = "recheck" /\ syncer'.ver = syncer.ver BY <1>1 DEF TypeOK, SyncStates
<1>3. /\ meta' = IF Active(a) THEN Built(a) ELSE Absent
      /\ latest' = IF Active(a) /\ ~Stale(a) THEN Stamp(a) ELSE latest
  BY DEF SyncRebuilds
<1>4. ASSUME Active(a)
      PROVE  InFlight(a) /\ a \in Creds /\ ~a.disabled /\ ~Newer(latest, Stamp(a)) /\ latest' = Stamp(a)
  <2>1. a # Absent /\ ~a.disabled BY <1>4 DEF Active
  <2>2. CASE a = syncer.snap /\ ~Stale(a)
    <3>1. InFlight(a) BY <1>1, <2>1, <2>2 DEF InFlight
    <3>2. a \in Creds BY <3>1 DEF StampInv, SnapOK
    <3> QED BY <1>3, <1>4, <2>1, <2>2, <3>1, <3>2 DEF Stale
  <2>3. CASE meta # Absent /\ a = meta.auth
    <3>1. InFlight(a) /\ latest = Stamp(a) BY <2>3 DEF InFlight, StampInv
    <3>2. a \in Creds BY <3>1 DEF StampInv, SnapOK
    <3>3. ~Newer(latest, Stamp(a)) BY <3>1, <3>2, StampType DEF Newer
    <3> QED BY <1>3, <1>4, <2>1, <3>1, <3>2, <3>3
  <2>4. (a = syncer.snap /\ ~Stale(a)) \/ (meta # Absent /\ a = meta.auth)
    BY <2>1 DEF RebuildFrom
  <2> QED BY <2>2, <2>3, <2>4
<1> HIDE DEF a
<1> QED BY <1>1, <1>2, <1>3, <1>4 DEF Rebuilds

\* Every other step leaves the scheduler's stamp and what it holds alone; snapshots
\* it takes are of the credential as it is.
CallerCalm(q) ==
  \/ Pending(q) /\ caller'[q] = caller[q]
  \/ ~Pending(q) /\ ~Pending(q)'
  \/ ~Pending(q) /\ Pending(q)' /\ auth' = auth /\ auth # Absent /\ caller'[q].call = Whole(auth)

Calm ==
  /\ UNCHANGED <<meta, latest, epoch>>
  /\ auth' = auth \/ (auth # Absent /\ auth' = [auth EXCEPT !.gen = @ + 1])
  /\ \A q \in Callers : CallerCalm(q)
  /\ syncer'.pc = "rebuild" =>
       \/ syncer.pc = "rebuild" /\ syncer'.snap = syncer.snap
       \/ auth' = auth /\ syncer'.snap = auth

\* What else there is to do.
CalmStep ==
  \/ \E p \in Callers : \/ MarkRefreshPending(p) \/ (\E S \in SUBSET Models : RegisterModels(p, S))
                        \/ RefreshSchedulerEntry(p) \/ Bump(p)
  \/ \E m \in Models : EnsureModel(m)
  \/ SyncBegins \/ SyncChecks \/ SyncSnapshots \/ SyncRechecks \/ Tick \/ UNCHANGED vars

LEMMA Steps ==
  ASSUME TypeOK, StampInv, [Next]_vars
  PROVE  (\E p \in Callers : Changes(p)) \/ (\E p \in Callers : Apply(p)) \/ SyncRebuilds \/ CalmStep
<1>1. ASSUME NEW p \in Callers, Operation(p) PROVE Changes(p) \/ CalmStep
  <2>1. \/ MarkRefreshPending(p) \/ \E S \in SUBSET Models : RegisterModels(p, S)
        \/ \E d \in BOOLEAN : Register(p, d) \/ Update(p, d)
        \/ RemoveIf(p) \/ ResetQuota(p)
        \/ \E m \in Models, d \in Deadlines \cup {-1} :
             MarkQuota(p, m, d) \/ \E rejects \in BOOLEAN : MarkResult(p, m, d, rejects)
        \/ \E d \in Deadlines : MarkUsageExhausted(p, d)
    BY <1>1 DEF Operation
  <2> QED BY <2>1, OperationChanges DEF CalmStep
<1> QED BY <1>1 DEF Next, Sync, CalmStep

LEMMA CalmFacts ==
  ASSUME TypeOK, CalmStep
  PROVE  Calm
<1>i. Idle.pc = "idle" /\ SyncIdle.pc = "idle" BY DEF Idle, SyncIdle
<1>c. caller \in [Callers -> CallerStates] BY DEF TypeOK
<1>e. ASSUME caller' = caller PROVE \A q \in Callers : CallerCalm(q)
  BY <1>e DEF CallerCalm, Pending
<1>1. ASSUME NEW p \in Callers, MarkRefreshPending(p) PROVE Calm
  BY <1>1, <1>e DEF MarkRefreshPending, Calm, schedVars
<1>2. ASSUME NEW p \in Callers, NEW S \in SUBSET Models, RegisterModels(p, S) PROVE Calm
  <2>1. ~Pending(p) /\ caller'[p].pc \in {"idle", "refresh"}
    BY <1>2, <1>c, BeginFree DEF RegisterModels, CallerStates
  <2>2. \A q \in Callers : CallerCalm(q)
    BY <1>2, <1>c, <2>1 DEF RegisterModels, CallerCalm, Pending
  <2> QED BY <1>2, <2>2 DEF RegisterModels, Calm, schedVars, mgrVars
<1>3. ASSUME NEW p \in Callers, RefreshSchedulerEntry(p) PROVE Calm
  <2>1. ~Pending(p) BY <1>3 DEF RefreshSchedulerEntry, Pending
  <2>2. CASE auth = Absent
    <3>1. caller' = [caller EXCEPT ![p] = Idle] BY <1>3, <2>2 DEF RefreshSchedulerEntry
    <3>2. \A q \in Callers : CallerCalm(q) BY <1>c, <1>i, <2>1, <3>1 DEF CallerCalm, Pending
    <3> QED BY <1>3, <3>2 DEF RefreshSchedulerEntry, Calm, schedVars, mgrVars
  <2>3. CASE auth # Absent
    <3> DEFINE r == [pc |-> "apply", bump |-> FALSE, call |-> Whole(auth)]
    <3>1. caller' = [caller EXCEPT ![p] = r] /\ r.call = Whole(auth) /\ auth' = auth
      BY <1>3, <2>3 DEF RefreshSchedulerEntry, Call, mgrVars
    <3>2. r.pc = "apply" OBVIOUS
    <3> HIDE DEF r
    <3>3. \A q \in Callers : CallerCalm(q)
      BY <1>c, <2>1, <2>3, <3>1, <3>2 DEF CallerCalm, Pending
    <3> QED BY <1>3, <3>3 DEF RefreshSchedulerEntry, Calm, schedVars, mgrVars
  <2> QED BY <2>2, <2>3
<1>4. ASSUME NEW p \in Callers, Bump(p) PROVE Calm
  <2>1. \A q \in Callers : CallerCalm(q) BY <1>4, <1>c, <1>i DEF Bump, CallerCalm, Pending
  <2> QED BY <1>4, <2>1 DEF Bump, Calm, schedVars, mgrVars
<1>5. ASSUME NEW m \in Models, EnsureModel(m) PROVE Calm
  BY <1>5, <1>e DEF EnsureModel, Calm, mgrVars
<1>6. CASE SyncBegins
  <2>1. syncer'.pc = "check" BY <1>6 DEF SyncBegins
  <2> QED BY <1>6, <1>e, <2>1 DEF SyncBegins, Calm, schedVars, mgrVars
<1>7. CASE SyncChecks \/ SyncRechecks
  <2>1. syncer'.pc # "rebuild"
    BY <1>7, <1>i DEF SyncChecks, SyncRechecks, SyncTo, Synced, TypeOK, SyncStates
  <2> QED BY <1>7, <1>e, <2>1 DEF SyncChecks, SyncRechecks, Calm, schedVars, mgrVars
<1>8. CASE SyncSnapshots
  <2>1. syncer'.snap = auth BY <1>8 DEF SyncSnapshots, TypeOK, SyncStates
  <2> QED BY <1>8, <1>e, <2>1 DEF SyncSnapshots, Calm, schedVars, mgrVars
<1>9. CASE Tick \/ UNCHANGED vars
  BY <1>9, <1>e DEF Tick, vars, Calm, schedVars, mgrVars
<1> QED BY <1>1, <1>2, <1>3, <1>4, <1>5, <1>6, <1>7, <1>8, <1>9 DEF CalmStep

-----------------------------------------------------------------------------
LEMMA TypeInit == Init => TypeOK
<1> SUFFICES ASSUME Init PROVE TypeOK OBVIOUS
<1>1. auth \in Creds BY RegisteredType DEF Init
<1>2. models \in SUBSET Models BY DEF Init
<1>3. meta \in Metas BY <1>1, <1>2 DEF Init, Metas
<1>4. Idle \in CallerStates /\ SyncIdle \in SyncStates
  BY DEF Idle, CallerStates, NoCall, Calls, SyncIdle, SyncStates
<1> QED BY <1>1, <1>2, <1>3, <1>4 DEF Init, TypeOK

LEMMA TypeStep ==
  ASSUME TypeOK, StampInv, [Next]_vars
  PROVE  TypeOK'
<1>c. caller \in [Callers -> CallerStates] /\ syncer \in SyncStates BY DEF TypeOK
<1>i. Idle \in CallerStates /\ SyncIdle \in SyncStates
  BY DEF Idle, CallerStates, NoCall, Calls, SyncIdle, SyncStates
<1>1. ASSUME NEW p \in Callers, Changes(p) PROVE TypeOK'
  <2>1. PICK c : NewCall(p, c) /\ (NewSnap(c) \/ NewTombstone(c)) BY <1>1 DEF Changes
  <2>2. PICK b \in BOOLEAN : caller' = [caller EXCEPT ![p] = [pc |-> "apply", bump |-> b, call |-> c]]
    BY <2>1 DEF NewCall
  <2>3. [pc |-> "apply", bump |-> b, call |-> c] \in CallerStates BY <2>1 DEF NewCall, CallerStates
  <2>4. caller' \in [Callers -> CallerStates] BY <1>c, <2>2, <2>3
  <2>5. auth' \in Creds \cup {Absent} /\ epoch' \in Nat BY <2>1 DEF NewSnap, NewTombstone, TypeOK
  <2> QED BY <1>1, <2>4, <2>5 DEF Changes, TypeOK, regVars, schedVars
<1>2. ASSUME NEW p \in Callers, Apply(p) PROVE TypeOK'
  <2>1. /\ Applies(p) /\ shard' \in [Models -> Entries \cup {Absent, Unbuilt}] /\ overtaken' \in BOOLEAN
    BY <1>2, ApplyFacts
  <2> DEFINE c == caller[p].call
  <2>2. c \in Calls BY <1>c DEF CallerStates
  <2>3. HasSnap(c) => c.snap \in Creds BY <2>1 DEF StampInv, InFlight, SnapOK, Applies
  <2>4. CallStamp(c) \in Nat \X Nat BY <2>2, <2>3, StampType DEF CallStamp, Calls
  <2>5. latest' \in Nat \X Nat /\ meta' \in Metas \cup {Absent}
    BY <2>1, <2>3, <2>4, BuiltType DEF Applies, Dropped, Taken, TypeOK
  <2>6. caller' \in [Callers -> CallerStates] BY <1>c, <2>1 DEF Applies
  <2> QED BY <2>1, <2>5, <2>6 DEF Applies, TypeOK, regVars, mgrVars
<1>3. CASE SyncRebuilds
  <2>1. Rebuilds BY <1>3, RebuildFacts
  <2>2. latest' \in Nat \X Nat /\ meta' \in Metas \cup {Absent}
    BY <2>1, BuiltType, StampType DEF Rebuilds, TypeOK
  <2>3. syncer' \in SyncStates BY <1>3, <1>c DEF SyncRebuilds, SyncTo, SyncStates
  <2>4. overtaken' \in BOOLEAN BY <1>3 DEF SyncRebuilds
  <2>5. shard' \in [Models -> Entries \cup {Absent, Unbuilt}] BY <2>1 DEF Rebuilds
  <2> QED BY <2>1, <2>2, <2>3, <2>4, <2>5 DEF Rebuilds, TypeOK, regVars, mgrVars
<1>4. ASSUME NEW p \in Callers, MarkRefreshPending(p) PROVE TypeOK'
  <2>1. auth' \in Creds BY <1>4, NextGen DEF MarkRefreshPending, TypeOK
  <2> QED BY <1>4, <2>1 DEF MarkRefreshPending, TypeOK, regVars, schedVars
<1>5. ASSUME NEW p \in Callers, NEW S \in SUBSET Models, RegisterModels(p, S) PROVE TypeOK'
  <2> DEFINE q == IF S = {} THEN "idle" ELSE "refresh"
  <2>1. caller' = [caller EXCEPT ![p].pc = q] /\ q \in {"idle", "apply", "bump", "refresh"}
    BY <1>5 DEF RegisterModels
  <2> HIDE DEF q
  <2>2. caller'[p] \in CallerStates BY <1>c, <2>1 DEF CallerStates
  <2>3. caller' \in [Callers -> CallerStates] BY <1>c, <2>1, <2>2
  <2> QED BY <1>5, <2>3 DEF RegisterModels, TypeOK, mgrVars, schedVars
<1>6. ASSUME NEW p \in Callers, RefreshSchedulerEntry(p) PROVE TypeOK'
  <2>1. caller' \in [Callers -> CallerStates]
    <3>1. CASE auth = Absent BY <1>6, <1>c, <1>i, <3>1 DEF RefreshSchedulerEntry
    <3>2. CASE auth # Absent
      <4>1. Whole(auth) \in Calls BY <3>2, CallTypes DEF TypeOK
      <4>2. [pc |-> "apply", bump |-> FALSE, call |-> Whole(auth)] \in CallerStates
        BY <4>1 DEF CallerStates
      <4> QED BY <1>6, <1>c, <3>2, <4>2 DEF RefreshSchedulerEntry, Call
    <3> QED BY <3>1, <3>2
  <2>2. version' = version \/ version' = version + 1 BY <1>6 DEF RefreshSchedulerEntry
  <2> QED BY <1>6, <2>1, <2>2 DEF RefreshSchedulerEntry, TypeOK, mgrVars, regVars, schedVars
<1>7. ASSUME NEW p \in Callers, Bump(p) PROVE TypeOK'
  <2>1. caller' \in [Callers -> CallerStates] BY <1>7, <1>c, <1>i DEF Bump
  <2> QED BY <1>7, <2>1 DEF Bump, TypeOK, mgrVars, regVars, schedVars
<1>8. ASSUME NEW m \in Models, EnsureModel(m) PROVE TypeOK'
  <2>1. Entry(meta, m) \in Entries \cup {Absent} BY EntryType DEF TypeOK
  <2>2. shard' \in [Models -> Entries \cup {Absent, Unbuilt}] BY <1>8, <2>1 DEF EnsureModel, TypeOK
  <2> QED BY <1>8, <2>2 DEF EnsureModel, TypeOK, mgrVars, regVars
<1>9. CASE SyncBegins \/ SyncSnapshots
  <2>1. syncer' \in SyncStates
    <3>1. CASE SyncBegins BY <3>1 DEF SyncBegins, SyncStates, TypeOK
    <3>2. CASE SyncSnapshots
      <4>1. syncer' = [syncer EXCEPT !.pc = "rebuild", !.snap = auth] BY <3>2 DEF SyncSnapshots
      <4>2. auth \in Creds \cup {Absent} BY DEF TypeOK
      <4> QED BY <1>c, <4>1, <4>2 DEF SyncStates
    <3> QED BY <1>9, <3>1, <3>2
  <2> QED BY <1>9, <2>1 DEF SyncBegins, SyncSnapshots, TypeOK, mgrVars, regVars, schedVars
<1>10. CASE SyncChecks \/ SyncRechecks
  <2>1. syncer' \in SyncStates /\ synced' \in Nat
    BY <1>10, <1>c, <1>i DEF SyncChecks, SyncRechecks, SyncTo, Synced, Larger, SyncStates, TypeOK
  <2> QED BY <1>10, <2>1 DEF SyncChecks, SyncRechecks, TypeOK, mgrVars, regVars, schedVars
<1>11. CASE Tick \/ UNCHANGED vars
  BY <1>11 DEF Tick, vars, TypeOK, mgrVars, regVars, schedVars
<1> QED BY <1>1, <1>2, <1>3, <1>4, <1>5, <1>6, <1>7, <1>8, <1>9, <1>10, <1>11, Steps DEF CalmStep

-----------------------------------------------------------------------------
(***************************************************************************)
(* Which snapshots are under way after a step, and which calls.            *)
(***************************************************************************)
LEMMA ChangesFlight ==
  ASSUME TypeOK, NEW p \in Callers, NEW c, NewCall(p, c), NewSnap(c) \/ NewTombstone(c),
         UNCHANGED <<now, regVars, version, synced, schedVars, syncer>>
  PROVE  /\ ~Pending(p) /\ Pending(p)' /\ caller'[p].call = c /\ c \in Calls
         /\ \A q \in Callers \ {p} : caller'[q] = caller[q] /\ Pending(q)' = Pending(q)
         /\ \A s : InFlight(s)' => InFlight(s) \/ (NewSnap(c) /\ s = auth')
<1>1. PICK b \in BOOLEAN : caller' = [caller EXCEPT ![p] = [pc |-> "apply", bump |-> b, call |-> c]]
  BY DEF NewCall
<1>2. /\ caller'[p] = [pc |-> "apply", bump |-> b, call |-> c]
      /\ \A q \in Callers \ {p} : caller'[q] = caller[q]
  BY <1>1 DEF TypeOK
<1>3. /\ ~Pending(p) /\ Pending(p)' /\ caller'[p].call = c /\ c \in Calls
      /\ \A q \in Callers \ {p} : Pending(q)' = Pending(q)
  BY <1>2 DEF NewCall, Pending
<1>4. ASSUME NEW s, InFlight(s)' PROVE InFlight(s) \/ (NewSnap(c) /\ s = auth')
  <2>1. CASE \E q \in Callers : Pending(q)' /\ HasSnap(caller'[q].call) /\ s = caller'[q].call.snap
    <3>1. PICK q \in Callers : Pending(q)' /\ HasSnap(caller'[q].call) /\ s = caller'[q].call.snap
      BY <2>1
    <3>2. CASE q = p BY <1>3, <3>1, <3>2 DEF NewSnap, NewTombstone
    <3>3. CASE q # p BY <1>2, <1>3, <3>1, <3>3 DEF InFlight
    <3> QED BY <3>2, <3>3
  <2>2. CASE syncer.pc = "rebuild" /\ syncer.snap # Absent /\ s = syncer.snap
    BY <2>2 DEF InFlight
  <2>3. CASE meta # Absent /\ s = meta.auth BY <2>3 DEF InFlight
  <2> QED BY <1>4, <2>1, <2>2, <2>3 DEF InFlight, schedVars
<1> QED BY <1>2, <1>3, <1>4

LEMMA AppliesFlight ==
  ASSUME TypeOK, StampInv, NEW p \in Callers, Applies(p)
  PROVE  /\ \A q \in Callers \ {p} : caller'[q] = caller[q] /\ Pending(q)' = Pending(q)
         /\ \A s : InFlight(s)' => InFlight(s)
         /\ caller[p].call \in Calls
         /\ HasSnap(caller[p].call) => InFlight(caller[p].call.snap) /\ caller[p].call.snap \in Creds
         /\ CallStamp(caller[p].call) \in Nat \X Nat
<1> DEFINE c == caller[p].call
<1>1. \A q \in Callers \ {p} : caller'[q] = caller[q]
  BY DEF Applies, TypeOK
<1>2. \A q \in Callers \ {p} : Pending(q)' = Pending(q) BY <1>1 DEF Pending
<1>3. c \in Calls BY DEF TypeOK, CallerStates
<1>4. HasSnap(c) => InFlight(c.snap) BY DEF Applies, InFlight
<1>5. HasSnap(c) => c.snap \in Creds BY <1>4 DEF StampInv, SnapOK
<1>6. CallStamp(c) \in Nat \X Nat BY <1>3, <1>5, StampType DEF CallStamp, Calls
<1>7. ASSUME NEW s, InFlight(s)' PROVE InFlight(s)
  <2>1. CASE \E q \in Callers : Pending(q)' /\ HasSnap(caller'[q].call) /\ s = caller'[q].call.snap
    BY <1>1, <1>2, <2>1 DEF InFlight, Applies
  <2>2. CASE syncer.pc = "rebuild" /\ syncer.snap # Absent /\ s = syncer.snap
    BY <2>2 DEF InFlight
  <2>3. CASE meta' # Absent /\ s = meta'.auth
    <3>1. CASE meta' = meta BY <2>3, <3>1 DEF InFlight
    <3>2. CASE HasSnap(c) /\ meta' = Built(c.snap) BY <1>4, <1>5, <2>3, <3>2, BuiltType
    <3> QED BY <2>3, <3>1, <3>2 DEF Applies, Dropped, Taken
  <2> QED BY <1>7, <2>1, <2>2, <2>3 DEF InFlight, Applies
<1> QED BY <1>1, <1>2, <1>3, <1>4, <1>5, <1>6, <1>7

LEMMA RebuildsFlight ==
  ASSUME TypeOK, StampInv, Rebuilds, NEW s, InFlight(s)'
  PROVE  InFlight(s)
<1>1. CASE \E q \in Callers : Pending(q) /\ HasSnap(caller[q].call) /\ s = caller[q].call.snap
  BY <1>1 DEF InFlight
<1>2. CASE meta' # Absent /\ s = meta'.auth
  BY <1>2, BuiltType DEF Rebuilds
<1> QED BY <1>1, <1>2 DEF InFlight, Rebuilds, Pending

LEMMA CalmFlight ==
  ASSUME TypeOK, Calm
  PROVE  /\ \A s : InFlight(s)' => InFlight(s) \/ (auth' = auth /\ auth # Absent /\ s = auth)
         /\ \A q \in Callers : Pending(q) => caller'[q] = caller[q] /\ Pending(q)'
         /\ \A q \in Callers : Pending(q)' => \/ Pending(q) /\ caller'[q] = caller[q]
                                              \/ HasSnap(caller'[q].call)
<1>a. auth # Absent => /\ Whole(auth).kind = "whole" /\ Whole(auth).snap = auth
  BY CallTypes DEF TypeOK
<1>1. ASSUME NEW s, InFlight(s)' PROVE InFlight(s) \/ (auth' = auth /\ auth # Absent /\ s = auth)
  <2>1. ASSUME NEW q \in Callers, Pending(q)', HasSnap(caller'[q].call), s = caller'[q].call.snap
        PROVE  InFlight(s) \/ (auth' = auth /\ auth # Absent /\ s = auth)
    BY <1>a, <2>1 DEF Calm, CallerCalm, InFlight
  <2>2. CASE syncer'.pc = "rebuild" /\ syncer'.snap # Absent /\ s = syncer'.snap
    BY <2>2 DEF Calm, InFlight
  <2>3. CASE meta # Absent /\ s = meta.auth BY <2>3 DEF InFlight
  <2> QED BY <1>1, <2>1, <2>2, <2>3 DEF InFlight, Calm
<1>2. \A q \in Callers : Pending(q) => caller'[q] = caller[q] /\ Pending(q)'
  BY DEF Calm, CallerCalm, Pending
<1>3. \A q \in Callers : Pending(q)' => \/ Pending(q) /\ caller'[q] = caller[q]
                                        \/ HasSnap(caller'[q].call)
  BY <1>a DEF Calm, CallerCalm, HasSnap
<1> QED BY <1>1, <1>2, <1>3

-----------------------------------------------------------------------------
(***************************************************************************)
(* Stamps are kept.                                                        *)
(***************************************************************************)
LEMMA FlightType ==
  ASSUME StampInv, NEW s, InFlight(s)
  PROVE  /\ s \in Creds /\ s.epoch \in Nat /\ s.gen \in Nat /\ s.gen > 0 /\ s.epoch <= epoch
         /\ Stamp(s) \in Nat \X Nat /\ Stamp(s)[1] = s.epoch /\ Stamp(s)[2] = s.gen
<1>1. s \in Creds /\ s.gen > 0 /\ s.epoch <= epoch BY DEF StampInv, SnapOK
<1> QED BY <1>1, StampType DEF Creds

LEMMA AuthType ==
  ASSUME TypeOK, StampInv, auth # Absent
  PROVE  /\ auth \in Creds /\ auth.epoch = epoch /\ auth.gen \in Nat /\ auth.gen > 0
         /\ Stamp(auth) \in Nat \X Nat /\ Stamp(auth)[1] = epoch /\ Stamp(auth)[2] = auth.gen
<1>1. auth \in Creds /\ auth.epoch = epoch /\ auth.gen > 0 BY DEF TypeOK, StampInv
<1> QED BY <1>1, StampType DEF Creds

LEMMA StampInit == Init => StampInv
<1> SUFFICES ASSUME Init PROVE StampInv OBVIOUS
<1>1. auth \in Creds /\ auth.epoch = 1 /\ auth.gen = 1 /\ ~auth.disabled /\ epoch = 1
  BY RegisteredType DEF Init, Registered
<1>2. \A p \in Callers : ~Pending(p) BY DEF Init, Idle, Pending
<1>3. syncer.pc # "rebuild" BY DEF Init, SyncIdle
<1>4. meta.auth = auth /\ latest = <<1, 1>> BY DEF Init
<1>5. \A s : InFlight(s) => s = auth BY <1>2, <1>3, <1>4 DEF InFlight
<1>6. auth # Absent BY <1>1, SchedulerAssumption
<1>7. Stamp(auth) = <<1, 1>> BY <1>1 DEF Stamp
<1>8. \A s : InFlight(s) => SnapOK(s) BY <1>1, <1>5, <1>6 DEF SnapOK
<1> QED BY <1>1, <1>2, <1>4, <1>6, <1>7, <1>8 DEF StampInv, Tombstone

LEMMA StampChanges ==
  ASSUME TypeOK, StampInv, NEW p \in Callers, Changes(p)
  PROVE  StampInv'
<1>1. PICK c : NewCall(p, c) /\ (NewSnap(c) \/ NewTombstone(c)) BY DEF Changes
<1>u. UNCHANGED <<now, regVars, version, synced, schedVars, syncer>> BY DEF Changes
<1>2. /\ ~Pending(p) /\ Pending(p)' /\ caller'[p].call = c /\ c \in Calls
      /\ \A q \in Callers \ {p} : caller'[q] = caller[q] /\ Pending(q)' = Pending(q)
      /\ \A s : InFlight(s)' => InFlight(s) \/ (NewSnap(c) /\ s = auth')
  BY <1>1, <1>u, ChangesFlight
<1>3. meta' = meta /\ latest' = latest BY <1>u DEF schedVars
<1>4. epoch \in Nat /\ epoch' \in Nat /\ latest \in Nat \X Nat /\ latest[1] <= epoch /\ epoch <= epoch'
  BY <1>1 DEF TypeOK, StampInv, NewSnap, NewTombstone
<1>5. auth' # Absent =>
        /\ NewSnap(c) /\ auth' \in Creds /\ auth'.epoch = epoch' /\ auth'.gen > 0 /\ auth'.gen \in Nat
        /\ epoch' = epoch + 1 \/ (epoch' = epoch /\ auth # Absent /\ auth'.gen = auth.gen + 1)
  BY <1>1, SchedulerAssumption DEF NewSnap, NewTombstone, Creds
<1>6. \A s : InFlight(s) => s \in Creds /\ s.epoch \in Nat /\ s.gen \in Nat /\ s.gen > 0 /\ s.epoch <= epoch
  BY FlightType
<1>a. NewSnap(c) => auth' # Absent BY SchedulerAssumption DEF NewSnap
<1>7. ASSUME NEW s, InFlight(s)' PROVE SnapOK(s)'
  <2>1. CASE InFlight(s)
    <3>1. s.epoch = epoch => auth # Absent /\ s.gen <= auth.gen BY <2>1 DEF StampInv, SnapOK
    <3>2. auth # Absent => auth.gen \in Nat BY AuthType
    <3>3. CASE epoch' = epoch + 1 BY <1>4, <1>6, <2>1, <3>3 DEF SnapOK
    <3>4. CASE epoch' = epoch /\ NewSnap(c)
      <4>1. auth' # Absent /\ auth # Absent /\ auth'.gen = auth.gen + 1
        BY <1>4, <1>5, <1>a, <3>4
      <4> QED BY <1>6, <2>1, <3>1, <3>2, <3>4, <4>1 DEF SnapOK
    <3> QED BY <1>1, <3>3, <3>4 DEF NewSnap, NewTombstone
  <2>2. CASE NewSnap(c) /\ s = auth' BY <1>4, <1>5, <1>a, <2>2 DEF SnapOK
  <2> QED BY <1>2, <1>7, <2>1, <2>2
<1>e. \A q \in Callers : caller[q].call.epoch \in Nat BY DEF TypeOK, CallerStates, Calls
<1>8. ASSUME NEW q \in Callers, Tombstone(q)'
      PROVE  LET e == caller'[q].call.epoch
             IN /\ e <= epoch' /\ e # latest'[1] /\ (auth' # Absent => e # epoch')
                /\ \A s : InFlight(s)' => s.epoch # e
                /\ \A r \in Callers : Tombstone(r)' /\ caller'[r].call.epoch = e => r = q
  <2>t. ASSUME NEW r \in Callers, r # p, Tombstone(r)'
        PROVE  Tombstone(r) /\ caller'[r] = caller[r]
    BY <1>2, <2>t DEF Tombstone
  <2>p. Tombstone(p)' => auth' = Absent /\ epoch' = epoch + 1 /\ caller'[p].call.epoch = epoch + 1 /\ ~NewSnap(c)
    BY <1>1, <1>2 DEF NewSnap, NewTombstone, Tombstone
  <2>o. \A r \in Callers : Tombstone(r) => caller[r].call.epoch <= epoch BY DEF StampInv
  <2>1. CASE q = p
    <3>1. \A r \in Callers : Tombstone(r)' /\ r # p => caller'[r].call.epoch # epoch + 1
      BY <1>4, <1>e, <2>t, <2>o
    <3>2. \A s : InFlight(s)' => s.epoch # epoch + 1
      BY <1>2, <1>4, <1>6, <1>8, <2>p, <2>1
    <3>3. epoch + 1 # latest'[1] BY <1>3, <1>4
    <3> QED BY <1>8, <2>p, <2>1, <3>1, <3>2, <3>3, <1>4
  <2>2. CASE q # p
    <3> DEFINE e == caller[q].call.epoch
    <3>1. Tombstone(q) /\ caller'[q] = caller[q] BY <1>8, <2>2, <2>t
    <3>2. /\ e <= epoch /\ e # latest[1] /\ (auth # Absent => e # epoch)
          /\ \A s : InFlight(s) => s.epoch # e
          /\ \A r \in Callers : Tombstone(r) /\ caller[r].call.epoch = e => r = q
      BY <3>1 DEF StampInv
    <3>3. e \in Nat BY <1>e
    <3> HIDE DEF e
    <3>4. auth' # Absent => e # epoch' BY <1>4, <1>5, <3>2, <3>3
    <3>5. \A s : InFlight(s)' => s.epoch # e BY <1>2, <1>5, <1>a, <3>2, <3>4
    <3>6. \A r \in Callers : Tombstone(r)' /\ caller'[r].call.epoch = e => r = q
      <4>1. ~(Tombstone(p)' /\ caller'[p].call.epoch = e) BY <2>p, <3>2, <3>3, <1>4
      <4> QED BY <4>1, <2>t, <3>2
    <3>7. e <= epoch' BY <1>4, <3>2, <3>3
    <3> QED BY <1>3, <3>1, <3>2, <3>4, <3>5, <3>6, <3>7 DEF e
  <2> QED BY <2>1, <2>2
<1>9. meta' # Absent => latest' = Stamp(meta'.auth) /\ ~meta'.auth.disabled BY <1>3 DEF StampInv
<1>10. latest'[1] <= epoch' BY <1>3, <1>4
<1>11. ASSUME latest'[1] = epoch', auth' # Absent PROVE latest'[2] <= auth'.gen
  <2>1. auth # Absent /\ auth'.gen = auth.gen + 1 /\ latest[1] = epoch BY <1>3, <1>4, <1>5, <1>11
  <2>2. auth.gen \in Nat /\ latest[2] <= auth.gen BY <2>1, AuthType DEF StampInv
  <2> QED BY <1>3, <1>4, <2>1, <2>2
<1> QED BY <1>5, <1>7, <1>8, <1>9, <1>10, <1>11 DEF StampInv

LEMMA StampApplies ==
  ASSUME TypeOK, StampInv, NEW p \in Callers, Applies(p)
  PROVE  StampInv'
<1> DEFINE c == caller[p].call
<1>1. /\ \A q \in Callers \ {p} : caller'[q] = caller[q] /\ Pending(q)' = Pending(q)
      /\ \A s : InFlight(s)' => InFlight(s)
      /\ c \in Calls
      /\ HasSnap(c) => InFlight(c.snap) /\ c.snap \in Creds
  BY AppliesFlight
<1>2. auth' = auth /\ epoch' = epoch /\ Pending(p) /\ ~Pending(p)' BY DEF Applies, mgrVars
<1>3. HasSnap(c) => CallStamp(c) = Stamp(c.snap) /\ CallStamp(c)[1] = c.snap.epoch
  BY <1>1, StampType DEF CallStamp
<1>4. ~HasSnap(c) => CallStamp(c)[1] = c.epoch /\ Tombstone(p)
  BY <1>2 DEF CallStamp, Tombstone
<1>5. CallStamp(c)[1] <= epoch
  BY <1>1, <1>3, <1>4, FlightType DEF StampInv
<1>6. \A s : InFlight(s)' => SnapOK(s)' BY <1>1, <1>2 DEF StampInv, SnapOK
<1>7. latest'[1] <= epoch' BY <1>2, <1>5 DEF Applies, Dropped, Taken, StampInv
<1>8. ASSUME meta' # Absent PROVE latest' = Stamp(meta'.auth) /\ ~meta'.auth.disabled
  <2>1. CASE Dropped(c) BY <1>8, <2>1 DEF Dropped, StampInv
  <2>2. CASE Taken(c)
    <3>1. HasSnap(c) /\ ~c.snap.disabled /\ meta' = Built(c.snap) /\ latest' = CallStamp(c)
      BY <1>8, <2>2 DEF Taken
    <3>2. meta'.auth = c.snap BY <3>1 DEF Built
    <3> QED BY <1>3, <3>1, <3>2
  <2> QED BY <2>1, <2>2 DEF Applies
<1>9. ASSUME NEW q \in Callers, Tombstone(q)'
      PROVE  LET e == caller'[q].call.epoch
             IN /\ e <= epoch' /\ e # latest'[1] /\ (auth' # Absent => e # epoch')
                /\ \A s : InFlight(s)' => s.epoch # e
                /\ \A r \in Callers : Tombstone(r)' /\ caller'[r].call.epoch = e => r = q
  <2>1. \A r \in Callers : Tombstone(r)' => r # p /\ Tombstone(r) /\ caller'[r] = caller[r]
    BY <1>1, <1>2 DEF Tombstone
  <2> DEFINE e == caller[q].call.epoch
  <2>2. /\ e <= epoch /\ e # latest[1] /\ (auth # Absent => e # epoch)
        /\ \A s : InFlight(s) => s.epoch # e
        /\ \A r \in Callers : Tombstone(r) /\ caller[r].call.epoch = e => r = q
    BY <1>9, <2>1 DEF StampInv
  <2>3. CallStamp(c)[1] # e
    <3>1. CASE HasSnap(c) BY <1>1, <1>3, <2>2, <3>1
    <3>2. CASE ~HasSnap(c) BY <1>4, <1>9, <2>1, <2>2, <3>2
    <3> QED BY <3>1, <3>2
  <2>4. e # latest'[1] BY <2>2, <2>3 DEF Applies, Dropped, Taken
  <2> HIDE DEF e
  <2>5. caller'[q].call.epoch = e BY <1>9, <2>1 DEF e
  <2> QED BY <1>1, <1>2, <2>1, <2>2, <2>4, <2>5
<1>10. auth' # Absent => auth'.epoch = epoch' /\ auth'.gen > 0 BY <1>2 DEF StampInv
<1>11. ASSUME CallStamp(c)[1] = epoch, auth # Absent PROVE CallStamp(c)[2] <= auth.gen
  <2>1. CASE HasSnap(c) BY <1>1, <1>3, <1>11, <2>1, StampType DEF StampInv, SnapOK
  <2>2. CASE ~HasSnap(c) BY <1>4, <1>11, <2>2 DEF StampInv
  <2> QED BY <2>1, <2>2
<1>12. latest'[1] = epoch' /\ auth' # Absent => latest'[2] <= auth'.gen
  BY <1>2, <1>11 DEF Applies, Dropped, Taken, StampInv
<1> QED BY <1>6, <1>7, <1>8, <1>9, <1>10, <1>12 DEF StampInv

LEMMA StampRebuilds ==
  ASSUME TypeOK, StampInv, Rebuilds
  PROVE  StampInv'
<1>1. \A s : InFlight(s)' => InFlight(s) BY RebuildsFlight
<1>2. auth' = auth /\ epoch' = epoch /\ caller' = caller BY DEF Rebuilds, mgrVars
<1>3. \/ meta' = Absent /\ latest' = latest
      \/ \E a : InFlight(a) /\ a \in Creds /\ ~a.disabled /\ meta' = Built(a) /\ latest' = Stamp(a)
  BY DEF Rebuilds
<1>4. latest' = latest \/ \E a : InFlight(a) /\ latest'[1] = a.epoch
  BY <1>3, StampType
<1>5. latest'[1] <= epoch' BY <1>2, <1>4, FlightType DEF StampInv
<1>6. meta' # Absent => latest' = Stamp(meta'.auth) /\ ~meta'.auth.disabled
  BY <1>3 DEF Built
<1>7. \A s : InFlight(s)' => SnapOK(s)' BY <1>1, <1>2 DEF StampInv, SnapOK
<1>8. ASSUME NEW q \in Callers, Tombstone(q)'
      PROVE  LET e == caller'[q].call.epoch
             IN /\ e <= epoch' /\ e # latest'[1] /\ (auth' # Absent => e # epoch')
                /\ \A s : InFlight(s)' => s.epoch # e
                /\ \A r \in Callers : Tombstone(r)' /\ caller'[r].call.epoch = e => r = q
  <2>1. \A r \in Callers : Tombstone(r)' => Tombstone(r) BY <1>2 DEF Tombstone, Pending
  <2> QED BY <1>1, <1>2, <1>4, <1>8, <2>1 DEF StampInv
<1>9. auth' # Absent => auth'.epoch = epoch' /\ auth'.gen > 0 BY <1>2 DEF StampInv
<1>10. latest' = latest \/ \E a : InFlight(a) /\ latest'[1] = a.epoch /\ latest'[2] = a.gen
  BY <1>3, StampType
<1>11. latest'[1] = epoch' /\ auth' # Absent => latest'[2] <= auth'.gen
  BY <1>2, <1>10 DEF StampInv, SnapOK
<1> QED BY <1>5, <1>6, <1>7, <1>8, <1>9, <1>11 DEF StampInv

\* What a calm step does to the credential.
LEMMA CalmAuth ==
  ASSUME TypeOK, StampInv, Calm
  PROVE  /\ auth' = Absent <=> auth = Absent
         /\ epoch' = epoch /\ latest' = latest /\ meta' = meta
         /\ auth # Absent => /\ auth' \in Creds /\ auth'.epoch = epoch /\ auth'.gen \in Nat
                             /\ auth'.gen >= auth.gen /\ auth'.gen > 0 /\ Data(auth') = Data(auth)
                             /\ auth'.disabled = auth.disabled
                             /\ \A m \in Models : View(auth', m) = View(auth, m)
<1>1. auth = Absent => auth' = Absent BY DEF Calm
<1>2. ASSUME auth # Absent
      PROVE  /\ auth' \in Creds /\ auth'.epoch = epoch /\ auth'.gen \in Nat
             /\ auth'.gen >= auth.gen /\ auth'.gen > 0 /\ Data(auth') = Data(auth)
             /\ auth'.disabled = auth.disabled
             /\ \A m \in Models : View(auth', m) = View(auth, m)
  <2>1. auth \in Creds /\ auth.epoch = epoch /\ auth.gen \in Nat /\ auth.gen > 0 BY <1>2, AuthType
  <2>2. CASE auth' = auth BY <2>1, <2>2
  <2>3. CASE auth' = [auth EXCEPT !.gen = @ + 1]
    <3>1. /\ auth' \in Creds /\ auth'.gen = auth.gen + 1 /\ auth'.epoch = auth.epoch
          /\ Data(auth') = Data(auth) /\ auth'.disabled = auth.disabled
          /\ \A m \in Models : View(auth', m) = View(auth, m)
      BY <2>1, <2>3, NextGen
    <3> QED BY <2>1, <3>1
  <2> QED BY <1>2, <2>2, <2>3 DEF Calm
<1>3. auth # Absent => auth' # Absent BY <1>2, SchedulerAssumption
<1> QED BY <1>1, <1>2, <1>3 DEF Calm

LEMMA StampCalm ==
  ASSUME TypeOK, StampInv, Calm
  PROVE  StampInv'
<1>1. /\ \A s : InFlight(s)' => InFlight(s) \/ (auth' = auth /\ auth # Absent /\ s = auth)
      /\ \A q \in Callers : Pending(q)' => \/ Pending(q) /\ caller'[q] = caller[q]
                                           \/ HasSnap(caller'[q].call)
  BY CalmFlight
<1>2. /\ auth' = Absent <=> auth = Absent
      /\ epoch' = epoch /\ latest' = latest /\ meta' = meta
      /\ auth # Absent => /\ auth' \in Creds /\ auth'.epoch = epoch /\ auth'.gen \in Nat
                          /\ auth'.gen >= auth.gen /\ auth'.gen > 0
  BY CalmAuth
<1>3. auth # Absent => auth \in Creds /\ auth.epoch = epoch /\ auth.gen \in Nat /\ auth.gen > 0 BY AuthType
<1>e. epoch \in Nat BY DEF TypeOK
<1>4. ASSUME NEW s, InFlight(s)' PROVE SnapOK(s)'
  <2>1. CASE InFlight(s)
    <3>1. s \in Creds /\ s.gen > 0 /\ s.gen \in Nat /\ s.epoch <= epoch BY <2>1, FlightType
    <3>2. s.epoch = epoch => auth # Absent /\ s.gen <= auth.gen BY <2>1 DEF StampInv, SnapOK
    <3> QED BY <1>2, <1>3, <3>1, <3>2 DEF SnapOK
  <2>2. CASE auth' = auth /\ auth # Absent /\ s = auth BY <1>2, <1>3, <1>e, <2>2 DEF SnapOK
  <2> QED BY <1>1, <1>4, <2>1, <2>2
<1>5. ASSUME NEW q \in Callers, Tombstone(q)'
      PROVE  LET e == caller'[q].call.epoch
             IN /\ e <= epoch' /\ e # latest'[1] /\ (auth' # Absent => e # epoch')
                /\ \A s : InFlight(s)' => s.epoch # e
                /\ \A r \in Callers : Tombstone(r)' /\ caller'[r].call.epoch = e => r = q
  <2>1. \A r \in Callers : Tombstone(r)' => Tombstone(r) /\ caller'[r] = caller[r]
    BY <1>1 DEF Tombstone
  <2> QED BY <1>1, <1>2, <1>3, <1>5, <2>1 DEF StampInv
<1>6. latest'[1] = epoch' /\ auth' # Absent => latest'[2] <= auth'.gen
  <2>1. latest[2] \in Nat BY DEF TypeOK
  <2> QED BY <1>2, <1>3, <2>1 DEF StampInv
<1> QED BY <1>2, <1>4, <1>5, <1>6 DEF StampInv

LEMMA StampStep ==
  ASSUME TypeOK, StampInv, [Next]_vars
  PROVE  StampInv'
<1>1. ASSUME NEW p \in Callers, Changes(p) PROVE StampInv' BY <1>1, StampChanges
<1>2. ASSUME NEW p \in Callers, Apply(p) PROVE StampInv' BY <1>2, ApplyFacts, StampApplies
<1>3. CASE SyncRebuilds BY <1>3, RebuildFacts, StampRebuilds
<1>4. CASE CalmStep BY <1>4, CalmFacts, StampCalm
<1> QED BY <1>1, <1>2, <1>3, <1>4, Steps

-----------------------------------------------------------------------------
(***************************************************************************)
(* Versions, registered models and an empty scheduler.                     *)
(***************************************************************************)

\* A calm step that leaves the versions equal has changed neither, or has found
\* nothing to synchronise.
LEMMA CalmVersions ==
  ASSUME TypeOK, SyncInv, CalmStep
  PROVE  /\ synced' <= version'
         /\ syncer'.pc # "idle" => synced' < version' /\ syncer'.ver <= version'
         /\ \/ version' = version /\ synced' = synced
            \/ version' # synced'
            \/ ~NeedsSync /\ regEpoch' = regEpoch
         /\ \/ models' = models /\ regEpoch' = regEpoch
            \/ models' \in SUBSET Models /\ regEpoch' = regEpoch + 1 /\ version' # synced'
<1>t. version \in Nat /\ synced \in Nat /\ syncer \in SyncStates /\ syncer.ver \in Nat
  BY DEF TypeOK, SyncStates
<1>s. synced <= version /\ (syncer.pc # "idle" => synced < version /\ syncer.ver <= version)
  BY DEF SyncInv
<1>i. SyncIdle.pc = "idle" BY DEF SyncIdle
<1>1. ASSUME NEW p \in Callers, MarkRefreshPending(p) \/ Bump(p) \/ RefreshSchedulerEntry(p)
      PROVE  /\ version' = version \/ version' = version + 1
             /\ synced' = synced /\ syncer' = syncer /\ models' = models /\ regEpoch' = regEpoch
  BY <1>1 DEF MarkRefreshPending, Bump, RefreshSchedulerEntry, regVars
<1>2. ASSUME NEW p \in Callers, NEW S \in SUBSET Models, RegisterModels(p, S)
      PROVE  /\ version' = version + 1 /\ synced' = synced /\ syncer' = syncer
             /\ models' \in SUBSET Models /\ regEpoch' = regEpoch + 1
  BY <1>2 DEF RegisterModels
<1>3. ASSUME NEW m \in Models, EnsureModel(m)
      PROVE  version' = version /\ synced' = synced /\ syncer' = syncer /\ models' = models /\ regEpoch' = regEpoch
  BY <1>3 DEF EnsureModel, regVars
<1>4. CASE SyncBegins
  <2>1. /\ syncer'.ver = version /\ version # synced /\ version' = version /\ synced' = synced
        /\ models' = models /\ regEpoch' = regEpoch
    BY <1>4 DEF SyncBegins, regVars
  <2> QED BY <1>t, <1>s, <2>1
<1>5. CASE SyncSnapshots
  <2>1. /\ syncer'.ver = syncer.ver /\ syncer.pc = "snapshot" /\ version' = version /\ synced' = synced
        /\ models' = models /\ regEpoch' = regEpoch
    BY <1>5, <1>t DEF SyncSnapshots, SyncStates, regVars
  <2> QED BY <1>t, <1>s, <2>1
<1>6. CASE SyncChecks \/ SyncRechecks
  <2>1. syncer.pc # "idle" /\ version' = version /\ models' = models /\ regEpoch' = regEpoch
    BY <1>6 DEF SyncChecks, SyncRechecks, regVars
  <2>2. CASE NeedsSync
    <3>1. synced' = synced /\ (syncer' = SyncIdle \/ syncer' = [syncer EXCEPT !.pc = "snapshot"])
      BY <1>6, <2>2 DEF SyncChecks, SyncRechecks, SyncTo
    <3>2. syncer'.pc = "idle" \/ syncer'.ver = syncer.ver BY <1>t, <1>i, <3>1 DEF SyncStates
    <3> QED BY <1>t, <1>s, <2>1, <3>1, <3>2
  <2>3. CASE ~NeedsSync
    <3>1. synced' = Larger(synced, syncer.ver) /\ syncer' = SyncIdle
      BY <1>6, <2>3 DEF SyncChecks, SyncRechecks, Synced
    <3>2. synced' <= version BY <1>t, <1>s, <2>1, <3>1 DEF Larger
    <3> QED BY <1>i, <2>1, <2>3, <3>1, <3>2
  <2> QED BY <2>2, <2>3
<1>7. CASE Tick \/ UNCHANGED vars
  BY <1>7, <1>s DEF Tick, vars, regVars
<1> QED BY <1>t, <1>s, <1>1, <1>2, <1>3, <1>4, <1>5, <1>6, <1>7 DEF CalmStep

\* Shards change in a calm step only when a pick builds one.
LEMMA CalmShards ==
  ASSUME CalmStep
  PROVE  /\ overtaken' = overtaken
         /\ shard' = shard \/ \E m \in Models : shard' = [shard EXCEPT ![m] = Entry(meta, m)]
<1>1. ASSUME NEW p \in Callers, MarkRefreshPending(p) \/ Bump(p) \/ RefreshSchedulerEntry(p)
                                \/ \E S \in SUBSET Models : RegisterModels(p, S)
      PROVE  shard' = shard /\ overtaken' = overtaken
  BY <1>1 DEF MarkRefreshPending, Bump, RefreshSchedulerEntry, RegisterModels, schedVars
<1>2. ASSUME NEW m \in Models, EnsureModel(m)
      PROVE  shard' = [shard EXCEPT ![m] = Entry(meta, m)] /\ overtaken' = overtaken
  BY <1>2 DEF EnsureModel
<1>3. CASE SyncBegins \/ SyncChecks \/ SyncSnapshots \/ SyncRechecks
  BY <1>3 DEF SyncBegins, SyncChecks, SyncSnapshots, SyncRechecks, schedVars
<1>4. CASE Tick \/ UNCHANGED vars BY <1>4 DEF Tick, vars, schedVars
<1> QED BY <1>1, <1>2, <1>3, <1>4 DEF CalmStep

LEMMA SyncInit == Init => SyncInv
<1> SUFFICES ASSUME Init PROVE SyncInv OBVIOUS
<1>1. syncer.pc = "idle" /\ synced = 1 /\ version = 1 BY DEF Init, SyncIdle
<1>2. meta.regEpoch = 1 /\ regEpoch = 1 /\ meta.models = models BY DEF Init
<1>3. shard = [m \in Models |-> Unbuilt] BY DEF Init
<1> QED BY <1>1, <1>2, <1>3 DEF SyncInv

LEMMA SyncApplies ==
  ASSUME TypeOK, StampInv, SyncInv, NEW p \in Callers, Applies(p), Rewrites(caller[p].call)
  PROVE  SyncInv'
<1> DEFINE c == caller[p].call
<1>1. UNCHANGED <<models, regEpoch, version, synced, syncer>> BY DEF Applies, regVars
<1>2. meta' = meta \/ meta' = Absent
      \/ (meta'.models = models /\ meta'.regEpoch = regEpoch)
  BY DEF Applies, Dropped, Taken, Built
<1>3. regEpoch \in Nat BY DEF TypeOK
<1>4. ASSUME meta' = Absent, NEW m \in Models PROVE shard'[m] \in {Absent, Unbuilt}
  <2>e. \A n \in Models : Entry(Absent, n) = Absent BY DEF Entry
  <2>s. meta = Absent => shard[m] \in {Absent, Unbuilt} BY DEF SyncInv
  <2>1. CASE shard' = shard /\ meta' = meta BY <1>4, <2>s, <2>1
  <2>2. CASE meta = Absent /\ shard' = shard BY <2>s, <2>2
  <2>3. ASSUME NEW T, Publish(meta, T), Dropped(c) PROVE shard'[m] \in {Absent, Unbuilt}
    <3>1. meta = Absent BY <1>4, <2>3 DEF Dropped
    <3> QED BY <2>3, <2>e, <2>s, <3>1 DEF Publish
  <2>4. ASSUME Publish(meta', Models) PROVE shard'[m] \in {Absent, Unbuilt}
    BY <1>4, <2>4, <2>e DEF Publish
  <2> QED BY <1>4, <2>1, <2>2, <2>3, <2>4 DEF Rewrites, Dropped
<1> QED BY <1>1, <1>2, <1>3, <1>4 DEF SyncInv

LEMMA SyncRebuilt ==
  ASSUME TypeOK, StampInv, SyncInv, Rebuilds
  PROVE  SyncInv'
<1>1. /\ UNCHANGED <<models, regEpoch, version, synced>> /\ syncer.pc = "rebuild"
      /\ syncer'.ver = syncer.ver
  BY DEF Rebuilds, regVars
<1>2. meta' = Absent \/ (meta'.models = models /\ meta'.regEpoch = regEpoch)
  BY DEF Rebuilds, Built
<1>3. regEpoch \in Nat BY DEF TypeOK
<1>4. \A m \in Models : shard'[m] = Unbuilt BY DEF Rebuilds
<1> QED BY <1>1, <1>2, <1>3, <1>4 DEF SyncInv

LEMMA SyncCalm ==
  ASSUME TypeOK, StampInv, SyncInv, CalmStep
  PROVE  SyncInv'
<1>1. /\ synced' <= version'
      /\ syncer'.pc # "idle" => synced' < version' /\ syncer'.ver <= version'
      /\ \/ version' = version /\ synced' = synced
         \/ version' # synced'
         \/ ~NeedsSync /\ regEpoch' = regEpoch
      /\ \/ models' = models /\ regEpoch' = regEpoch
         \/ models' \in SUBSET Models /\ regEpoch' = regEpoch + 1 /\ version' # synced'
  BY CalmVersions
<1>2. meta' = meta BY CalmFacts DEF Calm
<1>3. regEpoch \in Nat /\ (meta # Absent => meta.regEpoch \in Nat) BY DEF TypeOK, Metas
<1>4. meta # Absent /\ ~NeedsSync => meta.regEpoch = regEpoch BY DEF NeedsSync
<1>5. ASSUME meta # Absent
      PROVE  /\ meta.regEpoch <= regEpoch'
             /\ meta.regEpoch = regEpoch' => meta.models = models'
             /\ meta.regEpoch # regEpoch' => version' # synced'
  <2>1. /\ meta.regEpoch <= regEpoch
        /\ meta.regEpoch = regEpoch => meta.models = models
        /\ meta.regEpoch # regEpoch => version # synced
    BY <1>5 DEF SyncInv
  <2>2. CASE models' = models /\ regEpoch' = regEpoch BY <1>1, <1>4, <1>5, <2>1, <2>2
  <2>3. CASE regEpoch' = regEpoch + 1 /\ version' # synced' BY <1>3, <1>5, <2>1, <2>3
  <2> QED BY <1>1, <2>2, <2>3
<1>6. ASSUME meta = Absent, NEW n \in Models PROVE shard'[n] \in {Absent, Unbuilt}
  <2>1. Entry(meta, n) = Absent BY <1>6 DEF Entry
  <2>2. shard[n] \in {Absent, Unbuilt} BY <1>6 DEF SyncInv
  <2>3. shard'[n] = shard[n] \/ shard'[n] = Entry(meta, n) BY CalmShards DEF TypeOK
  <2> QED BY <2>1, <2>2, <2>3
<1> QED BY <1>1, <1>2, <1>5, <1>6 DEF SyncInv

LEMMA SyncStep ==
  ASSUME TypeOK, StampInv, SyncInv, [Next]_vars
  PROVE  SyncInv'
<1>1. ASSUME NEW p \in Callers, Changes(p) PROVE SyncInv'
  BY <1>1 DEF Changes, SyncInv, regVars, schedVars
<1>2. ASSUME NEW p \in Callers, Apply(p) PROVE SyncInv' BY <1>2, ApplyFacts, SyncApplies
<1>3. CASE SyncRebuilds BY <1>3, RebuildFacts, SyncRebuilt
<1>4. CASE CalmStep BY <1>4, SyncCalm
<1> QED BY <1>1, <1>2, <1>3, <1>4, Steps

-----------------------------------------------------------------------------
(***************************************************************************)
(* What the scheduler has been told.                                       *)
(***************************************************************************)

\* The credential an operation leaves is newer than every snapshot and than
\* anything the scheduler has seen.
LEMMA FreshStamp ==
  ASSUME TypeOK, StampInv, auth' \in Creds, auth'.epoch = epoch', auth'.gen > 0,
         epoch' = epoch + 1 \/ (epoch' = epoch /\ auth # Absent /\ auth'.gen = auth.gen + 1)
  PROVE  /\ Stamp(auth') \in Nat \X Nat /\ Stamp(auth')[1] = epoch' /\ Newer(Stamp(auth'), latest)
         /\ \A s : Known(s) => s \in Creds /\ Stamp(s) \in Nat \X Nat /\ Newer(Stamp(auth'), Stamp(s))
<1>1. Stamp(auth') \in Nat \X Nat /\ Stamp(auth')[1] = epoch' /\ Stamp(auth')[2] = auth'.gen
  BY StampType
<1>2. auth # Absent => auth \in Creds /\ auth.gen \in Nat /\ Stamp(auth) \in Nat \X Nat
                       /\ Stamp(auth)[1] = epoch /\ Stamp(auth)[2] = auth.gen
  BY AuthType
<1>3. epoch \in Nat /\ latest \in Nat \X Nat BY DEF TypeOK
<1>4. Newer(Stamp(auth'), latest) BY <1>1, <1>2, <1>3 DEF StampInv, Newer
<1>5. ASSUME NEW s, Known(s)
      PROVE  s \in Creds /\ Stamp(s) \in Nat \X Nat /\ Newer(Stamp(auth'), Stamp(s))
  <2>1. CASE InFlight(s)
    <3>1. /\ s \in Creds /\ s.epoch \in Nat /\ s.gen \in Nat /\ s.epoch <= epoch
          /\ Stamp(s) \in Nat \X Nat /\ Stamp(s)[1] = s.epoch /\ Stamp(s)[2] = s.gen
      BY <2>1, FlightType
    <3>2. s.epoch = epoch => auth # Absent /\ s.gen <= auth.gen BY <2>1 DEF StampInv, SnapOK
    <3> QED BY <1>1, <1>2, <1>3, <3>1, <3>2 DEF Newer
  <2>2. CASE auth # Absent /\ s = auth BY <1>1, <1>2, <1>3, <2>2 DEF Newer
  <2> QED BY <1>5, <2>1, <2>2 DEF Known
<1> QED BY <1>1, <1>4, <1>5

LEMMA ToldInit == Init => ToldInv
<1> SUFFICES ASSUME Init PROVE ToldInv OBVIOUS
<1> DEFINE x == <<1, 1>>
<1>1. auth \in Creds /\ epoch = 1 /\ auth # Absent BY RegisteredType, SchedulerAssumption DEF Init
<1>2. \A p \in Callers : ~Pending(p) BY DEF Init, Idle, Pending
<1>3. syncer.pc # "rebuild" BY DEF Init, SyncIdle
<1>4. meta.auth = auth /\ latest = x BY DEF Init
<1>5. \A s : InFlight(s) => s = auth BY <1>2, <1>3, <1>4 DEF InFlight
<1>6. meta # Absent
  <2>1. meta \in Metas BY <1>1 DEF Init, Metas
  <2> QED BY <2>1, SchedulerAssumption
<1>7. x \in Nat \X Nat /\ ~Newer(x, latest) /\ x[1] = epoch BY <1>1, <1>4 DEF Newer
<1>8. Agreed(x) BY <1>1, <1>5 DEF Agreed
<1>9. ~Lost BY <1>6 DEF Lost
<1> HIDE DEF x
<1>10. ToldAt(x) BY <1>7, <1>8, <1>9 DEF ToldAt
<1> QED BY <1>7, <1>10 DEF ToldInv

LEMMA ToldChanges ==
  ASSUME TypeOK, StampInv, NEW p \in Callers, Changes(p)
  PROVE  ToldInv'
<1>1. PICK c : NewCall(p, c) /\ (NewSnap(c) \/ NewTombstone(c)) BY DEF Changes
<1>u. UNCHANGED <<now, regVars, version, synced, schedVars, syncer>> BY DEF Changes
<1>2. /\ Pending(p)' /\ caller'[p].call = c /\ c \in Calls
      /\ \A s : InFlight(s)' => InFlight(s) \/ (NewSnap(c) /\ s = auth')
  BY <1>1, <1>u, ChangesFlight
<1>3. latest' = latest BY <1>u DEF schedVars
<1>4. CASE NewSnap(c)
  <2>0. PICK x : x = Stamp(auth') OBVIOUS
  <2>1. /\ x \in Nat \X Nat /\ x[1] = epoch' /\ Newer(x, latest)
        /\ \A s : Known(s) => s \in Creds /\ Stamp(s) \in Nat \X Nat /\ Newer(x, Stamp(s))
    BY <1>4, <2>0, FreshStamp DEF NewSnap
  <2>2. CallStamp(c) = x /\ auth' # Absent BY <1>4, <2>0, SchedulerAssumption DEF CallStamp, NewSnap
  <2>3. \A s : InFlight(s)' /\ ~Newer(x, Stamp(s)) => auth' # Absent /\ Data(s) = Data(auth')
    BY <1>2, <2>1, <2>2 DEF Known
  <2>4. ToldAt(x)' BY <1>2, <1>3, <2>1, <2>2, <2>3 DEF ToldAt, Agreed
  <2> QED BY <2>1, <2>4 DEF ToldInv
<1>5. CASE NewTombstone(c)
  <2>0. PICK x : x = <<epoch', 0>> OBVIOUS
  <2>1. epoch' \in Nat /\ epoch' = epoch + 1 /\ epoch \in Nat /\ latest \in Nat \X Nat /\ latest[1] <= epoch
    BY <1>5 DEF NewTombstone, TypeOK, StampInv
  <2>2. x \in Nat \X Nat /\ x[1] = epoch' /\ Newer(x, latest) BY <2>0, <2>1 DEF Newer
  <2>3. CallStamp(c) = x BY <1>5, <2>0, <2>1 DEF CallStamp, NewTombstone
  <2>4. ASSUME NEW s, InFlight(s)' PROVE Newer(x, Stamp(s))
    <3>1. InFlight(s) BY <1>2, <1>5, <2>4 DEF NewSnap, NewTombstone
    <3>2. s.epoch <= epoch /\ s.epoch \in Nat /\ Stamp(s)[1] = s.epoch BY <3>1, FlightType
    <3> QED BY <2>0, <2>1, <3>2 DEF Newer
  <2>5. ToldAt(x)' BY <1>2, <1>3, <2>2, <2>3, <2>4 DEF ToldAt, Agreed
  <2> QED BY <2>2, <2>5 DEF ToldInv
<1> QED BY <1>1, <1>4, <1>5

\* A call that is taken and not older than x leaves nothing lost.
LEMMA TakenKeeps ==
  ASSUME TypeOK, StampInv, NEW p \in Callers, Applies(p), Taken(caller[p].call),
         NEW x \in Nat \X Nat, x[1] = epoch, Agreed(x), ~Newer(x, CallStamp(caller[p].call))
  PROVE  ~Lost'
<1> DEFINE c == caller[p].call
<1>1. c \in Calls /\ (HasSnap(c) => InFlight(c.snap) /\ c.snap \in Creds) BY AppliesFlight
<1>2. auth' = auth /\ epoch' = epoch /\ Pending(p) BY DEF Applies, mgrVars
<1>3. CASE HasSnap(c)
  <2>1. auth # Absent /\ Data(c.snap) = Data(auth) BY <1>1, <1>3 DEF Agreed, CallStamp
  <2>2. auth \in Creds BY <2>1 DEF TypeOK
  <2>3. c.snap.disabled = auth.disabled BY <1>1, <1>3, <2>1, <2>2, DataFacts
  <2>4. ~auth.disabled => meta' = Built(c.snap) BY <1>3, <2>3 DEF Taken
  <2> QED BY <1>1, <1>2, <1>3, <2>4, BuiltType DEF Lost, Active
<1>4. CASE ~HasSnap(c)
  <2>1. Tombstone(p) /\ CallStamp(c) = <<c.epoch, 0>> /\ c.epoch \in Nat
    BY <1>1, <1>2, <1>4 DEF Tombstone, CallStamp, Calls
  <2>2. c.epoch <= epoch /\ (auth # Absent => c.epoch # epoch) BY <2>1 DEF StampInv
  <2>3. c.epoch = epoch BY <2>1, <2>2 DEF Newer, TypeOK
  <2> QED BY <1>2, <2>2, <2>3 DEF Lost, Active
<1> QED BY <1>3, <1>4

LEMMA ToldApplies ==
  ASSUME TypeOK, StampInv, ToldInv, NEW p \in Callers, Applies(p)
  PROVE  ToldInv'
<1> DEFINE c == caller[p].call
<1>1. PICK x \in Nat \X Nat : ToldAt(x) BY DEF ToldInv
<1>2. /\ \A q \in Callers \ {p} : caller'[q] = caller[q] /\ Pending(q)' = Pending(q)
      /\ \A s : InFlight(s)' => InFlight(s)
      /\ CallStamp(c) \in Nat \X Nat
  BY AppliesFlight
<1>3. UNCHANGED <<auth, epoch, version, synced>> BY DEF Applies, mgrVars
<1>4. latest \in Nat \X Nat BY DEF TypeOK
<1>5. x[1] = epoch /\ Agreed(x) BY <1>1 DEF ToldAt
<1>6. Agreed(x)' BY <1>2, <1>3, <1>5 DEF Agreed
<1>7. Taken(c) /\ ~Newer(x, CallStamp(c)) => ~Lost' BY <1>5, TakenKeeps
<1>8. ~Newer(x, latest)' => (Lost' => version' # synced')
  <2>1. CASE Dropped(c)
    <3>1. latest' = latest /\ meta' = meta BY <2>1 DEF Dropped
    <3> QED BY <1>1, <1>3, <3>1 DEF ToldAt, Lost
  <2>2. CASE Taken(c) BY <1>7, <2>2 DEF Taken
  <2> QED BY <2>1, <2>2 DEF Applies
<1>9. ASSUME Newer(x, latest')
      PROVE  \E q \in Callers : Pending(q)' /\ CallStamp(caller'[q].call) = x
  <2>1. Newer(x, latest)
    <3>1. CASE Dropped(c) BY <1>9, <3>1 DEF Dropped
    <3>2. CASE Taken(c)
      <4>1. ~Newer(latest, CallStamp(c)) /\ latest' = CallStamp(c) BY <3>2 DEF Taken
      <4> QED BY <1>2, <1>4, <1>9, <4>1, NewerFacts
    <3> QED BY <3>1, <3>2 DEF Applies
  <2>2. PICK q \in Callers : Pending(q) /\ CallStamp(caller[q].call) = x BY <1>1, <2>1 DEF ToldAt
  <2>3. q # p
    <3>1. SUFFICES ASSUME q = p PROVE FALSE OBVIOUS
    <3>2. ~Dropped(c) BY <1>4, <2>1, <2>2, <3>1, NewerFacts DEF Dropped
    <3>3. latest' = x BY <2>2, <3>1, <3>2 DEF Applies, Taken
    <3> QED BY <1>9, <3>3, NewerFacts
  <2> QED BY <1>2, <2>2, <2>3
<1>10. ToldAt(x)' BY <1>3, <1>5, <1>6, <1>8, <1>9 DEF ToldAt
<1> QED BY <1>10 DEF ToldInv

LEMMA ToldRebuilds ==
  ASSUME TypeOK, StampInv, SyncInv, ToldInv, Rebuilds
  PROVE  ToldInv'
<1>1. PICK x \in Nat \X Nat : ToldAt(x) BY DEF ToldInv
<1>2. \A s : InFlight(s)' => InFlight(s) BY RebuildsFlight
<1>3. UNCHANGED <<auth, epoch, version, synced, caller>> BY DEF Rebuilds, mgrVars
<1>4. version # synced BY DEF Rebuilds, SyncInv, TypeOK
<1>5. latest \in Nat \X Nat BY DEF TypeOK
<1>6. x[1] = epoch /\ Agreed(x) BY <1>1 DEF ToldAt
<1>7. Agreed(x)' BY <1>2, <1>3, <1>6 DEF Agreed
<1>8. latest' \in Nat \X Nat /\ ~Newer(latest, latest')
  BY <1>5, StampType, NewerFacts DEF Rebuilds
<1>9. Newer(x, latest') => Newer(x, latest) BY <1>5, <1>8, NewerFacts
<1>10. Newer(x, latest') => \E q \in Callers : Pending(q)' /\ CallStamp(caller'[q].call) = x
  BY <1>1, <1>3, <1>9 DEF ToldAt, Pending
<1>11. ToldAt(x)' BY <1>3, <1>4, <1>6, <1>7, <1>10 DEF ToldAt
<1> QED BY <1>11 DEF ToldInv

LEMMA ToldCalm ==
  ASSUME TypeOK, StampInv, SyncInv, ToldInv, CalmStep
  PROVE  ToldInv'
<1>1. PICK x \in Nat \X Nat : ToldAt(x) BY DEF ToldInv
<1>c. Calm BY CalmFacts
<1>2. /\ \A s : InFlight(s)' => InFlight(s) \/ (auth' = auth /\ auth # Absent /\ s = auth)
      /\ \A q \in Callers : Pending(q) => caller'[q] = caller[q] /\ Pending(q)'
  BY <1>c, CalmFlight
<1>3. /\ auth' = Absent <=> auth = Absent
      /\ epoch' = epoch /\ latest' = latest /\ meta' = meta
      /\ auth # Absent => Data(auth') = Data(auth) /\ auth'.disabled = auth.disabled
  BY <1>c, CalmAuth
<1>4. x[1] = epoch /\ Agreed(x) BY <1>1 DEF ToldAt
<1>5. Agreed(x)' BY <1>2, <1>3, <1>4 DEF Agreed
<1>6. Lost' => Lost BY <1>3 DEF Lost, Active
<1>7. Lost => NeedsSync BY DEF Lost, NeedsSync
<1>8. (Lost => version # synced) => (Lost' => version' # synced')
  BY <1>6, <1>7, CalmVersions
<1>9. Newer(x, latest) /\ (\E q \in Callers : Pending(q) /\ CallStamp(caller[q].call) = x)
        => \E q \in Callers : Pending(q)' /\ CallStamp(caller'[q].call) = x
  BY <1>2
<1>10. ToldAt(x)' BY <1>1, <1>3, <1>4, <1>5, <1>8, <1>9 DEF ToldAt
<1> QED BY <1>10 DEF ToldInv

LEMMA ToldStep ==
  ASSUME TypeOK, StampInv, SyncInv, ToldInv, [Next]_vars
  PROVE  ToldInv'
<1>1. ASSUME NEW p \in Callers, Changes(p) PROVE ToldInv' BY <1>1, ToldChanges
<1>2. ASSUME NEW p \in Callers, Apply(p) PROVE ToldInv' BY <1>2, ApplyFacts, ToldApplies
<1>3. CASE SyncRebuilds BY <1>3, RebuildFacts, ToldRebuilds
<1>4. CASE CalmStep BY <1>4, ToldCalm
<1> QED BY <1>1, <1>2, <1>3, <1>4, Steps

-----------------------------------------------------------------------------
(***************************************************************************)
(* What two snapshots say of a model.                                      *)
(***************************************************************************)
LEMMA KnownType ==
  ASSUME TypeOK, StampInv, NEW s, Known(s)
  PROVE  s \in Creds /\ Stamp(s) \in Nat \X Nat
BY FlightType, AuthType DEF Known

LEMMA PairInit == Init => PairInv
<1> SUFFICES ASSUME Init PROVE PairInv OBVIOUS
<1>1. \A p \in Callers : ~Pending(p) BY DEF Init, Idle, Pending
<1>2. syncer.pc # "rebuild" BY DEF Init, SyncIdle
<1>3. meta.auth = auth BY DEF Init
<1>4. \A s : Known(s) => s = auth BY <1>1, <1>2, <1>3 DEF InFlight, Known
<1> QED BY <1>4 DEF PairInv

\* A step that adds at most the credential's new state, newer than all the rest
\* and covered by a call where it differs from the state before.
Covering(m) ==
  \E p \in Callers : /\ Pending(p)' /\ Covers(caller'[p].call, m)
                     /\ CallStamp(caller'[p].call) = Stamp(auth')
Fresh ==
  /\ auth' \in Creds /\ Stamp(auth') \in Nat \X Nat
  /\ \A s : Known(s) => Newer(Stamp(auth'), Stamp(s))
  /\ \A m \in Models : Covering(m) \/ (auth # Absent /\ View(auth, m) = View(auth', m))

LEMMA PairKept ==
  ASSUME TypeOK, StampInv, PairInv, latest' = latest,
         \A q \in Callers : Pending(q) => caller'[q] = caller[q] /\ Pending(q)',
         \A s : Known(s)' => Known(s) \/ (Fresh /\ s = auth')
  PROVE  PairInv'
<1> SUFFICES ASSUME NEW s, NEW t, NEW m \in Models, Known(s)', Known(t)',
                    ~Newer(latest', Stamp(s)), ~Newer(Stamp(s), Stamp(t))
             PROVE  View(s, m) = View(t, m) \/ Between(s, t, m)'
  BY DEF PairInv
<1>k. \A u : Known(u) => u \in Creds /\ Stamp(u) \in Nat \X Nat BY KnownType
<1>b. ASSUME NEW u, Between(s, u, m) PROVE Between(s, u, m)'
  BY <1>b DEF Between
<1>1. CASE Known(s) /\ Known(t)
  <2>1. View(s, m) = View(t, m) \/ Between(s, t, m) BY <1>1 DEF PairInv
  <2> QED BY <1>b, <2>1
<1>2. CASE Known(s) /\ Fresh /\ t = auth'
  <2>1. Stamp(t) \in Nat \X Nat /\ Stamp(s) \in Nat \X Nat /\ Newer(Stamp(t), Stamp(s))
    BY <1>2, <1>k DEF Fresh
  <2>2. CASE Covering(m)
    <3>1. PICK p \in Callers : /\ Pending(p)' /\ Covers(caller'[p].call, m)
                               /\ CallStamp(caller'[p].call) = Stamp(auth')
      BY <2>2 DEF Covering
    <3>2. ~Newer(Stamp(t), Stamp(t)) BY <2>1, NewerFacts
    <3> QED BY <1>2, <2>1, <3>1, <3>2 DEF Between
  <2>3. CASE auth # Absent /\ View(auth, m) = View(auth', m)
    <3>1. Known(auth) BY <2>3 DEF Known
    <3>2. auth \in Creds /\ Stamp(auth) \in Nat \X Nat /\ Stamp(auth)[1] = epoch /\ Stamp(auth)[2] = auth.gen
      BY <2>3, AuthType
    <3>3. ~Newer(Stamp(s), Stamp(auth))
      <4>1. CASE InFlight(s)
        <5>1. /\ s.epoch \in Nat /\ s.gen \in Nat /\ s.epoch <= epoch
              /\ Stamp(s)[1] = s.epoch /\ Stamp(s)[2] = s.gen
          BY <4>1, FlightType
        <5>2. s.epoch = epoch => s.gen <= auth.gen BY <4>1 DEF StampInv, SnapOK
        <5> QED BY <3>2, <5>1, <5>2 DEF Newer
      <4>2. CASE s = auth BY <3>2, <4>2, NewerFacts
      <4> QED BY <1>2, <4>1, <4>2 DEF Known
    <3>4. View(s, m) = View(auth, m) \/ Between(s, auth, m) BY <1>2, <3>1, <3>3 DEF PairInv
    <3>5. CASE View(s, m) = View(auth, m) BY <1>2, <2>3, <3>5
    <3>6. CASE Between(s, auth, m)
      <4>1. PICK q \in Callers :
              /\ Pending(q) /\ Covers(caller[q].call, m)
              /\ Newer(CallStamp(caller[q].call), Stamp(s))
              /\ ~Newer(CallStamp(caller[q].call), Stamp(auth))
        BY <3>6 DEF Between
      <4> DEFINE c == caller[q].call
      <4>2. HasSnap(c) /\ InFlight(c.snap) BY <4>1 DEF Covers, HasSnap, InFlight
      <4>3. CallStamp(c) = Stamp(c.snap) /\ CallStamp(c) \in Nat \X Nat
        BY <4>2, FlightType DEF CallStamp
      <4>4. Newer(Stamp(t), CallStamp(c)) BY <1>2, <4>2, <4>3 DEF Fresh, Known
      <4>5. ~Newer(CallStamp(c), Stamp(t)) BY <2>1, <4>3, <4>4, NewerFacts
      <4>6. caller'[q].call = c /\ Pending(q)' BY <4>1
      <4> QED BY <4>1, <4>5, <4>6 DEF Between
    <3> QED BY <3>4, <3>5, <3>6
  <2> QED BY <1>2, <2>2, <2>3 DEF Fresh
<1>3. CASE Fresh /\ s = auth' /\ Known(t)
  <2>1. Newer(Stamp(s), Stamp(t)) BY <1>3 DEF Fresh
  <2> QED BY <2>1
<1>4. CASE s = auth' /\ t = auth' BY <1>4
<1> QED BY <1>1, <1>2, <1>3, <1>4

LEMMA PairChanges ==
  ASSUME TypeOK, StampInv, PairInv, NEW p \in Callers, Changes(p)
  PROVE  PairInv'
<1>1. PICK c : NewCall(p, c) /\ (NewSnap(c) \/ NewTombstone(c)) BY DEF Changes
<1>u. UNCHANGED <<now, regVars, version, synced, schedVars, syncer>> BY DEF Changes
<1>2. /\ ~Pending(p) /\ Pending(p)' /\ caller'[p].call = c
      /\ \A q \in Callers \ {p} : caller'[q] = caller[q] /\ Pending(q)' = Pending(q)
      /\ \A s : InFlight(s)' => InFlight(s) \/ (NewSnap(c) /\ s = auth')
  BY <1>1, <1>u, ChangesFlight
<1>3. latest' = latest BY <1>u DEF schedVars
<1>4. \A q \in Callers : Pending(q) => caller'[q] = caller[q] /\ Pending(q)' BY <1>2
<1>5. NewSnap(c) => Fresh
  <2>1. SUFFICES ASSUME NewSnap(c) PROVE Fresh OBVIOUS
  <2>2. /\ auth' \in Creds /\ Stamp(auth') \in Nat \X Nat
        /\ \A s : Known(s) => Newer(Stamp(auth'), Stamp(s))
    BY <2>1, FreshStamp DEF NewSnap
  <2>3. CallStamp(c) = Stamp(auth') BY <2>1 DEF CallStamp, NewSnap
  <2>4. ASSUME NEW m \in Models PROVE Covering(m) \/ (auth # Absent /\ View(auth, m) = View(auth', m))
    <3>1. Covers(c, m) \/ (auth # Absent /\ View(auth, m) = View(auth', m))
      BY <2>1 DEF NewSnap, Covers
    <3> QED BY <1>2, <2>3, <3>1 DEF Covering
  <2> QED BY <2>2, <2>4 DEF Fresh
<1>6. auth' # Absent => NewSnap(c) BY <1>1 DEF NewTombstone
<1>7. \A s : Known(s)' => Known(s) \/ (Fresh /\ s = auth') BY <1>2, <1>5, <1>6 DEF Known
<1> QED BY <1>3, <1>4, <1>7, PairKept

\* Where the scheduler's stamp grows and no snapshot is added, calls that are
\* gone were older than the stamp.
LEMMA PairForward ==
  ASSUME TypeOK, StampInv, PairInv, latest' \in Nat \X Nat, ~Newer(latest, latest'),
         \A s : Known(s)' => Known(s),
         \A q \in Callers : Pending(q) => \/ caller'[q] = caller[q] /\ Pending(q)'
                                          \/ ~Newer(CallStamp(caller[q].call), latest')
  PROVE  PairInv'
<1> SUFFICES ASSUME NEW s, NEW t, NEW m \in Models, Known(s)', Known(t)',
                    ~Newer(latest', Stamp(s)), ~Newer(Stamp(s), Stamp(t))
             PROVE  View(s, m) = View(t, m) \/ Between(s, t, m)'
  BY DEF PairInv
<1>1. Known(s) /\ Known(t) /\ s \in Creds /\ Stamp(s) \in Nat \X Nat /\ latest \in Nat \X Nat
  BY KnownType DEF TypeOK
<1>2. ~Newer(latest, Stamp(s)) BY <1>1, NewerFacts
<1>3. View(s, m) = View(t, m) \/ Between(s, t, m) BY <1>1, <1>2 DEF PairInv
<1>4. ASSUME Between(s, t, m) PROVE Between(s, t, m)'
  <2>1. PICK q \in Callers :
          /\ Pending(q) /\ Covers(caller[q].call, m)
          /\ Newer(CallStamp(caller[q].call), Stamp(s)) /\ ~Newer(CallStamp(caller[q].call), Stamp(t))
    BY <1>4 DEF Between
  <2> DEFINE c == caller[q].call
  <2>2. HasSnap(c) /\ InFlight(c.snap) BY <2>1 DEF Covers, HasSnap, InFlight
  <2>3. CallStamp(c) \in Nat \X Nat BY <2>2, FlightType DEF CallStamp
  <2>4. Newer(CallStamp(c), latest') BY <1>1, <2>1, <2>3, NewerFacts
  <2>5. caller'[q] = caller[q] /\ Pending(q)' BY <2>1, <2>4
  <2> QED BY <2>1, <2>5 DEF Between
<1> QED BY <1>3, <1>4

LEMMA PairApplies ==
  ASSUME TypeOK, StampInv, PairInv, NEW p \in Callers, Applies(p)
  PROVE  PairInv'
<1> DEFINE c == caller[p].call
<1>1. /\ \A q \in Callers \ {p} : caller'[q] = caller[q] /\ Pending(q)' = Pending(q)
      /\ \A s : InFlight(s)' => InFlight(s)
      /\ CallStamp(c) \in Nat \X Nat
  BY AppliesFlight
<1>2. auth' = auth BY DEF Applies, mgrVars
<1>3. \A s : Known(s)' => Known(s) BY <1>1, <1>2 DEF Known
<1>4. latest \in Nat \X Nat BY DEF TypeOK
<1>5. latest' \in Nat \X Nat /\ ~Newer(latest, latest') /\ ~Newer(CallStamp(c), latest')
  <2>1. CASE Dropped(c) BY <1>1, <1>4, <2>1, NewerFacts DEF Dropped
  <2>2. CASE Taken(c) BY <1>1, <1>4, <2>2, NewerFacts DEF Taken
  <2> QED BY <2>1, <2>2 DEF Applies
<1> QED BY <1>1, <1>3, <1>5, PairForward

LEMMA PairRebuilds ==
  ASSUME TypeOK, StampInv, PairInv, Rebuilds
  PROVE  PairInv'
<1>1. \A s : InFlight(s)' => InFlight(s) BY RebuildsFlight
<1>2. auth' = auth /\ caller' = caller BY DEF Rebuilds, mgrVars
<1>3. \A s : Known(s)' => Known(s) BY <1>1, <1>2 DEF Known
<1>4. latest \in Nat \X Nat BY DEF TypeOK
<1>5. latest' \in Nat \X Nat /\ ~Newer(latest, latest') BY <1>4, StampType, NewerFacts DEF Rebuilds
<1>6. \A q \in Callers : Pending(q) => caller'[q] = caller[q] /\ Pending(q)' BY <1>2 DEF Pending
<1> QED BY <1>3, <1>5, <1>6, PairForward

LEMMA PairCalm ==
  ASSUME TypeOK, StampInv, PairInv, Calm
  PROVE  PairInv'
<1>1. /\ \A s : InFlight(s)' => InFlight(s) \/ (auth' = auth /\ auth # Absent /\ s = auth)
      /\ \A q \in Callers : Pending(q) => caller'[q] = caller[q] /\ Pending(q)'
  BY CalmFlight
<1>2. /\ latest' = latest /\ epoch' = epoch
      /\ auth # Absent => /\ auth' \in Creds /\ auth'.epoch = epoch /\ auth'.gen > 0
                          /\ \A m \in Models : View(auth', m) = View(auth, m)
  BY CalmAuth
<1>3. ASSUME auth' # auth PROVE Fresh
  <2>1. auth # Absent /\ auth' = [auth EXCEPT !.gen = @ + 1] BY <1>3 DEF Calm
  <2>2. auth'.gen = auth.gen + 1 BY <2>1, AuthType, NextGen
  <2>3. /\ Stamp(auth') \in Nat \X Nat
        /\ \A s : Known(s) => Newer(Stamp(auth'), Stamp(s))
    BY <1>2, <2>1, <2>2, FreshStamp
  <2> QED BY <1>2, <2>1, <2>3 DEF Fresh
<1>4. \A s : Known(s)' => Known(s) \/ (Fresh /\ s = auth')
  BY <1>1, <1>3 DEF Known
<1> QED BY <1>1, <1>2, <1>4, PairKept

LEMMA PairStep ==
  ASSUME TypeOK, StampInv, PairInv, [Next]_vars
  PROVE  PairInv'
<1>1. ASSUME NEW p \in Callers, Changes(p) PROVE PairInv' BY <1>1, PairChanges
<1>2. ASSUME NEW p \in Callers, Apply(p) PROVE PairInv' BY <1>2, ApplyFacts, PairApplies
<1>3. CASE SyncRebuilds BY <1>3, RebuildFacts, PairRebuilds
<1>4. CASE CalmStep BY <1>4, CalmFacts, PairCalm
<1> QED BY <1>1, <1>2, <1>3, <1>4, Steps

-----------------------------------------------------------------------------
(***************************************************************************)
(* Shards.                                                                 *)
(***************************************************************************)
LEMMA ShardInit == Init => ShardInv
BY DEF Init, ShardInv

LEMMA ShardChanges ==
  ASSUME TypeOK, ShardInv, NEW p \in Callers, Changes(p)
  PROVE  ShardInv'
<1>1. PICK c : NewCall(p, c) /\ (NewSnap(c) \/ NewTombstone(c)) BY DEF Changes
<1>u. UNCHANGED <<now, regVars, version, synced, schedVars, syncer>> BY DEF Changes
<1>2. /\ ~Pending(p)
      /\ \A q \in Callers \ {p} : caller'[q] = caller[q] /\ Pending(q)' = Pending(q)
  BY <1>1, <1>u, ChangesFlight
<1>3. \A m \in Models : Covered(m) => Covered(m)' BY <1>2 DEF Covered
<1>4. UNCHANGED <<meta, shard, overtaken>> BY <1>u DEF schedVars
<1> QED BY <1>3, <1>4 DEF ShardInv

\* Entries of the same models are equal when the snapshots say the same.
LEMMA SameEntry ==
  ASSUME NEW mt \in Metas, NEW nt \in Metas, NEW m \in Models,
         mt.models = nt.models, View(mt.auth, m) = View(nt.auth, m)
  PROVE  Entry(mt, m) = Entry(nt, m)
<1>1. mt # Absent /\ nt # Absent BY SchedulerAssumption
<1>2. /\ mt.auth.epoch = nt.auth.epoch /\ mt.auth.tag = nt.auth.tag
      /\ BlockedUntil(mt.auth, m) = BlockedUntil(nt.auth, m)
  BY DEF View
<1> QED BY <1>1, <1>2 DEF Entry

LEMMA ShardApplies ==
  ASSUME TypeOK, StampInv, SyncInv, PairInv, ShardInv,
         NEW p \in Callers, Applies(p), Rewrites(caller[p].call)
  PROVE  ShardInv'
<1> DEFINE c == caller[p].call
<1>1. /\ \A q \in Callers \ {p} : caller'[q] = caller[q] /\ Pending(q)' = Pending(q)
      /\ HasSnap(c) => InFlight(c.snap) /\ c.snap \in Creds
  BY AppliesFlight
<1> SUFFICES ASSUME meta' # Absent, ~overtaken', NEW m \in Models
             PROVE  shard'[m] \in {Unbuilt, Entry(meta', m)} \/ Covered(m)'
  BY DEF ShardInv
<1>2. ASSUME Covered(m), ~Covers(c, m) PROVE Covered(m)'
  BY <1>1, <1>2 DEF Covered
<1>3. CASE /\ ~HasSnap(c) /\ meta' = meta /\ shard' = shard /\ overtaken' = overtaken
  <2>1. ~Covers(c, m) BY <1>3 DEF HasSnap, Covers
  <2> QED BY <1>2, <1>3, <2>1 DEF ShardInv
<1>4. ASSUME NEW T \in SUBSET Models, Publish(meta', T), m \in T
      PROVE  shard'[m] \in {Unbuilt, Entry(meta', m)}
  BY <1>4 DEF Publish
<1>5. ASSUME NEW T \in SUBSET Models, Publish(meta', T), m \notin T
      PROVE  shard'[m] = shard[m] /\ ~overtaken
  BY <1>5 DEF Publish
<1>6. ASSUME NEW T \in SUBSET Models, Publish(meta', T), meta' = meta, Covers(c, m) => m \in T
      PROVE  shard'[m] \in {Unbuilt, Entry(meta', m)} \/ Covered(m)'
  <2>1. CASE m \in T BY <1>4, <1>6, <2>1
  <2>2. CASE m \notin T
    <3>1. shard'[m] = shard[m] /\ ~overtaken BY <1>5, <1>6, <2>2
    <3>2. shard[m] \in {Unbuilt, Entry(meta, m)} \/ Covered(m) BY <1>6, <3>1 DEF ShardInv
    <3> QED BY <1>2, <1>6, <2>2, <3>1, <3>2
  <2> QED BY <2>1, <2>2
<1>7. ASSUME NEW T \in SUBSET Models, Publish(meta', T), Taken(c), Covers(c, m) => m \in T,
             HasSnap(c), meta # Absent, meta.regEpoch = regEpoch
      PROVE  shard'[m] \in {Unbuilt, Entry(meta', m)} \/ Covered(m)'
  <2>1. CASE m \in T BY <1>4, <1>7, <2>1
  <2>2. CASE m \notin T
    <3>1. shard'[m] = shard[m] /\ ~overtaken BY <1>5, <1>7, <2>2
    <3>2. shard[m] \in {Unbuilt, Entry(meta, m)} \/ Covered(m) BY <1>7, <3>1 DEF ShardInv
    <3>3. meta \in Metas /\ meta.models = models BY <1>7 DEF TypeOK, SyncInv
    <3>4. meta' = Built(c.snap) BY <1>7 DEF Taken
    <3>5. meta' \in Metas /\ meta'.models = models /\ meta'.auth = c.snap
      BY <1>1, <1>7, <3>4, BuiltType
    <3>6. View(meta.auth, m) = View(c.snap, m) \/ Between(meta.auth, c.snap, m)
      <4>1. Known(meta.auth) /\ Known(c.snap) BY <1>1, <1>7 DEF Known, InFlight
      <4>2. latest = Stamp(meta.auth) /\ latest \in Nat \X Nat BY <1>7 DEF StampInv, TypeOK
      <4>3. ~Newer(latest, Stamp(meta.auth)) BY <4>2, NewerFacts
      <4>4. ~Newer(Stamp(meta.auth), Stamp(c.snap)) BY <1>7, <4>2 DEF Taken, CallStamp
      <4> QED BY <4>1, <4>3, <4>4 DEF PairInv
    <3>7. Between(meta.auth, c.snap, m) => Covered(m) BY DEF Between, Covered
    <3>8. CASE Covered(m) BY <1>2, <1>7, <2>2, <3>8
    <3>9. CASE shard[m] \in {Unbuilt, Entry(meta, m)} /\ View(meta.auth, m) = View(c.snap, m)
      <4>1. Entry(meta, m) = Entry(meta', m) BY <3>3, <3>5, <3>9, SameEntry
      <4> QED BY <3>1, <3>9, <4>1
    <3> QED BY <3>2, <3>6, <3>7, <3>8, <3>9
  <2> QED BY <2>1, <2>2
<1>8. CASE Dropped(c) /\ \E T \in SUBSET Models : Publish(meta, T) /\ \A n \in Models : Covers(c, n) => n \in T
  <2>1. PICK T \in SUBSET Models : Publish(meta, T) /\ \A n \in Models : Covers(c, n) => n \in T BY <1>8
  <2>2. meta' = meta /\ Publish(meta', T) BY <1>8, <2>1 DEF Dropped
  <2> QED BY <1>6, <2>1, <2>2
<1>9. CASE /\ Taken(c)
           /\ \E T \in SUBSET Models :
                /\ Publish(meta', T)
                /\ \/ T = Models
                   \/ /\ \A n \in Models : Covers(c, n) => n \in T
                      /\ HasSnap(c) /\ meta # Absent /\ meta' # Absent /\ meta.regEpoch = regEpoch
  BY <1>4, <1>7, <1>9
<1> QED BY <1>3, <1>8, <1>9 DEF Rewrites

LEMMA ShardCalm ==
  ASSUME TypeOK, ShardInv, CalmStep
  PROVE  ShardInv'
<1>c. Calm BY CalmFacts
<1>1. \A q \in Callers : Pending(q) => caller'[q] = caller[q] /\ Pending(q)' BY <1>c, CalmFlight
<1>2. \A m \in Models : Covered(m) => Covered(m)' BY <1>1 DEF Covered
<1>3. meta' = meta /\ overtaken' = overtaken BY <1>c, CalmShards DEF Calm
<1>4. \A m \in Models : shard'[m] = shard[m] \/ shard'[m] = Entry(meta, m) BY CalmShards DEF TypeOK
<1> QED BY <1>2, <1>3, <1>4 DEF ShardInv

LEMMA ShardStep ==
  ASSUME TypeOK, StampInv, SyncInv, PairInv, ShardInv, [Next]_vars
  PROVE  ShardInv'
<1>1. ASSUME NEW p \in Callers, Changes(p) PROVE ShardInv' BY <1>1, ShardChanges
<1>2. ASSUME NEW p \in Callers, Apply(p) PROVE ShardInv' BY <1>2, ApplyFacts, ShardApplies
<1>3. CASE SyncRebuilds BY <1>3, RebuildFacts DEF Rebuilds, ShardInv
<1>4. CASE CalmStep BY <1>4, ShardCalm
<1> QED BY <1>1, <1>2, <1>3, <1>4, Steps

-----------------------------------------------------------------------------
(***************************************************************************)
(* The inductive invariant and what follows from it once no call is under  *)
(* way.                                                                    *)
(***************************************************************************)
SchedulerInv == TypeOK /\ StampInv /\ SyncInv /\ ToldInv /\ PairInv /\ ShardInv

LEMMA Inductive == Spec => []SchedulerInv
<1>1. Init => SchedulerInv
  BY TypeInit, StampInit, SyncInit, ToldInit, PairInit, ShardInit DEF SchedulerInv
<1>2. SchedulerInv /\ [Next]_vars => SchedulerInv'
  BY TypeStep, StampStep, SyncStep, ToldStep, PairStep, ShardStep DEF SchedulerInv
<1> QED BY <1>1, <1>2, PTL DEF Spec

LEMMA AtRest ==
  ASSUME SchedulerInv, Settled
  PROVE  /\ latest[1] = epoch
         /\ meta # Absent => Active(auth) /\ Data(meta.auth) = Data(auth)
         /\ Active(auth) /\ meta = Absent => version # synced
         /\ \A m \in Models : ~Covered(m)
<1>1. \A p \in Callers : ~Pending(p) BY DEF Settled, Idle, Pending
<1>2. PICK x \in Nat \X Nat : ToldAt(x) BY DEF SchedulerInv, ToldInv
<1>3. x[1] = epoch /\ Agreed(x) /\ ~Newer(x, latest) /\ (Lost => version # synced)
  BY <1>1, <1>2 DEF ToldAt
<1>4. latest \in Nat \X Nat /\ epoch \in Nat /\ latest[1] <= epoch
  BY DEF SchedulerInv, TypeOK, StampInv
<1>5. latest[1] = epoch BY <1>3, <1>4 DEF Newer
<1>6. ASSUME meta # Absent PROVE Active(auth) /\ Data(meta.auth) = Data(auth)
  <2>1. InFlight(meta.auth) BY <1>6 DEF InFlight
  <2>2. latest = Stamp(meta.auth) /\ ~meta.auth.disabled BY <1>6 DEF SchedulerInv, StampInv
  <2>3. auth # Absent /\ Data(meta.auth) = Data(auth) BY <1>3, <2>1, <2>2 DEF Agreed
  <2>4. meta.auth \in Creds /\ auth \in Creds
    BY <1>6, <2>3 DEF SchedulerInv, TypeOK, Metas
  <2>5. ~auth.disabled BY <2>2, <2>3, <2>4, DataFacts
  <2> QED BY <2>3, <2>5 DEF Active
<1>7. \A m \in Models : ~Covered(m) BY <1>1 DEF Covered
<1> QED BY <1>3, <1>5, <1>6, <1>7 DEF Lost

\* A credential that was removed or disabled is out of the scheduler once the
\* calls have been applied, in whatever order they came and whatever snapshot a
\* rebuild started from.
THEOREM RemovedOut == Spec => []RemovedStaysOut
<1>1. SchedulerInv => RemovedStaysOut
  <2>1. SUFFICES ASSUME SchedulerInv, Settled, ~Active(auth)
                 PROVE  meta = Absent /\ \A m \in Models : shard[m] \in {Absent, Unbuilt}
    BY DEF RemovedStaysOut
  <2>2. meta = Absent BY <2>1, AtRest
  <2> QED BY <2>1, <2>2 DEF SchedulerInv, SyncInv
<1> QED BY <1>1, Inductive, PTL

\* At rest the scheduler holds the manager's newest state of the credential and
\* its registered models, or the next pick synchronises.
THEOREM HoldsNewest == Spec => []SchedulerCurrent
<1>1. SchedulerInv => SchedulerCurrent
  <2>1. SUFFICES ASSUME SchedulerInv, Quiet
                 PROVE  IF NeedsSync THEN version # synced
                        ELSE Active(auth) => Data(meta.auth) = Data(auth) /\ meta.models = models
    BY DEF SchedulerCurrent
  <2>2. /\ latest[1] = epoch
        /\ meta # Absent => Active(auth) /\ Data(meta.auth) = Data(auth)
        /\ Active(auth) /\ meta = Absent => version # synced
    BY <2>1, AtRest DEF Quiet
  <2>3. Active(auth) => auth.epoch = epoch BY <2>1 DEF SchedulerInv, StampInv, Active
  <2>4. meta # Absent => /\ meta.regEpoch = regEpoch => meta.models = models
                         /\ meta.regEpoch # regEpoch => version # synced
    BY <2>1 DEF SchedulerInv, SyncInv
  <2>5. CASE NeedsSync
    <3>1. CASE meta = Absent
      <4>1. Active(auth) BY <2>5, <3>1 DEF NeedsSync, Active
      <4> QED BY <2>2, <2>5, <3>1, <4>1
    <3>2. CASE meta # Absent
      <4>1. meta.regEpoch # regEpoch BY <2>2, <2>3, <2>5, <3>2 DEF NeedsSync
      <4> QED BY <2>4, <2>5, <3>2, <4>1
    <3> QED BY <3>1, <3>2
  <2>6. CASE ~NeedsSync
    <3>1. SUFFICES ASSUME Active(auth)
                   PROVE  Data(meta.auth) = Data(auth) /\ meta.models = models
      BY <2>6
    <3>2. meta # Absent /\ meta.regEpoch = regEpoch BY <2>6, <3>1 DEF NeedsSync
    <3> QED BY <2>2, <2>4, <3>2
  <2> QED BY <2>5, <2>6
<1> QED BY <1>1, Inductive, PTL

\* At rest every shard has the credential exactly if it serves the shard's model,
\* blocked as long as the manager says, unless a whole snapshot was overtaken.
THEOREM ShardsAgree == Spec => []ShardsCurrent
<1>1. SchedulerInv => ShardsCurrent
  <2>1. SUFFICES ASSUME SchedulerInv, Quiet, ~NeedsSync, ~overtaken, Active(auth),
                        NEW m \in Models, shard[m] # Unbuilt
                 PROVE  IF m \in models
                        THEN /\ shard[m] # Absent
                             /\ shard[m].epoch = auth.epoch /\ shard[m].tag = auth.tag
                             /\ Larger(shard[m].until, now) = Larger(BlockedUntil(auth, m), now)
                        ELSE shard[m] = Absent
    BY DEF ShardsCurrent
  <2>2. meta # Absent /\ meta.regEpoch = regEpoch BY <2>1 DEF NeedsSync
  <2>3. Data(meta.auth) = Data(auth) /\ ~Covered(m) BY <2>1, <2>2, AtRest DEF Quiet
  <2>4. meta \in Metas /\ meta.models = models /\ auth \in Creds
    BY <2>1, <2>2 DEF SchedulerInv, SyncInv, TypeOK, Active
  <2>5. meta.auth \in Creds BY <2>4 DEF Metas
  <2>6. shard[m] = Entry(meta, m) BY <2>1, <2>2, <2>3 DEF SchedulerInv, ShardInv
  <2>7. View(meta.auth, m) = View(auth, m) BY <2>3, <2>4, <2>5, DataView
  <2>8. CASE m \in models
    <3>1. shard[m] = [epoch |-> meta.auth.epoch, tag |-> meta.auth.tag, until |-> BlockedUntil(meta.auth, m)]
      BY <2>2, <2>4, <2>6, <2>8 DEF Entry
    <3>2. shard[m] # Absent
      <4>1. meta.auth.epoch \in Nat /\ meta.auth.tag \in Nat /\ BlockedUntil(meta.auth, m) \in Int
        BY <2>5, LargerType DEF Creds, BlockedUntil
      <4>2. shard[m] \in Entries BY <3>1, <4>1 DEF Entries
      <4> QED BY <4>2, SchedulerAssumption
    <3> QED BY <2>7, <2>8, <3>1, <3>2 DEF View
  <2>9. CASE m \notin models BY <2>4, <2>6, <2>9 DEF Entry
  <2> QED BY <2>8, <2>9
<1> QED BY <1>1, Inductive, PTL
=============================================================================
