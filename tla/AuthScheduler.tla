---------------------------- MODULE AuthScheduler ----------------------------
(***************************************************************************)
(* How a credential's state reaches the scheduler that picks credentials   *)
(* (sdk/cliproxy/auth/scheduler.go).  Every operation changes the          *)
(* credential under Manager.mu, takes a snapshot, gives the lock back and  *)
(* only then applies the snapshot under the scheduler's own mutex, so      *)
(* snapshots arrive in any order; the registration epoch and the           *)
(* generation tell an old one from a new one.  A synchronisation rebuilds  *)
(* the scheduler from a snapshot of all credentials, taken earlier too.    *)
(*                                                                         *)
(* The model follows ONE credential: every map is keyed by it.  Its        *)
(* provider has other credentials, so the provider's entry always exists.  *)
(* What results and quotas do to a model's state is its cooldown deadline  *)
(* (0: none); the priorities, weights and tokens that an update may change *)
(* are one number, tag.                                                    *)
(***************************************************************************)
EXTENDS Integers, FiniteSets

CONSTANTS
  Models,     \* models of the provider
  Callers,    \* goroutines that operate on the credential
  MaxOps,     \* bound on their operations
  MaxSyncs,   \* bound on synchronisations
  MaxTime,    \* bound on the clock
  Absent, Unbuilt

\* A credential as the manager keeps it, what the scheduler keeps of one, and
\* what a shard keeps of that.
Creds == [epoch : Nat, gen : Nat, disabled : BOOLEAN, tag : Nat, quota : Int,
          state : [Models -> Int], unavailable : BOOLEAN]
Metas == [auth : Creds, models : SUBSET Models, regEpoch : Nat]
Entries == [epoch : Nat, tag : Nat, until : Int]

ASSUME SchedulerAssumption ==
  /\ {MaxOps, MaxSyncs, MaxTime} \subseteq Nat
  /\ IsFiniteSet(Models) /\ Absent # Unbuilt
  /\ Absent \notin Creds \cup Metas \cup Entries /\ Unbuilt \notin Entries

VARIABLES
  now,        \* the clock
  auth,       \* the credential in Manager.auths, or Absent
  epoch,      \* Manager.authEpochs
  models,     \* the models registered for it in the model registry, ...
  regEpoch,   \* ... and the epoch of that registration
  version,    \* currentVersion: structural changes of manager and registry
  synced,     \* Manager.syncedVersion
  meta,       \* providerScheduler.auths: what the scheduler holds, or Absent
  latest,     \* authScheduler.authGenerations: the newest epoch and generation seen
  shard,      \* model -> its shard's entry; Absent: none; Unbuilt: no shard yet
  caller,     \* caller -> where it is and the scheduler call it has to make
  syncer,     \* the goroutine in checkAndSyncScheduler
  left,       \* operations and synchronisations the bounds still allow
  overtaken   \* history: a whole snapshot was dropped and its shards not rewritten since

mgrVars == <<auth, epoch>>
regVars == <<models, regEpoch>>
schedVars == <<meta, latest, shard, overtaken>>
vars == <<now, mgrVars, regVars, version, synced, schedVars, caller, syncer, left>>

Larger(a, b) == IF a > b THEN a ELSE b

\* A model without a state yet has deadline -1.
Deadlines == 0 .. MaxTime + 1
NoCall == [kind |-> "none", snap |-> Absent, target |-> {}, scoped |-> FALSE, epoch |-> 0]
Idle == [pc |-> "idle", bump |-> FALSE, call |-> NoCall]
SyncIdle == [pc |-> "idle", ver |-> 0, snap |-> Absent]

Registered(e, d) ==
  [epoch |-> e, gen |-> 1, disabled |-> d, tag |-> 0, quota |-> 0,
   state |-> [m \in Models |-> -1], unavailable |-> FALSE]

Active(a) == a # Absent /\ ~a.disabled

Init ==
  /\ now = 0
  /\ auth = Registered(1, FALSE) /\ epoch = 1
  /\ models \in {Models, {}} /\ regEpoch = 1
  /\ version = 1 /\ synced = 1
  /\ meta = [auth |-> auth, models |-> models, regEpoch |-> 1]
  /\ latest = <<1, 1>>
  /\ shard = [m \in Models |-> Unbuilt]
  /\ caller = [p \in Callers |-> Idle]
  /\ syncer = SyncIdle
  /\ left = [ops |-> MaxOps, syncs |-> MaxSyncs]
  /\ overtaken = FALSE

----------------------------------------------------------------------------
\* The credential's own state.

HasState(a) == {m \in Models : a.state[m] >= 0}

\* updateAggregatedAvailability: out of service as a whole when every model with
\* a state is, or while a quota of the whole credential lasts.
Aggregated(a) ==
  [a EXCEPT !.unavailable =
     \/ a.quota > now
     \/ HasState(a) # {} /\ \A m \in HasState(a) : a.state[m] > now]

\* isAuthBlockedForModel, as the time until which it holds.
BlockedUntil(a, m) == Larger(a.quota, a.state[m])

\* isCredentialBlocked.
CredentialBlocked(a, n) ==
  \/ a.disabled \/ a.quota > now
  \/ HasState(a) # {} /\ Cardinality(HasState(a)) >= n /\ a.unavailable

Cleared(a) ==
  [a EXCEPT !.quota = 0, !.unavailable = FALSE,
            !.state = [m \in Models |-> IF @[m] >= 0 THEN 0 ELSE @[m]]]

----------------------------------------------------------------------------
\* Operations: the change and the snapshot, in one section of Manager.mu under
\* the credential's mutation gate.  The scheduler is called afterwards.

Begin(p) ==
  /\ caller[p] = Idle /\ left.ops > 0
  /\ left' = [left EXCEPT !.ops = @ - 1]

Whole(a) == [NoCall EXCEPT !.kind = "whole", !.snap = a]

Call(p, c, bump) == caller' = [caller EXCEPT ![p] = [pc |-> "apply", bump |-> bump, call |-> c]]

Register(p, d) ==
  /\ Begin(p)
  /\ epoch' = epoch + 1
  /\ auth' = Registered(epoch + 1, d)
  /\ Call(p, Whole(auth'), TRUE)
  /\ UNCHANGED <<now, regVars, version, synced, schedVars, syncer>>

Update(p, d) ==
  /\ Begin(p) /\ auth # Absent
  /\ auth' = [(IF d THEN Cleared(auth) ELSE auth) EXCEPT !.gen = @ + 1, !.tag = @ + 1, !.disabled = d]
  /\ Call(p, Whole(auth'), TRUE)
  /\ UNCHANGED <<now, epoch, regVars, version, synced, schedVars, syncer>>

RemoveIf(p) ==
  /\ Begin(p) /\ auth # Absent
  /\ epoch' = epoch + 1
  /\ auth' = Absent
  /\ Call(p, [NoCall EXCEPT !.kind = "tombstone", !.epoch = epoch + 1], TRUE)
  /\ UNCHANGED <<now, regVars, version, synced, schedVars, syncer>>

\* MarkResult: a success or a failure moves the model's deadline, or leaves it;
\* one that rejects the token concerns every shard.  A quota of the whole
\* credential reaches every model that has a state.
MarkResult(p, m, d, rejects) ==
  /\ Begin(p) /\ auth # Absent
  /\ d < 0 => auth.state[m] < 0
  /\ auth' = Aggregated([auth EXCEPT !.gen = @ + 1, !.state[m] = d])
  /\ Call(p, [NoCall EXCEPT !.kind = "result", !.snap = auth', !.scoped = rejects,
                             !.target = IF rejects THEN {} ELSE {m}], FALSE)
  /\ UNCHANGED <<now, epoch, regVars, version, synced, schedVars, syncer>>

MarkQuota(p, m, d) ==
  /\ Begin(p) /\ auth # Absent /\ d > now
  /\ auth' = Aggregated([auth EXCEPT !.gen = @ + 1, !.quota = Larger(@, d),
               !.state = [n \in Models |-> IF n = m \/ @[n] >= 0 THEN Larger(@[n], d) ELSE @[n]]])
  /\ Call(p, [NoCall EXCEPT !.kind = "result", !.snap = auth', !.scoped = TRUE], FALSE)
  /\ UNCHANGED <<now, epoch, regVars, version, synced, schedVars, syncer>>

\* A usage limit blocks all of the credential's registered models until d, but
\* for the ones that an earlier usage limit blocks as long anyway.
MarkUsageExhausted(p, d) ==
  /\ Begin(p) /\ auth # Absent /\ d > now
  /\ \E kept \in SUBSET {m \in models : auth.state[m] >= d} :
       /\ kept # models
       /\ auth' = Aggregated([auth EXCEPT !.gen = @ + 1,
               !.state = [m \in Models |-> IF m \in models \ kept THEN d ELSE @[m]]])
  /\ Call(p, Whole(auth'), FALSE)
  /\ UNCHANGED <<now, epoch, regVars, version, synced, schedVars, syncer>>

ResetQuota(p) ==
  /\ Begin(p) /\ auth # Absent
  /\ auth' = [Cleared(auth) EXCEPT !.gen = @ + 1]
  /\ Call(p, Whole(auth'), FALSE)
  /\ UNCHANGED <<now, epoch, regVars, version, synced, schedVars, syncer>>

\* markRefreshPending: a new generation that the scheduler is not told of.
MarkRefreshPending(p) ==
  /\ Begin(p) /\ auth # Absent
  /\ auth' = [auth EXCEPT !.gen = @ + 1]
  /\ UNCHANGED <<now, epoch, regVars, version, synced, schedVars, caller, syncer>>

\* The models registered for the credential change; after a registration the
\* service asks for a refresh of the scheduler's entry.
RegisterModels(p, S) ==
  /\ Begin(p)
  /\ models' = S /\ regEpoch' = regEpoch + 1
  /\ version' = version + 1
  /\ caller' = [caller EXCEPT ![p].pc = IF S = {} THEN "idle" ELSE "refresh"]
  /\ UNCHANGED <<now, mgrVars, synced, schedVars, syncer>>

\* RefreshSchedulerEntry announces the structural change before it calls.
RefreshSchedulerEntry(p) ==
  /\ caller[p].pc = "refresh"
  /\ IF auth = Absent
     THEN caller' = [caller EXCEPT ![p] = Idle] /\ UNCHANGED version
     ELSE Call(p, Whole(auth), FALSE) /\ version' = version + 1
  /\ UNCHANGED <<now, mgrVars, regVars, synced, schedVars, syncer, left>>

----------------------------------------------------------------------------
\* The scheduler, under its mutex.

Built(a) == [auth |-> a, models |-> models, regEpoch |-> regEpoch]

\* upsertEntryLocked: what the shard of m keeps of the credential.
Entry(mt, m) ==
  IF mt # Absent /\ m \in mt.models
  THEN [epoch |-> mt.auth.epoch, tag |-> mt.auth.tag, until |-> BlockedUntil(mt.auth, m)]
  ELSE Absent

\* upsertAuthForModelsLocked, removeAuthLocked: the shards of the target models.
Publish(mt, target) ==
  /\ meta' = mt
  /\ shard' = [m \in Models |-> IF m \in target /\ shard[m] # Unbuilt THEN Entry(mt, m) ELSE shard[m]]
  /\ overtaken' = (overtaken /\ target # Models)

Stamp(a) == <<a.epoch, a.gen>>
Newer(x, y) == x[1] > y[1] \/ (x[1] = y[1] /\ x[2] > y[2])

\* MUTANT: snapshots are applied in the order they arrive.
NeverStale(a) == FALSE

\* isStaleScheduledAuth.
Stale(a) == Newer(latest, Stamp(a))

Keep == UNCHANGED <<meta, latest, shard>>

\* upsertAuthLifecycleLocked.
UpsertWhole(a) ==
  IF Stale(a) THEN Keep /\ overtaken' = TRUE
  ELSE /\ latest' = Stamp(a)
       /\ Publish(IF a.disabled THEN Absent ELSE Built(a), Models)

\* MUTANT: a result that comes late is dropped.
UpsertLateDropped(c) == Keep /\ UNCHANGED overtaken

\* A result that comes late still has its shards brought up to date.
UpsertLate(c) ==
  /\ UNCHANGED latest
  /\ IF meta = Absent THEN UNCHANGED <<meta, shard, overtaken>>
     ELSE Publish(meta, IF c.scoped THEN Models ELSE c.target)

\* upsertAuthResultLocked.
UpsertResult(c) ==
  LET a == c.snap
      same == meta # Absent /\ meta.models # {} /\ meta.regEpoch = regEpoch
      mt == Built(a)
      was == meta # Absent /\ CredentialBlocked(meta.auth, Cardinality(mt.models))
      changed == was # CredentialBlocked(a, Cardinality(mt.models))
  IN IF Stale(a) THEN UpsertLate(c)
     ELSE /\ latest' = Stamp(a)
          /\ IF a.disabled THEN Publish(Absent, Models)
             ELSE Publish(mt, IF ~same \/ c.scoped \/ changed THEN Models ELSE c.target)

\* recordRemovalTombstoneLocked.
RecordRemovalTombstone(e) ==
  IF e < latest[1] THEN Keep /\ UNCHANGED overtaken
  ELSE latest' = <<e, 0>> /\ Publish(Absent, Models)

Apply(p) ==
  /\ caller[p].pc = "apply"
  /\ LET c == caller[p].call
     IN CASE c.kind = "whole" -> UpsertWhole(c.snap)
          [] c.kind = "result" -> UpsertResult(c)
          [] OTHER -> RecordRemovalTombstone(c.epoch)
  /\ caller' = [caller EXCEPT ![p] = IF @.bump THEN [Idle EXCEPT !.pc = "bump"] ELSE Idle]
  /\ UNCHANGED <<now, mgrVars, regVars, version, synced, syncer, left>>

\* Register, Update and RemoveIf announce the structural change after the call.
Bump(p) ==
  /\ caller[p].pc = "bump"
  /\ version' = version + 1
  /\ caller' = [caller EXCEPT ![p] = Idle]
  /\ UNCHANGED <<now, mgrVars, regVars, synced, schedVars, syncer, left>>

\* A pick builds the shard of its model from what the scheduler holds.
EnsureModel(m) ==
  /\ shard[m] = Unbuilt
  /\ shard' = [shard EXCEPT ![m] = Entry(meta, m)]
  /\ UNCHANGED <<now, mgrVars, regVars, version, synced, meta, latest, overtaken, caller, syncer, left>>

----------------------------------------------------------------------------
\* checkAndSyncScheduler, one at a time under syncSchedulerMu.

NeedsSync ==
  \/ Active(auth) # (meta # Absent)
  \/ Active(auth) /\ (latest[1] # auth.epoch \/ meta.regEpoch # regEpoch)

SyncTo(pc) == syncer' = [syncer EXCEPT !.pc = pc]

\* advanceSyncedVersion.
Synced == synced' = Larger(synced, syncer.ver) /\ syncer' = SyncIdle

SyncBegins ==
  /\ syncer.pc = "idle" /\ left.syncs > 0 /\ version # synced
  /\ left' = [left EXCEPT !.syncs = @ - 1]
  /\ syncer' = [pc |-> "check", ver |-> version, snap |-> Absent]
  /\ UNCHANGED <<now, mgrVars, regVars, version, synced, schedVars, caller>>

SyncChecks ==
  /\ syncer.pc = "check"
  /\ IF NeedsSync THEN SyncTo("snapshot") /\ UNCHANGED synced ELSE Synced
  /\ UNCHANGED <<now, mgrVars, regVars, version, schedVars, caller, left>>

SyncSnapshots ==
  /\ syncer.pc = "snapshot"
  /\ syncer' = [syncer EXCEPT !.pc = "rebuild", !.snap = auth]
  /\ UNCHANGED <<now, mgrVars, regVars, version, synced, schedVars, caller, left>>

\* MUTANT: the snapshot is scheduled whatever the scheduler has seen since.
RebuildFromOld(a) == a

\* upsertAuthRebuildLocked: what of the snapshot and of the state it replaces is
\* scheduled; a removal or a newer generation seen since the snapshot prevails.
RebuildFrom(a) ==
  IF a = Absent \/ latest[1] > a.epoch THEN Absent
  ELSE IF ~Stale(a) THEN a
  ELSE IF meta = Absent THEN Absent ELSE meta.auth

\* rebuild starts from nothing, shards included.
SyncRebuilds ==
  /\ syncer.pc = "rebuild"
  /\ LET a == RebuildFrom(syncer.snap)
     IN /\ meta' = IF Active(a) THEN Built(a) ELSE Absent
        /\ latest' = IF Active(a) /\ ~Stale(a) THEN Stamp(a) ELSE latest
  /\ shard' = [m \in Models |-> Unbuilt]
  /\ overtaken' = FALSE
  /\ SyncTo("recheck")
  /\ UNCHANGED <<now, mgrVars, regVars, version, synced, caller, left>>

SyncRechecks ==
  /\ syncer.pc = "recheck"
  /\ IF NeedsSync THEN syncer' = SyncIdle /\ UNCHANGED synced ELSE Synced
  /\ UNCHANGED <<now, mgrVars, regVars, version, schedVars, caller, left>>

----------------------------------------------------------------------------
Tick == now < MaxTime /\ now' = now + 1
        /\ UNCHANGED <<mgrVars, regVars, version, synced, schedVars, caller, syncer, left>>

Operation(p) ==
  \/ \E d \in BOOLEAN : Register(p, d) \/ Update(p, d)
  \/ RemoveIf(p) \/ ResetQuota(p) \/ MarkRefreshPending(p)
  \/ \E m \in Models, d \in Deadlines \cup {-1} :
       MarkQuota(p, m, d) \/ \E rejects \in BOOLEAN : MarkResult(p, m, d, rejects)
  \/ \E d \in Deadlines : MarkUsageExhausted(p, d)
  \/ \E S \in SUBSET Models : RegisterModels(p, S)

Sync == SyncBegins \/ SyncChecks \/ SyncSnapshots \/ SyncRebuilds \/ SyncRechecks

Next ==
  \/ \E p \in Callers : Operation(p) \/ RefreshSchedulerEntry(p) \/ Apply(p) \/ Bump(p)
  \/ \E m \in Models : EnsureModel(m)
  \/ Sync \/ Tick

Spec == Init /\ [][Next]_vars

----------------------------------------------------------------------------
Settled == \A p \in Callers : caller[p] = Idle
Quiet == Settled /\ syncer = SyncIdle

\* What selection depends on; a generation alone does not matter.
Data(a) == [a EXCEPT !.gen = 0]

\* Tombstones, generations and the rebuild's second look at both: once every
\* call has been applied, in whatever order, a credential that was removed or
\* disabled is out of the scheduler, even while a rebuild from an older
\* snapshot is under way.
RemovedStaysOut ==
  Settled /\ ~Active(auth) => meta = Absent /\ \A m \in Models : shard[m] \in {Absent, Unbuilt}

\* Once nothing is under way the scheduler holds the manager's newest state of
\* the credential.  A rebuild may lose a credential registered after its
\* snapshot was taken, but never unnoticed: the version is then not marked
\* synchronised, so that the next pick that finds nothing synchronises again.
SchedulerCurrent ==
  Quiet => IF NeedsSync THEN version # synced
           ELSE Active(auth) => Data(meta.auth) = Data(auth) /\ meta.models = models

\* The shards, which picks read, agree with the manager: every model's shard
\* has the credential exactly if it serves the model, blocked exactly as long
\* as the manager says, however results for different models, quotas, blocks,
\* resets and registrations overtake each other.  Left out is a snapshot of all
\* models that was overtaken and dropped: upsertAuthLifecycleLocked leaves the
\* shards of the other models behind then.
ShardsCurrent ==
  Quiet /\ ~NeedsSync /\ ~overtaken /\ Active(auth) =>
    \A m \in Models : shard[m] # Unbuilt =>
      IF m \in models
      THEN /\ shard[m] # Absent
           /\ shard[m].epoch = auth.epoch /\ shard[m].tag = auth.tag
           /\ Larger(shard[m].until, now) = Larger(BlockedUntil(auth, m), now)
      ELSE shard[m] = Absent

\* MarkUsageExhausted: "a block must advance the generation to survive a
\* MarkResult racing in between" (usage_exhaustion.go:92).  What picks read is
\* blocked whenever the manager says so.  Does not hold (AuthSchedulerBlock.cfg):
\* the result of another model, applied first, has the newer generation and
\* rewrites its own shard only; the block is then dropped as old.
BlockSurvives ==
  Quiet /\ ~NeedsSync /\ Active(auth) =>
    \A m \in models : shard[m] \notin {Unbuilt, Absent} =>
      (BlockedUntil(auth, m) > now => shard[m].until > now)
=============================================================================
