--------------------------- MODULE WatcherDispatch ---------------------------
(***************************************************************************)
(* How a credential file on disk reaches the running service.              *)
(* internal/watcher turns file events and full scans into updates stamped  *)
(* with a revision; the dispatch loop hands them to the service, which     *)
(* applies them to the credential manager (sdk/cliproxy/service_auth.go).  *)
(*                                                                         *)
(* The model follows ONE credential and its file: every map involved       *)
(* (hashes, current credentials, revisions, pending updates, claimed       *)
(* revisions) is keyed by the credential or its path, so credentials do    *)
(* not meet.  Four goroutines work on it at once:                          *)
(*   "events"    the fsnotify loop (handleEvent)                           *)
(*   "scan"      a configuration reload (reloadClients, refreshAuthState)  *)
(*   "consumer"  consumeAuthUpdates                                        *)
(*   "hook"      a management request that saved the file itself and then  *)
(*               runs the post-persist hook (runtimeAuthSyncHook)          *)
(* The world around them edits the file, and the manager rewrites it when  *)
(* it refreshes the credential.                                            *)
(***************************************************************************)
EXTENDS Integers, Sequences

CONSTANTS
    Absent,      \* no file, no credential, no recorded hash
    Torn,        \* a file that is there but cannot be parsed (half written)
    Nobody,      \* a free mutex
    QueueCap,    \* capacity of Service.authUpdates (256 in the code)
    MaxEdits,    \* bound: edits of the file from outside
    MaxSaves,    \* bound: files rewritten by a refresh of the manager
    MaxHooks,    \* bound: management requests
    MaxScans     \* bound: configuration reloads

\* The contents of a well-formed file are numbered in the order they are written:
\* no write restores the exact bytes of an earlier one (tokens and times differ).
Body == 1..(1 + MaxEdits + MaxSaves + MaxHooks)

Proc == {"events", "scan", "consumer", "hook"}

\* A credential read from a file is bound to the content it was read from
\* ("ok"; "bad" once discarded); one handed over by the manager ("none") carries
\* the manager's stamp instead.
Auths == [body : Body, snap : {"ok", "bad", "none"}, stamp : Nat]

ASSUME WatcherAssumption ==
    /\ Absent \notin Nat \cup Auths /\ Torn \notin Nat /\ Absent # Torn
    /\ Nobody \notin Proc
    /\ QueueCap \in Nat \ {0}
    /\ {MaxEdits, MaxSaves, MaxHooks, MaxScans} \subseteq Nat

VARIABLES
    disk,       \* the file: a body, Torn or Absent
    events,     \* file events not handled yet: "write" | "remove"
    w,          \* the watcher's maps under clientsMutex, at this credential: the hash of the
                \* file (Torn once forgotten), whether the file's entry lists the credential,
                \* the current credential, one set aside by a reload, its revision and the
                \* revision of the last persisted update, and whether the running scan has
                \* been overtaken by an event and an earlier removal is remembered
    scan,       \* what the running scan remembers: [rev, force, found, reread]
    proc,       \* per goroutine: [pc, data, old, upd]; old: its entry listed the credential
    rescanMu,   \* holder of authRescanMu
    updateMu,   \* holder of Service.authUpdateMu
    pending,    \* pendingUpdates: the newest update not taken yet
    batch,      \* what the dispatch loop is sending
    queue,      \* Service.authUpdates
    claimed,    \* Service.authRevisions: the last revision the service took
    mgr,        \* the manager's credential, or Absent
    stamp,      \* the manager's registration epoch and generation, as one order
    left,       \* operations the bounds still allow
    away,       \* history: the number of the next content when the file was last without
                \* the credential
    gone,       \* history: the file was without the credential since what the manager
                \* registered was written
    missed,     \* history: a change that the watcher leaves to the next scan
    void,       \* the contents that are valid JSON but do not hold the credential
    unsaved,    \* history: what the manager took without writing it to the file as it is now
    late        \* history: revisions of removals decided from a content already replaced

vars == <<disk, events, w, scan, proc, rescanMu, updateMu, pending, batch, queue,
          claimed, mgr, stamp, left, away, gone, missed, void, unsaved, late>>

Auth(b, snap, st) == [body |-> b, snap |-> snap, stamp |-> st]
Snapshot(b) == Auth(b, "ok", 0)
SameFileSnapshot(a, b) == a.snap = "ok" /\ b.snap = "ok" /\ a.body = b.body

\* authEqual: the same content, and not a snapshot that has been discarded.
authEqual(a, b) ==
    /\ a.body = b.body
    /\ a.snap # "none" /\ b.snap # "none" => SameFileSnapshot(a, b)

Put(a, r)    == [kind |-> "put", auth |-> a, removal |-> FALSE, rev |-> r]
Drop(m, r)   == [kind |-> "drop", auth |-> Absent, removal |-> m, rev |-> r]
Nothing      == [kind |-> "none", auth |-> Absent, removal |-> FALSE, rev |-> 0]
Idle         == [pc |-> "idle", data |-> Absent, old |-> FALSE, upd |-> Nothing]
Known        == w.hash # Absent

Goto(p, to) == proc' = [proc EXCEPT ![p].pc = to]
Free(mu, p) == IF mu = p THEN Nobody ELSE mu

\* The goroutine has finished what it was doing and gives its mutexes back.
Return(p) ==
    /\ proc' = [proc EXCEPT ![p] = Idle]
    /\ rescanMu' = Free(rescanMu, p)
    /\ updateMu' = Free(updateMu, p)

Init ==
    /\ disk \in {1, Absent}
    /\ events = <<>>
    /\ w = [hash |-> disk, indexed |-> disk # Absent, reload |-> Absent,
            current |-> IF disk = Absent THEN Absent ELSE Snapshot(disk),
            rev |-> 1, persisted |-> 0, touched |-> FALSE, removed |-> FALSE]
    /\ scan = [rev |-> 0, force |-> FALSE, found |-> Absent, reread |-> FALSE]
    /\ proc = [p \in Proc |-> Idle]
    /\ rescanMu = Nobody /\ updateMu = Nobody
    /\ pending = Nothing /\ batch = <<>> /\ queue = <<>>
    /\ claimed = 1
    /\ mgr = IF disk = Absent THEN Absent ELSE Auth(disk, "none", 1)
    /\ stamp = 1
    /\ left = [edit |-> MaxEdits, save |-> MaxSaves, hook |-> MaxHooks, scan |-> MaxScans]
    /\ away = 1 /\ gone = (disk = Absent) /\ missed = FALSE
    /\ void = {} /\ unsaved = {} /\ late = {}

----------------------------------------------------------------------------
\* The content of the next write.
New == 2 + (MaxEdits - left.edit) + (MaxSaves - left.save) + (MaxHooks - left.hook)

\* There is no file, or one that yields no such credential.
Without(b) == b = Absent \/ b \in void

\* The file changes; fsnotify reports it.
Changes(b, without) ==
    /\ disk' = b
    /\ events' = Append(events, IF b = Absent THEN "remove" ELSE "write")
    /\ void' = IF without THEN void \cup ({b} \ {Absent}) ELSE void
    /\ away' = (IF without THEN New ELSE away) /\ gone' = (gone \/ without)
    /\ unsaved' = {}

\* Somebody edits or removes the file.  The new content may be one that yields no
\* credential or others instead (no type, an invalid weight, what a plugin makes of
\* it).  The watcher cannot tell an edit it has handled from an older content that
\* a request hands it afterwards.
Edit(b, without) ==
    /\ left.edit > 0 /\ b # disk
    /\ b = Absent => without
    /\ b = Torn => ~without
    /\ left' = [left EXCEPT !.edit = @ - 1]
    /\ Changes(b, without)
    /\ missed' = (missed \/ proc["hook"].pc \in {"readback", "persisted"})
    /\ UNCHANGED <<w, scan, proc, rescanMu, updateMu, pending, batch, queue, claimed, mgr, stamp, late>>

\* The updates under way, wherever they are.
Carried == {proc[p].upd : p \in Proc} \cup {pending}
    \cup {batch[i] : i \in 1..Len(batch)} \cup {queue[i] : i \in 1..Len(queue)}

\* The manager refreshes the credential: it is saved and published under the
\* mutation gate, which an update of the same credential waits for.  A removal that
\* has made its checks (Lookup) does not make them again when it gets the gate, and
\* one that a scan decides is not checked against the file at all.
SavedTooLate ==
    \/ updateMu = "consumer" /\ proc["consumer"].pc = "remove"
    \/ proc["scan"].pc = "publish" /\ Without(scan.found)
    \/ \E p \in Proc : proc[p].pc \in {"hash", "generate"} /\ proc[p].data \in void
    \/ \E u \in Carried : u.kind = "drop" /\ ~u.removal
Commit(a) == stamp' = stamp + 1 /\ mgr' = Auth(a.body, "none", stamp + 1)

\* The manager saves what it is about to publish.  A save that fails is not fatal,
\* and the store does not write a disabled credential whose file is gone: then the
\* manager goes on with what the file does not have.
Persist(written) ==
    /\ IF written
       THEN Changes(New, FALSE)
       ELSE /\ unsaved' = unsaved \cup {New}
            /\ away' = IF Without(disk) THEN New + 1 ELSE away
            /\ UNCHANGED <<disk, events, gone, void>>
    /\ Commit(Snapshot(New))
    /\ missed' = (missed \/ SavedTooLate)

Refresh(written) ==
    /\ left.save > 0 /\ mgr # Absent
    /\ left' = [left EXCEPT !.save = @ - 1]
    /\ Persist(written)
    /\ UNCHANGED <<w, scan, proc, rescanMu, updateMu, pending, batch, queue, claimed, late>>

----------------------------------------------------------------------------
\* stampAuthUpdatesLocked gives the update made under clientsMutex the next revision.
Stamped(nw, p, made, to) ==
    /\ w' = IF made.kind = "none" THEN nw ELSE [nw EXCEPT !.rev = @ + 1]
    /\ proc' = [proc EXCEPT ![p].pc = to, ![p].data = Absent, ![p].old = FALSE,
                            ![p].upd = IF made.kind = "none" THEN made
                                       ELSE [made EXCEPT !.rev = w.rev + 1]]

\* observeAuthFile: a running scan learns that the file was touched since it
\* started (fileObservations), and the hash of a known file is forgotten.
Scanning == proc["scan"].pc \in {"snapshot", "publish"}
Observed == [w EXCEPT !.touched = @ \/ Scanning,
                      !.hash = IF Scanning /\ Known THEN Torn ELSE @]

\* handleEvent takes an event and authRescanMu.
HandleEvent ==
    /\ events # <<>> /\ proc["events"].pc = "idle" /\ rescanMu = Nobody
    /\ events' = Tail(events)
    /\ rescanMu' = "events"
    /\ w' = Observed
    /\ Goto("events", Head(events))
    /\ UNCHANGED <<disk, scan, updateMu, pending, batch, queue, claimed, mgr, stamp, left, away, gone, missed, void, unsaved, late>>

\* shouldDebounceRemove: a removal within the debounce window of an earlier one is ignored.
Debounced ==
    /\ proc["events"].pc = "remove" /\ w.removed
    /\ missed' = TRUE
    /\ Return("events")
    /\ UNCHANGED <<disk, events, w, scan, pending, batch, queue, claimed, mgr, stamp, left, away, gone, void, unsaved, late>>

\* A write, or a removal of a file that is there again: nothing to do if its hash
\* is the recorded one (authFileUnchanged), otherwise it is read.
EventChecks ==
    /\ \/ proc["events"].pc = "write"
       \/ proc["events"].pc = "remove" /\ disk # Absent
    /\ IF disk \in Body /\ disk = w.hash
       THEN Return("events")
       ELSE Goto("events", "observe") /\ UNCHANGED <<rescanMu, updateMu>>
    /\ w' = [w EXCEPT !.removed = @ \/ proc["events"].pc = "remove"]
    /\ UNCHANGED <<disk, events, scan, pending, batch, queue, claimed, mgr, stamp, left, away, gone, missed, void, unsaved, late>>

\* A removal of a file that stays away matters only if its hash is recorded.
EventRemoves ==
    /\ proc["events"].pc = "remove" /\ disk = Absent
    /\ IF Known
       THEN /\ Goto("events", "forget")
            /\ w' = [Observed EXCEPT !.removed = TRUE]
            /\ UNCHANGED <<rescanMu, updateMu, missed>>
       ELSE /\ Return("events")
            /\ w' = [w EXCEPT !.removed = TRUE]
            /\ missed' = TRUE
    /\ UNCHANGED <<disk, events, scan, pending, batch, queue, claimed, mgr, stamp, left, away, gone, void, unsaved, late>>

\* removeClientLocked.
RemoveClient ==
    /\ proc["events"].pc = "forget"
    /\ LET nw == [w EXCEPT !.hash = Absent, !.indexed = FALSE]
       IN IF w.indexed
          THEN Stamped([nw EXCEPT !.persisted = 0, !.current = Absent, !.reload = Absent],
                       "events", Drop(TRUE, 0), "dispatch")
          ELSE Stamped(nw, "events", Nothing, "dispatch")
    /\ UNCHANGED <<disk, events, scan, rescanMu, updateMu, pending, batch, queue, claimed,
                   mgr, stamp, left, away, gone, missed, void, unsaved, late>>

----------------------------------------------------------------------------
\* addOrUpdateClientLocked, run by whoever holds authRescanMu.
Observe(p) ==
    /\ proc[p].pc = "observe"
    /\ w' = Observed
    /\ Goto(p, "read")
    /\ UNCHANGED <<disk, events, scan, rescanMu, updateMu, pending, batch, queue, claimed,
                   mgr, stamp, left, away, gone, missed, void, unsaved, late>>

\* A file that is missing or does not parse is left as it was.
ReadFile(p) ==
    /\ proc[p].pc = "read"
    /\ IF disk \in Body
       THEN /\ proc' = [proc EXCEPT ![p].pc = "hash", ![p].data = disk]
            /\ UNCHANGED <<rescanMu, updateMu>>
       ELSE Return(p)
    /\ UNCHANGED <<disk, events, w, scan, pending, batch, queue, claimed, mgr, stamp, left, away, gone, missed, void, unsaved, late>>

\* A new content: the hash is recorded, and what the file's entry lists is kept.
CompareHash(p) ==
    /\ proc[p].pc = "hash"
    /\ IF w.hash = proc[p].data
       THEN Return(p) /\ UNCHANGED w
       ELSE /\ w' = [w EXCEPT !.hash = proc[p].data]
            /\ proc' = [proc EXCEPT ![p].pc = "generate", ![p].old = w.indexed]
            /\ UNCHANGED <<rescanMu, updateMu>>
    /\ UNCHANGED <<disk, events, scan, pending, batch, queue, claimed, mgr, stamp, left, away, gone, missed, void, unsaved, late>>

\* computePerPathUpdatesLocked: a file that holds the credential, ...
AddOrUpdate(p) ==
    /\ proc[p].pc = "generate" /\ proc[p].data \notin void
    /\ LET new == Snapshot(proc[p].data)
           same == w.current # Absent /\ authEqual(w.current, new)
       IN Stamped([w EXCEPT !.indexed = TRUE, !.persisted = 0, !.current = new], p,
                  IF same THEN Nothing ELSE Put(new, 0), "dispatch")
    /\ UNCHANGED <<disk, events, scan, rescanMu, updateMu, pending, batch, queue, claimed,
                   mgr, stamp, left, away, gone, missed, void, unsaved, late>>

\* ... and one that does not, or not any more: what was listed when the content
\* was new is dropped, what has been listed since is left to the next scan.
DropMissing(p) ==
    /\ proc[p].pc = "generate" /\ proc[p].data \in void
    /\ LET nw == [w EXCEPT !.indexed = FALSE]
       IN IF proc[p].old
          THEN /\ Stamped([nw EXCEPT !.persisted = 0, !.current = Absent, !.reload = Absent],
                          p, Drop(FALSE, 0), "dispatch")
               /\ late' = (IF Without(disk) THEN late ELSE late \cup {w.rev + 1})
               /\ UNCHANGED missed
          ELSE /\ Stamped(nw, p, Nothing, "dispatch")
               /\ missed' = (missed \/ w.indexed)
               /\ UNCHANGED late
    /\ UNCHANGED <<disk, events, scan, rescanMu, updateMu, pending, batch, queue, claimed,
                   mgr, stamp, left, away, gone, void, unsaved>>

\* Mutant of Fresh: updates are not held against the credential's revision.
FreshAny(u) == u.kind # "none"

\* dispatchAuthUpdates: an update overtaken by a later revision is dropped, one
\* that has not been taken yet is replaced.  A hook goes on to apply its update
\* itself, unless it is here for a reread that applying it asked for.
Fresh(u) == u.kind # "none" /\ u.rev >= w.rev
After(p) == CASE p = "hook" /\ updateMu # "hook" -> "claim"
              [] p = "scan" /\ scan.reread -> "again"
              [] OTHER -> "idle"

Dispatch(p) ==
    /\ proc[p].pc = "dispatch"
    /\ pending' = IF Fresh(proc[p].upd) THEN proc[p].upd ELSE pending
    /\ IF After(p) = "idle"
       THEN Return(p)
       ELSE Goto(p, After(p)) /\ UNCHANGED <<rescanMu, updateMu>>
    /\ UNCHANGED <<disk, events, w, scan, batch, queue, claimed, mgr, stamp, left, away, gone, missed, void, unsaved, late>>

----------------------------------------------------------------------------
\* A configuration reload begins; one that changes the models excluded for the
\* credential's provider sets the credential aside to have it added again.
ScanBegins(affected, force) ==
    /\ left.scan > 0 /\ proc["scan"].pc = "idle"
    /\ left' = [left EXCEPT !.scan = @ - 1]
    /\ scan' = [scan EXCEPT !.force = force, !.reread = FALSE]
    /\ w' = IF affected THEN [w EXCEPT !.reload = w.current, !.current = Absent] ELSE w
    /\ Goto("scan", "start")
    /\ UNCHANGED <<disk, events, rescanMu, updateMu, pending, batch, queue, claimed, mgr, stamp, away, gone, missed, void, unsaved, late>>

\* refreshAuthState remembers the revisions and observations it starts from, ...
ScanStarts ==
    /\ proc["scan"].pc = "start"
    /\ scan' = [scan EXCEPT !.rev = w.rev]
    /\ Goto("scan", "snapshot")
    /\ UNCHANGED <<disk, events, w, rescanMu, updateMu, pending, batch, queue, claimed, mgr, stamp, left, away, gone, missed, void, unsaved, late>>

\* ... reads the directory without a lock, ...
ScanReads ==
    /\ proc["scan"].pc = "snapshot"
    /\ scan' = [scan EXCEPT !.found = disk]
    /\ Goto("scan", "publish")
    /\ UNCHANGED <<disk, events, w, rescanMu, updateMu, pending, batch, queue, claimed, mgr, stamp, left, away, gone, missed, void, unsaved, late>>

\* Mutant of Incomplete: a file that cannot be read is taken for one that is gone.
NeverIncomplete == FALSE

\* ... and publishes what it found, except for what changed meanwhile.
ChangedDuringScan == scan.rev # w.rev \/ w.touched
Incomplete == scan.found = Torn
PersistedDuringScan(a) == scan.rev # w.rev /\ (a.snap = "none" \/ w.persisted = w.rev)

Scanned == IF scan.found \in Body \ void /\ ~ChangedDuringScan THEN Snapshot(scan.found) ELSE Absent

\* A credential set aside for its provider's reload, if nothing happened to it.
SetAside == IF w.reload # Absent /\ scan.rev = w.rev /\ w.current = Absent THEN w.reload ELSE Absent

\* currentAuths once a credential that the scan did not find is put back, ...
Restored == IF SetAside # Absent /\ ~Incomplete /\ Scanned = Absent THEN SetAside ELSE w.current

\* ... and the entry the scan keeps from it.
Kept == IF Restored # Absent /\ (ChangedDuringScan \/ Incomplete) THEN Restored ELSE Absent

\* prepareAuthUpdatesLocked's new state: the last of the entries collected for the credential.
NewState ==
    IF Kept # Absent THEN Kept
    ELSE IF SetAside # Absent /\ Incomplete THEN SetAside
    ELSE Scanned

ScanUpdate ==
    IF NewState = Absent THEN IF Restored = Absent THEN Nothing ELSE Drop(FALSE, 0)
    ELSE IF Restored = Absent \/ scan.force \/ ~authEqual(Restored, NewState) THEN Put(NewState, 0)
    ELSE Nothing

\* An event has meanwhile handled a newer content, without the credential; it had
\* nothing to drop, so no revision tells.
Outdated == Scanned # Absent /\ w.hash \in void /\ scan.found < w.hash

ScanPublishes ==
    /\ proc["scan"].pc = "publish"
    /\ LET again == Kept # Absent /\ ~Incomplete /\ PersistedDuringScan(Kept)
           unread == Incomplete /\ ~w.touched /\ Known
       IN /\ scan' = [rev |-> 0, force |-> FALSE, found |-> Absent, reread |-> again]
          /\ Stamped([w EXCEPT !.hash = IF unread \/ again THEN Torn ELSE @,
                               !.persisted = IF again THEN 0 ELSE @,
                               !.reload = Absent,
                               !.touched = FALSE,
                               !.indexed = NewState # Absent,
                               !.current = NewState],
                     "scan", ScanUpdate, "dispatch")
    /\ missed' = (missed \/ Outdated)
    /\ UNCHANGED <<disk, events, rescanMu, updateMu, pending, batch, queue, claimed, mgr, stamp, left, away, gone, void, unsaved, late>>

\* A credential persisted during the scan is read again.
ScanRereads ==
    /\ proc["scan"].pc = "again" /\ rescanMu = Nobody
    /\ rescanMu' = "scan"
    /\ scan' = [scan EXCEPT !.reread = FALSE]
    /\ Goto("scan", "observe")
    /\ UNCHANGED <<disk, events, w, updateMu, pending, batch, queue, claimed, mgr, stamp, left, away, gone, missed, void, unsaved, late>>

----------------------------------------------------------------------------
\* The dispatch loop and the consumer.
NextPendingBatch ==
    /\ batch = <<>> /\ pending # Nothing
    /\ batch' = <<pending>> /\ pending' = Nothing
    /\ UNCHANGED <<disk, events, w, scan, proc, rescanMu, updateMu, queue, claimed, mgr, stamp, left, away, gone, missed, void, unsaved, late>>

SendUpdate ==
    /\ batch # <<>> /\ Len(queue) < QueueCap
    /\ queue' = queue \o batch /\ batch' = <<>>
    /\ UNCHANGED <<disk, events, w, scan, proc, rescanMu, updateMu, pending, claimed, mgr, stamp, left, away, gone, missed, void, unsaved, late>>

\* consumeAuthUpdates drains the queue; of one credential's updates the newest
\* is left by the revision filter and by coalesceAuthUpdates.
Newest(q) == q[CHOOSE i \in DOMAIN q : \A j \in DOMAIN q : q[j].rev <= q[i].rev]

TakeUpdates ==
    /\ queue # <<>> /\ proc["consumer"].pc = "idle"
    /\ queue' = <<>>
    /\ proc' = [proc EXCEPT !["consumer"].pc = "claim", !["consumer"].upd = Newest(queue)]
    /\ UNCHANGED <<disk, events, w, scan, rescanMu, updateMu, pending, batch, claimed, mgr, stamp, left, away, gone, missed, void, unsaved, late>>

----------------------------------------------------------------------------
\* A management request saves the credential and tells the watcher.  A login
\* writes the file and reads it back; ...
LoginSaves ==
    /\ left.hook > 0 /\ proc["hook"].pc = "idle"
    /\ left' = [left EXCEPT !.hook = @ - 1]
    /\ Changes(New, FALSE)
    /\ proc' = [proc EXCEPT !["hook"].pc = "readback", !["hook"].data = New]
    /\ UNCHANGED <<w, scan, rescanMu, updateMu, pending, batch, queue, claimed, mgr, stamp, missed, late>>

LoginReadsBack ==
    /\ proc["hook"].pc = "readback"
    /\ LET a == IF disk \in Body \ void THEN Snapshot(disk) ELSE Auth(proc["hook"].data, "none", 0)
       IN proc' = [proc EXCEPT !["hook"].pc = "persisted", !["hook"].upd = Put(a, 0)]
    /\ UNCHANGED <<disk, events, w, scan, rescanMu, updateMu, pending, batch, queue, claimed, mgr, stamp, left, away, gone, missed, void, unsaved, late>>

\* What is there now is no credential (an error of the synthesis): no hook.
LoginFails ==
    /\ proc["hook"].pc = "readback" /\ disk \in void
    /\ Return("hook")
    /\ UNCHANGED <<disk, events, w, scan, pending, batch, queue, claimed, mgr, stamp, left, away, gone, missed, void, unsaved, late>>

\* ... a change of the credential's settings goes through the manager (Modify).
PatchSaves(written) ==
    /\ left.hook > 0 /\ proc["hook"].pc = "idle" /\ mgr # Absent
    /\ left' = [left EXCEPT !.hook = @ - 1]
    /\ Persist(written)
    /\ proc' = [proc EXCEPT !["hook"].pc = "persisted", !["hook"].upd = Put(mgr', 0)]
    /\ UNCHANGED <<w, scan, rescanMu, updateMu, pending, batch, queue, claimed, late>>

\* dispatchPersistedAuthUpdateWithRevision.
DispatchPersisted ==
    /\ proc["hook"].pc = "persisted"
    /\ Stamped([w EXCEPT !.indexed = TRUE, !.current = proc["hook"].upd.auth,
                         !.persisted = w.rev + 1],
               "hook", proc["hook"].upd, "dispatch")
    /\ UNCHANGED <<disk, events, scan, rescanMu, updateMu, pending, batch, queue, claimed,
                   mgr, stamp, left, away, gone, missed, void, unsaved, late>>

----------------------------------------------------------------------------
\* handleAuthUpdates, by the consumer or by the hook itself: under authUpdateMu a
\* revision is claimed once and never after a later one.
Claim(p) ==
    /\ proc[p].pc = "claim" /\ updateMu = Nobody
    /\ IF proc[p].upd.rev <= claimed
       THEN Return(p) /\ UNCHANGED claimed
       ELSE /\ claimed' = proc[p].upd.rev
            /\ updateMu' = p
            /\ Goto(p, "lookup")
            /\ UNCHANGED rescanMu
    /\ UNCHANGED <<disk, events, w, scan, pending, batch, queue, mgr, stamp, left, away, gone, missed, void, unsaved, late>>

\* Is the update older than what the manager has?  A file removal counts only if
\* the file does not hold the credential again; a credential of the manager's own
\* must not be older than its present one (isStaleCoreAuth).
Stale(u) ==
    /\ mgr # Absent
    /\ IF u.kind = "drop" THEN u.removal /\ ~Without(disk)
       ELSE u.auth.stamp > 0 /\ u.auth.stamp < mgr.stamp

\* The file is back with other credentials, and the removal counts, or with none
\* at all, and it is skipped (shouldSkipFileAuthDelete).
Unsure(u) == mgr # Absent /\ u.kind = "drop" /\ u.removal /\ disk \in void

Lookup(p) ==
    LET u == proc[p].upd IN
    /\ proc[p].pc = "lookup"
    /\ \/ /\ Stale(u) \/ Unsure(u)
          /\ Return(p)
          /\ missed' = (missed \/ Unsure(u))
       \/ /\ ~Stale(u)
          /\ Goto(p, IF u.kind = "drop" THEN "remove" ELSE IF mgr = Absent THEN "register" ELSE "update")
          /\ UNCHANGED <<rescanMu, updateMu, missed>>
    /\ UNCHANGED <<disk, events, w, scan, pending, batch, queue, claimed, mgr, stamp, left, away, gone, void, unsaved, late>>

RemoveAuth(p) ==
    /\ proc[p].pc = "remove"
    /\ mgr' = Absent
    /\ Return(p)
    /\ UNCHANGED <<disk, events, w, scan, pending, batch, queue, claimed, stamp, left, away, gone, missed, void, unsaved, late>>

RegisterAuth(p) ==
    /\ proc[p].pc = "register"
    /\ Commit(proc[p].upd.auth)
    /\ gone' = (proc[p].upd.auth.body < away)
    /\ Return(p)
    /\ UNCHANGED <<disk, events, w, scan, pending, batch, queue, claimed, left, away, missed, void, unsaved, late>>

\* Mutant of MatchesDisk: a snapshot is applied without looking at the file.
MatchesAlways(a) == TRUE

\* Manager.Update takes a file snapshot only while the file still has that
\* content; otherwise the snapshot is discarded and the watcher reads the file again.
MatchesDisk(a) == a.snap # "none" => a.snap = "ok" /\ a.body = disk

UpdateAuth(p) ==
    /\ proc[p].pc = "update"
    /\ IF MatchesDisk(proc[p].upd.auth)
       THEN Commit(proc[p].upd.auth) /\ Return(p)
       ELSE Goto(p, "discarded") /\ UNCHANGED <<mgr, stamp, rescanMu, updateMu>>
    /\ UNCHANGED <<disk, events, w, scan, pending, batch, queue, claimed, left, away, gone, missed, void, unsaved, late>>

\* Mutant of RereadDiscarded: the discarded snapshot is tried again.
RetryDiscarded(p) ==
    /\ proc[p].pc = "discarded" /\ rescanMu = Nobody
    /\ Goto(p, "update")
    /\ UNCHANGED <<disk, events, w, scan, rescanMu, updateMu, pending, batch, queue, claimed,
                   mgr, stamp, left, away, gone, missed, void, unsaved, late>>

\* rereadDiscardedFileSnapshot.
RereadDiscarded(p) ==
    /\ proc[p].pc = "discarded" /\ rescanMu = Nobody
    /\ IF w.current # Absent /\ SameFileSnapshot(w.current, proc[p].upd.auth)
       THEN /\ rescanMu' = p
            /\ w' = [w EXCEPT !.hash = Torn, !.current.snap = "bad"]
            /\ proc' = [proc EXCEPT ![p].pc = "observe", ![p].upd = Nothing]
            /\ UNCHANGED updateMu
       ELSE Return(p) /\ UNCHANGED w
    /\ UNCHANGED <<disk, events, scan, pending, batch, queue, claimed, mgr, stamp, left, away, gone, missed, void, unsaved, late>>

----------------------------------------------------------------------------
World ==
    \/ \E b \in {New, Absent, Torn}, without \in BOOLEAN : Edit(b, without)
    \/ \E written \in BOOLEAN : Refresh(written) \/ PatchSaves(written)
    \/ LoginSaves
    \/ \E affected, force \in BOOLEAN : ScanBegins(affected, force)

Applies(p) == Claim(p) \/ Lookup(p) \/ RemoveAuth(p) \/ RegisterAuth(p) \/ UpdateAuth(p) \/ RereadDiscarded(p)

EventStep == HandleEvent \/ Debounced \/ EventChecks \/ EventRemoves \/ RemoveClient
ScanStep  == ScanStarts \/ ScanReads \/ ScanPublishes \/ ScanRereads
HookStep  == LoginReadsBack \/ LoginFails \/ DispatchPersisted

Reads(p) == Observe(p) \/ ReadFile(p) \/ CompareHash(p) \/ AddOrUpdate(p) \/ DropMissing(p) \/ Dispatch(p)

Step(p) ==
    \/ p = "events" /\ EventStep
    \/ p = "scan" /\ ScanStep
    \/ p = "hook" /\ HookStep
    \/ p = "consumer" /\ TakeUpdates
    \/ p \in {"consumer", "hook"} /\ Applies(p)
    \/ Reads(p)

Loop == NextPendingBatch \/ SendUpdate

Next == World \/ Loop \/ \E p \in Proc : Step(p)

Spec == Init /\ [][Next]_vars

\* Goroutines run on; a mutex asked for again and again is got in the end (the
\* runtime's mutexes hand over to a waiter that starves).
Fairness == WF_vars(Loop) /\ \A p \in Proc : SF_vars(Step(p))

FairSpec == Spec /\ Fairness

----------------------------------------------------------------------------
Puts == [kind : {"put"}, auth : Auths, removal : BOOLEAN, rev : Nat]
Drops == [kind : {"drop"}, auth : {Absent}, removal : BOOLEAN, rev : Nat]
Updates == Puts \cup Drops \cup {Nothing}
Files == Body \cup {Absent, Torn}
Maps == [hash : Files, indexed : BOOLEAN, reload : Auths \cup {Absent},
         current : Auths \cup {Absent}, rev : Nat, persisted : Nat, touched : BOOLEAN,
         removed : BOOLEAN]
Memories == [rev : Nat, force : BOOLEAN, found : Files, reread : BOOLEAN]
Places == {"idle", "write", "remove", "forget", "observe", "read", "hash", "generate",
           "dispatch", "start", "snapshot", "publish", "again", "readback", "persisted",
           "claim", "lookup", "register", "update", "discarded"}
Lefts == [edit : 0..MaxEdits, save : 0..MaxSaves, hook : 0..MaxHooks, scan : 0..MaxScans]
Locals == [pc : Places, data : Body \cup {Absent}, old : BOOLEAN, upd : Updates]

\* The state is well formed: contents, credentials, hashes and updates are of the
\* kinds the code stores.
TypeOK ==
    /\ disk \in Files /\ events \in Seq({"write", "remove"})
    /\ w \in Maps /\ scan \in Memories /\ proc \in [Proc -> Locals]
    /\ {rescanMu, updateMu} \subseteq Proc \cup {Nobody}
    /\ pending \in Updates /\ batch \in Seq(Updates) /\ queue \in Seq(Updates)
    /\ claimed \in Nat /\ mgr \in Auths \cup {Absent} /\ stamp \in Nat
    /\ left \in Lefts
    /\ away \in Nat /\ gone \in BOOLEAN /\ missed \in BOOLEAN
    /\ void \subseteq Body /\ unsaved \subseteq Body /\ late \subseteq Nat

\* Nothing is under way.
Quiet ==
    /\ events = <<>> /\ pending = Nothing /\ batch = <<>> /\ queue = <<>>
    /\ \A p \in Proc : proc[p].pc = "idle"

Agree == IF mgr = Absent THEN Without(disk) ELSE mgr.body \in {disk} \cup unsaved

\* However edits, refreshes, logins, settings changes and scans interleave, once
\* everything is handled the manager has exactly the credential that is in the
\* file, and none if the file does not hold it; or a later state of it that could
\* not be written, until the file changes again: a save that failed, or one of a
\* disabled credential whose file is gone.  Left out are a file that does not
\* parse, whose last good content stays, and what the code leaves to the next
\* scan: a removal inside the debounce window or of a file whose hash it has not
\* recorded yet, or one that finds in the file's place another that yields no
\* credential at all; an edit between a request's save and its hook; a content
\* without the credential handled before a scan or a request that lists an older
\* one; and a save by the manager while a removal is under way that takes the
\* saved credential with it.
Converged == Quiet /\ disk # Torn /\ ~missed => Agree

\* A credential leaves the manager only if its file has been without it since the
\* content it was registered with was written: a file seen half written, a reload
\* of its provider or a scan that ran into a change never costs the credential.
\* The one exception is a removal decided from a content without the credential
\* that had been replaced while the watcher was handling it.
RemovalJustified ==
    [][mgr # Absent /\ mgr' = Absent =>
         gone \/ \E p \in {"consumer", "hook"} : proc[p].pc = "remove" /\ proc[p].upd.rev \in late]_vars

\* The work ends: rereads of discarded snapshots do not chase each other for
\* ever, and manager and file come to agree, in the same sense, and stay so.
Settles == <>[](Quiet /\ (disk # Torn /\ ~missed => Agree))
=============================================================================
