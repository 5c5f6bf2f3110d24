----------------------- MODULE WatcherDispatchProofs -----------------------
(***************************************************************************)
(* Proofs about WatcherDispatch, for any number of edits, refreshes,       *)
(* requests and reloads and any capacity of the queue: a credential leaves *)
(* the manager only if its file was without it, or by a removal that was   *)
(* decided from a content already replaced.                                *)
(***************************************************************************)
EXTENDS WatcherDispatch, WellFoundedInduction, TLAPS

Applier == {"consumer", "hook"}
Busy == {"lookup", "remove", "register", "update", "discarded"}

\* Revisions are given by the watcher, one after the other.
RevInv ==
    /\ \A u \in Carried : u.rev <= w.rev
    /\ claimed <= w.rev /\ scan.rev <= w.rev

\* Who is at work under authUpdateMu has claimed its update; what it found the manager
\* to have, it still has.
LockInv ==
    \A p \in Applier : proc[p].pc \in Busy =>
        /\ updateMu = p
        /\ proc[p].upd # Nothing /\ proc[p].upd.rev = claimed /\ claimed > 0
        /\ proc[p].pc \in {"register", "update", "discarded"} => proc[p].upd.kind = "put"
        /\ proc[p].pc = "update" => mgr # Absent

\* Who is past the read has a content in hand, a request past its save has an update.
HandInv ==
    /\ \A p \in Proc : proc[p].pc \in {"hash", "generate", "readback"} => proc[p].data # Absent
    /\ proc["hook"].pc = "persisted" => proc["hook"].upd.kind = "put"
    /\ proc["hook"].pc = "readback" => proc["hook"].data \notin void

\* A content that was written before the next one, and before the file was without
\* the credential if it is so now.
Old(b) == b < New /\ (Without(disk) => b < away)

\* The same of a content that may be one without the credential.
Seen(b) == b < New /\ (b \notin void => Old(b))

\* Nobody has a content that has not been written, and no credential but from one
\* that holds it.
BodyInv ==
    /\ away <= New
    /\ \A b \in void : b < New
    /\ disk \in Body => disk < New
    /\ \A a \in {w.current, w.reload} : a # Absent => Old(a.body)
    /\ scan.found \in Body => Seen(scan.found)
    /\ \A p \in Proc : proc[p].data # Absent => Seen(proc[p].data)
    /\ \A u \in Carried : u.kind = "put" => Old(u.auth.body)

(***************************************************************************)
(* A removal decided in time is justified from the moment it is decided    *)
(* until it is applied: when a scan has found the file without the         *)
(* credential, when its removal is under way and when it has been looked   *)
(* up.  What could spoil it is a registration of a newer content, whose    *)
(* update must have a later revision and be claimed later.                 *)
(***************************************************************************)
Justified == mgr # Absent => gone
OnTime(u) == u.kind = "drop" /\ ~u.removal /\ u.rev \notin late
StampedPut(u) == u.kind = "put" /\ u.rev > 0
NoFile == proc["scan"].pc = "publish" /\ Without(scan.found) /\ scan.rev = w.rev

\* Grounds for a removal: no credential under way is newer.
Grounds == Justified /\ \A v \in Carried : StampedPut(v) => v.auth.body < away

GoneInv ==
    /\ Without(disk) => gone
    /\ \A p \in Applier : proc[p].pc = "remove" /\ proc[p].upd.rev \notin late => Justified
    /\ \A p \in Applier : proc[p].pc = "lookup" /\ OnTime(proc[p].upd) => Justified
    /\ \A u \in Carried : OnTime(u) /\ u.rev > claimed => Justified
    /\ \A u, v \in Carried : OnTime(u) /\ StampedPut(v) /\ v.rev <= u.rev => v.auth.body < away
    /\ NoFile => Grounds

WatcherInv == TypeOK /\ RevInv /\ LockInv /\ HandInv /\ BodyInv /\ GoneInv


-----------------------------------------------------------------------------
(***************************************************************************)
(* The operators the actions are built from.                               *)
(***************************************************************************)

\* Only the program counter of p moves.
LEMMA GotoFacts ==
  ASSUME proc \in [Proc -> Locals], NEW p \in Proc, NEW to \in Places, Goto(p, to)
  PROVE  /\ proc' \in [Proc -> Locals]
         /\ \A q \in Proc : proc'[q].upd = proc[q].upd /\ proc'[q].data = proc[q].data
         /\ \A q \in Proc : proc'[q].pc = IF q = p THEN to ELSE proc[q].pc
         /\ \A q \in Proc : q # p => proc'[q] = proc[q]
BY DEF Goto, Locals

LEMMA IdleType == Nothing \in Updates /\ Idle \in Locals
<1>1. Nothing \in Updates BY DEF Updates
<1>2. Idle \in Locals BY <1>1 DEF Idle, Locals, Places
<1> QED BY <1>1, <1>2

\* The three kinds of updates.
LEMMA UpdateFacts ==
  ASSUME NEW u \in Updates
  PROVE  /\ u.rev \in Nat
         /\ \/ u = Nothing /\ u.kind = "none" /\ u.rev = 0
            \/ u # Nothing /\ u \in Puts /\ u.kind = "put" /\ u.auth \in Auths
            \/ u # Nothing /\ u \in Drops /\ u.kind = "drop"
<1>1. CASE u \in Puts BY <1>1 DEF Puts, Nothing
<1>2. CASE u \in Drops BY <1>2 DEF Drops, Nothing
<1>3. CASE u = Nothing BY <1>3 DEF Nothing
<1> QED BY <1>1, <1>2, <1>3 DEF Updates

\* p is done and holds no mutex any more.
LEMMA ReturnFacts ==
  ASSUME proc \in [Proc -> Locals], NEW p \in Proc, Return(p),
         {rescanMu, updateMu} \subseteq Proc \cup {Nobody}
  PROVE  /\ proc' \in [Proc -> Locals]
         /\ proc'[p].upd = Nothing /\ proc'[p].data = Absent /\ proc'[p].pc = "idle"
         /\ \A q \in Proc : q # p => proc'[q] = proc[q]
         /\ {rescanMu', updateMu'} \subseteq Proc \cup {Nobody}
         /\ \A q \in Proc : q # p /\ updateMu = q => updateMu' = q
<1>1. proc' = [proc EXCEPT ![p] = Idle] BY DEF Return
<1>2. Idle.upd = Nothing /\ Idle.data = Absent /\ Idle.pc = "idle" BY DEF Idle
<1>3. proc' \in [Proc -> Locals] /\ proc'[p] = Idle /\ \A q \in Proc : q # p => proc'[q] = proc[q]
  BY <1>1, IdleType
<1> QED BY <1>2, <1>3 DEF Return, Free

\* An update made gets the next revision.
LEMMA StampedFacts ==
  ASSUME proc \in [Proc -> Locals], w \in Maps, NEW p \in Proc, NEW to \in Places,
         NEW nw \in Maps, nw.rev = w.rev, NEW made \in Updates, Stamped(nw, p, made, to)
  PROVE  /\ proc' \in [Proc -> Locals] /\ w' \in Maps
         /\ w'.current = nw.current /\ w'.reload = nw.reload
         /\ proc'[p].pc = to /\ proc'[p].data = Absent
         /\ \A q \in Proc : q # p => proc'[q] = proc[q]
         /\ \/ made = Nothing /\ w'.rev = w.rev /\ proc'[p].upd = Nothing
            \/ /\ made # Nothing /\ w'.rev = w.rev + 1
               /\ proc'[p].upd \in Updates
               /\ proc'[p].upd.rev = w.rev + 1 /\ proc'[p].upd.kind = made.kind
               /\ proc'[p].upd.auth = made.auth /\ proc'[p].upd.removal = made.removal
<1> DEFINE u == IF made.kind = "none" THEN made ELSE [made EXCEPT !.rev = w.rev + 1]
<1>1. w.rev \in Nat BY DEF Maps
<1>2. \/ made = Nothing /\ made.kind = "none"
      \/ made.kind # "none" /\ made # Nothing
  BY UpdateFacts
<1>3. CASE made = Nothing
  <2>1. u = Nothing /\ w' = nw BY <1>2, <1>3 DEF Stamped
  <2> HIDE DEF u
  <2>2. proc' = [proc EXCEPT ![p].pc = to, ![p].data = Absent, ![p].old = FALSE, ![p].upd = u]
    BY DEF Stamped, u
  <2> QED BY <1>3, <2>1, <2>2, IdleType DEF Locals
<1>4. CASE made # Nothing
  <2>1. /\ u \in Updates /\ u.rev = w.rev + 1 /\ u.kind = made.kind
        /\ u.auth = made.auth /\ u.removal = made.removal
    <3>1. CASE made \in Puts BY <1>1, <1>2, <1>4, <3>1 DEF Updates, Puts
    <3>2. CASE made \in Drops BY <1>1, <1>2, <1>4, <3>2 DEF Updates, Drops
    <3> QED BY <1>4, <3>1, <3>2, UpdateFacts
  <2>2. w' = [nw EXCEPT !.rev = @ + 1] BY <1>2, <1>4 DEF Stamped
  <2> HIDE DEF u
  <2>3. proc' = [proc EXCEPT ![p].pc = to, ![p].data = Absent, ![p].old = FALSE, ![p].upd = u]
    BY DEF Stamped, u
  <2>4. /\ proc' \in [Proc -> Locals] /\ proc'[p].pc = to /\ proc'[p].data = Absent
        /\ proc'[p].upd = u /\ \A q \in Proc : q # p => proc'[q] = proc[q]
    BY <2>1, <2>3 DEF Locals
  <2>5. w' \in Maps /\ w'.current = nw.current /\ w'.reload = nw.reload /\ w'.rev = w.rev + 1
    BY <1>1, <2>2 DEF Maps
  <2> QED BY <1>4, <2>1, <2>4, <2>5
<1> QED BY <1>3, <1>4

\* The newest of the updates in the queue is one of them.
LEMMA NewestIn ==
  ASSUME NEW q \in Seq(Updates), q # <<>>, NEW top \in Nat, \A i \in 1..Len(q) : q[i].rev <= top
  PROVE  \E i \in 1..Len(q) : Newest(q) = q[i]
<1> DEFINE I == {n \in Nat : \E i \in 1..Len(q) : n = top - q[i].rev}
<1>1. \A i \in 1..Len(q) : q[i].rev \in Nat BY UpdateFacts
<1>2. Len(q) \in Nat /\ Len(q) > 0 /\ DOMAIN q = 1..Len(q) OBVIOUS
<1>3. I # {}
  <2>1. 1 \in 1..Len(q) BY <1>2
  <2>2. top - q[1].rev \in I BY <1>1, <2>1
  <2> QED BY <2>2
<1>4. IsWellFoundedOn({ss \in Nat \X Nat : ss[1] < ss[2]}, Nat)
  BY NatLessThanWellFounded DEF OpToRel
<1>5. PICK x \in I : \A y \in I : ~(<<y, x>> \in {ss \in Nat \X Nat : ss[1] < ss[2]})
  <2>1. I \subseteq Nat OBVIOUS
  <2> HIDE DEF I
  <2> QED BY <1>3, <1>4, <2>1, WFMin
<1>6. PICK i \in 1..Len(q) : x = top - q[i].rev OBVIOUS
<1>7. ASSUME NEW j \in 1..Len(q) PROVE q[j].rev <= q[i].rev
  <2> DEFINE y == top - q[j].rev
  <2>1. y \in I /\ y \in Nat /\ x \in Nat BY <1>1
  <2>2. ~(y < x)
    <3>1. SUFFICES ASSUME y < x PROVE FALSE OBVIOUS
    <3>2. <<y, x>> \in {ss \in Nat \X Nat : ss[1] < ss[2]} BY <2>1, <3>1
    <3> HIDE DEF y, I
    <3> QED BY <1>5, <2>1, <3>2
  <2> QED BY <1>1, <1>6, <2>1, <2>2
<1>8. \E k \in DOMAIN q : \A j \in DOMAIN q : q[j].rev <= q[k].rev BY <1>2, <1>7
<1> QED BY <1>2, <1>8 DEF Newest

LEMMA AuthFacts ==
  /\ \A b \in Body, st \in Nat, s \in {"ok", "bad", "none"} :
       Auth(b, s, st) \in Auths /\ Auth(b, s, st) # Absent /\ Auth(b, s, st).body = b
  /\ \A b \in Body : Snapshot(b) \in Auths /\ Snapshot(b) # Absent /\ Snapshot(b).body = b
  /\ \A a \in Auths, r \in Nat :
       Put(a, r) \in Puts /\ Put(a, r).rev = r /\ Put(a, r).auth = a /\ Put(a, r).kind = "put"
  /\ \A m \in BOOLEAN, r \in Nat : Drop(m, r) \in Drops
<1>1. \A b \in Body, st \in Nat, s \in {"ok", "bad", "none"} :
        Auth(b, s, st) \in Auths /\ Auth(b, s, st).body = b
  BY DEF Auth, Auths
<1>2. \A b \in Body : Snapshot(b) = Auth(b, "ok", 0) BY DEF Snapshot
<1>3. \A a \in Auths, r \in Nat :
        Put(a, r) \in Puts /\ Put(a, r).rev = r /\ Put(a, r).auth = a /\ Put(a, r).kind = "put"
  BY DEF Put, Puts
<1>4. \A m \in BOOLEAN, r \in Nat : Drop(m, r) \in Drops BY DEF Drop, Drops
<1>5. \A a \in Auths : a # Absent BY WatcherAssumption
<1> QED BY <1>1, <1>2, <1>3, <1>4, <1>5

\* The content of the next write is in range as long as one is allowed.
LEMMA NewFacts ==
  ASSUME left \in Lefts
  PROVE  /\ New \in Nat /\ New # Absent /\ New # Torn
         /\ left.edit > 0 \/ left.save > 0 \/ left.hook > 0 => New \in Body
         /\ left.edit > 0 => [left EXCEPT !.edit = @ - 1] \in Lefts
         /\ left.save > 0 => [left EXCEPT !.save = @ - 1] \in Lefts
         /\ left.hook > 0 => [left EXCEPT !.hook = @ - 1] \in Lefts
         /\ left.scan > 0 => [left EXCEPT !.scan = @ - 1] \in Lefts
<1>1. /\ left.edit \in 0..MaxEdits /\ left.save \in 0..MaxSaves /\ left.hook \in 0..MaxHooks
      /\ left.scan \in 0..MaxScans
  BY DEF Lefts
<1>2. MaxEdits \in Nat /\ MaxSaves \in Nat /\ MaxHooks \in Nat /\ MaxScans \in Nat
  BY WatcherAssumption
<1>3. New \in Nat /\ (left.edit > 0 \/ left.save > 0 \/ left.hook > 0 => New \in Body)
  BY <1>1, <1>2 DEF New, Body
<1>4. New # Absent /\ New # Torn BY <1>3, WatcherAssumption
<1>5. /\ left.edit > 0 => left.edit - 1 \in 0..MaxEdits
      /\ left.save > 0 => left.save - 1 \in 0..MaxSaves
      /\ left.hook > 0 => left.hook - 1 \in 0..MaxHooks
      /\ left.scan > 0 => left.scan - 1 \in 0..MaxScans
  BY <1>1, <1>2
<1> QED BY <1>1, <1>3, <1>4, <1>5 DEF Lefts

\* When the file changes, the number of the next content goes up by one.
LEMMA NewGrows ==
  ASSUME left \in Lefts,
         \/ left.edit > 0 /\ left' = [left EXCEPT !.edit = @ - 1]
         \/ left.save > 0 /\ left' = [left EXCEPT !.save = @ - 1]
         \/ left.hook > 0 /\ left' = [left EXCEPT !.hook = @ - 1]
  PROVE  New' = New + 1
<1>1. /\ left.edit \in Int /\ left.save \in Int /\ left.hook \in Int
      /\ MaxEdits \in Nat /\ MaxSaves \in Nat /\ MaxHooks \in Nat
  BY WatcherAssumption DEF Lefts
<1>2. \/ left'.edit = left.edit - 1 /\ left'.save = left.save /\ left'.hook = left.hook
      \/ left'.edit = left.edit /\ left'.save = left.save - 1 /\ left'.hook = left.hook
      \/ left'.edit = left.edit /\ left'.save = left.save /\ left'.hook = left.hook - 1
  BY DEF Lefts
<1> QED BY <1>1, <1>2 DEF New

LEMMA NewStays ==
  ASSUME left \in Lefts,
         left' = left \/ (left.scan > 0 /\ left' = [left EXCEPT !.scan = @ - 1])
  PROVE  New' = New
<1>1. left'.edit = left.edit /\ left'.save = left.save /\ left'.hook = left.hook BY DEF Lefts
<1> QED BY <1>1 DEF New

LEMMA ObservedFacts ==
  ASSUME w \in Maps
  PROVE  /\ Observed \in Maps /\ Observed.rev = w.rev
         /\ Observed.current = w.current /\ Observed.reload = w.reload
<1>1. (w.touched \/ Scanning) \in BOOLEAN BY DEF Maps, Scanning
<1>2. (IF Scanning /\ Known THEN Torn ELSE w.hash) \in Files BY DEF Maps, Files
<1> QED BY <1>1, <1>2 DEF Observed, Maps

-----------------------------------------------------------------------------
(***************************************************************************)
(* What a scan publishes.                                                  *)
(***************************************************************************)
LEMMA ScanFacts ==
  ASSUME w \in Maps, scan \in Memories
  PROVE  /\ Scanned \in Auths \cup {Absent} /\ SetAside \in Auths \cup {Absent}
         /\ Restored \in Auths \cup {Absent} /\ Kept \in Auths \cup {Absent}
         /\ NewState \in Auths \cup {Absent}
         /\ NewState # Absent => \/ NewState = w.current \/ NewState = w.reload
                                 \/ scan.found \in Body \ void /\ NewState.body = scan.found
         /\ ScanUpdate \in Updates
         /\ ScanUpdate.kind = "put" => ScanUpdate.auth = NewState /\ NewState # Absent
         /\ ScanUpdate.kind = "drop" => Without(scan.found) /\ scan.rev = w.rev
<1>1. w.current \in Auths \cup {Absent} /\ w.reload \in Auths \cup {Absent} BY DEF Maps
<1>2. scan.found \in Body \cup {Absent, Torn} BY DEF Memories, Files
<1>3. /\ Scanned \in Auths \cup {Absent}
      /\ Scanned # Absent => scan.found \in Body \ void /\ Scanned.body = scan.found
      /\ Scanned = Absent /\ ~ChangedDuringScan => scan.found \notin Body \ void
  BY <1>2, AuthFacts DEF Scanned
<1>4. SetAside \in {w.reload, Absent} BY DEF SetAside
<1>5. Restored \in {SetAside, w.current} BY DEF Restored
<1>6. /\ Kept \in {Restored, Absent}
      /\ Kept = Absent => Restored = Absent \/ (~ChangedDuringScan /\ ~Incomplete)
  BY DEF Kept
<1>7. /\ NewState \in {Kept, SetAside, Scanned}
      /\ NewState = Absent => Kept = Absent /\ (Incomplete \/ Scanned = Absent)
  BY DEF NewState
<1>8. NewState \in Auths \cup {Absent} BY <1>1, <1>3, <1>4, <1>5, <1>6, <1>7
<1>9. NewState # Absent => \/ NewState = w.current \/ NewState = w.reload
                           \/ scan.found \in Body \ void /\ NewState.body = scan.found
  BY <1>3, <1>4, <1>5, <1>6, <1>7
<1>10. CASE NewState = Absent /\ Restored = Absent
  <2>1. ScanUpdate = Nothing BY <1>10 DEF ScanUpdate
  <2> QED BY <1>1, <1>3, <1>4, <1>5, <1>6, <1>8, <1>9, <2>1, IdleType, UpdateFacts
<1>11. CASE NewState = Absent /\ Restored # Absent
  <2>1. ScanUpdate = Drop(FALSE, 0) BY <1>11 DEF ScanUpdate
  <2>2. ~ChangedDuringScan /\ ~Incomplete /\ Scanned = Absent BY <1>6, <1>7, <1>11
  <2>3. scan.rev = w.rev /\ Without(scan.found)
    BY <1>2, <1>3, <2>2 DEF ChangedDuringScan, Incomplete, Without
  <2>4. ScanUpdate \in Drops BY <2>1, AuthFacts
  <2>5. ScanUpdate \in Updates /\ ScanUpdate.kind = "drop" BY <2>4 DEF Updates, Drops
  <2> QED BY <1>1, <1>3, <1>4, <1>5, <1>6, <1>8, <1>9, <2>3, <2>5
<1>12. CASE NewState # Absent
  <2>1. ScanUpdate = Put(NewState, 0) \/ ScanUpdate = Nothing BY <1>12 DEF ScanUpdate
  <2>2. NewState \in Auths BY <1>8, <1>12
  <2>3. CASE ScanUpdate = Nothing
    BY <1>1, <1>3, <1>4, <1>5, <1>6, <1>8, <1>9, <2>3, IdleType, UpdateFacts
  <2>4. CASE ScanUpdate = Put(NewState, 0)
    <3>1. ScanUpdate \in Puts /\ ScanUpdate.auth = NewState /\ ScanUpdate.kind = "put"
      BY <2>2, <2>4, AuthFacts
    <3> QED BY <1>1, <1>3, <1>4, <1>5, <1>6, <1>8, <1>9, <1>12, <3>1 DEF Updates
  <2> QED BY <2>1, <2>3, <2>4
<1> QED BY <1>10, <1>11, <1>12

-----------------------------------------------------------------------------
(***************************************************************************)
(* The steps that stamp an update.                                         *)
(***************************************************************************)
Stamps(p) ==
    \/ p = "events" /\ RemoveClient
    \/ AddOrUpdate(p) \/ DropMissing(p)
    \/ p = "scan" /\ ScanPublishes
    \/ p = "hook" /\ DispatchPersisted

\* What is stamped: a content somebody has, or a removal decided from the file as it
\* is, from what a scan has found or too late.
StampOK(u) ==
    /\ u.kind = "put" => Old(u.auth.body)
    /\ u.kind = "drop" /\ ~u.removal => NoFile \/ Without(disk) \/ w.rev + 1 \in late'

AuthOld(a) == a # Absent => Old(a.body)

LEMMA StampsFacts ==
  ASSUME TypeOK, HandInv, BodyInv, NEW p \in Proc, Stamps(p)
  PROVE  /\ proc' \in [Proc -> Locals] /\ w' \in Maps
         /\ AuthOld(w'.current) /\ AuthOld(w'.reload)
         /\ proc[p].pc \in {"forget", "generate", "publish", "persisted"}
         /\ proc[p].pc = "publish" => p = "scan"
         /\ proc'[p].pc = "dispatch" /\ proc'[p].data = Absent
         /\ \A q \in Proc : q # p => proc'[q] = proc[q]
         /\ \/ w'.rev = w.rev /\ proc'[p].upd = Nothing
            \/ w'.rev = w.rev + 1 /\ proc'[p].upd.rev = w.rev + 1 /\ StampOK(proc'[p].upd)
<1>1. /\ proc \in [Proc -> Locals] /\ w \in Maps /\ scan \in Memories /\ w.rev \in Nat
      /\ "dispatch" \in Places /\ 0 \in Nat /\ Nothing \in Updates
      /\ Nothing.kind = "none"
  BY IdleType DEF TypeOK, Maps, Places, Nothing
<1>2. /\ AuthOld(w.current) /\ AuthOld(w.reload) /\ AuthOld(Absent)
      /\ scan.found \in Body \ void => Old(scan.found)
      /\ proc[p].data \notin void \cup {Absent} => Old(proc[p].data)
      /\ proc[p].upd.kind = "put" => Old(proc[p].upd.auth.body)
  BY DEF BodyInv, AuthOld, Carried, Seen
<1>3. \E nw \in Maps, made \in Updates :
        /\ nw.rev = w.rev /\ AuthOld(nw.current) /\ AuthOld(nw.reload)
        /\ StampOK(made) /\ Stamped(nw, p, made, "dispatch")
  <2>1. CASE p = "events" /\ RemoveClient
    <3> DEFINE nw == [w EXCEPT !.hash = Absent, !.indexed = FALSE]
               gw == [nw EXCEPT !.persisted = 0, !.current = Absent, !.reload = Absent]
    <3>1. /\ nw \in Maps /\ gw \in Maps /\ nw.rev = w.rev /\ gw.rev = w.rev
          /\ nw.current = w.current /\ nw.reload = w.reload
          /\ gw.current = Absent /\ gw.reload = Absent
      BY <1>1 DEF Maps, Files
    <3>2. Stamped(gw, p, Drop(TRUE, 0), "dispatch") \/ Stamped(nw, p, Nothing, "dispatch")
      BY <2>1 DEF RemoveClient
    <3>3. StampOK(Nothing) BY <1>1 DEF StampOK
    <3>4. StampOK(Drop(TRUE, 0)) /\ Drop(TRUE, 0) \in Updates
      BY AuthFacts DEF StampOK, Drop, Updates
    <3> HIDE DEF nw, gw
    <3> QED BY <1>1, <1>2, <3>1, <3>2, <3>3, <3>4
  <2>2. CASE AddOrUpdate(p)
    <3> DEFINE new == Snapshot(proc[p].data)
               nw == [w EXCEPT !.indexed = TRUE, !.persisted = 0, !.current = new]
    <3>1. proc[p].data \in Body /\ Old(proc[p].data)
      BY <1>1, <1>2, <2>2 DEF AddOrUpdate, HandInv, Locals
    <3>2. new \in Auths /\ new # Absent /\ new.body = proc[p].data BY <3>1, AuthFacts
    <3> HIDE DEF new
    <3>3. nw \in Maps /\ nw.rev = w.rev /\ nw.current = new /\ nw.reload = w.reload
      BY <1>1, <3>2 DEF Maps
    <3>4. Stamped(nw, p, Put(new, 0), "dispatch") \/ Stamped(nw, p, Nothing, "dispatch")
      BY <2>2 DEF AddOrUpdate, new
    <3>5. StampOK(Nothing) BY <1>1 DEF StampOK
    <3>6. Put(new, 0) \in Updates /\ StampOK(Put(new, 0))
      BY <1>1, <3>1, <3>2, AuthFacts DEF StampOK, Updates
    <3>7. AuthOld(new) BY <3>1, <3>2 DEF AuthOld
    <3> HIDE DEF nw
    <3> QED BY <1>1, <1>2, <3>3, <3>4, <3>5, <3>6, <3>7
  <2>5. CASE DropMissing(p)
    <3> DEFINE nw == [w EXCEPT !.indexed = FALSE]
               gw == [nw EXCEPT !.persisted = 0, !.current = Absent, !.reload = Absent]
    <3>1. /\ nw \in Maps /\ gw \in Maps /\ nw.rev = w.rev /\ gw.rev = w.rev
          /\ nw.current = w.current /\ nw.reload = w.reload
          /\ gw.current = Absent /\ gw.reload = Absent
      BY <1>1 DEF Maps, Files
    <3>2. \/ /\ Stamped(gw, p, Drop(FALSE, 0), "dispatch")
             /\ Without(disk) \/ w.rev + 1 \in late'
          \/ Stamped(nw, p, Nothing, "dispatch")
      BY <2>5 DEF DropMissing
    <3>3. StampOK(Nothing) BY <1>1 DEF StampOK
    <3>4. Drop(FALSE, 0) \in Updates /\ Drop(FALSE, 0).kind = "drop"
      BY AuthFacts DEF Drop, Updates
    <3>5. Without(disk) \/ w.rev + 1 \in late' => StampOK(Drop(FALSE, 0))
      BY <3>4 DEF StampOK
    <3> HIDE DEF nw, gw
    <3> QED BY <1>1, <1>2, <3>1, <3>2, <3>3, <3>4, <3>5
  <2>3. CASE p = "scan" /\ ScanPublishes
    <3> DEFINE again == Kept # Absent /\ ~Incomplete /\ PersistedDuringScan(Kept)
               unread == Incomplete /\ ~w.touched /\ Known
               h == IF unread \/ again THEN Torn ELSE w.hash
               d == IF again THEN 0 ELSE w.persisted
               nw == [w EXCEPT !.hash = h, !.persisted = d, !.reload = Absent,
                               !.touched = FALSE, !.indexed = NewState # Absent,
                               !.current = NewState]
    <3>1. /\ proc["scan"].pc = "publish"
          /\ Stamped(nw, "scan", ScanUpdate, "dispatch")
      BY <2>3 DEF ScanPublishes
    <3>2. h \in Files /\ d \in Nat /\ (NewState # Absent) \in BOOLEAN BY <1>1 DEF Maps, Files
    <3> HIDE DEF h, d
    <3>3. nw \in Maps /\ nw.rev = w.rev /\ nw.current = NewState /\ nw.reload = Absent
      BY <1>1, <3>2, ScanFacts DEF Maps
    <3>4. AuthOld(NewState) BY <1>1, <1>2, ScanFacts DEF AuthOld
    <3>5. ScanUpdate \in Updates /\ StampOK(ScanUpdate)
      BY <1>1, <3>1, <3>4, ScanFacts DEF StampOK, NoFile, AuthOld
    <3> HIDE DEF nw
    <3> QED BY <1>2, <2>3, <3>1, <3>3, <3>4, <3>5
  <2>4. CASE p = "hook" /\ DispatchPersisted
    <3> DEFINE u == proc["hook"].upd
               a == u.auth
               n == w.rev + 1
               nw == [w EXCEPT !.indexed = TRUE, !.current = a, !.persisted = n]
    <3>1. proc["hook"].pc = "persisted" /\ Stamped(nw, "hook", u, "dispatch")
      BY <2>4 DEF DispatchPersisted
    <3>2. u \in Updates /\ u.kind = "put" BY <1>1, <3>1 DEF HandInv, Locals, Proc
    <3>3. a \in Auths /\ n \in Nat /\ Old(a.body) BY <1>1, <1>2, <2>4, <3>2, UpdateFacts
    <3>5. StampOK(u) /\ AuthOld(a) BY <3>2, <3>3 DEF StampOK, AuthOld
    <3> HIDE DEF u, a, n
    <3>4. nw \in Maps /\ nw.rev = w.rev /\ nw.current = a /\ nw.reload = w.reload
      BY <1>1, <3>3 DEF Maps
    <3> HIDE DEF nw
    <3> QED BY <1>2, <2>4, <3>1, <3>2, <3>4, <3>5
  <2> QED BY <2>1, <2>2, <2>3, <2>4, <2>5 DEF Stamps
<1>4. PICK nw \in Maps, made \in Updates :
        /\ nw.rev = w.rev /\ AuthOld(nw.current) /\ AuthOld(nw.reload)
        /\ StampOK(made) /\ Stamped(nw, p, made, "dispatch")
  BY <1>3
<1>5. /\ proc[p].pc \in {"forget", "generate", "publish", "persisted"}
      /\ proc[p].pc = "publish" => p = "scan"
  BY DEF Stamps, RemoveClient, AddOrUpdate, DropMissing, ScanPublishes, DispatchPersisted
<1>6. /\ proc' \in [Proc -> Locals] /\ w' \in Maps
      /\ w'.current = nw.current /\ w'.reload = nw.reload
      /\ proc'[p].pc = "dispatch" /\ proc'[p].data = Absent
      /\ \A q \in Proc : q # p => proc'[q] = proc[q]
      /\ \/ made = Nothing /\ w'.rev = w.rev /\ proc'[p].upd = Nothing
         \/ /\ made # Nothing /\ w'.rev = w.rev + 1
            /\ proc'[p].upd \in Updates
            /\ proc'[p].upd.rev = w.rev + 1 /\ proc'[p].upd.kind = made.kind
            /\ proc'[p].upd.auth = made.auth /\ proc'[p].upd.removal = made.removal
  BY <1>1, <1>4, StampedFacts
<1>7. \A x, y : x.kind = y.kind /\ x.auth = y.auth /\ x.removal = y.removal /\ StampOK(y) => StampOK(x)
  BY DEF StampOK
<1> QED BY <1>4, <1>5, <1>6, <1>7

-----------------------------------------------------------------------------
(***************************************************************************)
(* The steps, one by one: what becomes of the file, of the watcher's maps  *)
(* and of the processes.                                                   *)
(***************************************************************************)

\* The steps that write a new content, be it only in the manager, and the others.
Writes ==
    \/ \E b \in {New, Absent, Torn}, without \in BOOLEAN : Edit(b, without)
    \/ \E written \in BOOLEAN : Refresh(written) \/ PatchSaves(written)
    \/ LoginSaves

\* What becomes of the file: it is left without the credential, with another content,
\* or as it is, because the manager could not save.
Emptied ==
    /\ disk' \in {New, Absent} /\ void' = void \cup ({disk'} \ {Absent})
    /\ away' = New /\ gone' = TRUE /\ unsaved' = {}
Replaced ==
    /\ disk' \in {New, Torn} /\ UNCHANGED <<void, away, gone>> /\ unsaved' = {}
NotSaved ==
    /\ UNCHANGED <<disk, void, gone>> /\ unsaved' = unsaved \cup {New}
    /\ away' = IF Without(disk) THEN New + 1 ELSE away

LEMMA WritesFacts ==
  ASSUME TypeOK, Writes
  PROVE  /\ left' \in Lefts /\ New' = New + 1 /\ New \in Body /\ New # Absent
         /\ UNCHANGED <<w, scan, rescanMu, updateMu, pending, batch, queue, claimed, late>>
         /\ Emptied \/ Replaced \/ NotSaved
         /\ mgr' = mgr \/ (mgr # Absent /\ mgr' # Absent)
         /\ events' \in Seq({"write", "remove"}) /\ missed' \in BOOLEAN
         /\ stamp' \in Nat /\ mgr' \in Auths \cup {Absent}
<1>1. /\ left \in Lefts /\ events \in Seq({"write", "remove"}) /\ missed \in BOOLEAN
      /\ gone \in BOOLEAN /\ stamp \in Nat /\ mgr \in Auths \cup {Absent}
  BY DEF TypeOK
<1>2. New \in Nat /\ New # Absent /\ New # Torn BY <1>1, NewFacts
<1>3. \/ \E b \in {New, Absent, Torn}, without \in BOOLEAN :
           (b = Absent => without) /\ (b = Torn => ~without) /\ Changes(b, without)
      \/ NotSaved /\ UNCHANGED events
  <2>1. \A written \in BOOLEAN : Persist(written) =>
          (New # Absent /\ New # Torn /\ Changes(New, FALSE)) \/ (NotSaved /\ UNCHANGED events)
    BY <1>2 DEF Persist, NotSaved
  <2>2. CASE \E b \in {New, Absent, Torn}, without \in BOOLEAN : Edit(b, without)
    BY <2>2 DEF Edit
  <2>3. CASE \E written \in BOOLEAN : Refresh(written) \/ PatchSaves(written)
    <3>1. \E written \in BOOLEAN : Persist(written) BY <2>3 DEF Refresh, PatchSaves
    <3> QED BY <2>1, <3>1
  <2>4. CASE LoginSaves BY <1>2, <2>4 DEF LoginSaves
  <2> QED BY <2>2, <2>3, <2>4 DEF Writes
<1>4. \/ left.edit > 0 /\ left' = [left EXCEPT !.edit = @ - 1]
      \/ left.save > 0 /\ left' = [left EXCEPT !.save = @ - 1]
      \/ left.hook > 0 /\ left' = [left EXCEPT !.hook = @ - 1]
  BY DEF Writes, Edit, Refresh, LoginSaves, PatchSaves
<1>5. left' \in Lefts /\ New \in Body BY <1>1, <1>4, NewFacts
<1>6. New' = New + 1 BY <1>1, <1>4, NewGrows
<1>7. Emptied \/ Replaced \/ NotSaved
  <2>1. ASSUME NEW b \in {New, Absent, Torn}, Changes(b, TRUE), b # Torn PROVE Emptied
    BY <2>1 DEF Changes, Emptied
  <2>2. ASSUME NEW b \in {New, Absent, Torn}, Changes(b, FALSE), b # Absent PROVE Replaced
    BY <1>1, <2>2 DEF Changes, Replaced
  <2> QED BY <1>3, <2>1, <2>2
<1>8. events' \in Seq({"write", "remove"})
  <2>1. \/ events' = Append(events, "write") \/ events' = Append(events, "remove") \/ events' = events
    BY <1>3 DEF Changes
  <2> QED BY <1>1, <2>1
<1>9. UNCHANGED <<w, scan, rescanMu, updateMu, pending, batch, queue, claimed, late>>
  BY DEF Writes, Edit, Refresh, LoginSaves, PatchSaves
<1>10. missed' \in BOOLEAN BY <1>1 DEF Writes, Edit, Refresh, LoginSaves, PatchSaves, Persist
<1>11. \/ mgr' = mgr /\ stamp' = stamp
       \/ /\ mgr # Absent /\ stamp' = stamp + 1 /\ mgr' = Auth(Snapshot(New).body, "none", stamp + 1)
  BY DEF Writes, Edit, Refresh, LoginSaves, PatchSaves, Persist, Commit
<1>12. Snapshot(New).body = New BY <1>5, AuthFacts
<1>13. stamp + 1 \in Nat BY <1>1
<1>14. Auth(New, "none", stamp + 1) \in Auths /\ Auth(New, "none", stamp + 1) # Absent
  BY <1>5, <1>13, AuthFacts
<1> QED BY <1>1, <1>2, <1>5, <1>6, <1>7, <1>8, <1>9, <1>10, <1>11, <1>12, <1>13, <1>14

\* Every other step leaves the file alone.
LEMMA OtherFacts ==
  ASSUME TypeOK, Next, ~Writes
  PROVE  UNCHANGED <<disk, away, void, unsaved>> /\ left' \in Lefts /\ New' = New
<1>1. left \in Lefts BY DEF TypeOK
<1>2. CASE \E affected, force \in BOOLEAN : ScanBegins(affected, force)
  <2>1. left.scan > 0 /\ left' = [left EXCEPT !.scan = @ - 1] /\ UNCHANGED <<disk, away, void, unsaved>>
    BY <1>2 DEF ScanBegins
  <2> QED BY <1>1, <2>1, NewFacts, NewStays
<1>3. CASE Loop \/ \E p \in Proc : Step(p)
  <2>1. CASE Loop BY <2>1, <1>1, NewStays DEF Loop, NextPendingBatch, SendUpdate
  <2>2. CASE EventStep
    BY <2>2, <1>1, NewStays DEF EventStep, HandleEvent, Debounced, EventChecks, EventRemoves, RemoveClient
  <2>3. CASE ScanStep
    BY <2>3, <1>1, NewStays DEF ScanStep, ScanStarts, ScanReads, ScanPublishes, ScanRereads
  <2>4. CASE HookStep
    BY <2>4, <1>1, NewStays DEF HookStep, LoginReadsBack, LoginFails, DispatchPersisted
  <2>5. CASE TakeUpdates BY <2>5, <1>1, NewStays DEF TakeUpdates
  <2>6. ASSUME NEW p \in Proc, Applies(p) PROVE UNCHANGED <<disk, away, left, void, unsaved>>
    BY <2>6 DEF Applies, Claim, Lookup, RemoveAuth, RegisterAuth, UpdateAuth, RereadDiscarded
  <2>7. ASSUME NEW p \in Proc, Reads(p) PROVE UNCHANGED <<disk, away, left, void, unsaved>>
    BY <2>7 DEF Reads, Observe, ReadFile, CompareHash, AddOrUpdate, DropMissing, Dispatch
  <2> QED BY <1>1, <1>3, <2>1, <2>2, <2>3, <2>4, <2>5, <2>6, <2>7, NewStays DEF Step
<1> QED BY <1>2, <1>3 DEF Next, World, Writes

\* The same of the state after the step.
WithoutNext == disk' = Absent \/ disk' \in void'
OldNext(b) == b < New' /\ (WithoutNext => b < away')
SeenNext(b) == b < New' /\ (b \notin void' => OldNext(b))

\* The file, from one state to the next.
LEMMA FileFacts ==
  ASSUME TypeOK, BodyInv, Next
  PROVE  /\ New \in Nat /\ away \in Nat /\ away' \in Nat /\ disk' \in Files
         /\ void \subseteq void' /\ void' \subseteq Body /\ unsaved' \subseteq Body
         /\ \A b \in void' : b \in void \/ (b = New /\ New' = New + 1)
         /\ \/ New' = New /\ UNCHANGED <<disk, void, away>>
            \/ New' = New + 1 /\ WithoutNext /\ away' = New /\ gone' /\ disk' \in {New, Absent}
            \/ New' = New + 1 /\ ~WithoutNext /\ away' = away /\ disk' \in {New, Torn}
            \/ /\ New' = New + 1 /\ disk' = disk /\ void' = void /\ (WithoutNext <=> Without(disk))
               /\ away' = IF Without(disk) THEN New + 1 ELSE away
<1>1. /\ New \in Nat /\ away \in Nat /\ void \subseteq Body /\ unsaved \subseteq Body /\ disk \in Files
      /\ New # Absent /\ New # Torn
  BY NewFacts DEF TypeOK
<1>2. Torn \notin Body /\ Absent \notin Body /\ Absent # Torn /\ \A b \in Body : b \in Nat
  BY WatcherAssumption DEF Body
<1>3. New \notin void BY <1>1, <1>2 DEF BodyInv
<1>4. CASE ~Writes BY <1>1, <1>4, OtherFacts
<1>5. CASE Writes
  <2>1. New' = New + 1 /\ New \in Body /\ (Emptied \/ Replaced \/ NotSaved) BY <1>5, WritesFacts
  <2>2. CASE Emptied BY <1>1, <1>2, <2>1, <2>2 DEF Emptied, WithoutNext, Files
  <2>3. CASE Replaced
    <3>1. ~WithoutNext BY <1>1, <1>2, <1>3, <2>3 DEF Replaced, WithoutNext
    <3> QED BY <1>1, <1>2, <2>1, <2>3, <3>1 DEF Replaced, Files
  <2>4. CASE NotSaved BY <1>1, <2>1, <2>4 DEF NotSaved, WithoutNext, Without
  <2> QED BY <2>1, <2>2, <2>3, <2>4
<1> QED BY <1>4, <1>5

\* A content that is old stays so.
LEMMA OldStays ==
  ASSUME TypeOK, BodyInv, Next, NEW b \in Nat
  PROVE  /\ Old(b) => OldNext(b)
         /\ Seen(b) => SeenNext(b)
         /\ b < New /\ b \notin void => b \notin void'
<1>1. Old(b) => OldNext(b)
  <2>1. away <= New /\ (UNCHANGED <<disk, void>> => (WithoutNext <=> Without(disk)))
    BY DEF BodyInv, WithoutNext, Without
  <2> QED BY <2>1, FileFacts DEF Old, OldNext
<1>2. b < New => b < New' /\ (b \notin void => b \notin void') BY FileFacts
<1>3. b \notin void' => b \notin void BY FileFacts
<1> QED BY <1>1, <1>2, <1>3 DEF Seen, SeenNext

\* The watcher's maps: a new revision only with a stamped update, and no credential of
\* a content that nobody wrote.
LEMMA MapsStep ==
  ASSUME TypeOK, HandInv, BodyInv, Next
  PROVE  /\ w' \in Maps /\ AuthOld(w'.current) /\ AuthOld(w'.reload)
         /\ w'.rev = w.rev \/ \E p \in Proc : Stamps(p)
<1>1. /\ w \in Maps /\ proc \in [Proc -> Locals] /\ w.current \in Auths \cup {Absent}
      /\ w.reload \in Auths \cup {Absent}
  BY DEF TypeOK, Maps
<1>2. AuthOld(w.current) /\ AuthOld(w.reload) /\ AuthOld(Absent) BY DEF BodyInv, AuthOld
<1>3. CASE UNCHANGED w BY <1>1, <1>2, <1>3
<1>4. CASE \E p \in Proc : Stamps(p) BY <1>4, StampsFacts
<1>5. CASE w' = Observed BY <1>1, <1>2, <1>5, ObservedFacts
<1>6. CASE \E r \in BOOLEAN : w' = [w EXCEPT !.removed = r] \/ w' = [Observed EXCEPT !.removed = r]
  <2>1. PICK r \in BOOLEAN : w' = [w EXCEPT !.removed = r] \/ w' = [Observed EXCEPT !.removed = r] BY <1>6
  <2> DEFINE m == Observed
  <2>2. m \in Maps /\ m.rev = w.rev /\ m.current = w.current /\ m.reload = w.reload
    BY <1>1, ObservedFacts
  <2> HIDE DEF m
  <2>3. w' = [w EXCEPT !.removed = r] \/ w' = [m EXCEPT !.removed = r] BY <2>1 DEF m
  <2>4. w' \in Maps /\ w'.rev = w.rev /\ w'.current = w.current /\ w'.reload = w.reload
    BY <1>1, <2>2, <2>3 DEF Maps
  <2> QED BY <1>2, <2>4
<1>7. ASSUME NEW p \in Proc, CompareHash(p) PROVE w' = w \/ \E h \in Files : w' = [w EXCEPT !.hash = h]
  <2>1. proc[p].data \in Files BY <1>1, <1>7 DEF CompareHash, HandInv, Locals, Files
  <2> QED BY <1>7, <2>1 DEF CompareHash
<1>8. ASSUME NEW h \in Files, w' = [w EXCEPT !.hash = h]
      PROVE  w' \in Maps /\ w'.rev = w.rev /\ w'.current = w.current /\ w'.reload = w.reload
  BY <1>1, <1>8 DEF Maps
<1>9. CASE \E affected, force \in BOOLEAN : ScanBegins(affected, force)
  <2> DEFINE c == w.current
  <2>1. w' = w \/ w' = [w EXCEPT !.reload = c, !.current = Absent] BY <1>9 DEF ScanBegins
  <2>2. c \in Auths \cup {Absent} /\ AuthOld(c) BY <1>1, <1>2
  <2> HIDE DEF c
  <2>3. CASE w' = [w EXCEPT !.reload = c, !.current = Absent]
    <3>1. w' \in Maps /\ w'.rev = w.rev /\ w'.current = Absent /\ w'.reload = c
      BY <1>1, <2>2, <2>3 DEF Maps
    <3> QED BY <1>2, <2>2, <3>1
  <2> QED BY <1>3, <2>1, <2>3
<1>10. ASSUME NEW p \in Proc, RereadDiscarded(p)
       PROVE  /\ w' \in Maps /\ w'.rev = w.rev /\ w'.reload = w.reload /\ AuthOld(w'.current)
  <2>1. CASE w' = w BY <1>1, <1>2, <2>1
  <2>2. CASE w.current # Absent /\ w' = [w EXCEPT !.hash = Torn, !.current.snap = "bad"]
    <3> DEFINE c == [w.current EXCEPT !.snap = "bad"]
    <3>1. w.current \in Auths BY <1>1, <2>2
    <3>2. c \in Auths /\ c.body = w.current.body BY <3>1 DEF Auths
    <3>3. AuthOld(c) BY <1>2, <2>2, <3>2 DEF AuthOld
    <3>4. w' = [w EXCEPT !.hash = Torn, !.current = c] BY <1>1, <2>2 DEF Maps
    <3> HIDE DEF c
    <3>5. w' \in Maps /\ w'.rev = w.rev /\ w'.current = c /\ w'.reload = w.reload
      BY <1>1, <3>2, <3>4 DEF Maps, Files
    <3> QED BY <3>3, <3>5
  <2> QED BY <1>10, <2>1, <2>2 DEF RereadDiscarded
<1>11. CASE Writes BY <1>3, <1>11, WritesFacts
<1>12. CASE Loop BY <1>3, <1>12 DEF Loop, NextPendingBatch, SendUpdate
<1>13. CASE EventStep
  <2>1. CASE HandleEvent BY <1>5, <2>1 DEF HandleEvent
  <2>2. CASE Debounced BY <1>3, <2>2 DEF Debounced
  <2>3. CASE EventChecks
    <3> DEFINE r == w.removed \/ proc["events"].pc = "remove"
    <3>1. w' = [w EXCEPT !.removed = r] BY <2>3 DEF EventChecks
    <3>2. r \in BOOLEAN BY <1>1 DEF Maps
    <3> HIDE DEF r
    <3> QED BY <1>6, <3>1, <3>2
  <2>4. CASE EventRemoves
    <3>1. w' = [w EXCEPT !.removed = TRUE] \/ w' = [Observed EXCEPT !.removed = TRUE]
      BY <2>4 DEF EventRemoves
    <3> QED BY <1>6, <3>1
  <2>5. CASE RemoveClient BY <1>4, <2>5 DEF Stamps, Proc
  <2> QED BY <1>13, <2>1, <2>2, <2>3, <2>4, <2>5 DEF EventStep
<1>14. CASE ScanStep
  <2>1. CASE ScanPublishes BY <1>4, <2>1 DEF Stamps, Proc
  <2> QED BY <1>3, <1>14, <2>1 DEF ScanStep, ScanStarts, ScanReads, ScanRereads
<1>15. CASE HookStep
  <2>1. CASE DispatchPersisted BY <1>4, <2>1 DEF Stamps, Proc
  <2> QED BY <1>3, <1>15, <2>1 DEF HookStep, LoginReadsBack, LoginFails
<1>16. CASE TakeUpdates BY <1>3, <1>16 DEF TakeUpdates
<1>17. ASSUME NEW p \in Proc, Applies(p)
       PROVE  w' \in Maps /\ AuthOld(w'.current) /\ AuthOld(w'.reload) /\ w'.rev = w.rev
  <2>1. CASE UNCHANGED w BY <1>1, <1>2, <2>1
  <2>2. CASE RereadDiscarded(p) BY <1>2, <1>10, <2>2
  <2> QED BY <1>17, <2>1, <2>2 DEF Applies, Claim, Lookup, RemoveAuth, RegisterAuth, UpdateAuth
<1>18. ASSUME NEW p \in Proc, Reads(p)
       PROVE  /\ w' \in Maps /\ AuthOld(w'.current) /\ AuthOld(w'.reload)
              /\ w'.rev = w.rev \/ Stamps(p)
  <2>1. CASE UNCHANGED w BY <1>1, <1>2, <2>1
  <2>2. CASE Observe(p) BY <1>2, <1>1, <2>2, ObservedFacts DEF Observe
  <2>3. CASE CompareHash(p) BY <1>2, <1>7, <1>8, <2>1, <2>3
  <2>4. CASE AddOrUpdate(p) \/ DropMissing(p)
    <3>1. Stamps(p) BY <2>4 DEF Stamps
    <3> QED BY <3>1, StampsFacts
  <2> QED BY <1>18, <2>1, <2>2, <2>3, <2>4 DEF Reads, ReadFile, Dispatch
<1> QED BY <1>9, <1>11, <1>12, <1>13, <1>14, <1>15, <1>16, <1>17, <1>18 DEF Next, World, Step, Writes

-----------------------------------------------------------------------------
\* The updates a step can bring: one that a request has just made and that has no
\* revision yet, or one that has just been stamped.
Made(u) == u.kind = "put" /\ u.rev = 0 /\ OldNext(u.auth.body)
NewlyStamped(u) ==
    /\ w'.rev = w.rev + 1 /\ u.rev = w.rev + 1 /\ StampOK(u)
    /\ u.kind = "put" => OldNext(u.auth.body)
    /\ \E p \in Proc : Stamps(p) /\ proc'[p].pc = "dispatch" /\ proc[p].pc # "dispatch"

\* The moves of a process that leave what it has in hand alone.
Moves(p, to) ==
    /\ Goto(p, to) /\ to \in Places
    /\ to \notin {"hash", "generate", "readback", "persisted"}

\* What can become of the processes.
ProcStep ==
    \/ proc' = proc
    \/ \E p \in Proc, to \in Places : Moves(p, to)
    \/ \E p \in Proc : Return(p) \/ Stamps(p)
    \/ \E p \in Proc : ReadFile(p) /\ disk \in Body
         /\ proc' = [proc EXCEPT ![p].pc = "hash", ![p].data = disk]
    \/ \E p \in Proc : proc[p].pc = "hash"
         /\ proc' = [proc EXCEPT ![p].pc = "generate", ![p].old = w.indexed]
    \/ \E p \in Proc : proc' = [proc EXCEPT ![p].pc = "observe", ![p].upd = Nothing]
    \/ TakeUpdates \/ LoginSaves \/ LoginReadsBack \/ \E written \in BOOLEAN : PatchSaves(written)

LEMMA ProcMoves ==
  ASSUME TypeOK, Next
  PROVE  ProcStep
<1>1. proc \in [Proc -> Locals] /\ events \in Seq({"write", "remove"}) BY DEF TypeOK
<1>2. {"events", "scan", "consumer", "hook"} = Proc BY DEF Proc
<1>3. CASE Writes
  BY <1>3 DEF Writes, Edit, Refresh, ProcStep
<1>4. CASE \E affected, force \in BOOLEAN : ScanBegins(affected, force)
  <2>1. Moves("scan", "start") BY <1>4 DEF ScanBegins, Moves, Places
  <2> QED BY <1>2, <2>1 DEF ProcStep, Moves
<1>5. CASE Loop BY <1>5 DEF Loop, NextPendingBatch, SendUpdate, ProcStep
<1>6. CASE EventStep
  <2>1. CASE HandleEvent
    <3>1. events # <<>> /\ Goto("events", Head(events)) BY <2>1 DEF HandleEvent
    <3>2. Head(events) \in {"write", "remove"} BY <1>1, <3>1
    <3>3. Moves("events", Head(events)) BY <3>1, <3>2 DEF Moves, Places
    <3> QED BY <1>2, <3>3 DEF ProcStep, Moves
  <2>2. CASE Debounced BY <1>2, <2>2 DEF Debounced, ProcStep
  <2>3. CASE EventChecks
    <3>1. Return("events") \/ Moves("events", "observe") BY <2>3 DEF EventChecks, Moves, Places
    <3> QED BY <1>2, <3>1 DEF ProcStep, Moves
  <2>4. CASE EventRemoves
    <3>1. Return("events") \/ Moves("events", "forget") BY <2>4 DEF EventRemoves, Moves, Places
    <3> QED BY <1>2, <3>1 DEF ProcStep, Moves
  <2>5. CASE RemoveClient BY <1>2, <2>5 DEF ProcStep, Stamps
  <2> QED BY <1>6, <2>1, <2>2, <2>3, <2>4, <2>5 DEF EventStep
<1>7. CASE ScanStep
  <2>1. CASE ScanPublishes BY <1>2, <2>1 DEF ProcStep, Stamps
  <2>2. CASE ScanStarts
    <3>1. Moves("scan", "snapshot") BY <2>2 DEF ScanStarts, Moves, Places
    <3> QED BY <1>2, <3>1 DEF ProcStep, Moves
  <2>3. CASE ScanReads
    <3>1. Moves("scan", "publish") BY <2>3 DEF ScanReads, Moves, Places
    <3> QED BY <1>2, <3>1 DEF ProcStep, Moves
  <2>4. CASE ScanRereads
    <3>1. Moves("scan", "observe") BY <2>4 DEF ScanRereads, Moves, Places
    <3> QED BY <1>2, <3>1 DEF ProcStep, Moves
  <2> QED BY <1>7, <2>1, <2>2, <2>3, <2>4 DEF ScanStep
<1>8. CASE HookStep BY <1>2, <1>8 DEF HookStep, LoginFails, Stamps, ProcStep
<1>9. CASE TakeUpdates BY <1>9 DEF ProcStep
<1>10. ASSUME NEW p \in Proc, Applies(p) PROVE ProcStep
  <2>1. CASE Claim(p)
    <3>1. Return(p) \/ Moves(p, "lookup") BY <2>1 DEF Claim, Moves, Places
    <3> QED BY <3>1 DEF ProcStep, Moves
  <2>2. CASE Lookup(p)
    <3>1. Return(p) \/ \E to \in {"remove", "register", "update"} : Moves(p, to)
      BY <2>2 DEF Lookup, Moves, Places
    <3> QED BY <3>1 DEF ProcStep, Moves
  <2>3. CASE RemoveAuth(p) \/ RegisterAuth(p) BY <2>3 DEF RemoveAuth, RegisterAuth, ProcStep
  <2>4. CASE UpdateAuth(p)
    <3>1. Return(p) \/ Moves(p, "discarded") BY <2>4 DEF UpdateAuth, Moves, Places
    <3> QED BY <3>1 DEF ProcStep, Moves
  <2>5. CASE RereadDiscarded(p) BY <2>5 DEF RereadDiscarded, ProcStep
  <2> QED BY <1>10, <2>1, <2>2, <2>3, <2>4, <2>5 DEF Applies
<1>11. ASSUME NEW p \in Proc, Reads(p) PROVE ProcStep
  <2>1. CASE Observe(p)
    <3>1. Moves(p, "read") BY <2>1 DEF Observe, Moves, Places
    <3> QED BY <3>1 DEF ProcStep, Moves
  <2>2. CASE ReadFile(p) BY <2>2 DEF ReadFile, ProcStep
  <2>3. CASE CompareHash(p) BY <2>3 DEF CompareHash, ProcStep
  <2>4. CASE AddOrUpdate(p) \/ DropMissing(p) BY <2>4 DEF Stamps, ProcStep
  <2>5. CASE Dispatch(p)
    <3>1. After(p) \in {"claim", "again", "idle"} BY DEF After
    <3>2. Return(p) \/ Moves(p, After(p)) BY <2>5, <3>1 DEF Dispatch, Moves, Places
    <3> QED BY <3>2 DEF ProcStep, Moves
  <2> QED BY <1>11, <2>1, <2>2, <2>3, <2>4, <2>5 DEF Reads
<1> QED BY <1>3, <1>4, <1>5, <1>6, <1>7, <1>8, <1>9, <1>10, <1>11 DEF Next, World, Step, Writes

\* A process comes by contents and updates in no other way than these.
HandStep ==
    /\ proc' \in [Proc -> Locals] /\ HandInv'
    /\ \A q \in Proc : proc'[q].data # Absent => SeenNext(proc'[q].data)
    /\ \E n \in Updates : \A q \in Proc :
         \/ proc'[q].upd \in {proc[q].upd, Nothing} \cup {queue[i] : i \in 1..Len(queue)}
         \/ proc'[q].upd = n /\ (Made(n) \/ NewlyStamped(n))

LEMMA HandFacts ==
  ASSUME TypeOK, RevInv, HandInv, BodyInv, Next
  PROVE  HandStep
<1>1. /\ proc \in [Proc -> Locals] /\ w \in Maps /\ {rescanMu, updateMu} \subseteq Proc \cup {Nobody}
      /\ queue \in Seq(Updates) /\ w.rev \in Nat /\ Nothing \in Updates
      /\ Nothing.kind = "none" /\ disk \in Files
  BY IdleType DEF TypeOK, Maps, Nothing
<1>2. "hook" \in Proc /\ "consumer" \in Proc BY DEF Proc
<1>3. \A b \in Body : b \in Nat /\ b # Absent /\ b # Torn
  BY WatcherAssumption DEF Body
<1>4. \A q \in Proc : /\ proc[q].data \in Body \cup {Absent} /\ proc[q].upd \in Updates
                      /\ proc[q].pc \in Places
  BY <1>1 DEF Locals
<1>5. \A b \in Nat : (Old(b) => OldNext(b)) /\ (Seen(b) => SeenNext(b)) BY OldStays
<1>6. \A q \in Proc : proc[q].data # Absent => SeenNext(proc[q].data)
  BY <1>3, <1>4, <1>5 DEF BodyInv
<1>7. /\ disk \in Body => SeenNext(disk)
      /\ disk \in Body \ void => OldNext(disk)
  BY <1>3, <1>5 DEF BodyInv, Seen, Old, Without
<1>20. proc["hook"].pc = "readback" =>
         proc["hook"].data \notin void' /\ OldNext(proc["hook"].data)
  <2>1. SUFFICES ASSUME proc["hook"].pc = "readback"
                 PROVE  proc["hook"].data \notin void' /\ OldNext(proc["hook"].data)
    OBVIOUS
  <2>2. proc["hook"].data \in Body /\ proc["hook"].data \notin void BY <1>2, <1>4, <2>1 DEF HandInv
  <2>3. Seen(proc["hook"].data) BY <1>2, <1>3, <2>2 DEF BodyInv
  <2>4. Old(proc["hook"].data) /\ proc["hook"].data < New BY <2>2, <2>3 DEF Seen
  <2> QED BY <1>3, <2>2, <2>4, OldStays
<1>8. ASSUME proc' \in [Proc -> Locals], NEW p \in Proc,
             \A q \in Proc : q # p => proc'[q] = proc[q],
             proc'[p].upd \in {proc[p].upd, Nothing} \cup {queue[i] : i \in 1..Len(queue)},
             proc'[p].data # Absent => SeenNext(proc'[p].data),
             proc'[p].pc \in {"hash", "generate", "readback"} => proc'[p].data # Absent,
             proc'[p].pc = "readback" => proc'[p].data \notin void',
             proc'[p].pc # "persisted" \/ (proc[p].pc = "persisted" /\ proc'[p].upd = proc[p].upd)
      PROVE  HandStep
  <2>1. HandInv' BY <1>2, <1>8, <1>20 DEF HandInv
  <2> QED BY <1>1, <1>6, <1>8, <2>1 DEF HandStep
<1>9. CASE proc' = proc
  <2>1. HandInv' BY <1>9, <1>20 DEF HandInv
  <2> QED BY <1>1, <1>6, <1>9, <2>1 DEF HandStep
<1>10. ASSUME NEW p \in Proc, NEW to \in Places, Moves(p, to) PROVE HandStep
  <2>1. /\ proc' \in [Proc -> Locals]
        /\ \A q \in Proc : proc'[q].upd = proc[q].upd /\ proc'[q].data = proc[q].data
        /\ \A q \in Proc : proc'[q].pc = IF q = p THEN to ELSE proc[q].pc
        /\ \A q \in Proc : q # p => proc'[q] = proc[q]
    BY <1>1, <1>10, GotoFacts DEF Moves
  <2>2. to \notin {"hash", "generate", "readback", "persisted"} BY <1>10 DEF Moves
  <2> QED BY <1>6, <1>8, <2>1, <2>2
<1>21. ASSUME NEW p \in Proc, proc[p].pc = "hash",
              proc' = [proc EXCEPT ![p].pc = "generate", ![p].old = w.indexed]
       PROVE  HandStep
  <2>1. w.indexed \in BOOLEAN BY <1>1 DEF Maps
  <2>2. /\ proc' \in [Proc -> Locals] /\ proc'[p].data = proc[p].data /\ proc'[p].upd = proc[p].upd
        /\ proc'[p].pc = "generate" /\ \A q \in Proc : q # p => proc'[q] = proc[q]
    BY <1>1, <1>21, <2>1 DEF Locals, Places
  <2>3. proc[p].data # Absent BY <1>21 DEF HandInv
  <2> QED BY <1>6, <1>8, <2>2, <2>3
<1>11. ASSUME NEW p \in Proc, Return(p) PROVE HandStep
  <2>1. /\ proc' \in [Proc -> Locals]
        /\ proc'[p].upd = Nothing /\ proc'[p].data = Absent /\ proc'[p].pc = "idle"
        /\ \A q \in Proc : q # p => proc'[q] = proc[q]
    BY <1>1, <1>11, ReturnFacts
  <2> QED BY <1>8, <2>1
<1>12. ASSUME NEW p \in Proc, Stamps(p) PROVE HandStep
  <2>1. /\ proc' \in [Proc -> Locals]
        /\ proc[p].pc \in {"forget", "generate", "publish", "persisted"}
        /\ proc'[p].pc = "dispatch" /\ proc'[p].data = Absent
        /\ \A q \in Proc : q # p => proc'[q] = proc[q]
        /\ \/ w'.rev = w.rev /\ proc'[p].upd = Nothing
           \/ w'.rev = w.rev + 1 /\ proc'[p].upd.rev = w.rev + 1 /\ StampOK(proc'[p].upd)
    BY <1>12, StampsFacts
  <2>2. CASE proc'[p].upd = Nothing BY <1>8, <2>1, <2>2
  <2>3. CASE w'.rev = w.rev + 1 /\ proc'[p].upd.rev = w.rev + 1 /\ StampOK(proc'[p].upd)
    <3> DEFINE n == proc'[p].upd
    <3>1. n \in Updates BY <2>1 DEF Locals
    <3>2. n.kind = "put" => OldNext(n.auth.body)
      <4>1. SUFFICES ASSUME n.kind = "put" PROVE OldNext(n.auth.body) OBVIOUS
      <4>2. n.auth \in Auths BY <3>1, <4>1, UpdateFacts
      <4>3. n.auth.body \in Nat BY <1>3, <4>2 DEF Auths
      <4>4. Old(n.auth.body) BY <2>3, <4>1 DEF StampOK
      <4> QED BY <1>5, <4>3, <4>4
    <3>3. NewlyStamped(n) BY <1>12, <2>1, <2>3, <3>2 DEF NewlyStamped
    <3>4. HandInv' BY <1>2, <1>20, <2>1 DEF HandInv
    <3> QED BY <1>6, <2>1, <3>1, <3>3, <3>4 DEF HandStep
  <2> QED BY <2>1, <2>2, <2>3
<1>13. ASSUME NEW p \in Proc, disk \in Body,
              proc' = [proc EXCEPT ![p].pc = "hash", ![p].data = disk]
       PROVE  HandStep
  <2>1. /\ proc' \in [Proc -> Locals] /\ proc'[p].data = disk /\ proc'[p].upd = proc[p].upd
        /\ proc'[p].pc = "hash" /\ \A q \in Proc : q # p => proc'[q] = proc[q]
    BY <1>1, <1>13 DEF Locals, Places
  <2> QED BY <1>3, <1>7, <1>8, <1>13, <2>1
<1>14. ASSUME NEW p \in Proc, proc' = [proc EXCEPT ![p].pc = "observe", ![p].upd = Nothing]
       PROVE  HandStep
  <2>1. /\ proc' \in [Proc -> Locals] /\ proc'[p].data = proc[p].data /\ proc'[p].upd = Nothing
        /\ proc'[p].pc = "observe" /\ \A q \in Proc : q # p => proc'[q] = proc[q]
    BY <1>1, <1>14 DEF Locals, Places
  <2> QED BY <1>6, <1>8, <2>1
<1>15. CASE TakeUpdates
  <2>1. /\ queue # <<>>
        /\ proc' = [proc EXCEPT !["consumer"].pc = "claim", !["consumer"].upd = Newest(queue)]
    BY <1>15 DEF TakeUpdates
  <2>2. \A i \in 1..Len(queue) : queue[i].rev <= w.rev BY DEF RevInv, Carried
  <2>3. PICK i \in 1..Len(queue) : Newest(queue) = queue[i] BY <1>1, <2>1, <2>2, NewestIn
  <2> DEFINE u == queue[i]
  <2>4. u \in Updates /\ u \in {queue[k] : k \in 1..Len(queue)} BY <1>1
  <2>5. proc' = [proc EXCEPT !["consumer"].pc = "claim", !["consumer"].upd = u] BY <2>1, <2>3
  <2> HIDE DEF u
  <2>6. /\ proc' \in [Proc -> Locals] /\ proc'["consumer"].data = proc["consumer"].data
        /\ proc'["consumer"].upd = u
        /\ proc'["consumer"].pc = "claim" /\ \A q \in Proc : q # "consumer" => proc'[q] = proc[q]
    BY <1>1, <1>2, <2>4, <2>5 DEF Locals, Places
  <2> QED BY <1>2, <1>6, <1>8, <2>4, <2>6
<1>16. CASE LoginSaves
  <2>1. New \in Body /\ New' = New + 1 /\ disk' = New /\ void' = void
    BY <1>16, WritesFacts DEF Writes, LoginSaves, Changes
  <2>2. proc' = [proc EXCEPT !["hook"].pc = "readback", !["hook"].data = New] BY <1>16 DEF LoginSaves
  <2>3. New \notin void' BY <1>3, <2>1 DEF BodyInv
  <2>4. SeenNext(New) BY <1>3, <2>1, <2>3 DEF SeenNext, OldNext, WithoutNext
  <2> DEFINE b == New
  <2>5. b \in Body /\ SeenNext(b) /\ b # Absent /\ b \notin void' BY <1>3, <2>1, <2>3, <2>4
  <2>6. proc' = [proc EXCEPT !["hook"].pc = "readback", !["hook"].data = b] BY <2>2
  <2> HIDE DEF b
  <2>7. /\ proc' \in [Proc -> Locals] /\ proc'["hook"].data = b
        /\ proc'["hook"].upd = proc["hook"].upd
        /\ proc'["hook"].pc = "readback" /\ \A q \in Proc : q # "hook" => proc'[q] = proc[q]
    BY <1>1, <1>2, <2>5, <2>6 DEF Locals, Places
  <2> QED BY <1>2, <1>8, <2>5, <2>7
<1>17. ASSUME NEW a \in Auths, OldNext(a.body),
              proc' = [proc EXCEPT !["hook"].pc = "persisted", !["hook"].upd = Put(a, 0)]
       PROVE  HandStep
  <2> DEFINE n == Put(a, 0)
  <2>1. n \in Puts /\ n.kind = "put" /\ n.rev = 0 /\ n.auth = a BY AuthFacts
  <2>2. n \in Updates BY <2>1 DEF Updates
  <2>3. Made(n) BY <1>17, <2>1 DEF Made
  <2>4. proc' = [proc EXCEPT !["hook"].pc = "persisted", !["hook"].upd = n] BY <1>17
  <2> HIDE DEF n
  <2>5. /\ proc' \in [Proc -> Locals] /\ proc'["hook"].upd = n
        /\ proc'["hook"].data = proc["hook"].data
        /\ proc'["hook"].pc = "persisted" /\ \A q \in Proc : q # "hook" => proc'[q] = proc[q]
    BY <1>1, <1>2, <2>2, <2>4 DEF Locals, Places
  <2>6. HandInv' BY <2>1, <2>5 DEF HandInv
  <2> QED BY <1>2, <1>6, <2>2, <2>3, <2>5, <2>6 DEF HandStep
<1>18. CASE LoginReadsBack
  <2> DEFINE d == proc["hook"].data
  <2>1. d \in Body /\ OldNext(d) BY <1>2, <1>4, <1>18, <1>20 DEF LoginReadsBack, HandInv
  <2> DEFINE a == IF disk \in Body \ void THEN Snapshot(disk) ELSE Auth(d, "none", 0)
  <2>2. a \in Auths /\ OldNext(a.body)
    <3>1. CASE disk \in Body \ void BY <1>7, <3>1, AuthFacts
    <3>2. CASE disk \notin Body \ void BY <2>1, <3>2, AuthFacts
    <3> QED BY <3>1, <3>2
  <2>3. proc' = [proc EXCEPT !["hook"].pc = "persisted", !["hook"].upd = Put(a, 0)]
    BY <1>18 DEF LoginReadsBack
  <2> HIDE DEF a
  <2> QED BY <1>17, <2>2, <2>3
<1>19. ASSUME NEW written \in BOOLEAN, PatchSaves(written) PROVE HandStep
  <2>1. New \in Body /\ New' = New + 1 /\ stamp' \in Nat BY <1>19, WritesFacts DEF Writes
  <2>2. mgr' = Auth(Snapshot(New).body, "none", stamp') BY <1>19 DEF PatchSaves, Persist, Commit
  <2>3. mgr' \in Auths /\ mgr'.body = New BY <2>1, <2>2, AuthFacts
  <2>4. OldNext(New)
    <3>1. CASE Changes(New, FALSE)
      <4>1. disk' = New /\ void' = void BY <3>1 DEF Changes
      <4>2. New \notin void /\ New # Absent BY <1>3, <2>1 DEF BodyInv
      <4> QED BY <1>3, <2>1, <4>1, <4>2 DEF OldNext, WithoutNext
    <3>2. CASE /\ UNCHANGED <<disk, void>>
               /\ away' = IF Without(disk) THEN New + 1 ELSE away
      <4>1. WithoutNext => away' = New + 1 BY <3>2 DEF WithoutNext, Without
      <4> QED BY <1>3, <2>1, <4>1 DEF OldNext
    <3> QED BY <1>19, <3>1, <3>2 DEF PatchSaves, Persist
  <2>5. proc' = [proc EXCEPT !["hook"].pc = "persisted", !["hook"].upd = Put(mgr', 0)]
    BY <1>19 DEF PatchSaves
  <2> QED BY <1>17, <2>3, <2>4, <2>5
<1> QED BY <1>9, <1>10, <1>11, <1>12, <1>13, <1>14, <1>15, <1>16, <1>18, <1>19, <1>21, ProcMoves DEF ProcStep

\* What is pending or sent has come from a process.
LEMMA SendFacts ==
  ASSUME TypeOK, Next
  PROVE  /\ pending' \in {pending, Nothing} \cup {proc[p].upd : p \in Proc}
         /\ batch' \in {batch, <<>>, <<pending>>}
         /\ queue' \in {queue, <<>>, queue \o batch}
<1>1. CASE Writes BY <1>1, WritesFacts
<1>2. CASE \E affected, force \in BOOLEAN : ScanBegins(affected, force) BY <1>2 DEF ScanBegins
<1>3. CASE Loop BY <1>3 DEF Loop, NextPendingBatch, SendUpdate
<1>4. CASE EventStep
  BY <1>4 DEF EventStep, HandleEvent, Debounced, EventChecks, EventRemoves, RemoveClient
<1>5. CASE ScanStep BY <1>5 DEF ScanStep, ScanStarts, ScanReads, ScanPublishes, ScanRereads
<1>6. CASE HookStep BY <1>6 DEF HookStep, LoginReadsBack, LoginFails, DispatchPersisted
<1>7. CASE TakeUpdates BY <1>7 DEF TakeUpdates
<1>8. ASSUME NEW p \in Proc, Applies(p) PROVE UNCHANGED <<pending, batch, queue>>
  BY <1>8 DEF Applies, Claim, Lookup, RemoveAuth, RegisterAuth, UpdateAuth, RereadDiscarded
<1>9. ASSUME NEW p \in Proc, Reads(p)
      PROVE  pending' \in {pending, proc[p].upd} /\ UNCHANGED <<batch, queue>>
  BY <1>9 DEF Reads, Observe, ReadFile, CompareHash, AddOrUpdate, DropMissing, Dispatch
<1> QED BY <1>1, <1>2, <1>3, <1>4, <1>5, <1>6, <1>7, <1>8, <1>9 DEF Next, World, Step, Writes

LEMMA CarriedStep ==
  ASSUME TypeOK, RevInv, HandInv, BodyInv, Next
  PROVE  /\ pending' \in Updates /\ batch' \in Seq(Updates) /\ queue' \in Seq(Updates)
         /\ \E n \in Updates : \A u \in Carried' :
              \/ u \in Carried \/ u = Nothing
              \/ u = n /\ (Made(n) \/ NewlyStamped(n))
<1>1. /\ proc \in [Proc -> Locals] /\ pending \in Updates /\ Nothing \in Updates
      /\ batch \in Seq(Updates) /\ queue \in Seq(Updates)
  BY IdleType DEF TypeOK
<1>2. \A p \in Proc : proc[p].upd \in Updates BY <1>1 DEF Locals
<1>3. /\ pending' \in {pending, Nothing} \cup {proc[p].upd : p \in Proc}
      /\ batch' \in {batch, <<>>, <<pending>>}
      /\ queue' \in {queue, <<>>, queue \o batch}
  BY SendFacts
<1>4. pending' \in Updates /\ pending' \in Carried \cup {Nothing} BY <1>1, <1>2, <1>3 DEF Carried
<1>5. batch' \in Seq(Updates) /\ \A i \in 1..Len(batch') : batch'[i] \in Carried
  <2>1. CASE batch' = batch BY <1>1, <2>1 DEF Carried
  <2>2. CASE batch' = <<>> BY <2>2
  <2>3. CASE batch' = <<pending>>
    <3>1. batch' \in Seq(Updates) /\ Len(batch') = 1 /\ batch'[1] = pending BY <1>1, <2>3
    <3> QED BY <3>1 DEF Carried
  <2> QED BY <1>3, <2>1, <2>2, <2>3
<1>6. queue' \in Seq(Updates) /\ \A i \in 1..Len(queue') : queue'[i] \in Carried
  <2>1. CASE queue' = queue BY <1>1, <2>1 DEF Carried
  <2>3. CASE queue' = <<>> BY <2>3
  <2>2. CASE queue' = queue \o batch
    <3>1. queue' \in Seq(Updates) /\ Len(queue') = Len(queue) + Len(batch) BY <1>1, <2>2
    <3>2. Len(queue) \in Nat /\ Len(batch) \in Nat BY <1>1
    <3>3. ASSUME NEW i \in 1..Len(queue') PROVE queue'[i] \in Carried
      <4>1. CASE i <= Len(queue)
        <5>1. i \in 1..Len(queue) /\ queue'[i] = queue[i] BY <1>1, <2>2, <3>1, <3>2, <4>1
        <5> QED BY <5>1 DEF Carried
      <4>2. CASE i > Len(queue)
        <5>1. i - Len(queue) \in 1..Len(batch) /\ queue'[i] = batch[i - Len(queue)]
          BY <1>1, <2>2, <3>1, <3>2, <4>2
        <5> QED BY <5>1 DEF Carried
      <4> QED BY <3>1, <3>2, <4>1, <4>2
    <3> QED BY <3>1, <3>3
  <2> QED BY <1>3, <2>1, <2>2, <2>3
<1>7. PICK n \in Updates : \A q \in Proc :
         \/ proc'[q].upd \in {proc[q].upd, Nothing} \cup {queue[i] : i \in 1..Len(queue)}
         \/ proc'[q].upd = n /\ (Made(n) \/ NewlyStamped(n))
  BY HandFacts DEF HandStep
<1>8. \A q \in Proc :
         \/ proc'[q].upd \in Carried \cup {Nothing}
         \/ proc'[q].upd = n /\ (Made(n) \/ NewlyStamped(n))
  BY <1>7 DEF Carried
<1>9. \A u \in Carried' : \/ \E q \in Proc : u = proc'[q].upd
                          \/ u = pending'
                          \/ \E i \in 1..Len(batch') : u = batch'[i]
                          \/ \E i \in 1..Len(queue') : u = queue'[i]
  BY DEF Carried
<1>10. \A u \in Carried' :
              \/ u \in Carried \/ u = Nothing
              \/ u = n /\ (Made(n) \/ NewlyStamped(n))
  BY <1>4, <1>5, <1>6, <1>8, <1>9
<1> QED BY <1>4, <1>5, <1>6, <1>10

-----------------------------------------------------------------------------
\* The manager and the claims: who changes them.
LEMMA ApplyFacts ==
  ASSUME TypeOK, Next
  PROVE  /\ \/ claimed' = claimed
            \/ \E p \in Applier : Claim(p) /\ claimed' = proc[p].upd.rev /\ ~(claimed' <= claimed)
         /\ \/ mgr' = mgr /\ gone' = gone
            \/ Writes
            \/ \E p \in Applier : RemoveAuth(p) \/ RegisterAuth(p) \/ UpdateAuth(p)
<1>1. CASE Writes BY <1>1, WritesFacts
<1>2. CASE \E affected, force \in BOOLEAN : ScanBegins(affected, force) BY <1>2 DEF ScanBegins
<1>3. CASE Loop BY <1>3 DEF Loop, NextPendingBatch, SendUpdate
<1>4. CASE EventStep
  BY <1>4 DEF EventStep, HandleEvent, Debounced, EventChecks, EventRemoves, RemoveClient
<1>5. CASE ScanStep BY <1>5 DEF ScanStep, ScanStarts, ScanReads, ScanPublishes, ScanRereads
<1>6. CASE HookStep BY <1>6 DEF HookStep, LoginReadsBack, LoginFails, DispatchPersisted
<1>7. CASE TakeUpdates BY <1>7 DEF TakeUpdates
<1>8. ASSUME NEW p \in Applier, Applies(p)
      PROVE  /\ claimed' = claimed \/ (Claim(p) /\ claimed' = proc[p].upd.rev /\ ~(claimed' <= claimed))
             /\ (mgr' = mgr /\ gone' = gone) \/ RemoveAuth(p) \/ RegisterAuth(p) \/ UpdateAuth(p)
  <2>1. CASE Claim(p) BY <2>1 DEF Claim
  <2> QED BY <1>8, <2>1 DEF Applies, Lookup, RemoveAuth, RegisterAuth, UpdateAuth, RereadDiscarded
<1>9. ASSUME NEW p \in Proc, Reads(p) PROVE UNCHANGED <<claimed, mgr, gone>>
  BY <1>9 DEF Reads, Observe, ReadFile, CompareHash, AddOrUpdate, DropMissing, Dispatch
<1>10. \A p : p \in {"consumer", "hook"} => p \in Applier BY DEF Applier
<1> QED BY <1>1, <1>2, <1>3, <1>4, <1>5, <1>6, <1>7, <1>8, <1>9, <1>10 DEF Next, World, Step, Writes

\* Only a removal takes the credential away, and only a registration forgets that the
\* file was away.
LEMMA ManagerFacts ==
  ASSUME TypeOK, LockInv, Next
  PROVE  /\ stamp' \in Nat /\ mgr' \in Auths \cup {Absent} /\ gone' \in BOOLEAN
         /\ mgr # Absent /\ mgr' = Absent => \E p \in Applier : RemoveAuth(p)
         /\ \/ \E p \in Applier : RegisterAuth(p)
            \/ (gone => gone') /\ (mgr' # Absent => mgr # Absent)
<1>1. mgr \in Auths \cup {Absent} /\ stamp \in Nat /\ gone \in BOOLEAN /\ proc \in [Proc -> Locals]
  BY DEF TypeOK
<1>2. CASE Writes
  <2>1. gone' \in BOOLEAN /\ (gone => gone')
    BY <1>1, <1>2, WritesFacts DEF Emptied, Replaced, NotSaved
  <2> QED BY <1>1, <1>2, <2>1, WritesFacts
<1>3. ASSUME NEW p \in Applier, RegisterAuth(p) \/ UpdateAuth(p)
      PROVE  /\ \/ mgr' = mgr /\ stamp' = stamp
                \/ stamp' \in Nat /\ mgr' \in Auths /\ mgr' # Absent
             /\ gone' \in BOOLEAN /\ (UpdateAuth(p) => gone' = gone /\ mgr # Absent)
  <2>1. p \in Proc /\ proc[p].upd \in Updates BY <1>1 DEF Applier, Proc, Locals
  <2>2. proc[p].pc \in {"register", "update"} BY <1>3 DEF RegisterAuth, UpdateAuth
  <2>3. proc[p].upd.kind = "put" BY <2>2 DEF LockInv, Busy
  <2> DEFINE a == proc[p].upd.auth
  <2>4. a \in Auths BY <2>1, <2>3, UpdateFacts
  <2>5. a.body \in Body BY <2>4 DEF Auths
  <2>6. stamp + 1 \in Nat BY <1>1
  <2>7. Auth(a.body, "none", stamp + 1) \in Auths /\ Auth(a.body, "none", stamp + 1) # Absent
    BY <2>5, <2>6, AuthFacts
  <2>8. \/ mgr' = mgr /\ stamp' = stamp
        \/ stamp' = stamp + 1 /\ mgr' = Auth(a.body, "none", stamp + 1)
    BY <1>3 DEF RegisterAuth, UpdateAuth, Commit
  <2>9. gone' \in BOOLEAN
    <3>1. CASE RegisterAuth(p)
      <4>1. gone' = (proc[p].upd.auth.body < away) BY <3>1 DEF RegisterAuth
      <4>2. (proc[p].upd.auth.body < away) \in BOOLEAN OBVIOUS
      <4> QED BY <4>1, <4>2, Zenon
    <3>2. CASE UpdateAuth(p) BY <1>1, <3>2 DEF UpdateAuth
    <3> QED BY <1>3, <3>1, <3>2
  <2>10. UpdateAuth(p) => gone' = gone /\ mgr # Absent BY DEF UpdateAuth, LockInv, Busy
  <2> QED BY <2>6, <2>7, <2>8, <2>9, <2>10
<1>4. CASE mgr' = mgr /\ gone' = gone /\ ~Writes /\ stamp' \in Nat BY <1>1, <1>4
<1>5. ASSUME NEW p \in Applier, RemoveAuth(p) PROVE mgr' = Absent /\ UNCHANGED <<stamp, gone>>
  BY <1>5 DEF RemoveAuth
<1>6. stamp' = stamp \/ Writes \/ \E p \in Applier : RegisterAuth(p) \/ UpdateAuth(p)
  <2>1. CASE \E affected, force \in BOOLEAN : ScanBegins(affected, force) BY <2>1 DEF ScanBegins
  <2>2. CASE Loop BY <2>2 DEF Loop, NextPendingBatch, SendUpdate
  <2>3. CASE EventStep
    BY <2>3 DEF EventStep, HandleEvent, Debounced, EventChecks, EventRemoves, RemoveClient
  <2>4. CASE ScanStep BY <2>4 DEF ScanStep, ScanStarts, ScanReads, ScanPublishes, ScanRereads
  <2>5. CASE HookStep BY <2>5 DEF HookStep, LoginReadsBack, LoginFails, DispatchPersisted
  <2>6. CASE TakeUpdates BY <2>6 DEF TakeUpdates
  <2>7. ASSUME NEW p \in Applier, Applies(p) PROVE stamp' = stamp \/ RegisterAuth(p) \/ UpdateAuth(p)
    BY <2>7 DEF Applies, Claim, Lookup, RemoveAuth, RereadDiscarded
  <2>8. ASSUME NEW p \in Proc, Reads(p) PROVE stamp' = stamp
    BY <2>8 DEF Reads, Observe, ReadFile, CompareHash, AddOrUpdate, DropMissing, Dispatch
  <2>9. \A p : p \in {"consumer", "hook"} => p \in Applier BY DEF Applier
  <2> QED BY <2>1, <2>2, <2>3, <2>4, <2>5, <2>6, <2>7, <2>8, <2>9 DEF Next, World, Step, Writes
<1> QED BY <1>1, <1>2, <1>3, <1>4, <1>5, <1>6, ApplyFacts

\* How a process gets to work under authUpdateMu, and the scan to its publication.
LEMMA PcStep ==
  ASSUME TypeOK, HandInv, BodyInv, Next, NEW q \in Proc,
         proc'[q] # proc[q], proc'[q].pc \in Busy \cup {"publish"}
  PROVE  \/ q \in Applier /\ (Claim(q) \/ Lookup(q) \/ UpdateAuth(q))
         \/ q = "events"
         \/ q = "scan" /\ ScanReads
<1>1. proc \in [Proc -> Locals] /\ {rescanMu, updateMu} \subseteq Proc \cup {Nobody} BY DEF TypeOK
<1>2. {"events", "scan", "consumer", "hook"} = Proc BY DEF Proc
<1>3. ASSUME NEW p \in Proc, NEW to \in Places, Goto(p, to), to \notin Busy \cup {"publish"} PROVE FALSE
  BY <1>1, <1>3, GotoFacts
<1>4. ASSUME NEW p \in Proc, Return(p) PROVE FALSE BY <1>1, <1>4, ReturnFacts DEF Busy
<1>5. ASSUME NEW p \in Proc, Stamps(p) PROVE FALSE BY <1>5, StampsFacts DEF Busy
<1>6. ASSUME NEW p \in Proc, NEW d, proc' = [proc EXCEPT ![p].pc = "hash", ![p].data = d] PROVE FALSE
  BY <1>1, <1>6 DEF Busy, Locals
<1>7. ASSUME NEW p \in Proc, NEW to \in {"observe", "claim", "persisted"}, NEW u,
             proc' = [proc EXCEPT ![p].pc = to, ![p].upd = u]
      PROVE FALSE
  BY <1>1, <1>7 DEF Busy, Locals
<1>8. CASE Writes
  <2>1. CASE LoginSaves
    <3>1. proc' = [proc EXCEPT !["hook"].pc = "readback", !["hook"].data = New]
      BY <2>1 DEF LoginSaves
    <3> QED BY <1>1, <1>2, <3>1 DEF Busy, Locals
  <2>2. CASE \E written \in BOOLEAN : PatchSaves(written)
    <3>1. proc' = [proc EXCEPT !["hook"].pc = "persisted", !["hook"].upd = Put(mgr', 0)]
      BY <2>2 DEF PatchSaves
    <3> QED BY <1>2, <1>7, <3>1
  <2> QED BY <1>8, <2>1, <2>2 DEF Writes, Edit, Refresh
<1>9. CASE \E affected, force \in BOOLEAN : ScanBegins(affected, force)
  <2>1. Goto("scan", "start") BY <1>9 DEF ScanBegins
  <2> QED BY <1>2, <1>3, <2>1 DEF Busy, Places
<1>10. CASE Loop BY <1>10 DEF Loop, NextPendingBatch, SendUpdate
<1>11. CASE EventStep
  <2>1. CASE \E to \in Places : Goto("events", to)
    BY <1>1, <1>2, <2>1, GotoFacts
  <2>2. HandleEvent => \E to \in Places : Goto("events", to)
    <3>1. SUFFICES ASSUME HandleEvent PROVE \E to \in Places : Goto("events", to) OBVIOUS
    <3>2. events # <<>> /\ Goto("events", Head(events)) /\ events \in Seq({"write", "remove"})
      BY <3>1 DEF HandleEvent, TypeOK
    <3>3. Head(events) \in Places BY <3>2 DEF Places
    <3> QED BY <3>2, <3>3
  <2>3. Debounced => Return("events") BY DEF Debounced
  <2>4. EventChecks => Return("events") \/ Goto("events", "observe") BY DEF EventChecks
  <2>5. EventRemoves => Return("events") \/ Goto("events", "forget") BY DEF EventRemoves
  <2>6. RemoveClient => Stamps("events") BY DEF Stamps
  <2>7. "observe" \in Places /\ "forget" \in Places BY DEF Places
  <2> QED BY <1>2, <1>4, <1>5, <1>11, <2>1, <2>2, <2>3, <2>4, <2>5, <2>6, <2>7 DEF EventStep
<1>12. CASE ScanStep
  <2>1. CASE ScanReads
    <3>1. Goto("scan", "publish") BY <2>1 DEF ScanReads
    <3>2. q = "scan" BY <1>1, <1>2, <3>1, GotoFacts DEF Places
    <3> QED BY <2>1, <3>2
  <2>2. ScanStarts => Goto("scan", "snapshot") BY DEF ScanStarts
  <2>3. ScanRereads => Goto("scan", "observe") BY DEF ScanRereads
  <2>4. ScanPublishes => Stamps("scan") BY DEF Stamps
  <2>5. /\ "snapshot" \in Places /\ "observe" \in Places
        /\ "snapshot" \notin Busy \cup {"publish"} /\ "observe" \notin Busy \cup {"publish"}
    BY DEF Places, Busy
  <2> QED BY <1>2, <1>3, <1>5, <1>12, <2>1, <2>2, <2>3, <2>4, <2>5 DEF ScanStep
<1>13. CASE HookStep
  <2>1. LoginReadsBack => \E u : proc' = [proc EXCEPT !["hook"].pc = "persisted", !["hook"].upd = u]
    BY DEF LoginReadsBack
  <2>2. DispatchPersisted => Stamps("hook") BY DEF Stamps
  <2> QED BY <1>2, <1>4, <1>5, <1>7, <1>13, <2>1, <2>2 DEF HookStep, LoginFails
<1>14. CASE TakeUpdates
  <2>1. proc' = [proc EXCEPT !["consumer"].pc = "claim", !["consumer"].upd = Newest(queue)]
    BY <1>14 DEF TakeUpdates
  <2> QED BY <1>2, <1>7, <2>1
<1>15. ASSUME NEW p \in Applier, Applies(p)
       PROVE  q \in Applier /\ (Claim(q) \/ Lookup(q) \/ UpdateAuth(q))
  <2>1. p \in Proc BY DEF Applier, Proc
  <2>2. Claim(p) \/ Lookup(p) \/ UpdateAuth(p) => \E to \in Places : Return(p) \/ Goto(p, to)
    BY DEF Claim, Lookup, UpdateAuth, Places
  <2>3. CASE Claim(p) \/ Lookup(p) \/ UpdateAuth(p)
    <3>1. q = p BY <1>1, <1>4, <2>1, <2>2, <2>3, GotoFacts
    <3> QED BY <2>3, <3>1
  <2>4. RemoveAuth(p) \/ RegisterAuth(p) => Return(p) BY DEF RemoveAuth, RegisterAuth
  <2>5. RereadDiscarded(p) =>
          Return(p) \/ proc' = [proc EXCEPT ![p].pc = "observe", ![p].upd = Nothing]
    BY DEF RereadDiscarded
  <2> QED BY <1>4, <1>7, <1>15, <2>1, <2>3, <2>4, <2>5 DEF Applies
<1>16. ASSUME NEW p \in Proc, Reads(p) PROVE FALSE
  <2>1. Observe(p) => Goto(p, "read") BY DEF Observe
  <2>2. ReadFile(p) => Return(p) \/ proc' = [proc EXCEPT ![p].pc = "hash", ![p].data = disk]
    BY DEF ReadFile
  <2>3. CompareHash(p) => Return(p) \/ proc' = [proc EXCEPT ![p].pc = "generate", ![p].old = w.indexed]
    BY DEF CompareHash
  <2>7. ASSUME proc' = [proc EXCEPT ![p].pc = "generate", ![p].old = w.indexed] PROVE FALSE
    BY <1>1, <2>7 DEF Busy, Locals
  <2>4. AddOrUpdate(p) \/ DropMissing(p) => Stamps(p) BY DEF Stamps
  <2>5. Dispatch(p) => Return(p) \/ (Goto(p, After(p)) /\ After(p) \in {"claim", "again", "idle"})
    BY DEF Dispatch, After
  <2>6. \A to \in {"read", "claim", "again", "idle"} :
           to \in Places /\ to \notin Busy \cup {"publish"}
    BY DEF Places, Busy
  <2> QED BY <1>3, <1>4, <1>5, <1>6, <1>16, <2>1, <2>2, <2>3, <2>4, <2>5, <2>6, <2>7 DEF Reads
<1>17. \A p : p \in {"consumer", "hook"} => p \in Applier BY DEF Applier
<1> QED BY <1>8, <1>9, <1>10, <1>11, <1>12, <1>13, <1>14, <1>15, <1>16, <1>17 DEF Next, World, Step, Writes

\* What a scan remembers: the revision and the file it saw.
LEMMA MemoryFacts ==
  ASSUME TypeOK, HandInv, BodyInv, Next
  PROVE  /\ scan' \in Memories
         /\ scan'.found \in {scan.found, disk, Absent} /\ scan'.rev \in {scan.rev, w.rev, 0}
         /\ \/ scan' = scan
            \/ proc'["scan"].pc # "publish"
            \/ ScanReads /\ scan'.rev = scan.rev /\ scan'.found = disk
<1>1. scan \in Memories /\ w.rev \in Nat /\ disk \in Files /\ "scan" \in Proc
      /\ proc \in [Proc -> Locals]
  BY DEF TypeOK, Maps, Proc
<1>2. CASE scan' = scan BY <1>1, <1>2
<1>3. CASE Writes BY <1>2, <1>3, WritesFacts
<1>4. CASE \E affected, force \in BOOLEAN : ScanBegins(affected, force)
  <2>1. PICK f \in BOOLEAN : /\ scan' = [scan EXCEPT !.force = f, !.reread = FALSE]
                             /\ Goto("scan", "start")
    BY <1>4 DEF ScanBegins
  <2>2. proc'["scan"].pc # "publish" BY <1>1, <2>1, GotoFacts DEF Places
  <2>3. scan' \in Memories /\ scan'.rev = scan.rev /\ scan'.found = scan.found
    BY <1>1, <2>1 DEF Memories
  <2> QED BY <2>2, <2>3
<1>5. CASE Loop BY <1>2, <1>5 DEF Loop, NextPendingBatch, SendUpdate
<1>6. CASE EventStep
  BY <1>2, <1>6 DEF EventStep, HandleEvent, Debounced, EventChecks, EventRemoves, RemoveClient
<1>7. CASE ScanStep
  <2>1. CASE ScanStarts
    <3>1. scan' = [scan EXCEPT !.rev = w.rev] /\ Goto("scan", "snapshot") BY <2>1 DEF ScanStarts
    <3>2. proc'["scan"].pc # "publish" BY <1>1, <3>1, GotoFacts DEF Places
    <3>3. scan' \in Memories /\ scan'.rev = w.rev /\ scan'.found = scan.found
      BY <1>1, <3>1 DEF Memories
    <3> QED BY <3>2, <3>3
  <2>2. CASE ScanReads
    <3>1. scan' = [scan EXCEPT !.found = disk] BY <2>2 DEF ScanReads
    <3>2. scan' \in Memories /\ scan'.rev = scan.rev /\ scan'.found = disk
      BY <1>1, <3>1 DEF Memories
    <3> QED BY <2>2, <3>2
  <2>3. CASE ScanPublishes
    <3>1. PICK r \in BOOLEAN : scan' = [rev |-> 0, force |-> FALSE, found |-> Absent, reread |-> r]
      BY <2>3 DEF ScanPublishes
    <3>2. scan' \in Memories /\ scan'.rev = 0 /\ scan'.found = Absent
      BY <3>1 DEF Memories, Files
    <3>3. Stamps("scan") BY <2>3 DEF Stamps
    <3>4. proc'["scan"].pc # "publish" BY <1>1, <3>3, StampsFacts
    <3> QED BY <3>2, <3>4
  <2>4. CASE ScanRereads
    <3>1. scan' = [scan EXCEPT !.reread = FALSE] /\ Goto("scan", "observe") BY <2>4 DEF ScanRereads
    <3>2. proc'["scan"].pc # "publish" BY <1>1, <3>1, GotoFacts DEF Places
    <3>3. scan' \in Memories /\ scan'.rev = scan.rev /\ scan'.found = scan.found
      BY <1>1, <3>1 DEF Memories
    <3> QED BY <3>2, <3>3
  <2> QED BY <1>7, <2>1, <2>2, <2>3, <2>4 DEF ScanStep
<1>8. CASE HookStep BY <1>2, <1>8 DEF HookStep, LoginReadsBack, LoginFails, DispatchPersisted
<1>9. CASE TakeUpdates BY <1>2, <1>9 DEF TakeUpdates
<1>10. ASSUME NEW p \in Proc, Applies(p) PROVE scan' = scan
  BY <1>10 DEF Applies, Claim, Lookup, RemoveAuth, RegisterAuth, UpdateAuth, RereadDiscarded
<1>11. ASSUME NEW p \in Proc, Reads(p) PROVE scan' = scan
  BY <1>11 DEF Reads, Observe, ReadFile, CompareHash, AddOrUpdate, DropMissing, Dispatch
<1> QED BY <1>2, <1>3, <1>4, <1>5, <1>6, <1>7, <1>8, <1>9, <1>10, <1>11 DEF Next, World, Step, Writes

\* The mutexes: whoever has authUpdateMu keeps it until it returns.
LEMMA MutexFacts ==
  ASSUME TypeOK, Next
  PROVE  /\ {rescanMu', updateMu'} \subseteq Proc \cup {Nobody}
         /\ \/ updateMu' = updateMu
            \/ \E p \in Proc : Return(p)
            \/ \E p \in Applier : updateMu = Nobody /\ updateMu' = p /\ Claim(p)
<1>1. /\ {rescanMu, updateMu} \subseteq Proc \cup {Nobody} /\ proc \in [Proc -> Locals]
      /\ {"events", "scan", "consumer", "hook"} = Proc
  BY DEF TypeOK, Proc
<1>2. CASE rescanMu' \in {rescanMu, "events", "scan"} /\ updateMu' = updateMu BY <1>1, <1>2
<1>3. ASSUME NEW p \in Proc, Return(p) PROVE {rescanMu', updateMu'} \subseteq Proc \cup {Nobody}
  BY <1>1, <1>3, ReturnFacts
<1>4. CASE Writes BY <1>2, <1>4, WritesFacts
<1>5. CASE \E affected, force \in BOOLEAN : ScanBegins(affected, force) BY <1>2, <1>5 DEF ScanBegins
<1>6. CASE Loop BY <1>2, <1>6 DEF Loop, NextPendingBatch, SendUpdate
<1>7. CASE EventStep
  <2>1. CASE Return("events") BY <1>1, <1>3, <2>1
  <2> QED BY <1>2, <1>7, <2>1
      DEF EventStep, HandleEvent, Debounced, EventChecks, EventRemoves, RemoveClient
<1>8. CASE ScanStep BY <1>2, <1>8 DEF ScanStep, ScanStarts, ScanReads, ScanPublishes, ScanRereads
<1>9. CASE HookStep
  BY <1>1, <1>2, <1>3, <1>9 DEF HookStep, LoginReadsBack, LoginFails, DispatchPersisted
<1>10. CASE TakeUpdates BY <1>2, <1>10 DEF TakeUpdates
<1>11. ASSUME NEW p \in Applier, Applies(p)
       PROVE  \/ Return(p)
              \/ rescanMu' \in {rescanMu, p} /\ updateMu' = updateMu
              \/ rescanMu' = rescanMu /\ updateMu = Nobody /\ updateMu' = p /\ Claim(p)
  <2>1. CASE Claim(p) BY <2>1 DEF Claim
  <2> QED BY <1>11, <2>1 DEF Applies, Lookup, RemoveAuth, RegisterAuth, UpdateAuth, RereadDiscarded
<1>12. ASSUME NEW p \in Proc, Reads(p)
       PROVE  Return(p) \/ UNCHANGED <<rescanMu, updateMu>>
  BY <1>12 DEF Reads, Observe, ReadFile, CompareHash, AddOrUpdate, DropMissing, Dispatch
<1>13. (\A p : p \in {"consumer", "hook"} => p \in Applier) /\ Applier \subseteq Proc BY DEF Applier, Proc
<1>14. ASSUME NEW p \in Applier, Applies(p)
       PROVE  {rescanMu', updateMu'} \subseteq Proc \cup {Nobody}
  BY <1>1, <1>3, <1>11, <1>13, <1>14
<1>15. ASSUME NEW p \in Proc, Reads(p)
       PROVE  {rescanMu', updateMu'} \subseteq Proc \cup {Nobody}
  BY <1>1, <1>3, <1>12, <1>15
<1> QED BY <1>4, <1>5, <1>6, <1>7, <1>8, <1>9, <1>10, <1>11, <1>12, <1>13, <1>14, <1>15
    DEF Next, World, Step, Writes

-----------------------------------------------------------------------------
(***************************************************************************)
(* The parts of the invariant, each preserved by every step.               *)
(***************************************************************************)
\* Only a removal stamped too late is remembered as such.
LEMMA LateFacts ==
  ASSUME TypeOK, Next
  PROVE  late' = late \/ (late' = late \cup {w.rev + 1} /\ w.rev + 1 \in Nat)
<1>1. w.rev + 1 \in Nat BY DEF TypeOK, Maps
<1>2. CASE Writes BY <1>2, WritesFacts
<1>3. CASE \E affected, force \in BOOLEAN : ScanBegins(affected, force) BY <1>3 DEF ScanBegins
<1>4. CASE Loop BY <1>4 DEF Loop, NextPendingBatch, SendUpdate
<1>5. CASE EventStep
  BY <1>5 DEF EventStep, HandleEvent, Debounced, EventChecks, EventRemoves, RemoveClient
<1>6. CASE ScanStep BY <1>6 DEF ScanStep, ScanStarts, ScanReads, ScanPublishes, ScanRereads
<1>7. CASE HookStep BY <1>7 DEF HookStep, LoginReadsBack, LoginFails, DispatchPersisted
<1>8. CASE TakeUpdates BY <1>8 DEF TakeUpdates
<1>9. ASSUME NEW p \in Proc, Applies(p) PROVE late' = late
  BY <1>9 DEF Applies, Claim, Lookup, RemoveAuth, RegisterAuth, UpdateAuth, RereadDiscarded
<1>10. ASSUME NEW p \in Proc, Reads(p) PROVE late' = late \/ late' = late \cup {w.rev + 1}
  BY <1>10 DEF Reads, Observe, ReadFile, CompareHash, AddOrUpdate, DropMissing, Dispatch
<1> QED BY <1>1, <1>2, <1>3, <1>4, <1>5, <1>6, <1>7, <1>8, <1>9, <1>10 DEF Next, World, Step, Writes

LEMMA TypeStep ==
  ASSUME TypeOK, RevInv, LockInv, HandInv, BodyInv, Next
  PROVE  TypeOK'
<1>1. /\ events \in Seq({"write", "remove"}) /\ missed \in BOOLEAN /\ claimed \in Nat
      /\ away \in Nat /\ disk \in Files /\ proc \in [Proc -> Locals] /\ left \in Lefts
  BY DEF TypeOK
<1>2. /\ w' \in Maps /\ scan' \in Memories /\ proc' \in [Proc -> Locals]
      /\ {rescanMu', updateMu'} \subseteq Proc \cup {Nobody}
      /\ pending' \in Updates /\ batch' \in Seq(Updates) /\ queue' \in Seq(Updates)
      /\ stamp' \in Nat /\ mgr' \in Auths \cup {Absent} /\ gone' \in BOOLEAN
  BY MapsStep, MemoryFacts, HandFacts, MutexFacts, CarriedStep, ManagerFacts DEF HandStep
<1>3. claimed' \in Nat
  <2>1. \A p \in Applier : proc[p].upd.rev \in Nat
    BY <1>1, UpdateFacts DEF Locals, Applier, Proc
  <2> QED BY <1>1, <2>1, ApplyFacts
<1>4. /\ disk' \in Files /\ away' \in Nat /\ left' \in Lefts
      /\ void' \subseteq Body /\ unsaved' \subseteq Body
  BY FileFacts, WritesFacts, OtherFacts
<1>6. late' \subseteq Nat BY LateFacts DEF TypeOK
<1>5. events' \in Seq({"write", "remove"}) /\ missed' \in BOOLEAN
  <2>1. CASE UNCHANGED <<events, missed>> BY <1>1, <2>1
  <2>2. CASE Writes BY <2>2, WritesFacts
  <2>3. CASE \E affected, force \in BOOLEAN : ScanBegins(affected, force) BY <2>1, <2>3 DEF ScanBegins
  <2>4. CASE Loop BY <2>1, <2>4 DEF Loop, NextPendingBatch, SendUpdate
  <2>5. CASE HandleEvent
    <3>1. events # <<>> /\ events' = Tail(events) /\ missed' = missed BY <2>5 DEF HandleEvent
    <3> QED BY <1>1, <3>1
  <2>6. CASE EventStep
    BY <1>1, <2>1, <2>5, <2>6 DEF EventStep, Debounced, EventChecks, EventRemoves, RemoveClient
  <2>12. CASE ScanPublishes
    <3>1. events' = events /\ missed' = (missed \/ Outdated) BY <2>12 DEF ScanPublishes
    <3> QED BY <1>1, <3>1
  <2>7. CASE ScanStep
    BY <2>1, <2>7, <2>12 DEF ScanStep, ScanStarts, ScanReads, ScanRereads
  <2>8. CASE HookStep BY <2>1, <2>8 DEF HookStep, LoginReadsBack, LoginFails, DispatchPersisted
  <2>9. CASE TakeUpdates BY <2>1, <2>9 DEF TakeUpdates
  <2>10. ASSUME NEW p \in Proc, Applies(p) PROVE events' = events /\ missed' \in BOOLEAN
    <3>1. Lookup(p) => events' = events /\ (missed' = missed \/ missed' = (missed \/ Unsure(proc[p].upd)))
      BY DEF Lookup
    <3> QED BY <1>1, <2>10, <3>1 DEF Applies, Claim, RemoveAuth, RegisterAuth, UpdateAuth, RereadDiscarded
  <2>11. ASSUME NEW p \in Proc, Reads(p) PROVE events' = events /\ missed' \in BOOLEAN
    <3>1. DropMissing(p) => events' = events /\ (missed' = missed \/ missed' = (missed \/ w.indexed))
      BY DEF DropMissing
    <3> QED BY <1>1, <2>11, <3>1 DEF Reads, Observe, ReadFile, CompareHash, AddOrUpdate, Dispatch
  <2> QED BY <1>1, <2>2, <2>3, <2>4, <2>6, <2>7, <2>8, <2>9, <2>10, <2>11 DEF Next, World, Step, Writes
<1> QED BY <1>2, <1>3, <1>4, <1>5, <1>6 DEF TypeOK

\* One more revision at most, and nobody ahead of it.
LEMMA RevStep ==
  ASSUME TypeOK, RevInv, LockInv, HandInv, BodyInv, Next
  PROVE  RevInv' /\ w'.rev \in {w.rev, w.rev + 1}
<1>1. /\ w.rev \in Nat /\ claimed \in Nat /\ scan.rev \in Nat /\ proc \in [Proc -> Locals]
  BY DEF TypeOK, Maps, Memories
<1>2. w'.rev \in {w.rev, w.rev + 1} BY MapsStep, StampsFacts
<1>3. PICK n \in Updates : \A u \in Carried' :
              \/ u \in Carried \/ u = Nothing
              \/ u = n /\ (Made(n) \/ NewlyStamped(n))
  BY CarriedStep
<1>4. ASSUME NEW u \in Carried' PROVE u.rev <= w'.rev
  <2>1. CASE u \in Carried
    <3>1. u \in Updates BY <2>1 DEF Carried, TypeOK, Locals
    <3>2. u.rev \in Nat /\ u.rev <= w.rev BY <2>1, <3>1, UpdateFacts DEF RevInv
    <3> QED BY <1>1, <1>2, <3>2
  <2>2. CASE u = Nothing BY <1>1, <1>2, <2>2 DEF Nothing
  <2>3. CASE u = n /\ (Made(n) \/ NewlyStamped(n)) BY <1>1, <1>2, <2>3 DEF Made, NewlyStamped
  <2> QED BY <1>3, <2>1, <2>2, <2>3
<1>5. claimed' <= w'.rev
  <2>1. \A p \in Applier : proc[p].upd.rev \in Nat /\ proc[p].upd.rev <= w.rev
    BY <1>1, UpdateFacts DEF Locals, Applier, Proc, RevInv, Carried
  <2>2. claimed' = claimed \/ \E p \in Applier : claimed' = proc[p].upd.rev BY ApplyFacts
  <2> QED BY <1>1, <1>2, <2>1, <2>2 DEF RevInv
<1>6. scan'.rev <= w'.rev
  <2>1. scan'.rev \in {scan.rev, w.rev, 0} BY MemoryFacts
  <2> QED BY <1>1, <1>2, <2>1 DEF RevInv
<1> QED BY <1>2, <1>4, <1>5, <1>6 DEF RevInv

\* authUpdateMu and what it protects.
LEMMA LockStep ==
  ASSUME TypeOK, RevInv, LockInv, HandInv, BodyInv, Next
  PROVE  LockInv'
<1>1. /\ proc \in [Proc -> Locals] /\ {rescanMu, updateMu} \subseteq Proc \cup {Nobody}
      /\ claimed \in Nat /\ Applier \subseteq Proc /\ Nobody \notin Proc
  BY WatcherAssumption DEF TypeOK, Applier, Proc
<1>2. SUFFICES ASSUME NEW p \in Applier, proc'[p].pc \in Busy
               PROVE  /\ updateMu' = p
                      /\ proc'[p].upd # Nothing /\ proc'[p].upd.rev = claimed' /\ claimed' > 0
                      /\ proc'[p].pc \in {"register", "update", "discarded"} => proc'[p].upd.kind = "put"
                      /\ proc'[p].pc = "update" => mgr' # Absent
  BY DEF LockInv, Applier, Busy
<1>3. CASE proc'[p] = proc[p]
  <2>1. /\ updateMu = p
        /\ proc[p].upd # Nothing /\ proc[p].upd.rev = claimed /\ claimed > 0
        /\ proc[p].pc \in {"register", "update", "discarded"} => proc[p].upd.kind = "put"
        /\ proc[p].pc = "update" => mgr # Absent
    BY <1>2, <1>3 DEF LockInv
  <2>2. updateMu # Nobody BY <1>1, <2>1
  <2>3. updateMu' = p
    <3>1. ASSUME NEW q \in Proc, Return(q) PROVE updateMu' = p
      <4>1. CASE q = p BY <1>1, <1>2, <3>1, <4>1, ReturnFacts DEF Busy
      <4>2. CASE q # p BY <1>1, <2>1, <3>1, <4>2, ReturnFacts
      <4> QED BY <4>1, <4>2
    <3> QED BY <2>1, <2>2, <3>1, MutexFacts
  <2>4. claimed' = claimed BY <2>2, ApplyFacts DEF Claim
  <2>5. proc[p].pc = "update" => mgr' # Absent
    <3>1. ASSUME NEW r \in Applier, RemoveAuth(r) PROVE r = p /\ proc[p].pc = "remove"
      BY <2>1, <3>1 DEF RemoveAuth, LockInv, Busy
    <3> QED BY <2>1, <3>1, ManagerFacts
  <2> QED BY <1>3, <2>1, <2>3, <2>4, <2>5
<1>4. CASE proc'[p] # proc[p]
  <2>1. Claim(p) \/ Lookup(p) \/ UpdateAuth(p)
    <3>1. p # "events" /\ p # "scan" BY DEF Applier
    <3> QED BY <1>1, <1>2, <1>4, <3>1, PcStep
  <2>2. ~Return(p) BY <1>1, <1>2, ReturnFacts DEF Busy
  <2>3. proc[p].upd \in Updates BY <1>1 DEF Locals
  <2>4. ASSUME NEW to \in Places, Goto(p, to) PROVE proc'[p].upd = proc[p].upd /\ proc'[p].pc = to
    BY <1>1, <2>4, GotoFacts
  <2>5. CASE Claim(p)
    <3>1. /\ ~(proc[p].upd.rev <= claimed) /\ claimed' = proc[p].upd.rev /\ updateMu' = p
          /\ Goto(p, "lookup")
      BY <2>2, <2>5 DEF Claim
    <3>2. proc'[p].upd = proc[p].upd /\ proc'[p].pc = "lookup" BY <2>4, <3>1 DEF Places
    <3>3. proc[p].upd.rev \in Nat /\ proc[p].upd.rev > 0 /\ proc[p].upd # Nothing
      BY <1>1, <2>3, <3>1, UpdateFacts
    <3> QED BY <3>1, <3>2, <3>3
  <2>6. CASE Lookup(p)
    <3> DEFINE to == IF proc[p].upd.kind = "drop" THEN "remove"
                     ELSE IF mgr = Absent THEN "register" ELSE "update"
    <3>1. Goto(p, to) /\ UNCHANGED <<updateMu, claimed, mgr>> BY <2>2, <2>6 DEF Lookup
    <3>2. to \in Places BY DEF Places
    <3>3. proc'[p].upd = proc[p].upd /\ proc'[p].pc = to BY <2>4, <3>1, <3>2
    <3>4. updateMu = p /\ proc[p].upd # Nothing /\ proc[p].upd.rev = claimed /\ claimed > 0
      BY <2>6 DEF Lookup, LockInv, Busy
    <3>5. to \in {"register", "update"} => proc[p].upd.kind = "put" BY <2>3, <3>4, UpdateFacts
    <3>6. to # "discarded" /\ (to = "update" => mgr # Absent) OBVIOUS
    <3> HIDE DEF to
    <3> QED BY <3>1, <3>3, <3>4, <3>5, <3>6
  <2>7. CASE UpdateAuth(p)
    <3>1. Goto(p, "discarded") /\ UNCHANGED <<updateMu, claimed, mgr>> BY <2>2, <2>7 DEF UpdateAuth
    <3>2. proc'[p].upd = proc[p].upd /\ proc'[p].pc = "discarded" BY <2>4, <3>1 DEF Places
    <3>3. /\ updateMu = p /\ proc[p].upd # Nothing /\ proc[p].upd.rev = claimed /\ claimed > 0
          /\ proc[p].upd.kind = "put"
      BY <2>7 DEF UpdateAuth, LockInv, Busy
    <3> QED BY <3>1, <3>2, <3>3
  <2> QED BY <2>1, <2>5, <2>6, <2>7
<1> QED BY <1>3, <1>4

\* Nobody comes by a content that has not been written.
LEMMA BodyStep ==
  ASSUME TypeOK, RevInv, LockInv, HandInv, BodyInv, Next
  PROVE  BodyInv'
<1>1. New \in Nat /\ away \in Nat /\ w \in Maps /\ scan \in Memories /\ disk \in Files
  BY NewFacts DEF TypeOK
<1>2. \A b \in Body : b \in Nat /\ b # Absent BY WatcherAssumption DEF Body
<1>3. \A b \in Nat : (Old(b) => OldNext(b)) /\ (Seen(b) => SeenNext(b)) BY OldStays
<1>4. /\ away' <= New' /\ (disk' \in Body => disk' < New')
      /\ \A b \in void' : b < New'
  <2>1. Torn \notin Body /\ Absent \notin Body BY WatcherAssumption DEF Body
  <2>2. away <= New /\ (disk \in Body => disk < New) /\ \A b \in void : b \in Nat /\ b < New
    BY <1>2 DEF BodyInv, TypeOK
  <2>3. away' <= New' BY <1>1, <2>2, FileFacts
  <2>4. disk' \in Body => disk' < New' BY <1>1, <1>2, <2>1, <2>2, FileFacts
  <2>5. \A b \in void' : b < New' BY <1>1, <2>2, FileFacts
  <2> QED BY <2>3, <2>4, <2>5
<1>5. \A a \in {w'.current, w'.reload} : a # Absent => OldNext(a.body)
  <2>1. w' \in Maps /\ AuthOld(w'.current) /\ AuthOld(w'.reload) BY MapsStep
  <2>2. \A a \in Auths : a.body \in Nat BY <1>2 DEF Auths
  <2>3. w'.current \in Auths \cup {Absent} /\ w'.reload \in Auths \cup {Absent} BY <2>1 DEF Maps
  <2> QED BY <1>3, <2>1, <2>2, <2>3 DEF AuthOld
<1>6. scan'.found \in Body => SeenNext(scan'.found)
  <2>1. scan'.found \in {scan.found, disk, Absent} BY MemoryFacts
  <2>2. disk \in Body => Seen(disk) BY <1>2 DEF BodyInv, Seen, Old, Without
  <2>3. Absent \notin Body BY <1>2
  <2> QED BY <1>2, <1>3, <2>1, <2>2, <2>3 DEF BodyInv
<1>7. \A p \in Proc : proc'[p].data # Absent => SeenNext(proc'[p].data) BY HandFacts DEF HandStep
<1>8. \A u \in Carried' : u.kind = "put" => OldNext(u.auth.body)
  <2>1. PICK n \in Updates : \A u \in Carried' :
              \/ u \in Carried \/ u = Nothing
              \/ u = n /\ (Made(n) \/ NewlyStamped(n))
    BY CarriedStep
  <2>2. ASSUME NEW u \in Carried, u.kind = "put" PROVE OldNext(u.auth.body)
    <3>1. u \in Updates BY <2>2 DEF Carried, TypeOK, Locals
    <3>2. u.auth \in Auths BY <2>2, <3>1, UpdateFacts
    <3>3. u.auth.body \in Nat BY <1>2, <3>2 DEF Auths
    <3> QED BY <1>3, <2>2, <3>3 DEF BodyInv
  <2>3. Nothing.kind # "put" BY DEF Nothing
  <2> QED BY <2>1, <2>2, <2>3 DEF Made, NewlyStamped
<1> QED BY <1>4, <1>5, <1>6, <1>7, <1>8 DEF BodyInv, Old, Seen, Without, OldNext, SeenNext, WithoutNext

\* The same of the state after the step.
OnTimeNext(u) == u.kind = "drop" /\ ~u.removal /\ u.rev \notin late'

\* A removal stays justified while it is under way.
LEMMA GoneStep ==
  ASSUME TypeOK, RevInv, LockInv, HandInv, BodyInv, GoneInv, Next
  PROVE  GoneInv'
<1>1. /\ proc \in [Proc -> Locals] /\ {rescanMu, updateMu} \subseteq Proc \cup {Nobody}
      /\ claimed \in Nat /\ Applier \subseteq Proc /\ w.rev \in Nat /\ scan.rev \in Nat
      /\ away \in Nat /\ away' \in Nat /\ New \in Nat /\ "scan" \in Proc /\ claimed' \in Nat
      /\ proc' \in [Proc -> Locals]
  BY TypeStep, NewFacts DEF TypeOK, Applier, Proc, Maps, Memories
<1>2. \A u \in Carried : u \in Updates /\ u.rev \in Nat /\ (u.kind = "put" => u.auth.body \in Nat)
  <2>1. SUFFICES ASSUME NEW u \in Carried
                 PROVE  u \in Updates /\ u.rev \in Nat /\ (u.kind = "put" => u.auth.body \in Nat)
    OBVIOUS
  <2>2. u \in Updates BY <2>1 DEF Carried, TypeOK, Locals
  <2>3. \A a \in Auths : a.body \in Nat BY WatcherAssumption DEF Auths, Body
  <2> QED BY <2>2, <2>3, UpdateFacts
<1>3. ASSUME Justified, \A p \in Applier : ~RegisterAuth(p) PROVE Justified'
  BY <1>3, ManagerFacts DEF Justified
<1>4. ASSUME NEW p \in Applier, RegisterAuth(p)
      PROVE  /\ proc[p].upd \in Carried /\ StampedPut(proc[p].upd) /\ proc[p].upd.rev = claimed
             /\ updateMu = p /\ proc[p].pc = "register"
             /\ UNCHANGED <<claimed, disk, away, scan, w>>
             /\ proc[p].upd.auth.body < away => gone' /\ Justified'
  <2>1. proc[p].pc = "register" BY <1>4 DEF RegisterAuth
  <2>2. proc[p].upd.kind = "put" /\ proc[p].upd.rev = claimed /\ claimed > 0 /\ updateMu = p
    BY <2>1 DEF LockInv, Busy
  <2>3. proc[p].upd \in Carried BY <1>1 DEF Carried
  <2>4. UNCHANGED <<claimed, disk, away, scan, w>> /\ gone' = (proc[p].upd.auth.body < away)
    BY <1>4 DEF RegisterAuth
  <2> QED BY <2>1, <2>2, <2>3, <2>4 DEF StampedPut, Justified
<1>5. ASSUME NEW p \in Proc, Stamps(p), Justified PROVE Justified'
  <2>1. mgr' = mgr /\ gone' = gone
    BY <1>5 DEF Stamps, RemoveClient, AddOrUpdate, DropMissing, ScanPublishes, DispatchPersisted
  <2> QED BY <1>5, <2>1 DEF Justified
<1>6. \A b \in Nat : b < away => b < away' BY <1>1, FileFacts DEF BodyInv
<1>17. \A u : OnTimeNext(u) => OnTime(u) BY LateFacts DEF OnTime, OnTimeNext
<1>18. Without(disk) => Grounds
  BY DEF GoneInv, Grounds, Justified, BodyInv, Old, StampedPut
<1>19. NoFile => Grounds BY DEF GoneInv
<1>7. PICK n \in Updates : \A u \in Carried' :
              \/ u \in Carried \/ u = Nothing
              \/ u = n /\ (Made(n) \/ NewlyStamped(n))
  BY CarriedStep
<1>20. ASSUME OnTimeNext(n), NewlyStamped(n) PROVE Grounds
  BY <1>18, <1>19, <1>20 DEF NewlyStamped, StampOK, OnTime, OnTimeNext
<1>8. Nothing.kind = "none" /\ \A u : Made(u) => u.kind = "put" /\ u.rev = 0 BY DEF Nothing, Made
<1>9. claimed <= claimed' BY <1>1, <1>2, ApplyFacts DEF Carried
<1>10. WithoutNext => gone'
  <2>1. SUFFICES ASSUME WithoutNext PROVE gone' OBVIOUS
  <2>2. Without(disk) \/ gone' BY <2>1, FileFacts DEF WithoutNext, Without
  <2>3. ASSUME NEW p \in Applier, RegisterAuth(p), Without(disk) PROVE gone'
    BY <1>4, <2>3 DEF BodyInv, Old, StampedPut
  <2>4. CASE Without(disk) BY <2>3, <2>4, ManagerFacts DEF GoneInv
  <2> QED BY <2>2, <2>4
<1>11. ASSUME NEW p \in Applier, proc'[p].pc \in {"remove", "lookup"},
              proc'[p].upd.rev \notin late',
              proc'[p].pc = "lookup" => OnTimeNext(proc'[p].upd)
       PROVE  Justified'
  <2>1. CASE proc'[p] = proc[p]
    <3>0. proc[p].upd.rev \notin late BY <1>11, <2>1, LateFacts
    <3>1. Justified BY <1>11, <1>17, <2>1, <3>0 DEF GoneInv
    <3>2. updateMu = p BY <1>11, <2>1 DEF LockInv, Busy
    <3>3. ASSUME NEW r \in Applier, RegisterAuth(r) PROVE FALSE BY <1>4, <1>11, <2>1, <3>2, <3>3
    <3> QED BY <1>3, <3>1, <3>3
  <2>2. CASE proc'[p] # proc[p]
    <3>1. Claim(p) \/ Lookup(p) \/ UpdateAuth(p)
      <4>1. p # "events" /\ p # "scan" BY DEF Applier
      <4> QED BY <1>1, <1>11, <2>2, <4>1, PcStep DEF Busy
    <3>2. ~Return(p) BY <1>1, <1>11, ReturnFacts
    <3>3. ASSUME NEW to \in Places, Goto(p, to) PROVE proc'[p].upd = proc[p].upd /\ proc'[p].pc = to
      BY <1>1, <3>3, GotoFacts
    <3>4. CASE Claim(p)
      <4>1. /\ ~(proc[p].upd.rev <= claimed) /\ Goto(p, "lookup") /\ UNCHANGED <<mgr, gone>>
        BY <3>2, <3>4 DEF Claim
      <4>2. proc'[p].upd = proc[p].upd /\ proc'[p].pc = "lookup" BY <3>3, <4>1 DEF Places
      <4>3. proc[p].upd \in Carried BY <1>1 DEF Carried
      <4>4. proc[p].upd.rev > claimed /\ OnTime(proc[p].upd)
        BY <1>1, <1>2, <1>11, <1>17, <4>1, <4>2, <4>3
      <4>5. Justified BY <4>3, <4>4 DEF GoneInv
      <4> QED BY <4>1, <4>5 DEF Justified
    <3>5. CASE Lookup(p)
      <4> DEFINE u == proc[p].upd
      <4> DEFINE to == IF u.kind = "drop" THEN "remove"
                       ELSE IF mgr = Absent THEN "register" ELSE "update"
      <4>1. Goto(p, to) /\ UNCHANGED <<mgr, gone, late>> /\ ~Stale(u) /\ proc[p].pc = "lookup"
        BY <3>2, <3>5 DEF Lookup
      <4>2. proc'[p].pc = to /\ proc'[p].upd = u BY <3>3, <4>1 DEF Places
      <4>3. u.kind = "drop" BY <1>11, <4>2
      <4>4. Justified
        <5>1. mgr = Absent \/ ~u.removal \/ Without(disk) BY <4>1, <4>3 DEF Stale
        <5>2. CASE mgr = Absent BY <5>2 DEF Justified
        <5>3. CASE ~u.removal BY <1>11, <4>1, <4>2, <4>3, <5>3 DEF GoneInv, OnTime, OnTimeNext
        <5>4. CASE Without(disk) BY <5>4 DEF GoneInv, Justified
        <5> QED BY <5>1, <5>2, <5>3, <5>4
      <4> QED BY <4>1, <4>4 DEF Justified
    <3>6. CASE UpdateAuth(p)
      <4>1. Goto(p, "discarded") BY <3>2, <3>6 DEF UpdateAuth
      <4>2. proc'[p].pc = "discarded" BY <3>3, <4>1 DEF Places
      <4> QED BY <1>11, <4>2
    <3> QED BY <3>1, <3>4, <3>5, <3>6
  <2> QED BY <2>1, <2>2
<1>12. ASSUME NEW u \in Carried', OnTimeNext(u), u.rev > claimed' PROVE Justified'
  <2>1. CASE u \in Carried
    <3>1. u.rev \in Nat /\ u.rev > claimed /\ OnTime(u) BY <1>1, <1>2, <1>9, <1>12, <1>17, <2>1
    <3>2. Justified BY <2>1, <3>1 DEF GoneInv
    <3>3. ASSUME NEW p \in Applier, RegisterAuth(p) PROVE Justified'
      <4> DEFINE v == proc[p].upd
      <4>1. v \in Carried /\ StampedPut(v) /\ v.rev <= u.rev BY <1>1, <1>4, <3>1, <3>3
      <4>2. v.auth.body < away BY <2>1, <3>1, <4>1 DEF GoneInv
      <4> QED BY <1>4, <3>3, <4>2
    <3> QED BY <1>3, <3>2, <3>3
  <2>2. CASE u = n /\ NewlyStamped(n)
    <3>1. Grounds BY <1>12, <1>20, <2>2
    <3>2. \E p \in Proc : Stamps(p) BY <2>2 DEF NewlyStamped
    <3> QED BY <1>5, <3>1, <3>2 DEF Grounds
  <2> QED BY <1>7, <1>8, <1>12, <2>1, <2>2 DEF OnTime, OnTimeNext
<1>13. ASSUME NEW u \in Carried', NEW v \in Carried', OnTimeNext(u), StampedPut(v), v.rev <= u.rev
       PROVE  v.auth.body < away'
  <2>1. CASE v \in Carried
    <3>1. v.auth.body \in Nat BY <1>2, <1>13, <2>1 DEF StampedPut
    <3>2. CASE u \in Carried BY <1>6, <1>13, <1>17, <2>1, <3>1, <3>2 DEF GoneInv
    <3>3. CASE u = n /\ NewlyStamped(n) BY <1>6, <1>13, <1>20, <2>1, <3>1, <3>3 DEF Grounds
    <3> QED BY <1>7, <1>8, <1>13, <3>2, <3>3 DEF OnTime, OnTimeNext
  <2>2. CASE v = n /\ NewlyStamped(n)
    <3>1. v.rev = w.rev + 1 BY <2>2 DEF NewlyStamped
    <3>2. u \in Carried BY <1>7, <1>8, <1>13, <2>2 DEF OnTime, OnTimeNext, StampedPut
    <3>3. u.rev \in Nat /\ u.rev <= w.rev BY <1>2, <3>2 DEF RevInv
    <3> QED BY <1>1, <1>13, <3>1, <3>3
  <2> QED BY <1>7, <1>8, <1>13, <2>1, <2>2 DEF StampedPut
<1>14. ASSUME NoFile' PROVE Justified' /\ \A v \in Carried' : StampedPut(v) => v.auth.body < away'
  <2>1. /\ proc'["scan"].pc = "publish" /\ scan'.rev = w'.rev
        /\ scan'.found = Absent \/ scan'.found \in void'
    BY <1>14 DEF NoFile, Without
  <2>2. scan' = scan \/ ScanReads BY <2>1, MemoryFacts
  <2>5. Grounds /\ w'.rev = w.rev
    <3>1. CASE ScanReads
      <4>1. scan'.found = disk /\ UNCHANGED <<void, w>> BY <3>1 DEF ScanReads, TypeOK, Memories
      <4> QED BY <1>18, <2>1, <4>1 DEF Without
    <3>2. CASE scan' = scan /\ ~ScanReads
      <4>1. "scan" # "events" /\ "scan" \notin Applier BY DEF Applier
      <4>2. proc'["scan"] = proc["scan"] BY <1>1, <2>1, <3>2, <4>1, PcStep
      <4>3. w'.rev \in {w.rev, w.rev + 1} BY RevStep
      <4>4. w'.rev = w.rev BY <1>1, <2>1, <3>2, <4>3 DEF RevInv
      <4>5. Without(scan.found)
        <5>1. scan.found \in void' => scan.found \in Body BY FileFacts
        <5>2. scan.found \in Body => scan.found \in Nat /\ scan.found < New
          BY WatcherAssumption DEF BodyInv, Seen, Body
        <5> QED BY <2>1, <3>2, <5>1, <5>2, FileFacts DEF Without
      <4>6. NoFile BY <2>1, <3>2, <4>2, <4>4, <4>5 DEF NoFile
      <4> QED BY <1>19, <4>4, <4>6
    <3> QED BY <2>2, <3>1, <3>2
  <2>6. Justified'
    <3>1. ASSUME NEW p \in Applier, RegisterAuth(p) PROVE Justified' BY <1>4, <2>5, <3>1 DEF Grounds
    <3> QED BY <1>3, <2>5, <3>1 DEF Grounds
  <2>7. ASSUME NEW v \in Carried', StampedPut(v) PROVE v.auth.body < away'
    <3>1. ~NewlyStamped(n) BY <1>1, <2>5 DEF NewlyStamped
    <3>2. v \in Carried BY <1>7, <1>8, <2>7, <3>1 DEF StampedPut
    <3>3. v.auth.body \in Nat BY <1>2, <2>7, <3>2 DEF StampedPut
    <3> QED BY <1>6, <2>5, <2>7, <3>2, <3>3 DEF Grounds
  <2> QED BY <2>6, <2>7
<1>15. \A p \in Applier : proc'[p].pc = "remove" /\ proc'[p].upd.rev \notin late' => Justified' BY <1>11
<1>16. \A p \in Applier : proc'[p].pc = "lookup" /\ OnTimeNext(proc'[p].upd) => Justified' BY <1>11 DEF OnTime, OnTimeNext
<1> QED BY <1>10, <1>12, <1>13, <1>14, <1>15, <1>16
    DEF GoneInv, OnTime, OnTimeNext, StampedPut, Grounds, Without, WithoutNext

-----------------------------------------------------------------------------
\* The invariant holds from the start.
LEMMA InitInv == Init => WatcherInv
<1>1. SUFFICES ASSUME Init PROVE WatcherInv OBVIOUS
<1>2. /\ MaxEdits \in Nat /\ MaxSaves \in Nat /\ MaxHooks \in Nat /\ MaxScans \in Nat
  BY WatcherAssumption
<1>3. 1 \in Body /\ 1 \in Nat /\ 1 # Absent /\ 1 # Torn BY <1>2, WatcherAssumption DEF Body
<1>4. /\ disk \in {1, Absent} /\ events = <<>> /\ proc = [p \in Proc |-> Idle]
      /\ rescanMu = Nobody /\ updateMu = Nobody /\ pending = Nothing /\ batch = <<>>
      /\ queue = <<>> /\ claimed = 1 /\ stamp = 1 /\ away = 1 /\ missed = FALSE
      /\ gone = (disk = Absent) /\ void = {} /\ unsaved = {} /\ late = {}
  BY <1>1 DEF Init
<1>5. Idle.upd = Nothing /\ Idle.data = Absent /\ Idle.pc = "idle" /\ Idle \in Locals
  BY IdleType DEF Idle
<1>6. \A p \in Proc : proc[p].upd = Nothing /\ proc[p].data = Absent /\ proc[p].pc = "idle"
  BY <1>4, <1>5
<1>7. /\ scan = [rev |-> 0, force |-> FALSE, found |-> Absent, reread |-> FALSE]
      /\ scan \in Memories /\ scan.rev = 0 /\ scan.found = Absent
  BY <1>1 DEF Init, Memories, Files
<1> DEFINE c == IF disk = Absent THEN Absent ELSE Snapshot(disk)
           m == IF disk = Absent THEN Absent ELSE Auth(disk, "none", 1)
<1>8. c \in Auths \cup {Absent} /\ (c # Absent => c.body = 1) /\ m \in Auths \cup {Absent}
      /\ (m # Absent => disk # Absent)
  BY <1>3, <1>4, AuthFacts
<1>9. mgr = m BY <1>1 DEF Init
<1>10. w = [hash |-> disk, indexed |-> disk # Absent, reload |-> Absent, current |-> c,
            rev |-> 1, persisted |-> 0, touched |-> FALSE, removed |-> FALSE]
  BY <1>1 DEF Init
<1> HIDE DEF c, m
<1>11. disk \in Files /\ (disk # Absent) \in BOOLEAN BY <1>3, <1>4 DEF Files
<1>12. w \in Maps /\ w.rev = 1 /\ w.current = c /\ w.reload = Absent
  BY <1>8, <1>10, <1>11 DEF Maps, Files
<1>13. left = [edit |-> MaxEdits, save |-> MaxSaves, hook |-> MaxHooks, scan |-> MaxScans]
  BY <1>1 DEF Init
<1>14. left \in Lefts /\ New = 2
  <2>1. MaxEdits \in 0..MaxEdits /\ MaxSaves \in 0..MaxSaves /\ MaxHooks \in 0..MaxHooks
        /\ MaxScans \in 0..MaxScans
    BY <1>2
  <2>2. left \in Lefts BY <1>13, <2>1 DEF Lefts
  <2>3. left.edit = MaxEdits /\ left.save = MaxSaves /\ left.hook = MaxHooks BY <1>13
  <2> QED BY <1>2, <2>2, <2>3 DEF New
<1>15. proc \in [Proc -> Locals] BY <1>4, <1>5
<1>16. gone \in BOOLEAN BY <1>4
<1>17. TypeOK
  <2>1. events \in Seq({"write", "remove"}) /\ batch \in Seq(Updates) /\ queue \in Seq(Updates)
    BY <1>4
  <2>2. mgr \in Auths \cup {Absent} /\ {rescanMu, updateMu} \subseteq Proc \cup {Nobody}
    BY <1>4, <1>8, <1>9
  <2>3. claimed \in Nat /\ stamp \in Nat /\ away \in Nat /\ missed \in BOOLEAN /\ pending \in Updates
    BY <1>4, IdleType
  <2> QED BY <1>7, <1>11, <1>12, <1>14, <1>15, <1>16, <2>1, <2>2, <2>3, <1>4 DEF TypeOK
<1>18. Carried = {Nothing} BY <1>4, <1>6 DEF Carried, Proc
<1>19. Nothing.kind = "none" /\ Nothing.rev = 0 BY DEF Nothing
<1>20. RevInv BY <1>4, <1>7, <1>12, <1>18, <1>19 DEF RevInv
<1>21. LockInv /\ HandInv
  <2>1. Applier \subseteq Proc /\ "hook" \in Proc BY DEF Applier, Proc
  <2> QED BY <1>6, <2>1 DEF LockInv, HandInv, Busy
<1>22. BodyInv
  <2>1. Absent \notin Body /\ \A b \in Body : b # Absent BY WatcherAssumption DEF Body
  <2>2. disk \in Body => disk = 1 BY <1>4, <2>1
  <2>3. c # Absent => Old(c.body)
    <3>1. c # Absent => disk # Absent BY DEF c
    <3> QED BY <1>4, <1>8, <1>14, <3>1 DEF Old, Without
  <2> QED BY <1>4, <1>6, <1>7, <1>12, <1>14, <1>18, <1>19, <2>1, <2>2, <2>3 DEF BodyInv
<1>23. GoneInv
  <2>1. Applier \subseteq Proc /\ "scan" \in Proc BY DEF Applier, Proc
  <2>2. Without(disk) => gone BY <1>4 DEF Without
  <2> QED BY <1>6, <1>18, <1>19, <2>1, <2>2 DEF GoneInv, OnTime, StampedPut, NoFile
<1> QED BY <1>17, <1>20, <1>21, <1>22, <1>23 DEF WatcherInv

\* ... and every step keeps it.
LEMMA WatcherInvariant == Spec => []WatcherInv
<1>1. WatcherInv /\ [Next]_vars => WatcherInv'
  <2>1. SUFFICES ASSUME WatcherInv, [Next]_vars PROVE WatcherInv' OBVIOUS
  <2>2. CASE Next
    <3>1. TypeOK /\ RevInv /\ LockInv /\ HandInv /\ BodyInv /\ GoneInv BY <2>1 DEF WatcherInv
    <3>2. HandInv' BY <2>2, <3>1, HandFacts DEF HandStep
    <3> QED BY <2>2, <3>1, <3>2, TypeStep, RevStep, LockStep, BodyStep, GoneStep DEF WatcherInv
  <2>3. CASE UNCHANGED vars
    <3>1. TypeOK' BY <2>1, <2>3 DEF WatcherInv, TypeOK, vars
    <3>2. Carried' = Carried /\ New' = New BY <2>3 DEF Carried, New, vars
    <3>3. RevInv' BY <2>1, <2>3, <3>2 DEF WatcherInv, RevInv, vars
    <3>4. LockInv' /\ HandInv' BY <2>1, <2>3 DEF WatcherInv, LockInv, HandInv, vars
    <3>5. BodyInv' BY <2>1, <2>3, <3>2 DEF WatcherInv, BodyInv, Old, Seen, Without, vars
    <3>6. GoneInv'
      BY <2>1, <2>3, <3>2 DEF WatcherInv, GoneInv, Justified, Grounds, OnTime, NoFile, Without, vars
    <3> QED BY <3>1, <3>3, <3>4, <3>5, <3>6 DEF WatcherInv
  <2> QED BY <2>1, <2>2, <2>3
<1> QED BY <1>1, InitInv, PTL DEF Spec

(***************************************************************************)
(* However edits, refreshes, requests, reloads and events interleave, and  *)
(* however many there are: when applyCoreAuthRemoval takes a credential    *)
(* out of the manager, its file has been without it since the content that *)
(* the manager registered was written, or the removal was stamped from a   *)
(* content that had been replaced meanwhile.                               *)
(***************************************************************************)
THEOREM RemovalsJustified == Spec => RemovalJustified
<1> DEFINE Why == gone \/ \E p \in {"consumer", "hook"} : proc[p].pc = "remove" /\ proc[p].upd.rev \in late
<1>1. WatcherInv /\ [Next]_vars => [mgr # Absent /\ mgr' = Absent => Why]_vars
  <2>1. SUFFICES ASSUME WatcherInv, Next, mgr # Absent, mgr' = Absent PROVE Why
    BY DEF vars
  <2>2. TypeOK /\ LockInv /\ GoneInv BY <2>1 DEF WatcherInv
  <2>3. PICK p \in Applier : RemoveAuth(p) BY <2>1, <2>2, ManagerFacts
  <2> QED BY <2>1, <2>2, <2>3 DEF RemoveAuth, GoneInv, Justified, Applier
<1> QED BY <1>1, WatcherInvariant, PTL DEF Spec, RemovalJustified
============================================================================
