-------------------------- MODULE MCWatcherDispatch --------------------------
(***************************************************************************)
(* Instances of WatcherDispatch for TLC.                                   *)
(***************************************************************************)
EXTENDS WatcherDispatch

\* How often each kind of disturbance has happened.
Edits == MaxEdits - left.edit
Saves == MaxSaves - left.save
Hooks == MaxHooks - left.hook
Scans == MaxScans - left.scan

\* The casts explored together: two edits against a scan, an edit and a refresh
\* against a scan, a management request against an edit, a refresh or a scan, a
\* removal of the file followed by a request and a refresh in any order, saved or
\* not, and a removal followed by a scan and then by a request.
Cast ==
    \/ Hooks = 0 /\ (Saves = 0 \/ Edits <= 1)
    \/ Edits + Saves + Scans <= 1
    \/ Scans = 0 /\ Edits = 1 /\ (away = 2 \/ (away > 3 /\ unsaved # {}))
    \/ Scans = 1 /\ Edits = 1 /\ away = 2 /\ Saves = 0
       /\ proc["scan"].pc \notin {"start", "snapshot", "publish", "again"}
=============================================================================
