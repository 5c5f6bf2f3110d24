---------------------------- MODULE ReleaseGroups ----------------------------
(***************************************************************************)
(* What the registry and the release flusher share: slots are counted and  *)
(* released per group.                                                     *)
(***************************************************************************)
CONSTANT Group    \* ReleaseGroup values: (credential, model)
=============================================================================
