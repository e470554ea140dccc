---------------------------- MODULE MCFollowUps ----------------------------
(***************************************************************************)
(* Small instances of FollowUps, with its rows read as Reminders.          *)
(***************************************************************************)
EXTENDS FollowUpRefinement, TLC

=============================================================================
