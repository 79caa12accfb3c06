-------------------------- MODULE ScheduledSendsMC --------------------------
(* Instances of ScheduledSends for TLC.                                    *)
EXTENDS ScheduledSends, TLC

Symmetry == Permutations(Workers) \cup Permutations(Schedules) \cup Permutations(Drafts)
=============================================================================
