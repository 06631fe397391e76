----------------------------- MODULE MCMeetings ------------------------------
(* This user and one other; two hours of warning, at two ticks each.       *)
EXTENDS Meetings, TLC

TaskSymmetry == Permutations(Task)
==============================================================================
