---------------------------- MODULE GroupChoice -----------------------------
(***************************************************************************)
(* What derive_group_bitmap promises: for drawable parameters a group of   *)
(* exactly the size asked for, chosen in one step.  Only a draw may fail.  *)
(***************************************************************************)
EXTENDS Groups

VARIABLES
  nodeCount, groupSize,  \* the parameters
  status,                \* "undecided", "chosen" or "failed"
  group                  \* the group, once chosen

choiceVars == <<nodeCount, groupSize, status, group>>

Init ==
  /\ nodeCount \in 0 .. MaxNodes + 1
  /\ groupSize \in 0 .. MaxNodes + 1
  /\ status = "undecided" /\ group = {}

Refuse ==
  /\ status = "undecided"
  /\ ~ Drawable(nodeCount, groupSize)
  /\ status' = "failed"
  /\ UNCHANGED <<nodeCount, groupSize, group>>

Choose ==
  /\ status = "undecided"
  /\ Drawable(nodeCount, groupSize)
  /\ status' = "chosen"
  /\ group' \in GroupsOf(nodeCount, groupSize)
  /\ UNCHANGED <<nodeCount, groupSize>>

GiveUp ==
  /\ status = "undecided"
  /\ Drawable(nodeCount, groupSize) /\ ~ IsTrivial(nodeCount, groupSize)
  /\ status' = "failed"
  /\ UNCHANGED <<nodeCount, groupSize, group>>

Next == Refuse \/ Choose \/ GiveUp

Spec == Init /\ [][Next]_choiceVars

=============================================================================
