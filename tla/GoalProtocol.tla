---------------------------- MODULE GoalProtocol ----------------------------
(***************************************************************************)
(* What the clients of an action server are promised about each goal: the  *)
(* goal state machine of rclcpp_action.  A goal is accepted or rejected    *)
(* once, may be asked to cancel while it executes, and ends exactly once;  *)
(* it is reported as canceled only if a cancel was accepted for it.  One   *)
(* step may end several goals (terminate_all does).                        *)
(*                                                                         *)
(* SimpleActionServer and BtNavigator are shown to implement this.         *)
(***************************************************************************)

CONSTANT Goal

VARIABLE status    \* the state of every goal's handle

ActiveStatus == {"executing", "canceling"}
FinalStatus == {"succeeded", "aborted", "canceled"}
Status == {"unsent", "rejected"} \cup ActiveStatus \cup FinalStatus

\* The final states a goal may move to: rclcpp_action throws on any other call.
Outcome(s) == IF s = "canceling" THEN FinalStatus ELSE FinalStatus \ {"canceled"}

Init == status = [g \in Goal |-> "unsent"]

\* A goal request is answered.
Answer(g) ==
  /\ status[g] = "unsent"
  /\ \E s \in {"executing", "rejected"} : status' = [status EXCEPT ![g] = s]

\* A cancel request is accepted.
Cancel(g) ==
  /\ status[g] = "executing"
  /\ status' = [status EXCEPT ![g] = "canceling"]

\* Some goals end.
Finish ==
  /\ status' \in [Goal -> Status]
  /\ \A g \in Goal :
       status'[g] # status[g] =>
         status[g] \in ActiveStatus /\ status'[g] \in Outcome(status[g])

Next == Finish \/ \E g \in Goal : Answer(g) \/ Cancel(g)

Spec == Init /\ [][Next]_status

=============================================================================
