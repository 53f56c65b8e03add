--------------------------- MODULE MCBehaviorTree ---------------------------
(***************************************************************************)
(* The trees of nav2_bt_navigator/behavior_trees, and two for what those   *)
(* never reach, as constants of BehaviorTree.  A leaf that only repeats    *)
(* its neighbour is left out: PlannerSelector, BackUp.  Of the             *)
(* trees with consistent replanning and with patience, only what is        *)
(* particular to them is kept, without the recoveries around it that they  *)
(* have in common with the first tree.                                     *)
(***************************************************************************)
EXTENDS BehaviorTree, TLC

\* The node n of kind k with the children c.
N(n, k, c) == n :> [kind |-> k, kids |-> c]

MakeTree(root, nodes) ==
  LET parent(n) == CHOOSE p \in DOMAIN nodes : \E i \in DOMAIN nodes[p].kids : nodes[p].kids[i] = n
      above[n \in DOMAIN nodes] == {n} \cup (IF n = root THEN {} ELSE above[parent(n)])
  IN  [root |-> root, nodes |-> nodes, above |-> above]

\* RecoveryActions, below a ReactiveFallback.
RecoveryFallback ==
  N("RecoveryFallback", "ReactiveFallback", <<"GoalUpdated", "RecoveryActions">>)
  @@ N("GoalUpdated", "GoalUpdated", <<>>)
  @@ N("RecoveryActions", "RoundRobin", <<"ClearingActions", "Spin", "Wait">>)
  @@ N("ClearingActions", "Sequence", <<"ClearLocal", "ClearGlobal">>)
  @@ N("ClearLocal", "Service", <<>>) @@ N("ClearGlobal", "Service", <<>>)
  @@ N("Spin", "Action", <<>>) @@ N("Wait", "Action", <<>>)

navigate_to_pose_w_replanning_and_recovery ==
  MakeTree("NavigateRecovery",
    N("NavigateRecovery", "RecoveryNode", <<"NavigateWithReplanning", "Recover">>)
    @@ N("NavigateWithReplanning", "PipelineSequence", <<"Selector", "Rate", "Follow">>)
    @@ N("Selector", "Selector", <<>>)
    @@ N("Rate", "RateController", <<"Compute">>)
    @@ N("Compute", "RecoveryNode", <<"ComputePathToPose", "ClearIfHelps">>)
    @@ N("ComputePathToPose", "ComputePathToPose", <<>>)
    @@ N("ClearIfHelps", "Sequence", <<"WouldAPlannerRecoveryHelp", "ClearGlobal-Context">>)
    @@ N("WouldAPlannerRecoveryHelp", "OneShot", <<>>)
    @@ N("ClearGlobal-Context", "Service", <<>>)
    @@ N("Follow", "RecoveryNode", <<"FollowPath", "ClearLocalIfHelps">>)
    @@ N("FollowPath", "FollowPath", <<>>)
    @@ N("ClearLocalIfHelps", "Sequence", <<"WouldAControllerRecoveryHelp", "ClearLocal-Context">>)
    @@ N("WouldAControllerRecoveryHelp", "OneShot", <<>>)
    @@ N("ClearLocal-Context", "Service", <<>>)
    @@ N("Recover", "Sequence", <<"WouldARecoveryHelp", "RecoveryFallback">>)
    @@ N("WouldARecoveryHelp", "Fallback", <<"WouldAController", "WouldAPlanner">>)
    @@ N("WouldAController", "OneShot", <<>>) @@ N("WouldAPlanner", "OneShot", <<>>)
    @@ RecoveryFallback)

nav_to_pose_with_consistent_replanning_and_if_path_becomes_invalid ==
  MakeTree("NavigateWithReplanning",
    N("NavigateWithReplanning", "PipelineSequence", <<"Rate", "FollowPath">>)
    @@ N("Rate", "RateController", <<"Compute">>)
    @@ N("Compute", "Fallback", <<"StillGood", "ComputePathToPose">>)
    @@ N("StillGood", "ReactiveSequence", <<"NotExpired", "NotUpdated", "IsPathValid">>)
    @@ N("NotExpired", "Inverter", <<"PathExpiringTimer">>)
    @@ N("PathExpiringTimer", "PathExpiringTimer", <<>>)
    @@ N("NotUpdated", "Inverter", <<"GlobalUpdatedGoal">>)
    @@ N("GlobalUpdatedGoal", "GlobalUpdatedGoal", <<>>)
    @@ N("IsPathValid", "IsPathValid", <<>>)
    @@ N("ComputePathToPose", "ComputePathToPose", <<>>)
    @@ N("FollowPath", "FollowPath", <<>>))

Patience ==
  N("PathLongerOnApproach", "PathLongerOnApproach", <<"Retry">>)
  @@ N("Retry", "RetryUntilSuccessful", <<"CancelingControlAndWait">>)
  @@ N("CancelingControlAndWait", "SequenceWithMemory", <<"CancelControl", "Wait">>)
  @@ N("CancelControl", "OneShot", <<>>) @@ N("Wait", "Action", <<>>)

navigate_to_pose_w_replanning_goal_patience_and_recovery ==
  MakeTree("NavigateWithReplanning",
    N("NavigateWithReplanning", "PipelineSequence", <<"Rate", "MonitorAndFollowPath">>)
    @@ N("Rate", "RateController", <<"ComputePathToPose">>)
    @@ N("ComputePathToPose", "ComputePathToPose", <<>>)
    @@ N("MonitorAndFollowPath", "ReactiveSequence", <<"PathLongerOnApproach", "FollowPath">>)
    @@ Patience
    @@ N("FollowPath", "FollowPath", <<>>))

\* The same decorator in a pipeline.  A ReactiveSequence resets the status of the children
\* before the one that is RUNNING, so that there every tick is the decorator's first and its
\* child is never ticked; a pipeline leaves the status alone.
approach ==
  MakeTree("Pipeline",
    N("Pipeline", "PipelineSequence", <<"ComputePathToPose", "PathLongerOnApproach", "FollowPath">>)
    @@ N("ComputePathToPose", "ComputePathToPose", <<>>)
    @@ Patience
    @@ N("FollowPath", "FollowPath", <<>>))

\* navigate_w_replanning_time, _distance, _speed and _only_if_goal_is_updated
\* differ in the controller, k.
navigate_w_replanning(k) ==
  MakeTree("NavigateWithReplanning",
    N("NavigateWithReplanning", "PipelineSequence", <<"Selector", "Controller", "FollowPath">>)
    @@ N("Selector", "Selector", <<>>)
    @@ N("Controller", k, <<"ComputePathToPose">>)
    @@ N("ComputePathToPose", "ComputePathToPose", <<>>)
    @@ N("FollowPath", "FollowPath", <<>>))

\* Children with preconditions, and SingleTrigger.
skipping ==
  MakeTree("Pipeline",
    N("Pipeline", "PipelineSequence", <<"SkipA", "Recovery", "RoundRobin">>)
    @@ N("SkipA", "OneShot", <<>>)
    @@ N("Recovery", "RecoveryNode", <<"Trigger", "SkipR">>)
    @@ N("Trigger", "SingleTrigger", <<"Once">>)
    @@ N("Once", "Action", <<>>)
    @@ N("SkipR", "Action", <<>>)
    @@ N("RoundRobin", "RoundRobin", <<"SkipB", "SkipC", "Last">>)
    @@ N("SkipB", "Action", <<>>) @@ N("SkipC", "Action", <<>>) @@ N("Last", "Action", <<>>))

ShippedTrees ==
  "recovery" :> navigate_to_pose_w_replanning_and_recovery
  @@ "consistent" :> nav_to_pose_with_consistent_replanning_and_if_path_becomes_invalid
  @@ "patience" :> navigate_to_pose_w_replanning_goal_patience_and_recovery
  @@ "approach" :> approach
  @@ "time" :> navigate_w_replanning("RateController")
  @@ "distance" :> navigate_w_replanning("DistanceController")
  @@ "speed" :> navigate_w_replanning("SpeedController")
  @@ "updated" :> navigate_w_replanning("GoalUpdatedController")
  @@ "skipping" :> skipping

MCTrees == ShippedTrees

MCCanSkip == {"SkipA", "SkipB", "SkipC", "SkipR"}

=============================================================================
