---------------------------- MODULE BehaviorTree ----------------------------
(***************************************************************************)
(* The behavior trees of Nav2 while they are ticked: the control nodes,    *)
(* decorators and conditions of nav2_behavior_tree, the nodes of           *)
(* BehaviorTree.CPP 4.5 that the shipped trees put around them, and the    *)
(* engine that ticks the root, lets the goal change between two ticks and  *)
(* halts the tree.                                                         *)
(*                                                                         *)
(* executeTick() is a call: stack holds the nodes whose tick() has not     *)
(* returned, the root first, and ret what the last call returned.  Every   *)
(* iteration of a node's loop is a step.  What a leaf returns, whether a   *)
(* period has passed, a distance is travelled or a pose is known are       *)
(* choices.  A path is what the properties tell apart: the goal it leads   *)
(* to and its length.                                                      *)
(***************************************************************************)
EXTENDS Naturals, Sequences

CONSTANTS
  Trees,        \* the trees: a root, the kind and the children of every node, and above it
                \* the nodes on the way from the root, itself included
  Goals,        \* the goals clients may send, numbered in the order they come
  Lengths,      \* the lengths of the paths the planner finds
  Retries,      \* bound: number_of_retries is capped at this
  CanSkip       \* the leaves with a precondition that may skip them

Controls == {"RecoveryNode", "PipelineSequence", "RoundRobin", "Sequence", "SequenceWithMemory",
             "Fallback", "ReactiveSequence", "ReactiveFallback"}
Decorators == {"RateController", "DistanceController", "SpeedController", "GoalUpdatedController",
               "SingleTrigger", "PathLongerOnApproach", "Inverter", "RetryUntilSuccessful"}

\* What the XML of a tree and the checks of its loader and of RecoveryNode say of it.
WellFormed(t) ==
  LET N == DOMAIN t.nodes
      kids(n) == t.nodes[n].kids
  IN  /\ t.root \in N /\ t.above \in [N -> SUBSET N] /\ t.above[t.root] = {t.root}
      /\ \A n \in N :
           /\ kids(n) \in Seq(N) /\ n \in t.above[n]
           /\ \A a \in t.above[n] : n \in t.above[a] => a = n
           /\ \A i \in DOMAIN kids(n) : kids(n)[i] # n /\ t.above[kids(n)[i]] = t.above[n] \cup {kids(n)[i]}
           /\ \A p \in N : \A i \in DOMAIN kids(n), j \in DOMAIN kids(p) :
                kids(n)[i] = kids(p)[j] => p = n /\ i = j
           /\ t.nodes[n].kind = "RecoveryNode" => Len(kids(n)) = 2
           /\ t.nodes[n].kind \in Controls => kids(n) # <<>>
           /\ t.nodes[n].kind \in Decorators => Len(kids(n)) = 1
           /\ t.nodes[n].kind \notin Controls \cup Decorators => kids(n) = <<>>

ASSUME TreesAssumption == \A t \in DOMAIN Trees : WellFormed(Trees[t])
ASSUME RetriesAssumption == Retries \in Nat
ASSUME CanSkipAssumption ==
  \A t \in DOMAIN Trees : \A n \in CanSkip \cap DOMAIN Trees[t].nodes : Trees[t].nodes[n].kids = <<>>

VARIABLES
  tree,         \* the tree that was loaded
  goal,         \* the blackboard's goal
  path,         \* the blackboard's path
  stack, ret,   \* the calls in progress and the last status returned
  status,       \* the status of every node
  mem,          \* the private members of every node
  hist          \* history: what a control node's children did since its reset

vars == <<tree, goal, path, stack, ret, status, mem, hist>>

Node == DOMAIN Trees[tree].nodes
Kind(n) == Trees[tree].nodes[n].kind
Kids(n) == Trees[tree].nodes[n].kids
Root == Trees[tree].root
KidSet(n) == {Kids(n)[i] : i \in DOMAIN Kids(n)}
Child(n) == Kids(n)[1]
Above(n) == Trees[tree].above[n]

Active(s) == s \notin {"IDLE", "SKIPPED"}       \* BT::isStatusActive
Completed == {"SUCCESS", "FAILURE"}

NoPath == [goal |-> 0, len |-> 0]               \* a path without poses

\* idx: current_child_idx_, last_child_ticked_;  count: retry_count_,
\* num_failed_children_;  flag: first_time_, first_tick_, goal_was_updated_,
\* request_sent_;  goal, path: the copies a node keeps to compare with.
Fresh(n) == [idx |-> 1, count |-> 0, flag |-> Kind(n) \in {"GlobalUpdatedGoal", "PathExpiringTimer"},
             goal |-> 0, path |-> NoPath]
NoHistory == [recovered |-> 0, skipped |-> FALSE, tried |-> {}]

Init ==
  /\ tree \in DOMAIN Trees
  /\ goal \in Goals
  /\ path = NoPath
  /\ stack = <<>> /\ ret = "none"
  /\ status = [n \in Node |-> "IDLE"]
  /\ mem = [n \in Node |-> Fresh(n)]
  /\ hist = [n \in Node |-> NoHistory]

-----------------------------------------------------------------------------
(* Calls and returns.                                                      *)

top == stack[Len(stack)]
me == top.node
MayTick(k) == stack # <<>> /\ ret = "none" /\ Kind(me) = k
MayResume(k) == stack # <<>> /\ ret # "none" /\ Kind(me) = k

\* The halt() of a node: what it resets of its own members.
Halted(n) ==
  CASE Kind(n) \in {"RecoveryNode", "RoundRobin"} -> [mem[n] EXCEPT !.idx = 1, !.count = 0]
    [] Kind(n) \in {"PipelineSequence", "Sequence", "SequenceWithMemory", "Fallback"} ->
         [mem[n] EXCEPT !.idx = 1]
    [] Kind(n) = "Service" -> [mem[n] EXCEPT !.flag = FALSE]
    [] OTHER -> mem[n]

\* BT.CPP halts a child only if it is RUNNING, and resets its status anyway:
\* what is reached from S through RUNNING nodes.
HaltedFrom(S) ==
  {n \in Node : \E s \in S \cap Above(n) : \A a \in Above(n) : s \in Above(a) => status[a] = "RUNNING"}

HaltStatus(H, S) ==
  [n \in Node |-> IF n \in S \/ \E p \in H : n \in KidSet(p) THEN "IDLE" ELSE status[n]]
HaltMem(H) == [n \in Node |-> IF n \in H THEN Halted(n) ELSE mem[n]]
HaltPath(H) == IF \E n \in H : Kind(n) = "ComputePathToPose" THEN NoPath ELSE path
HaltHist(H) == [n \in Node |-> IF n \in H THEN NoHistory ELSE hist[n]]

\* Halt the children in S and tick child c next, with m as the node's members
\* and f as the locals of its tick().
Call(c, S, m, f) == \E H \in {HaltedFrom(S)} :
  /\ stack' = Append([stack EXCEPT ![Len(stack)] = f], [node |-> c, child |-> 1, skipped |-> 0])
  /\ ret' = "none"
  /\ status' = [HaltStatus(H, S) EXCEPT ![me] = IF Kind(me) = "PipelineSequence" THEN @ ELSE "RUNNING"]
  /\ mem' = [HaltMem(H) EXCEPT ![me] = m]
  /\ path' = HaltPath(H)
  /\ UNCHANGED <<tree, goal>>

\* Halt the children in S and return s: executeTick() stores it, unless it is
\* SKIPPED, and a decorator then resets a child that has completed.  A node
\* that skips through its own halt() is idle.
Return(s, S, m) == \E H \in {HaltedFrom(S)} :
  LET done == {c \in KidSet(me) : Len(Kids(me)) = 1 /\ status[c] \in Completed}
  IN /\ stack' = SubSeq(stack, 1, Len(stack) - 1)
     /\ ret' = s
     /\ status' = [HaltStatus(H, S \cup done) EXCEPT ![me] =
                     IF s # "SKIPPED" THEN s
                     ELSE IF Kind(me) \in {"RecoveryNode", "RoundRobin"} THEN "IDLE" ELSE @]
     /\ mem' = [HaltMem(H) EXCEPT ![me] = m]
     /\ path' = HaltPath(H)
     /\ UNCHANGED <<tree, goal>>

Keep == UNCHANGED hist
History(S, h) == \E H \in {HaltedFrom(S)} : hist' = [HaltHist(H) EXCEPT ![me] = h]

-----------------------------------------------------------------------------
(* RecoveryNode.                                                           *)

RecoveryNode_tick ==
  /\ MayTick("RecoveryNode")
  /\ Call(Kids(me)[mem[me].idx], {}, mem[me], top)
  /\ Keep

\* Between the recovery and the next attempt.
RecoveryNode_retried(m) == [m EXCEPT !.idx = 1, !.count = @ + 1]

\* Mutant: giving up leaves the counter as it is.
RecoveryNode_halt_partly(m) == [m EXCEPT !.idx = 1]

RecoveryNode_halt(m) == [m EXCEPT !.idx = 1, !.count = 0]

RecoveryNode_first ==
  /\ MayResume("RecoveryNode") /\ mem[me].idx = 1
  /\ LET m == mem[me] IN
     \/ /\ ret = "RUNNING" /\ Return(ret, {}, m) /\ Keep
     \/ /\ ret \in {"SUCCESS", "SKIPPED"}
        /\ Return(ret, KidSet(me), RecoveryNode_halt(m)) /\ History(KidSet(me), NoHistory)
     \/ /\ ret = "FAILURE" /\ m.count < Retries
        /\ Call(Kids(me)[2], {Kids(me)[1]}, [m EXCEPT !.idx = 2], top)
        /\ History({Kids(me)[1]}, hist[me])
     \/ /\ ret = "FAILURE" /\ m.count >= Retries
        /\ Return(ret, KidSet(me), RecoveryNode_halt(m)) /\ History(KidSet(me), NoHistory)

RecoveryNode_second ==
  /\ MayResume("RecoveryNode") /\ mem[me].idx = 2
  /\ LET m == mem[me] IN
     \/ /\ ret = "RUNNING" /\ Return(ret, {}, m) /\ Keep
     \/ /\ ret = "SKIPPED"
        /\ Return("FAILURE", {Kids(me)[2]}, [m EXCEPT !.idx = 1])
        /\ History({Kids(me)[2]}, [hist[me] EXCEPT !.recovered = 0, !.skipped = TRUE])
     \/ /\ ret = "SUCCESS"
        /\ Call(Kids(me)[1], {Kids(me)[2]}, RecoveryNode_retried(m), top)
        /\ History({Kids(me)[2]}, [hist[me] EXCEPT !.recovered = @ + 1])
     \/ /\ ret = "FAILURE"
        /\ Return(ret, KidSet(me), RecoveryNode_halt(m)) /\ History(KidSet(me), NoHistory)

-----------------------------------------------------------------------------
(* PipelineSequence.                                                       *)

PipelineSequence_tick ==
  /\ MayTick("PipelineSequence")
  /\ Call(Kids(me)[1], {}, mem[me], top)
  /\ Keep

\* Mutant: a failing child ends the pipeline without halting the others.
PipelineSequence_halts_none(S) == {}

PipelineSequence_halts(S) == S

PipelineSequence_resume ==
  /\ MayResume("PipelineSequence")
  /\ LET m == [mem[me] EXCEPT !.idx = 1]
         S == PipelineSequence_halts(KidSet(me))
         skipped == top.skipped + (IF ret = "SKIPPED" THEN 1 ELSE 0)
         last == top.child = Len(Kids(me))
     IN \/ ret = "FAILURE" /\ Return(ret, S, m) /\ History(S, NoHistory)
        \/ /\ ret = "RUNNING" /\ top.child >= mem[me].idx
           /\ Return(ret, {}, [mem[me] EXCEPT !.idx = top.child]) /\ Keep
        \/ /\ ret # "FAILURE" /\ (ret = "RUNNING" => top.child < mem[me].idx) /\ ~last
           /\ Call(Kids(me)[top.child + 1], {}, mem[me],
                   [top EXCEPT !.child = @ + 1, !.skipped = skipped])
           /\ Keep
        \/ /\ ret # "FAILURE" /\ (ret = "RUNNING" => top.child < mem[me].idx) /\ last
           /\ Return(IF skipped = Len(Kids(me)) THEN "SKIPPED" ELSE "SUCCESS", S, m)
           /\ History(S, NoHistory)

-----------------------------------------------------------------------------
(* RoundRobin.                                                             *)

RoundRobinNode_tick ==
  /\ MayTick("RoundRobin")
  /\ Call(Kids(me)[mem[me].idx], {}, mem[me], top)
  /\ Keep

\* Mutant: the node starts again from the first child after each one.
RoundRobinNode_next_first(i) == 1

RoundRobinNode_next(i) == IF i = Len(Kids(me)) THEN 1 ELSE i + 1

\* Mutant: children that fail are not counted.
RoundRobinNode_failed_uncounted(count) == count

\* num_failed_children_ after a child's tick.
RoundRobinNode_failed(count) == count + (IF ret = "FAILURE" THEN 1 ELSE 0)

RoundRobinNode_resume ==
  /\ MayResume("RoundRobin")
  /\ LET N == Len(Kids(me))
         m == [mem[me] EXCEPT !.idx = RoundRobinNode_next(@)]
         failed == RoundRobinNode_failed(m.count)
         skipped == top.skipped + (IF ret = "SKIPPED" THEN 1 ELSE 0)
         h == [hist[me] EXCEPT !.tried = @ \cup {mem[me].idx}]
     IN \/ ret = "RUNNING" /\ Return(ret, {}, mem[me]) /\ Keep
        \/ /\ ret = "SUCCESS" /\ Return(ret, KidSet(me), [m EXCEPT !.count = 0])
           /\ History(KidSet(me), NoHistory)
        \/ /\ ret \in {"FAILURE", "SKIPPED"} /\ failed + skipped < N
           /\ Call(Kids(me)[m.idx], {}, [m EXCEPT !.count = failed], [top EXCEPT !.skipped = skipped])
           /\ History({}, h)
        \/ /\ ret \in {"FAILURE", "SKIPPED"} /\ failed + skipped >= N
           /\ Return(IF skipped = N THEN "SKIPPED" ELSE "FAILURE", KidSet(me),
                     [m EXCEPT !.idx = 1, !.count = 0])
           /\ History(KidSet(me), NoHistory)

-----------------------------------------------------------------------------
(* Decorators that decide whether to tick their child.                     *)

TickChildOrRun(tickIt, m) ==
  /\ IF tickIt THEN Call(Child(me), {}, [m EXCEPT !.flag = FALSE], top)
     ELSE Return("RUNNING", {}, m)
  /\ Keep

ChildRunning == status[Child(me)] = "RUNNING"

\* Mutant: the period is not looked at.
RateController_due_once(first, expired) == first \/ ChildRunning

RateController_due(first, expired) == first \/ ChildRunning \/ expired

RateController_tick ==
  /\ MayTick("RateController")
  /\ \E expired \in BOOLEAN :
       LET first == mem[me].flag \/ ~Active(status[me])
       IN TickChildOrRun(RateController_due(first, expired), [mem[me] EXCEPT !.flag = first])

\* Without a pose the node fails, whatever its child is doing.
DistanceController_tick ==
  /\ MayTick("DistanceController")
  /\ \E travelled, startPose, pose \in BOOLEAN :
       LET started == Active(status[me]) \/ startPose
           first == mem[me].flag \/ ~Active(status[me])
           m == IF started THEN [mem[me] EXCEPT !.flag = first] ELSE mem[me]
       IN IF started /\ pose THEN TickChildOrRun(first \/ ChildRunning \/ travelled, m)
          ELSE Return("FAILURE", {}, m) /\ Keep

\* SUCCESS needs the pose again, to start the next distance.
DistanceController_resume ==
  /\ MayResume("DistanceController")
  /\ \E s \in IF ret = "SUCCESS" THEN Completed ELSE {ret} : Return(s, {}, mem[me])
  /\ Keep

SpeedController_tick ==
  /\ MayTick("SpeedController")
  /\ \E expired \in BOOLEAN :
       LET first == mem[me].flag \/ ~Active(status[me]) \/ mem[me].goal # goal
       IN TickChildOrRun(first \/ ChildRunning \/ expired,
                         [mem[me] EXCEPT !.flag = first, !.goal = goal])

GoalUpdatedController_tick ==
  /\ MayTick("GoalUpdatedController")
  /\ LET updated == mem[me].flag \/ ~Active(status[me]) \/ mem[me].goal # goal
     IN TickChildOrRun(updated \/ ChildRunning,
                       [mem[me] EXCEPT !.flag = updated, !.goal = goal])

\* RateController, SpeedController, GoalUpdatedController: the child's status.
Controller_resume ==
  /\ \E k \in {"RateController", "SpeedController", "GoalUpdatedController"} : MayResume(k)
  /\ Return(ret, {}, mem[me])
  /\ Keep

\* The child runs once per activation; afterwards the node fails.
SingleTrigger_tick ==
  /\ MayTick("SingleTrigger")
  /\ LET first == mem[me].flag \/ ~Active(status[me])
     IN IF first THEN Call(Child(me), {}, [mem[me] EXCEPT !.flag = TRUE], top)
        ELSE Return("FAILURE", {}, mem[me])
  /\ Keep

SingleTrigger_resume ==
  /\ MayResume("SingleTrigger")
  /\ Return(ret, {}, [mem[me] EXCEPT !.flag = ret \notin Completed])
  /\ Keep

ProxLen == 2        \* prox_len: a path below it is close to the goal
LengthFactor == 2   \* length_factor

PathLongerOnApproach_applies(old) ==
  /\ path # old /\ old # NoPath /\ path # NoPath /\ path.goal = old.goal
  /\ old.len < ProxLen
  /\ path.len > LengthFactor * old.len

PathLongerOnApproach_tick ==
  /\ MayTick("PathLongerOnApproach")
  /\ LET first == mem[me].flag \/ ~Active(status[me])
         m == [mem[me] EXCEPT !.flag = first]
     IN IF PathLongerOnApproach_applies(m.path) /\ ~first
        THEN Call(Child(me), {}, m, top)
        ELSE Return("SUCCESS", {}, [m EXCEPT !.flag = FALSE, !.path = path])
  /\ Keep

PathLongerOnApproach_resume ==
  /\ MayResume("PathLongerOnApproach")
  /\ IF ret \in Completed
     THEN Return(ret, KidSet(me), [mem[me] EXCEPT !.path = path]) /\ History(KidSet(me), hist[me])
     ELSE Return(ret, {}, mem[me]) /\ Keep

-----------------------------------------------------------------------------
(* Nodes of BehaviorTree.CPP.                                              *)

\* Sequence and Fallback go on from the child they stopped at; s is the status
\* of a child that makes them go on to the next.
Memory_tick(k) ==
  /\ MayTick(k) /\ Call(Kids(me)[mem[me].idx], {}, mem[me], top) /\ Keep

Memory_resume(k, s) ==
  /\ MayResume(k)
  /\ LET m == mem[me]
         kept == IF k = "SequenceWithMemory" THEN m ELSE [m EXCEPT !.idx = 1]
     IN \/ ret = "RUNNING" /\ Return(ret, {}, m) /\ Keep
        \/ ret = s /\ m.idx < Len(Kids(me))
           /\ Call(Kids(me)[m.idx + 1], {}, [m EXCEPT !.idx = @ + 1], top) /\ Keep
        \/ ret = s /\ m.idx = Len(Kids(me))
           /\ Return(ret, KidSet(me), [m EXCEPT !.idx = 1]) /\ History(KidSet(me), NoHistory)
        \/ ret \in Completed \ {s} /\ Return(ret, KidSet(me), kept)
           /\ History(KidSet(me), NoHistory)

\* The reactive ones start with the first child at every tick, and halt the
\* others when one is RUNNING.
Reactive_tick(k) == MayTick(k) /\ Call(Kids(me)[1], {}, mem[me], top) /\ Keep

Reactive_resume(k, s) ==
  /\ MayResume(k)
  /\ LET others == KidSet(me) \ {Kids(me)[top.child]}
     IN \/ ret = "RUNNING" /\ Return(ret, others, mem[me]) /\ History(others, NoHistory)
        \/ ret = s /\ top.child < Len(Kids(me))
           /\ Call(Kids(me)[top.child + 1], {}, mem[me], [top EXCEPT !.child = @ + 1]) /\ Keep
        \/ /\ ret \in Completed /\ (ret = s => top.child = Len(Kids(me)))
           /\ Return(ret, KidSet(me), mem[me]) /\ History(KidSet(me), NoHistory)

\* Inverter; RetryUntilSuccessful with one attempt.
Wrapper_tick(k) == MayTick(k) /\ Call(Child(me), {}, mem[me], top) /\ Keep

Inverted(s) == IF s = "SUCCESS" THEN "FAILURE" ELSE IF s = "FAILURE" THEN "SUCCESS" ELSE s

Wrapper_resume(k) ==
  /\ MayResume(k)
  /\ Return(IF k = "Inverter" THEN Inverted(ret) ELSE ret, {}, mem[me])
  /\ Keep

Library ==
  \/ \E k \in {"Sequence", "SequenceWithMemory"} : Memory_tick(k) \/ Memory_resume(k, "SUCCESS")
  \/ Memory_tick("Fallback") \/ Memory_resume("Fallback", "FAILURE")
  \/ Reactive_tick("ReactiveSequence") \/ Reactive_resume("ReactiveSequence", "SUCCESS")
  \/ Reactive_tick("ReactiveFallback") \/ Reactive_resume("ReactiveFallback", "FAILURE")
  \/ \E k \in {"Inverter", "RetryUntilSuccessful"} : Wrapper_tick(k) \/ Wrapper_resume(k)

-----------------------------------------------------------------------------
(* Leaves.                                                                 *)

\* The leaf returns s, its members become m and the blackboard's path p.
Leaf(s, m, p) ==
  /\ stack' = SubSeq(stack, 1, Len(stack) - 1) /\ ret' = s
  /\ status' = [status EXCEPT ![me] = s]
  /\ mem' = [mem EXCEPT ![me] = m]
  /\ path' = p
  /\ UNCHANGED <<tree, goal, hist>>

Skip ==
  /\ stack # <<>> /\ ret = "none" /\ me \in CanSkip /\ status[me] # "RUNNING"
  /\ stack' = SubSeq(stack, 1, Len(stack) - 1) /\ ret' = "SKIPPED"
  /\ UNCHANGED <<tree, goal, path, status, mem, hist>>

Result == {"RUNNING", "SUCCESS", "FAILURE"}

\* Spin, Wait, BackUp and the other behaviors.
Action_tick == MayTick("Action") /\ \E s \in Result : Leaf(s, mem[me], path)

\* on_tick() takes the goal of the blackboard when the node starts; success
\* stores the path, an abort an empty one, any other failure leaves it alone.
ComputePathToPose_tick ==
  /\ MayTick("ComputePathToPose")
  /\ LET m == IF status[me] = "RUNNING" THEN mem[me] ELSE [mem[me] EXCEPT !.goal = goal]
     IN \/ Leaf("RUNNING", m, path)
        \/ \E l \in Lengths : Leaf("SUCCESS", m, [goal |-> m.goal, len |-> l])
        \/ \E p \in {path, NoPath} : Leaf("FAILURE", m, p)

\* While it waits for the result the node sends a path that has changed.
FollowPath_tick ==
  /\ MayTick("FollowPath")
  /\ LET m == [mem[me] EXCEPT !.path = path]
     IN \/ Leaf("RUNNING", m, path)
        \/ \E s \in Completed : Leaf(s, IF status[me] = "RUNNING" THEN mem[me] ELSE m, path)

BtServiceNode_tick ==
  /\ MayTick("Service")
  /\ \E s \in Result : Leaf(s, [mem[me] EXCEPT !.flag = s = "RUNNING"], path)

\* The planner server, asked in this tick, finds no empty path valid.
IsPathValidCondition_tick ==
  /\ MayTick("IsPathValid")
  /\ \E s \in IF path = NoPath THEN {"FAILURE"} ELSE Completed : Leaf(s, mem[me], path)

\* BtCancelActionNode and AreErrorCodesPresent: done in one tick.
OneShot_tick == MayTick("OneShot") /\ \E s \in Completed : Leaf(s, mem[me], path)

\* ControllerSelector and PlannerSelector, with a default.
Selector_tick == MayTick("Selector") /\ Leaf("SUCCESS", mem[me], path)

GoalUpdatedCondition_tick ==
  /\ MayTick("GoalUpdated")
  /\ Leaf(IF Active(status[me]) /\ mem[me].goal # goal THEN "SUCCESS" ELSE "FAILURE",
          [mem[me] EXCEPT !.goal = goal], path)

GloballyUpdatedGoalCondition_tick ==
  /\ MayTick("GlobalUpdatedGoal")
  /\ Leaf(IF mem[me].flag \/ mem[me].goal # goal THEN "SUCCESS" ELSE "FAILURE",
          [mem[me] EXCEPT !.flag = FALSE, !.goal = goal], path)

\* A path that changed restarts the period.
PathExpiringTimer_tick ==
  /\ MayTick("PathExpiringTimer")
  /\ \E expired \in BOOLEAN :
       Leaf(IF ~mem[me].flag /\ mem[me].path = path /\ expired THEN "SUCCESS" ELSE "FAILURE",
            [mem[me] EXCEPT !.flag = FALSE, !.path = path], path)

-----------------------------------------------------------------------------
(* BehaviorTreeEngine::run(), and the goals of the navigator.              *)

tickOnce ==
  /\ stack = <<>> /\ ret \in {"none", "RUNNING"}
  /\ stack' = <<[node |-> Root, child |-> 1, skipped |-> 0]>>
  /\ ret' = "none"
  /\ UNCHANGED <<tree, goal, path, status, mem, hist>>

\* A preempting goal, taken by onLoop() between two ticks.
onLoop ==
  /\ stack = <<>> /\ ret = "RUNNING"
  /\ \E g \in Goals : g > goal /\ goal' = g
  /\ UNCHANGED <<tree, path, stack, ret, status, mem, hist>>

\* The run ends, by the root's result or by a cancel request; haltTree() halts
\* every node.  The next run is for any goal: the numbers start again.
haltTree ==
  /\ stack = <<>> /\ ret # "none"
  /\ ret' = "none"
  /\ status' = [n \in Node |-> "IDLE"]
  /\ mem' = [n \in Node |-> Halted(n)]
  /\ path' = NoPath
  /\ hist' = [n \in Node |-> NoHistory]
  /\ goal' \in Goals
  /\ UNCHANGED <<tree, stack>>

-----------------------------------------------------------------------------

Control ==
  \/ RecoveryNode_tick \/ RecoveryNode_first \/ RecoveryNode_second
  \/ PipelineSequence_tick \/ PipelineSequence_resume
  \/ RoundRobinNode_tick \/ RoundRobinNode_resume
  \/ Library

Decorator ==
  \/ RateController_tick \/ SpeedController_tick \/ GoalUpdatedController_tick
  \/ Controller_resume
  \/ DistanceController_tick \/ DistanceController_resume
  \/ SingleTrigger_tick \/ SingleTrigger_resume
  \/ PathLongerOnApproach_tick \/ PathLongerOnApproach_resume

LeafStep ==
  \/ Skip \/ Action_tick \/ ComputePathToPose_tick \/ FollowPath_tick \/ BtServiceNode_tick
  \/ IsPathValidCondition_tick \/ OneShot_tick \/ Selector_tick \/ GoalUpdatedCondition_tick
  \/ GloballyUpdatedGoalCondition_tick \/ PathExpiringTimer_tick

Step == Control \/ Decorator \/ LeafStep

Next == tickOnce \/ onLoop \/ haltTree \/ Step

Spec == Init /\ [][Next]_vars

\* The tick of a node goes on until it returns.  The planner answers in the
\* end, the periods of the controllers end, and the behaviors and services
\* finish (or time out); FollowPath may go on for ever.
Planned == ComputePathToPose_tick /\ ret' # "RUNNING"
Elapsed ==
  /\ RateController_tick \/ SpeedController_tick \/ DistanceController_tick
  /\ Len(stack') > Len(stack)
Expired == PathExpiringTimer_tick /\ ret' = "SUCCESS"
Finished == (Action_tick \/ BtServiceNode_tick) /\ ret' # "RUNNING"

FairSpec == Spec /\ WF_vars(tickOnce) /\ WF_vars(Step)
                 /\ SF_vars(Planned) /\ SF_vars(Elapsed) /\ SF_vars(Expired) /\ SF_vars(Finished)

-----------------------------------------------------------------------------
(* Properties.                                                             *)

BetweenTicks == stack = <<>>

\* Halting reaches everything that runs: between two ticks a RUNNING node is
\* the child of a RUNNING node, and a service node that waits for a response
\* is RUNNING.  So no behavior goes on in a branch the tree has left, and
\* haltChildren() of the control nodes ends all of them.  Two decorators are
\* the only ones to let go of a RUNNING child: DistanceController when the
\* pose is not available, PathLongerOnApproach when the path changes again.
RunningBelowRunning ==
  BetweenTicks =>
    \A p \in Node, c \in Node :
      /\ c \in KidSet(p) /\ status[c] = "RUNNING" =>
           status[p] = "RUNNING" \/ Kind(p) \in {"DistanceController", "PathLongerOnApproach"}
      /\ Kind(c) = "Service" /\ mem[c].flag => status[c] = "RUNNING"

\* A RecoveryNode gives up on its first child only after number_of_retries
\* recoveries of this activation, and never recovers more often, however its
\* activations are halted and started again.  A recovery that is skipped is
\* the exception: it fails the node and leaves retry_count_ as it is, so the
\* next activation may give up early.
GivesUpAfterRetries ==
  \A n \in Node : Kind(n) = "RecoveryNode" =>
    /\ hist[n].recovered <= Retries
    /\ stack # <<>> /\ me = n /\ mem[n].idx = 1 /\ ret = "FAILURE" /\ mem[n].count >= Retries
         => hist[n].recovered = Retries \/ hist[n].skipped

\* RoundRobin fails (or is skipped) only when every child, since the last
\* success or halt, has failed or was skipped, over any number of ticks.
RoundRobinTriesAll ==
  [][stack # <<>> /\ Kind(me) = "RoundRobin" /\ Len(stack') < Len(stack) /\ ret' \in {"FAILURE", "SKIPPED"}
       => hist[me].tried \cup {mem[me].idx} = DOMAIN Kids(me)]_vars

\* The loops of the control nodes end: a tick of the root always returns to
\* the engine, which looks for a cancel request only between two ticks.
TickReturns == []<>BetweenTicks

HasPlanner == \E n \in Node : Kind(n) = "ComputePathToPose"

\* A new goal is planned for: unless the goals keep changing or the run ends,
\* the tree gets a path to the goal of the blackboard.  GoalUpdatedController
\* is left out: see UpdateIsPlanned.
GoalIsPlanned ==
  HasPlanner /\ (\A n \in Node : Kind(n) # "GoalUpdatedController") => []<>(path.goal = goal \/ (BetweenTicks /\ ret # "RUNNING"))

\* "This Behavior Tree replans the global path only when the goal is updated."
\* An update while the planner is still busy with the old goal is used up by
\* the tick that continues it, and nothing is planned for the new goal.
UpdateIsPlanned == HasPlanner => []<>(path.goal = goal \/ (BetweenTicks /\ ret # "RUNNING"))

=============================================================================
