-------------------------- MODULE BehaviorTreeProofs --------------------------
(*****************************************************************************)
(* What holds of every behavior tree, for any number of retries: halting     *)
(* reaches what runs, recoveries are counted right, and a RoundRobin tries all *)
(* its children.                                                             *)
(*****************************************************************************)
EXTENDS TreeProofs, TLAPS

-----------------------------------------------------------------------------
(* The nodes, one by one.                                                  *)

\* Members of a node after an assignment to some of them.
LEMMA Fields ==
  ASSUME NEW m \in Member
  PROVE  m.idx \in Nat /\ m.count \in Nat /\ m.flag \in BOOLEAN /\ m.goal \in Goals \cup {0} /\ m.path \in Paths
BY DEF Member

\* current_child_idx_ and its like.
LEMMA SetIdx ==
  ASSUME NEW m \in Member, NEW i \in Nat, NEW k, k = [m EXCEPT !.idx = i]
  PROVE  k \in Member /\ k.idx = i /\ k.count = m.count
BY DEF Member

\* retry_count_ and num_failed_children_.
LEMMA SetCount ==
  ASSUME NEW m \in Member, NEW i \in Nat, NEW k, k = [m EXCEPT !.count = i]
  PROVE  k \in Member /\ k.count = i /\ k.idx = m.idx
BY DEF Member

\* first_time_ and its like.
LEMMA SetFlag ==
  ASSUME NEW m \in Member, NEW b \in BOOLEAN, NEW k, k = [m EXCEPT !.flag = b]
  PROVE  k \in Member /\ k.flag = b
BY DEF Member

\* The goal a node keeps.
LEMMA SetGoal ==
  ASSUME NEW m \in Member, NEW b \in BOOLEAN, NEW g \in Goals
  PROVE  [m EXCEPT !.goal = g] \in Member /\ [m EXCEPT !.flag = b, !.goal = g] \in Member
BY Zenon DEF Member

\* The path a node keeps.
LEMMA SetPath ==
  ASSUME NEW m \in Member, NEW b \in BOOLEAN, NEW p \in Paths
  PROVE  [m EXCEPT !.path = p] \in Member /\ [m EXCEPT !.flag = b, !.path = p] \in Member
BY Zenon DEF Member

\* What is known of the node that is ticked.
LEMMA NowFacts ==
  ASSUME TreeInv, stack # <<>>
  PROVE  /\ tree \in DOMAIN Trees /\ goal \in Goals /\ path \in Paths
         /\ me \in Node /\ mem[me] \in Member /\ hist[me] \in Past /\ status[me] \in Status /\ Own(me)
         /\ top \in Frame /\ top.node = me /\ top.child \in Nat /\ top.skipped \in Nat
         /\ ret = "none" => top.child = 1 /\ top.skipped = 0
         /\ ret # "none" => Calls(top)
         /\ Kind(me) = "RecoveryNode" => Len(Kids(me)) = 2
         /\ Kind(me) \in Controls => Len(Kids(me)) >= 1
         /\ Kind(me) \in Decorators => Len(Kids(me)) = 1 /\ KidSet(me) = {Child(me)}
         /\ Kind(me) \notin Controls \cup Decorators => KidSet(me) = {}
         /\ Len(Kids(me)) \in Nat /\ DOMAIN Kids(me) = 1 .. Len(Kids(me))
         /\ \A i \in DOMAIN Kids(me) : Kids(me)[i] \in KidSet(me)
         /\ \A c \in KidSet(me) : c \in Node
<1>1. /\ tree \in DOMAIN Trees /\ goal \in Goals /\ path \in Paths
      /\ me \in Node /\ mem[me] \in Member /\ hist[me] \in Past /\ status[me] \in Status /\ Own(me)
      /\ top \in Frame /\ top.node = me /\ top.child \in Nat /\ top.skipped \in Nat
  BY TopFacts DEF TreeInv, TypeOK, Owns, Frame
<1>2. ret = "none" => top.child = 1 /\ top.skipped = 0
  BY DEF TreeInv, Frames
<1>3. ret # "none" => Calls(top)
  BY TopFacts DEF TreeInv, InCalls, Entered
<1>4. /\ Kind(me) = "RecoveryNode" => Len(Kids(me)) = 2
      /\ Kind(me) \in Controls => Len(Kids(me)) >= 1
      /\ Kind(me) \in Decorators => Len(Kids(me)) = 1
      /\ Kind(me) \notin Controls \cup Decorators => KidSet(me) = {}
      /\ Len(Kids(me)) \in Nat /\ DOMAIN Kids(me) = 1 .. Len(Kids(me))
  BY <1>1, KindFacts
<1>5. Kind(me) \in Decorators => KidSet(me) = {Child(me)}
  BY <1>4 DEF KidSet, Child
<1>6. \A c \in KidSet(me) : c \in Node
  BY <1>1, TreeFacts
<1> QED
  BY <1>1, <1>2, <1>3, <1>4, <1>5, <1>6, Zenon DEF KidSet

\* The members it has are in order, and a node without conditions may have any.
LEMMA NowFits ==
  ASSUME TreeInv, stack # <<>>, Kind(me) \in Controls \cup Decorators
  PROVE  /\ \A S \in SUBSET KidSet(me) : Fits(S, mem[me], hist[me])
         /\ Kind(me) \notin Remembering \cup {"SingleTrigger"} =>
              \A S \in SUBSET KidSet(me), m \in Member, h \in Past : Fits(S, m, h)
<1>1. mem[me] \in Member /\ hist[me] \in Past /\ Own(me)
  BY NowFacts
<1>2. \A S \in SUBSET KidSet(me) : Fits(S, mem[me], hist[me])
  BY <1>1, Zenon DEF Fits, Own, Counted
<1>3. Kind(me) \notin Remembering \cup {"SingleTrigger"} =>
        \A S \in SUBSET KidSet(me), m \in Member, h \in Past : Fits(S, m, h)
  BY Zenon DEF Fits, Remembering
<1> QED
  BY <1>2, <1>3

\* A step that halts nothing leaves the history alone.
LEMMA KeepIs ==
  ASSUME TreeInv, stack # <<>>, Keep
  PROVE  History({}, hist[me])
<1>1. HaltedFrom({}) = {}
  BY DEF HaltedFrom
<1>2. HaltHist({}) = hist
  BY DEF HaltHist, TreeInv, TypeOK
<1>3. hist' = [hist EXCEPT ![me] = hist[me]]
  BY DEF Keep, TreeInv, TypeOK
<1> QED
  BY <1>1, <1>2, <1>3, Zenon DEF History

\* A node that remembers a child calls it.
LEMMA MemoryCalls ==
  ASSUME TreeInv, stack # <<>>, ret = "none", Kind(me) \in Remembering,
         Call(Kids(me)[mem[me].idx], {}, mem[me], top), Keep
  PROVE  TreeInv'
<1>0. Kind(me) \in Controls \cup Decorators
  BY SMTT(30) DEF Remembering, Controls
<1>1. /\ me \in Node /\ mem[me] \in Member /\ Own(me) /\ top \in Frame /\ top.node = me /\ top.child = 1 /\ top.skipped = 0
  BY NowFacts
<1>2. History({}, hist[me])
  BY KeepIs, SMTT(30)
<1>3. {} \in SUBSET KidSet(me) /\ Fits({}, mem[me], hist[me])
  BY <1>0, NowFits, SMTT(30)
<1>4. mem[me].idx \in DOMAIN Kids(me)
  BY <1>1 DEF Own
<1>5. Kind(me) = "RoundRobin" => Tried(me, mem[me].idx, hist[me], mem[me].count + top.skipped)
  <2>1. mem[me].count + top.skipped = mem[me].count
    BY <1>1, SMTT(30) DEF Member
  <2> QED
    BY <1>1, <2>1, Zenon DEF Own
<1>6. Kind(me) # "SingleTrigger"
  BY DEF Remembering
<1> QED
  BY <1>1, <1>2, <1>3, <1>4, <1>5, <1>6, CallStep, Zenon

\* A node that starts with its first child calls it.
LEMMA FirstCalls ==
  ASSUME TreeInv, stack # <<>>, ret = "none", Kind(me) \in (Controls \cup Decorators) \ Remembering,
         NEW m \in Member, Kind(me) = "SingleTrigger" => m.flag, Call(Kids(me)[1], {}, m, top), Keep
  PROVE  TreeInv'
<1>1. /\ me \in Node /\ hist[me] \in Past /\ top \in Frame /\ top.node = me /\ top.child = 1 /\ 1 \in DOMAIN Kids(me)
  BY NowFacts
<1>2. History({}, hist[me])
  BY KeepIs
<1>3. {} \in SUBSET KidSet(me) /\ Fits({}, m, hist[me])
  <2>1. CASE Kind(me) = "SingleTrigger"
    BY <1>1, <2>1, Zenon DEF Fits, Remembering
  <2>2. CASE Kind(me) # "SingleTrigger"
    BY <1>1, <2>2, NowFits
  <2> QED
    BY <2>1, <2>2
<1>4. Kind(me) # "RoundRobin"
  BY DEF Remembering
<1> QED
  BY <1>1, <1>2, <1>3, <1>4, CallStep, Zenon

\* A node returns without halting a child.
LEMMA KeepReturns ==
  ASSUME TreeInv, stack # <<>>, NEW m, NEW s \in Returned,
         Fits({}, m, hist[me]), Leaves(s, {}), Return(s, {}, m), Keep
  PROVE  TreeInv'
<1>1. History({}, hist[me]) /\ {} \in SUBSET KidSet(me)
  BY KeepIs
<1> QED
  BY <1>1, ReturnStep

\* The empty history.
LEMMA NoHistoryFits ==
  /\ NoHistory \in Past /\ NoHistory.recovered = 0 /\ NoHistory.tried = {} /\ NoHistory.skipped = FALSE
  /\ \A h \in Past : h.recovered \in Nat /\ h.skipped \in BOOLEAN
BY DEF NoHistory, Past

\* Nothing is left running when all children are halted.
LEMMA AllHalted ==
  ASSUME NEW s PROVE Leaves(s, KidSet(me)) /\ Leaves("RUNNING", {})
BY DEF Leaves

\* RecoveryNode: its tick() up to a child, after the first and after the second.
LEMMA RecoveryNodeKeeps ==
  ASSUME TreeInv, RecoveryNode_tick \/ RecoveryNode_first \/ RecoveryNode_second
  PROVE  TreeInv'
<1>0. stack # <<>> /\ Kind(me) = "RecoveryNode" /\ Kind(me) \in Remembering /\ Kind(me) \in Controls /\ Kind(me) \in Controls \cup Decorators
      /\ Kind(me) # "RoundRobin" /\ Kind(me) # "SingleTrigger"
  BY DEF RecoveryNode_tick, RecoveryNode_first, RecoveryNode_second, MayTick, MayResume, Remembering, Controls
<1> DEFINE m == mem[me]
           h == hist[me]
<1>1. /\ me \in Node /\ m \in Member /\ h \in Past /\ Own(me) /\ top \in Frame /\ top.node = me
      /\ Len(Kids(me)) = 2 /\ 1 \in DOMAIN Kids(me) /\ 2 \in DOMAIN Kids(me) /\ DOMAIN Kids(me) = 1 .. Len(Kids(me))
      /\ Kids(me)[1] \in KidSet(me) /\ Kids(me)[2] \in KidSet(me) /\ Retries \in Nat
  BY <1>0, NowFacts, RetriesAssumption, SMTT(30)
<1>2. /\ h.recovered \in Nat /\ m.count \in Nat /\ m.idx \in {1, 2}
      /\ h.recovered <= m.count /\ m.count <= Retries
      /\ m.idx = 2 => m.count < Retries /\ status[Kids(me)[1]] # "RUNNING"
      /\ h.skipped \/ h.recovered = m.count
  <2>1. m.idx \in DOMAIN Kids(me) /\ Counted(me)
    BY <1>0, <1>1, Zenon DEF Own
  <2>2. m.idx \in {1, 2}
    BY <1>1, <2>1
  <2>3. h.recovered \in Nat /\ m.count \in Nat
    BY <1>1, NoHistoryFits, Fields
  <2> QED
    BY <2>1, <2>2, <2>3 DEF Counted
<1>3. ASSUME NEW S \in SUBSET KidSet(me) PROVE Fits(S, m, h) /\ Fits(S, RecoveryNode_halt(m), NoHistory)
  <2>1. Fits(S, m, h)
    BY <1>0, NowFits, Zenon
  <2>2. PICK k : k = m
    OBVIOUS
  <2>3. k \in Member /\ RecoveryNode_halt(m) = [k EXCEPT !.idx = 1, !.count = 0]
    BY <1>1, <2>2 DEF RecoveryNode_halt
  <2>4. RecoveryNode_halt(m) \in Member /\ RecoveryNode_halt(m).idx = 1 /\ RecoveryNode_halt(m).count = 0
    <3>0. PICK l : l = RecoveryNode_halt(m)
      OBVIOUS
    <3>1. PICK z \in Nat, o \in Nat : z = 0 /\ o = 1
      OBVIOUS
    <3>2. l = [k EXCEPT !.idx = o, !.count = z] /\ k \in Member
      BY <2>3, <3>0, <3>1
    <3>3. l \in Member
      BY <3>2, Zenon DEF Member
    <3>4. l.idx = o
      BY <3>2 DEF Member
    <3>5. l.count = z
      BY <3>2 DEF Member
    <3> QED
      BY <3>0, <3>1, <3>3, <3>4, <3>5
  <2>5. PICK l : l = RecoveryNode_halt(m)
    OBVIOUS
  <2>6. l \in Member /\ l.idx \in DOMAIN Kids(me) /\ l.idx # 2 /\ l.count = 0
    BY <1>1, <2>4, <2>5
  <2>7. NoHistory \in Past /\ NoHistory.recovered = 0
    BY NoHistoryFits, Zenon
  <2>8. NoHistory.recovered <= l.count /\ l.count <= Retries /\ NoHistory.recovered = l.count
    BY <1>1, <2>6, <2>7
  <2>9. Fits(S, l, NoHistory)
    BY <1>0, <2>6, <2>7, <2>8, Zenon DEF Fits
  <2> QED
    BY <2>1, <2>5, <2>9, Zenon
<1>4. CASE RecoveryNode_tick
  BY <1>0, <1>4, MemoryCalls, SMTT(30) DEF RecoveryNode_tick, MayTick
<1>5. ASSUME ret = "RUNNING", Return(ret, {}, m), Keep PROVE TreeInv'
  BY <1>0, <1>3, <1>5, AllHalted, KeepReturns DEF Returned
<1>6. ASSUME ret \in {"SUCCESS", "SKIPPED", "FAILURE"}, Return(ret, KidSet(me), RecoveryNode_halt(m)), History(KidSet(me), NoHistory) PROVE TreeInv'
  BY <1>0, <1>3, <1>6, AllHalted, ReturnStep, Zenon DEF Returned
<1>7. ASSUME ret = "FAILURE", m.count < Retries, Call(Kids(me)[2], {Kids(me)[1]}, [m EXCEPT !.idx = 2], top),
             History({Kids(me)[1]}, h)
      PROVE  TreeInv'
  <2> DEFINE S == {Kids(me)[1]}
  <2>1. PICK k : k = [m EXCEPT !.idx = 2]
    BY Zenon
  <2>2. k \in Member /\ k.idx = 2 /\ k.count = m.count
    BY <1>1, <2>1, SetIdx
  <2>3. S \in SUBSET KidSet(me) /\ Kids(me)[1] \in S
    BY <1>1
  <2>4. Fits(S, k, h)
    BY <1>0, <1>1, <1>2, <1>7, <2>2, <2>3 DEF Fits
  <2> HIDE DEF S
  <2>5. Call(Kids(me)[2], S, k, top) /\ History(S, h)
    BY <1>7, <2>1 DEF S
  <2> QED
    BY <1>0, <1>1, <2>2, <2>3, <2>4, <2>5, CallStep, Zenon
<1>8. CASE RecoveryNode_first
  BY <1>5, <1>6, <1>7, <1>8 DEF RecoveryNode_first
<1>9. ASSUME m.idx = 2, Return("FAILURE", {Kids(me)[2]}, [m EXCEPT !.idx = 1]),
             History({Kids(me)[2]}, [h EXCEPT !.recovered = 0, !.skipped = TRUE])
      PROVE  TreeInv'
  <2> DEFINE S == {Kids(me)[2]}
  <2>1. PICK k : k = [m EXCEPT !.idx = 1]
    BY Zenon
  <2>2. k \in Member /\ k.idx = 1 /\ k.count = m.count
    BY <1>1, <2>1, SetIdx
  <2>3. PICK g : g = [h EXCEPT !.recovered = 0, !.skipped = TRUE]
    OBVIOUS
  <2>4. g \in Past /\ g.recovered = 0 /\ g.skipped = TRUE
    <3>1. PICK l \in Past : l = h
      BY <1>1
    <3>2. g = [l EXCEPT !.recovered = 0, !.skipped = TRUE]
      BY <2>3, <3>1
    <3>3. g \in Past
      BY <3>2, Zenon DEF Past
    <3>4. g.recovered = 0
      BY <3>2 DEF Past
    <3>5. g.skipped = TRUE
      BY <3>2 DEF Past
    <3> QED
      BY <3>3, <3>4, <3>5
  <2>5. S \in SUBSET KidSet(me)
    BY <1>1
  <2>6. Fits(S, k, g)
    BY <1>0, <1>1, <1>2, <1>9, <2>2, <2>4 DEF Fits
  <2>7. Leaves("FAILURE", S)
    <3>1. \A c \in KidSet(me) : c = Kids(me)[1] \/ c = Kids(me)[2]
      BY <1>1 DEF KidSet
    <3> QED
      BY <1>2, <1>9, <3>1 DEF Leaves
  <2> HIDE DEF S
  <2>8. Return("FAILURE", S, k) /\ History(S, g)
    BY <1>9, <2>1, <2>3 DEF S
  <2> QED
    BY <1>0, <2>5, <2>6, <2>7, <2>8, ReturnStep DEF Returned
<1>10. ASSUME m.idx = 2, Call(Kids(me)[1], {Kids(me)[2]}, RecoveryNode_retried(m), top),
              History({Kids(me)[2]}, [h EXCEPT !.recovered = @ + 1])
       PROVE  TreeInv'
  <2> DEFINE S == {Kids(me)[2]}
  <2>1. PICK k : k = RecoveryNode_retried(m)
    OBVIOUS
  <2>2. k \in Member /\ k.idx = 1 /\ k.count = m.count + 1
    <3>1. k = [m EXCEPT !.idx = 1, !.count = m.count + 1]
      BY <1>1, <2>1 DEF RecoveryNode_retried
    <3>2. PICK l \in Member, c \in Nat, o \in Nat : l = m /\ c = m.count + 1 /\ o = 1
      BY <1>1, <1>2
    <3>3. k = [l EXCEPT !.idx = o, !.count = c]
      BY <3>1, <3>2
    <3>4. k \in Member
      BY <3>3, Zenon DEF Member
    <3>5. k.idx = o
      BY <3>3 DEF Member
    <3>6. k.count = c
      BY <3>3 DEF Member
    <3> QED
      BY <3>2, <3>4, <3>5, <3>6
  <2>3. PICK g : g = [h EXCEPT !.recovered = h.recovered + 1]
    BY Zenon
  <2>4. g \in Past /\ g.recovered = h.recovered + 1 /\ g.skipped = h.skipped
    <3>1. \A l \in Past : \A r \in Nat : /\ [l EXCEPT !.recovered = r] \in Past /\ [l EXCEPT !.recovered = r].recovered = r
                                         /\ [l EXCEPT !.recovered = r].skipped = l.skipped
      BY DEF Past
    <3>2. h.recovered + 1 \in Nat
      BY <1>2
    <3> QED
      BY <1>1, <2>3, <3>1, <3>2
  <2>5. S \in SUBSET KidSet(me)
    BY <1>1
  <2>6. Fits(S, k, g)
    BY <1>0, <1>1, <1>2, <1>10, <2>2, <2>4 DEF Fits
  <2> HIDE DEF S
  <2>8. Call(Kids(me)[1], S, k, top) /\ History(S, g)
    BY <1>10, <2>1, <2>3 DEF S
  <2> QED
    BY <1>0, <1>1, <2>2, <2>5, <2>6, <2>8, CallStep, Zenon
<1>11. CASE RecoveryNode_second
  BY <1>5, <1>6, <1>9, <1>10, <1>11 DEF RecoveryNode_second
<1> QED
  BY <1>4, <1>8, <1>11

\* PipelineSequence.
LEMMA PipelineSequenceKeeps ==
  ASSUME TreeInv, PipelineSequence_tick \/ PipelineSequence_resume
  PROVE  TreeInv'
<1>0. stack # <<>> /\ Kind(me) = "PipelineSequence" /\ Kind(me) \notin Remembering /\ Kind(me) \in Controls /\ Kind(me) \in Counting
      /\ Kind(me) # "RoundRobin" /\ Kind(me) # "SingleTrigger" /\ Kind(me) \in Controls \cup Decorators
  BY SMTT(30) DEF PipelineSequence_tick, PipelineSequence_resume, MayTick, MayResume, Remembering, Controls, Counting
<1>1. /\ me \in Node /\ mem[me] \in Member /\ hist[me] \in Past /\ top \in Frame /\ top.node = me
      /\ Len(Kids(me)) \in Nat /\ DOMAIN Kids(me) = 1 .. Len(Kids(me)) /\ top.child \in Nat /\ top.skipped \in Nat
  BY <1>0, NowFacts, SMTT(30)
<1>2. \A S \in SUBSET KidSet(me), m \in Member, h \in Past : Fits(S, m, h)
  BY <1>0, NowFits
<1>3. CASE PipelineSequence_tick
  BY <1>0, <1>1, <1>3, FirstCalls, Zenon DEF PipelineSequence_tick, MayTick
<1>4. CASE PipelineSequence_resume
  <2>0. ret # "none" /\ Calls(top) /\ PipelineSequence_halts(KidSet(me)) = KidSet(me)
    BY <1>0, <1>4, NowFacts DEF PipelineSequence_resume, MayResume, PipelineSequence_halts
  <2>1. PICK m : m = [mem[me] EXCEPT !.idx = 1]
    BY Zenon
  <2>2. m \in Member
    BY <1>1, <2>1, SetIdx, Zenon
  <2>3. ASSUME NEW s \in {"FAILURE", "SKIPPED", "SUCCESS"}, Return(s, KidSet(me), m), History(KidSet(me), NoHistory) PROVE TreeInv'
    BY <1>0, <1>2, <2>2, <2>3, NoHistoryFits, AllHalted, ReturnStep, Zenon DEF Returned
  <2>4. ASSUME ret = "RUNNING", Return(ret, {}, [mem[me] EXCEPT !.idx = top.child]), Keep PROVE TreeInv'
    <3>1. PICK k : k = [mem[me] EXCEPT !.idx = top.child]
      BY Zenon
    <3>2. k \in Member
      BY <1>1, <3>1, SetIdx
    <3> QED
      BY <1>0, <1>1, <1>2, <2>4, <3>1, <3>2, AllHalted, KeepReturns DEF Returned
  <2>5. ASSUME top.child # Len(Kids(me)), NEW l \in Nat,
               Call(Kids(me)[top.child + 1], {}, mem[me], [top EXCEPT !.child = @ + 1, !.skipped = l]), Keep
        PROVE  TreeInv'
    <3>1. At(top) = top.child /\ top.child \in DOMAIN Kids(me)
      BY <1>0, <1>1, <2>0, Zenon DEF Calls, At
    <3>2. PICK f : f = [top EXCEPT !.child = top.child + 1, !.skipped = l]
      OBVIOUS
    <3>3. f \in Frame /\ f.node = me /\ f.child = top.child + 1
      <4>1. PICK t \in Frame, a \in Nat : t = top /\ a = top.child + 1
        BY <1>1
      <4>2. f = [t EXCEPT !.child = a, !.skipped = l]
        BY <3>2, <4>1
      <4>3. f \in Frame
        BY <4>2, Zenon DEF Frame
      <4>4. f.node = t.node
        BY <4>2 DEF Frame
      <4>5. f.child = a
        BY <4>2 DEF Frame
      <4> QED
        BY <1>1, <4>1, <4>3, <4>4, <4>5
    <3>4. top.child + 1 \in DOMAIN Kids(me)
      BY <1>1, <2>5, <3>1
    <3>5. Call(Kids(me)[top.child + 1], {}, mem[me], f) /\ History({}, hist[me]) /\ {} \in SUBSET KidSet(me)
      BY <1>0, <2>5, <3>2, KeepIs
    <3> QED
      BY <1>0, <1>1, <1>2, <3>3, <3>4, <3>5, CallStep, Zenon
  <2>6. \A b : top.skipped + (IF b THEN 1 ELSE 0) \in Nat
    BY <1>1
  <2> QED
    BY <1>4, <2>0, <2>1, <2>3, <2>4, <2>5, <2>6, Zenon DEF PipelineSequence_resume
<1> QED
  BY <1>3, <1>4

\* Going on to the next child, one more has been tried; the last one missing is the one that was ticked.
LEMMA NextTried ==
  ASSUME TreeInv, stack # <<>>, Kind(me) = "RoundRobin",
         NEW i \in DOMAIN Kids(me), NEW h, NEW g, NEW k \in Nat, Tried(me, i, h, k), g.tried = h.tried \cup {i}
  PROVE  /\ RoundRobinNode_next(i) \in DOMAIN Kids(me) /\ Tried(me, RoundRobinNode_next(i), g, k + 1)
         /\ k + 1 >= Len(Kids(me)) => DOMAIN Kids(me) \subseteq g.tried
<1> DEFINE N == Len(Kids(me))
           next == RoundRobinNode_next(i)
<1>1. N \in Nat /\ N >= 1 /\ DOMAIN Kids(me) = 1 .. N
  BY NowFacts DEF Controls
<1>2. next = IF i = N THEN 1 ELSE i + 1
  BY DEF RoundRobinNode_next
<1>3. \A l, j : Ago(me, l, j) = IF j < l THEN l - j ELSE (l - j) + N
  BY SMTT(30) DEF Ago
<1> HIDE DEF N, next
<1>4. ASSUME NEW j \in 1 .. N, j # i PROVE Ago(me, next, j) = Ago(me, i, j) + 1 /\ Ago(me, i, j) < N /\ Ago(me, i, j) \in Nat
  <2>1. i \in 1 .. N /\ i \in Nat /\ j \in Nat
    BY <1>1
  <2>2. Ago(me, i, j) = (IF j < i THEN i - j ELSE (i - j) + N) /\ Ago(me, next, j) = (IF j < next THEN next - j ELSE (next - j) + N)
    BY <1>3
  <2>3. Ago(me, i, j) < N /\ Ago(me, i, j) \in Nat
    BY <1>1, <1>4, <2>1, <2>2, SMTT(30)
  <2>4. CASE i = N
    BY <1>1, <1>2, <1>4, <2>1, <2>2, <2>3, <2>4, SMTT(30)
  <2>5. CASE i # N
    BY <1>1, <1>2, <1>4, <2>1, <2>2, <2>3, <2>5
  <2> QED
    BY <2>3, <2>4, <2>5
<1>5. \A j \in 1 .. N : j = i \/ (Ago(me, i, j) <= k => j \in h.tried)
  BY <1>1, SMTT(30) DEF Tried
<1>6. Tried(me, next, g, k + 1)
  <2> SUFFICES ASSUME NEW j \in 1 .. N, j # i, Ago(me, next, j) <= k + 1 PROVE j \in h.tried
    BY <1>1 DEF Tried
  <2>1. Ago(me, i, j) <= k
    BY <1>4
  <2> QED
    BY <1>5, <2>1
<1>7. ASSUME k + 1 >= N, NEW j \in 1 .. N PROVE j \in g.tried
  <2>1. j # i => Ago(me, i, j) <= k
    BY <1>1, <1>4, <1>7
  <2> QED
    BY <1>5, <2>1
<1>8. next \in 1 .. N
  BY <1>1, <1>2
<1> QED
  BY <1>1, <1>6, <1>7, <1>8, SMTT(30) DEF N, next

\* Nothing need have been tried before the first failure.
LEMMA NoneTried ==
  ASSUME TreeInv, stack # <<>>, Kind(me) = "RoundRobin", NEW i \in DOMAIN Kids(me), NEW h
  PROVE  Tried(me, i, h, 0)
<1>1. Len(Kids(me)) \in Nat /\ DOMAIN Kids(me) = 1 .. Len(Kids(me))
  BY NowFacts
<1> QED
  BY <1>1 DEF Tried, Ago

\* RoundRobin keeps the invariant: its tick() up to a child and after one.
LEMMA RoundRobinKeeps ==
  ASSUME TreeInv, RoundRobinNode_tick \/ RoundRobinNode_resume
  PROVE  TreeInv'
<1>0. stack # <<>> /\ Kind(me) = "RoundRobin" /\ Kind(me) \in Remembering /\ Kind(me) \in Controls /\ Kind(me) \in Controls \cup Decorators
      /\ Kind(me) # "RecoveryNode" /\ Kind(me) # "SingleTrigger"
  BY SMTT(30) DEF RoundRobinNode_tick, RoundRobinNode_resume, MayTick, MayResume, Remembering, Controls
<1>1. CASE RoundRobinNode_tick
  BY <1>0, <1>1, MemoryCalls DEF RoundRobinNode_tick, MayTick
<1>2. CASE RoundRobinNode_resume
  <2> DEFINE i == mem[me].idx
             m == [mem[me] EXCEPT !.idx = RoundRobinNode_next(@)]
             failed == RoundRobinNode_failed(m.count)
             skipped == top.skipped + (IF ret = "SKIPPED" THEN 1 ELSE 0)
             h == [hist[me] EXCEPT !.tried = @ \cup {mem[me].idx}]
  <2>0. ret # "none"
    BY <1>2, SMTT(30) DEF RoundRobinNode_resume, MayResume
  <2>1. /\ mem[me] \in Member /\ hist[me] \in Past /\ Own(me) /\ Calls(top) /\ top \in Frame /\ top.node = me /\ top.skipped \in Nat
        /\ Len(Kids(me)) \in Nat /\ Len(Kids(me)) >= 1 /\ DOMAIN Kids(me) = 1 .. Len(Kids(me))
    BY <1>0, <2>0, NowFacts
  <2>2. /\ i \in DOMAIN Kids(me) /\ mem[me].count \in Nat /\ hist[me].tried \subseteq DOMAIN Kids(me)
        /\ Tried(me, i, hist[me], mem[me].count + top.skipped)
    BY <1>0, <2>1, Fields, Zenon DEF Own, Calls
  <2>3. h \in Past /\ h.tried = hist[me].tried \cup {i}
    <3>1. PICK l \in Past, T \in SUBSET Nat : l = hist[me] /\ T = hist[me].tried \cup {i}
      BY <2>1, <2>2, Fields, Zenon DEF Past
    <3>2. h = [l EXCEPT !.tried = T]
      BY <3>1
    <3>3. [l EXCEPT !.tried = T] \in Past /\ [l EXCEPT !.tried = T].tried = T
      BY DEF Past
    <3> QED
      BY <3>1, <3>2, <3>3
  <2>4. PICK n : n = RoundRobinNode_next(i)
    OBVIOUS
  <2>5. mem[me].count + top.skipped \in Nat
    <3>1. mem[me].count \in Nat /\ top.skipped \in Nat
      BY <2>1, <2>2, Zenon
    <3> QED
      BY <3>1
  <2>6. /\ n \in DOMAIN Kids(me) /\ n \in Nat /\ Tried(me, n, h, mem[me].count + top.skipped + 1)
    <3>1. RoundRobinNode_next(i) \in DOMAIN Kids(me) /\ Tried(me, RoundRobinNode_next(i), h, mem[me].count + top.skipped + 1)
      <4> HIDE DEF h
      <4> QED
        BY <1>0, <2>2, <2>3, <2>5, NextTried, Zenon
    <3> QED
      BY <2>1, <2>4, <3>1
  <2>7. m \in Member /\ m.idx = n /\ m.count = mem[me].count
    <3>1. m = [mem[me] EXCEPT !.idx = n]
      BY <2>4
    <3> HIDE DEF m
    <3> QED
      BY <2>1, <2>6, <3>1, SetIdx
  <2>8. ASSUME NEW S \in SUBSET KidSet(me), NEW j \in DOMAIN Kids(me), NEW k \in Member, k.idx = j, k.count = 0
        PROVE  Fits(S, k, NoHistory)
    BY <1>0, <2>8, NoneTried, NoHistoryFits, Zenon DEF Fits
  <2>9. ASSUME ret = "RUNNING", Return(ret, {}, mem[me]), Keep PROVE TreeInv'
    <3>1. {} \in SUBSET KidSet(me) /\ Fits({}, mem[me], hist[me])
      BY <1>0, NowFits
    <3> QED
      BY <1>0, <2>9, <3>1, AllHalted, KeepReturns, Zenon DEF Returned
  <2>10. ASSUME ret = "SUCCESS", Return(ret, KidSet(me), [m EXCEPT !.count = 0]), History(KidSet(me), NoHistory) PROVE TreeInv'
    <3>1. PICK k : k = [m EXCEPT !.count = 0]
      OBVIOUS
    <3> HIDE DEF m
    <3>2. k \in Member /\ k.idx = n /\ k.count = 0
      BY <2>7, <3>1, SetCount
    <3>3. Fits(KidSet(me), k, NoHistory)
      BY <2>6, <2>8, <3>2
    <3> QED
      BY <1>0, <2>10, <3>1, <3>3, AllHalted, ReturnStep, Zenon DEF Returned
  <2>11. ASSUME ret \in {"FAILURE", "SKIPPED"}
         PROVE  /\ failed \in Nat /\ skipped \in Nat /\ failed + skipped = mem[me].count + top.skipped + 1
                /\ Tried(me, n, h, failed + skipped) /\ Tried(me, n, h, failed)
    <3>1. failed = mem[me].count + (IF ret = "FAILURE" THEN 1 ELSE 0)
      BY <2>7 DEF RoundRobinNode_failed
    <3> HIDE DEF failed
    <3>2. /\ failed \in Nat /\ skipped \in Nat /\ failed + skipped = mem[me].count + top.skipped + 1
      BY <2>1, <2>2, <2>11, <3>1, SMTT(30)
    <3>3. Tried(me, n, h, failed + skipped)
      BY <2>6, <3>2
    <3> HIDE DEF skipped, h
    <3>4. \A j \in DOMAIN Kids(me) : Ago(me, n, j) <= failed => Ago(me, n, j) <= failed + skipped
      BY <2>1, <2>6, <3>2 DEF Ago
    <3> QED
      BY <3>2, <3>3, <3>4 DEF Tried
  <2>12. ASSUME ret \in {"FAILURE", "SKIPPED"}, Call(Kids(me)[m.idx], {}, [m EXCEPT !.count = failed], [top EXCEPT !.skipped = skipped]),
                History({}, h)
         PROVE  TreeInv'
    <3>1. PICK k : k = [m EXCEPT !.count = failed]
      OBVIOUS
    <3>2. PICK f : f = [top EXCEPT !.skipped = skipped]
      BY Zenon
    <3>3. failed \in Nat /\ skipped \in Nat /\ Tried(me, n, h, failed + skipped) /\ Tried(me, n, h, failed)
      BY <2>11, <2>12
    <3> HIDE DEF m, failed, skipped, h
    <3>4. k \in Member /\ k.idx = n /\ k.count = failed
      BY <2>7, <3>1, <3>3, SetCount
    <3>5. f \in Frame /\ f.node = me /\ f.skipped = skipped
      BY <2>1, <3>2, <3>3 DEF Frame
    <3>6. Fits({}, k, h)
      BY <1>0, <2>2, <2>3, <2>6, <3>3, <3>4, Zenon DEF Fits
    <3>7. Call(Kids(me)[n], {}, k, f) /\ {} \in SUBSET KidSet(me)
      BY <2>7, <2>12, <3>1, <3>2
    <3> QED
      BY <1>0, <2>6, <2>12, <3>3, <3>4, <3>5, <3>6, <3>7, CallStep
  <2>13. ASSUME NEW s \in {"FAILURE", "SKIPPED"}, Return(s, KidSet(me), [m EXCEPT !.idx = 1, !.count = 0]), History(KidSet(me), NoHistory)
         PROVE  TreeInv'
    <3>1. PICK k : k = [m EXCEPT !.idx = 1, !.count = 0]
      OBVIOUS
    <3>2. PICK l \in Member, z \in Nat, o \in Nat : l = m /\ z = 0 /\ o = 1
      BY <2>7
    <3>3. k = [l EXCEPT !.idx = o, !.count = z]
      BY <3>1, <3>2
    <3>4. k \in Member
      BY <3>3, Zenon DEF Member
    <3>5. k.idx = o
      BY <3>3 DEF Member
    <3>6. k.count = z
      BY <3>3 DEF Member
    <3>7. 1 \in DOMAIN Kids(me)
      BY <2>1
    <3>8. Fits(KidSet(me), k, NoHistory)
      BY <2>8, <3>2, <3>4, <3>5, <3>6, <3>7
    <3> QED
      BY <1>0, <2>13, <3>1, <3>8, AllHalted, ReturnStep, Zenon DEF Returned
  <2> QED
    BY <1>2, <2>9, <2>10, <2>12, <2>13 DEF RoundRobinNode_resume
<1> QED
  BY <1>1, <1>2

\* A decorator that may tick its child.
LEMMA TickOrRun ==
  ASSUME TreeInv, stack # <<>>, ret = "none", Kind(me) \in Decorators \ {"SingleTrigger"},
         NEW m \in Member, NEW b, TickChildOrRun(b, m)
  PROVE  TreeInv'
<1>1. /\ Kind(me) \in (Controls \cup Decorators) \ Remembering /\ Kind(me) # "SingleTrigger" /\ hist[me] \in Past
      /\ Kind(me) \notin Remembering \cup {"SingleTrigger"}
  BY NowFacts DEF Decorators, Remembering
<1>2. CASE b
  <2>1. PICK k : k = [m EXCEPT !.flag = FALSE]
    BY Zenon
  <2>2. k \in Member
    BY <2>1, SetFlag, Zenon
  <2>3. Call(Kids(me)[1], {}, k, top) /\ Keep
    BY <1>2, <2>1 DEF TickChildOrRun, Child
  <2> QED
    BY <1>1, <2>2, <2>3, FirstCalls
<1>3. CASE ~b
  <2>1. Return("RUNNING", {}, m) /\ Keep
    BY <1>3, SMTT(30) DEF TickChildOrRun
  <2>2. {} \in SUBSET KidSet(me) /\ Fits({}, m, hist[me])
    BY <1>1, NowFits, SMTT(30)
  <2> QED
    BY <2>1, <2>2, AllHalted, KeepReturns DEF Returned
<1> QED
  BY <1>2, <1>3, SMTT(30)

\* A decorator whose child has returned.
LEMMA ChildReturned ==
  ASSUME TreeInv, stack # <<>>, ret # "none", Kind(me) \in Decorators
  PROVE  /\ ret \in Returned /\ (ret = "SKIPPED" => status[me] = "RUNNING")
         /\ ret # "SKIPPED" => status[Child(me)] = ret
         /\ \A s \in Returned : s = ret \/ ret \in Completed => Leaves(s, {})
<1>1. /\ Calls(top) /\ top.node = me /\ KidSet(me) = {Child(me)} /\ ret \in Returned
  BY NowFacts, Zenon DEF TreeInv, TypeOK
<1>2. Kind(me) \notin Controls /\ Kind(me) \notin {"RecoveryNode", "RoundRobin", "PipelineSequence"} /\ Kind(me) \notin Remembering \cup Counting
  BY DEF Decorators, Controls, Remembering, Counting
<1>3. status[me] = "RUNNING" /\ Current(top) = Child(me)
  BY <1>1, <1>2, Zenon DEF Calls, Current, At, Child
<1>4. ret # "SKIPPED" => status[Child(me)] = ret
  BY <1>3 DEF TreeInv, Answered
<1>5. ASSUME NEW s \in Returned, s = ret \/ ret \in Completed PROVE Leaves(s, {})
  <2>1. CASE ret \in Completed
    BY <1>1, <1>4, <2>1 DEF Leaves, Completed
  <2>2. CASE ret \notin Completed
    BY <1>1, <1>2, <1>3, <1>5, <2>2 DEF Leaves, Completed, Returned
  <2> QED
    BY <2>1, <2>2
<1> QED
  BY <1>1, <1>3, <1>4, <1>5

\* And so do the controllers of the planning rate.
LEMMA ControllersKeep ==
  ASSUME TreeInv,
         \/ RateController_tick \/ SpeedController_tick \/ GoalUpdatedController_tick \/ Controller_resume
         \/ DistanceController_tick \/ DistanceController_resume
  PROVE  TreeInv'
<1>0. stack # <<>>
  BY SMTT(30) DEF RateController_tick, SpeedController_tick, GoalUpdatedController_tick, Controller_resume,
         DistanceController_tick, DistanceController_resume, MayTick, MayResume
<1>1. mem[me] \in Member /\ hist[me] \in Past /\ goal \in Goals /\ mem[me].flag \in BOOLEAN
  BY <1>0, NowFacts, Fields
<1>2. \A b \in BOOLEAN : [mem[me] EXCEPT !.flag = b] \in Member /\ [mem[me] EXCEPT !.flag = b, !.goal = goal] \in Member
  BY <1>1, SetFlag, SetGoal, Zenon
<1>3. ASSUME Kind(me) \in Decorators, Kind(me) # "SingleTrigger", NEW m \in Member PROVE {} \in SUBSET KidSet(me) /\ Fits({}, m, hist[me])
  <2>1. Kind(me) \notin Remembering \cup {"SingleTrigger"}
    BY <1>3 DEF Decorators, Remembering
  <2> QED
    BY <1>0, <1>1, <1>3, <2>1, NowFits, Zenon
<1>4. CASE RateController_tick
  <2>1. ret = "none" /\ Kind(me) \in Decorators \ {"SingleTrigger"}
    BY <1>4 DEF RateController_tick, MayTick, Decorators
  <2>2. PICK expired \in BOOLEAN :
          TickChildOrRun(RateController_due(mem[me].flag \/ ~Active(status[me]), expired),
                         [mem[me] EXCEPT !.flag = mem[me].flag \/ ~Active(status[me])])
    BY <1>4 DEF RateController_tick
  <2>3. [mem[me] EXCEPT !.flag = mem[me].flag \/ ~Active(status[me])] \in Member
    BY <1>2, Zenon
  <2> QED
    BY <1>0, <2>1, <2>2, <2>3, TickOrRun
<1>5. CASE SpeedController_tick
  <2> DEFINE first == mem[me].flag \/ ~Active(status[me]) \/ mem[me].goal # goal
  <2>1. ret = "none" /\ Kind(me) \in Decorators \ {"SingleTrigger"}
    BY <1>5 DEF SpeedController_tick, MayTick, Decorators
  <2>2. PICK expired \in BOOLEAN :
          TickChildOrRun(first \/ ChildRunning \/ expired, [mem[me] EXCEPT !.flag = first, !.goal = goal])
    BY <1>5 DEF SpeedController_tick
  <2>3. [mem[me] EXCEPT !.flag = first, !.goal = goal] \in Member
    BY <1>2, Zenon
  <2> QED
    BY <1>0, <2>1, <2>2, <2>3, TickOrRun
<1>6. CASE GoalUpdatedController_tick
  <2> DEFINE first == mem[me].flag \/ ~Active(status[me]) \/ mem[me].goal # goal
  <2>1. ret = "none" /\ Kind(me) \in Decorators \ {"SingleTrigger"}
    BY <1>6 DEF GoalUpdatedController_tick, MayTick, Decorators
  <2>2. TickChildOrRun(first \/ ChildRunning, [mem[me] EXCEPT !.flag = first, !.goal = goal])
    BY <1>6 DEF GoalUpdatedController_tick
  <2>3. [mem[me] EXCEPT !.flag = first, !.goal = goal] \in Member
    BY <1>2, Zenon
  <2> QED
    BY <1>0, <2>1, <2>2, <2>3, TickOrRun
<1>7. CASE Controller_resume
  <2>1. ret # "none" /\ Kind(me) \in Decorators /\ Kind(me) # "SingleTrigger" /\ Return(ret, {}, mem[me]) /\ Keep
    BY <1>7 DEF Controller_resume, MayResume, Decorators
  <2>2. ret \in Returned /\ Leaves(ret, {})
    BY <1>0, <2>1, ChildReturned
  <2> QED
    BY <1>0, <1>1, <1>3, <2>1, <2>2, KeepReturns, Zenon
<1>8. CASE DistanceController_tick
  <2>1. ret = "none" /\ Kind(me) \in Decorators \ {"SingleTrigger"} /\ Kind(me) \in LetsGo
    BY <1>8 DEF DistanceController_tick, MayTick, Decorators, LetsGo
  <2> DEFINE first == mem[me].flag \/ ~Active(status[me])
             M(b) == IF b THEN [mem[me] EXCEPT !.flag = first] ELSE mem[me]
  <2>2. PICK b, c : TickChildOrRun(c, M(b)) \/ (Return("FAILURE", {}, M(b)) /\ Keep)
    <3>1. PICK travelled \in BOOLEAN, startPose \in BOOLEAN, pose \in BOOLEAN :
            IF (Active(status[me]) \/ startPose) /\ pose
            THEN TickChildOrRun(first \/ ChildRunning \/ travelled, M(Active(status[me]) \/ startPose))
            ELSE Return("FAILURE", {}, M(Active(status[me]) \/ startPose)) /\ Keep
      BY <1>8 DEF DistanceController_tick
    <3> HIDE DEF first, M
    <3> QED
      BY <3>1
  <2>3. M(b) \in Member
    BY <1>1, <1>2, Zenon
  <2> HIDE DEF M
  <2>4. "FAILURE" \in Returned /\ Leaves("FAILURE", {})
    BY <2>1 DEF Leaves, Returned
  <2>5. PICK m \in Member : m = M(b)
    BY <2>3
  <2>6. CASE TickChildOrRun(c, m)
    BY <1>0, <2>1, <2>6, TickOrRun
  <2>7. CASE Return("FAILURE", {}, m) /\ Keep
    BY <1>0, <1>3, <2>1, <2>4, <2>7, KeepReturns
  <2> QED
    BY <2>2, <2>5, <2>6, <2>7
<1>9. CASE DistanceController_resume
  <2>1. ret # "none" /\ Kind(me) \in Decorators /\ Kind(me) # "SingleTrigger" /\ Kind(me) \in LetsGo /\ Keep
    BY <1>9 DEF DistanceController_resume, MayResume, Decorators, LetsGo
  <2>2. PICK s \in IF ret = "SUCCESS" THEN Completed ELSE {ret} : Return(s, {}, mem[me])
    BY <1>9, SMTT(30) DEF DistanceController_resume
  <2>3. s \in Returned /\ Leaves(s, {})
    BY <1>0, <2>1, <2>2, ChildReturned DEF Completed, Returned, Leaves
  <2> QED
    BY <1>0, <1>1, <1>3, <2>1, <2>2, <2>3, KeepReturns, Zenon
<1> QED
  BY <1>4, <1>5, <1>6, <1>7, <1>8, <1>9

\* SingleTrigger fails a tick only when its child does not run.
LEMMA SingleTriggerKeeps ==
  ASSUME TreeInv, SingleTrigger_tick \/ SingleTrigger_resume
  PROVE  TreeInv'
<1>0. stack # <<>> /\ Kind(me) = "SingleTrigger" /\ Keep
  BY DEF SingleTrigger_tick, SingleTrigger_resume, MayTick, MayResume
<1>1. Kind(me) \in Decorators /\ Kind(me) \notin Remembering /\ Kind(me) \in Controls \cup Decorators
  BY <1>0 DEF Decorators, Remembering
<1>2. mem[me] \in Member /\ hist[me] \in Past /\ mem[me].flag \in BOOLEAN /\ Own(me) /\ KidSet(me) = {Child(me)}
  BY <1>0, <1>1, NowFacts, Fields, Zenon
<1>3. CASE SingleTrigger_tick
  <2>0. ret = "none"
    BY <1>3 DEF SingleTrigger_tick, MayTick
  <2>1. CASE Call(Child(me), {}, [mem[me] EXCEPT !.flag = TRUE], top)
    <3>1. PICK k : k = [mem[me] EXCEPT !.flag = TRUE]
      BY Zenon
    <3>2. k \in Member /\ k.flag
      BY <1>2, <3>1, SetFlag, Zenon
    <3>3. Call(Kids(me)[1], {}, k, top)
      BY <2>1, <3>1 DEF Child
    <3> QED
      BY <1>0, <1>1, <2>0, <3>2, <3>3, FirstCalls
  <2>2. CASE Return("FAILURE", {}, mem[me]) /\ ~mem[me].flag
    <3>1. {} \in SUBSET KidSet(me) /\ Fits({}, mem[me], hist[me])
      BY <1>0, <1>1, NowFits
    <3>2. status[Child(me)] # "RUNNING"
      BY <1>0, <1>2, <2>2, Zenon DEF Own
    <3>3. Leaves("FAILURE", {})
      BY <1>2, <3>2 DEF Leaves
    <3> QED
      BY <1>0, <2>2, <3>1, <3>3, KeepReturns, Zenon DEF Returned
  <2> QED
    BY <1>3, <2>1, <2>2 DEF SingleTrigger_tick
<1>4. CASE SingleTrigger_resume
  <2>1. ret # "none" /\ Return(ret, {}, [mem[me] EXCEPT !.flag = ret \notin Completed])
    BY <1>4 DEF SingleTrigger_resume, MayResume
  <2>2. ret \in Returned /\ Leaves(ret, {}) /\ (ret # "SKIPPED" => status[Child(me)] = ret)
    BY <1>0, <1>1, <2>1, ChildReturned
  <2>3. PICK b \in BOOLEAN : b = (ret \notin Completed)
    BY Zenon
  <2>4. PICK k : k = [mem[me] EXCEPT !.flag = b]
    BY Zenon
  <2>5. k \in Member /\ k.flag = b
    BY <1>2, <2>4, SetFlag
  <2>6. k.flag \/ status[Child(me)] # "RUNNING"
    BY <2>2, <2>3, <2>5, Zenon DEF Completed
  <2>7. Fits({}, k, hist[me])
    BY <1>0, <1>1, <1>2, <2>5, <2>6, Zenon DEF Fits
  <2>8. Return(ret, {}, k)
    BY <2>1, <2>3, <2>4
  <2> QED
    BY <1>0, <2>2, <2>7, <2>8, KeepReturns
<1> QED
  BY <1>3, <1>4

\* PathLongerOnApproach may let go of its child.
LEMMA PathLongerKeeps ==
  ASSUME TreeInv, PathLongerOnApproach_tick \/ PathLongerOnApproach_resume
  PROVE  TreeInv'
<1>0. stack # <<>> /\ Kind(me) = "PathLongerOnApproach"
  BY DEF PathLongerOnApproach_tick, PathLongerOnApproach_resume, MayTick, MayResume
<1>1. /\ Kind(me) \in Decorators /\ Kind(me) \notin Remembering \cup {"SingleTrigger"} /\ Kind(me) \in LetsGo
      /\ Kind(me) \in (Controls \cup Decorators) \ Remembering /\ Kind(me) # "SingleTrigger"
  BY <1>0 DEF Decorators, Remembering, LetsGo
<1>2. mem[me] \in Member /\ hist[me] \in Past /\ path \in Paths /\ mem[me].flag \in BOOLEAN
  BY <1>0, NowFacts, Fields, Zenon
<1>3. \A S \in SUBSET KidSet(me), m \in Member : Fits(S, m, hist[me])
  BY <1>0, <1>1, <1>2, NowFits
<1>4. \A s, S : Leaves(s, S)
  BY <1>1 DEF Leaves
<1>5. CASE PathLongerOnApproach_tick
  <2> DEFINE first == mem[me].flag \/ ~Active(status[me])
             m == [mem[me] EXCEPT !.flag = first]
  <2>0. ret = "none" /\ Keep
    BY <1>5 DEF PathLongerOnApproach_tick, MayTick
  <2>1. m \in Member
    <3>1. PICK b \in BOOLEAN : b = first
      BY Zenon
    <3>2. [mem[me] EXCEPT !.flag = b] \in Member
      BY <1>2, SetFlag
    <3> QED
      BY <3>1, <3>2
  <2>2. Call(Child(me), {}, m, top) \/ Return("SUCCESS", {}, [m EXCEPT !.flag = FALSE, !.path = path])
    BY <1>5 DEF PathLongerOnApproach_tick
  <2>3. PICK k \in Member : k = m
    BY <2>1
  <2>4. CASE Call(Kids(me)[1], {}, k, top)
    BY <1>0, <1>1, <2>0, <2>4, FirstCalls
  <2>5. PICK l : l = [k EXCEPT !.flag = FALSE, !.path = path]
    OBVIOUS
  <2>6. l \in Member
    BY <1>2, <2>5, SetPath, Zenon
  <2>7. CASE Return("SUCCESS", {}, l)
    <3>1. Fits({}, l, hist[me]) /\ Leaves("SUCCESS", {})
      BY <1>3, <1>4, <2>6
    <3> QED
      BY <1>0, <2>0, <2>7, <3>1, KeepReturns DEF Returned
  <2> HIDE DEF m
  <2> QED
    BY <2>2, <2>3, <2>4, <2>5, <2>7 DEF Child
<1>6. CASE PathLongerOnApproach_resume
  <2>0. ret # "none"
    BY <1>6 DEF PathLongerOnApproach_resume, MayResume
  <2>1. ret \in Returned
    BY <1>0, <1>1, <2>0, ChildReturned
  <2>2. CASE Return(ret, KidSet(me), [mem[me] EXCEPT !.path = path]) /\ History(KidSet(me), hist[me])
    <3>1. PICK k : k = [mem[me] EXCEPT !.path = path]
      BY Zenon
    <3>2. k \in Member
      BY <1>2, <3>1, SetPath, Zenon
    <3>3. Fits(KidSet(me), k, hist[me]) /\ Leaves(ret, KidSet(me))
      BY <1>3, <1>4, <3>2, SMTT(30)
    <3> QED
      BY <1>0, <2>1, <2>2, <3>1, <3>3, ReturnStep
  <2>3. CASE Return(ret, {}, mem[me]) /\ Keep
    <3>1. Fits({}, mem[me], hist[me]) /\ Leaves(ret, {})
      BY <1>2, <1>3, <1>4
    <3> QED
      BY <1>0, <2>1, <2>3, <3>1, KeepReturns
  <2> QED
    BY <1>6, <2>2, <2>3 DEF PathLongerOnApproach_resume
<1> QED
  BY <1>5, <1>6

\* Sequence, SequenceWithMemory and Fallback.
LEMMA MemoryKeeps ==
  ASSUME TreeInv, NEW k \in {"Sequence", "SequenceWithMemory", "Fallback"}, NEW s \in Completed,
         Memory_tick(k) \/ Memory_resume(k, s)
  PROVE  TreeInv'
<1>0. stack # <<>> /\ Kind(me) = k
  BY DEF Memory_tick, Memory_resume, MayTick, MayResume
<1>1. /\ Kind(me) \in Remembering /\ Kind(me) \in Controls /\ Kind(me) \in Controls \cup Decorators
      /\ Kind(me) \notin {"RecoveryNode", "RoundRobin", "SingleTrigger"}
  BY <1>0 DEF Remembering, Controls
<1>2. /\ mem[me] \in Member /\ mem[me].idx \in Nat /\ hist[me] \in Past /\ Own(me) /\ top \in Frame /\ top.node = me
      /\ Len(Kids(me)) \in Nat /\ Len(Kids(me)) >= 1 /\ DOMAIN Kids(me) = 1 .. Len(Kids(me))
  BY <1>0, <1>1, NowFacts, Fields, Zenon
<1>3. mem[me].idx \in DOMAIN Kids(me)
  BY <1>1, <1>2, Zenon DEF Own
<1>4. \A S \in SUBSET KidSet(me), m \in Member, h \in Past : m.idx \in DOMAIN Kids(me) => Fits(S, m, h)
  BY <1>1, Zenon DEF Fits
<1>5. CASE Memory_tick(k)
  BY <1>0, <1>1, <1>5, MemoryCalls, Zenon DEF Memory_tick, MayTick
<1>6. CASE Memory_resume(k, s)
  <2>1. ASSUME ret = "RUNNING", Return(ret, {}, mem[me]), Keep PROVE TreeInv'
    <3>1. Fits({}, mem[me], hist[me])
      BY <1>2, <1>3, <1>4
    <3> QED
      BY <1>0, <2>1, <3>1, AllHalted, KeepReturns DEF Returned
  <2>2. ASSUME mem[me].idx < Len(Kids(me)), Call(Kids(me)[mem[me].idx + 1], {}, [mem[me] EXCEPT !.idx = @ + 1], top), Keep
        PROVE  TreeInv'
    <3>1. PICK m : m = [mem[me] EXCEPT !.idx = mem[me].idx + 1]
      BY Zenon
    <3>2. m \in Member /\ m.idx = mem[me].idx + 1
      BY <1>2, <3>1, SetIdx
    <3>3. m.idx \in DOMAIN Kids(me)
      BY <1>2, <1>3, <2>2, <3>2
    <3>4. {} \in SUBSET KidSet(me) /\ Fits({}, m, hist[me]) /\ History({}, hist[me])
      BY <1>0, <1>2, <1>4, <2>2, <3>2, <3>3, KeepIs
    <3>5. Call(Kids(me)[m.idx], {}, m, top)
      BY <2>2, <3>1, <3>2
    <3> QED
      BY <1>0, <1>1, <1>2, <3>3, <3>4, <3>5, CallStep, Zenon
  <2>3. ASSUME ret \in Completed, NEW m \in Member, m.idx \in DOMAIN Kids(me), Return(ret, KidSet(me), m), History(KidSet(me), NoHistory)
        PROVE  TreeInv'
    <3>1. Fits(KidSet(me), m, NoHistory)
      BY <1>4, <2>3, NoHistoryFits, Zenon
    <3> QED
      BY <1>0, <2>3, <3>1, AllHalted, ReturnStep, Zenon DEF Returned, Completed
  <2>4. [mem[me] EXCEPT !.idx = 1] \in Member /\ [mem[me] EXCEPT !.idx = 1].idx \in DOMAIN Kids(me)
    <3>1. PICK m, l \in Member : m = [mem[me] EXCEPT !.idx = 1] /\ l = mem[me]
      BY <1>2, SetIdx, Zenon
    <3>2. m = [l EXCEPT !.idx = 1]
      BY <3>1
    <3>3. m.idx = 1
      BY <3>2 DEF Member
    <3> QED
      BY <1>2, <3>1, <3>3
  <2> QED
    <3> DEFINE m1 == [mem[me] EXCEPT !.idx = 1]
               kept == IF k = "SequenceWithMemory" THEN mem[me] ELSE m1
    <3>1. m1 \in Member /\ m1.idx \in DOMAIN Kids(me) /\ kept \in Member /\ kept.idx \in DOMAIN Kids(me)
      BY <1>2, <1>3, <2>4
    <3>2. \/ ret = "RUNNING" /\ Return(ret, {}, mem[me]) /\ Keep
          \/ mem[me].idx < Len(Kids(me)) /\ Call(Kids(me)[mem[me].idx + 1], {}, [mem[me] EXCEPT !.idx = @ + 1], top) /\ Keep
          \/ ret = s /\ Return(ret, KidSet(me), m1) /\ History(KidSet(me), NoHistory)
          \/ ret \in Completed /\ Return(ret, KidSet(me), kept) /\ History(KidSet(me), NoHistory)
      BY <1>6 DEF Memory_resume
    <3> HIDE DEF m1, kept
    <3> QED
      BY <2>1, <2>2, <2>3, <3>1, <3>2
<1> QED
  BY <1>5, <1>6

\* ReactiveSequence and ReactiveFallback.
LEMMA ReactiveKeeps ==
  ASSUME TreeInv, NEW k \in {"ReactiveSequence", "ReactiveFallback"}, NEW s \in Completed,
         Reactive_tick(k) \/ Reactive_resume(k, s)
  PROVE  TreeInv'
<1>0. stack # <<>> /\ Kind(me) = k
  BY DEF Reactive_tick, Reactive_resume, MayTick, MayResume
<1>1. /\ Kind(me) \in Counting /\ Kind(me) \in Controls \cup Decorators /\ Kind(me) \notin Remembering \cup {"SingleTrigger"}
      /\ Kind(me) \notin {"RoundRobin", "SingleTrigger"} /\ Kind(me) \in (Controls \cup Decorators) \ Remembering
  BY <1>0, SMTT(30) DEF Remembering, Controls, Counting
<1>2. /\ mem[me] \in Member /\ hist[me] \in Past /\ top \in Frame /\ top.node = me /\ top.child \in Nat
      /\ Len(Kids(me)) \in Nat /\ DOMAIN Kids(me) = 1 .. Len(Kids(me))
  BY <1>0, NowFacts
<1>3. \A S \in SUBSET KidSet(me), m \in Member, h \in Past : Fits(S, m, h)
  BY <1>0, <1>1, NowFits, Zenon
<1>4. CASE Reactive_tick(k)
  BY <1>0, <1>1, <1>2, <1>4, FirstCalls, Zenon DEF Reactive_tick, MayTick
<1>5. CASE Reactive_resume(k, s)
  <2>1. ASSUME NEW S \in SUBSET KidSet(me), ret = "RUNNING", Return(ret, S, mem[me]), History(S, NoHistory) PROVE TreeInv'
    <3>1. Fits(S, mem[me], NoHistory) /\ Leaves(ret, S)
      BY <1>2, <1>3, <2>1, NoHistoryFits DEF Leaves
    <3> QED
      BY <1>0, <2>1, <3>1, ReturnStep, SMTT(30) DEF Returned
  <2>2. ASSUME top.child < Len(Kids(me)), Call(Kids(me)[top.child + 1], {}, mem[me], [top EXCEPT !.child = @ + 1]), Keep
        PROVE  TreeInv'
    <3>1. PICK f : f = [top EXCEPT !.child = top.child + 1]
      BY Zenon
    <3>2. f \in Frame /\ f.node = me /\ f.child = top.child + 1
      BY <1>2, <3>1 DEF Frame
    <3>3. top.child + 1 \in DOMAIN Kids(me)
      BY <1>2, <2>2
    <3>4. {} \in SUBSET KidSet(me) /\ Fits({}, mem[me], hist[me]) /\ History({}, hist[me])
      BY <1>0, <1>2, <1>3, <2>2, KeepIs
    <3>5. Call(Kids(me)[top.child + 1], {}, mem[me], f)
      BY <2>2, <3>1
    <3> QED
      BY <1>0, <1>1, <3>2, <3>3, <3>4, <3>5, CallStep, Zenon
  <2>3. ASSUME ret \in Completed, Return(ret, KidSet(me), mem[me]), History(KidSet(me), NoHistory) PROVE TreeInv'
    <3>1. Fits(KidSet(me), mem[me], NoHistory)
      BY <1>2, <1>3, NoHistoryFits
    <3> QED
      BY <1>0, <2>3, <3>1, AllHalted, ReturnStep, SMTT(30) DEF Returned, Completed
  <2> QED
    BY <1>5, <2>1, <2>2, <2>3 DEF Reactive_resume
<1> QED
  BY <1>4, <1>5

\* Inverter and RetryUntilSuccessful.
LEMMA WrapperKeeps ==
  ASSUME TreeInv, NEW k \in {"Inverter", "RetryUntilSuccessful"}, Wrapper_tick(k) \/ Wrapper_resume(k)
  PROVE  TreeInv'
<1>0. stack # <<>> /\ Kind(me) = k /\ Keep
  BY DEF Wrapper_tick, Wrapper_resume, MayTick, MayResume
<1>1. /\ Kind(me) \in Decorators /\ Kind(me) \notin Remembering \cup {"SingleTrigger"} /\ Kind(me) \in Controls \cup Decorators
      /\ Kind(me) # "SingleTrigger" /\ Kind(me) \in (Controls \cup Decorators) \ Remembering
  BY <1>0, SMTT(30) DEF Remembering, Decorators
<1>2. mem[me] \in Member /\ hist[me] \in Past
  BY <1>0, NowFacts, SMTT(30)
<1>3. CASE Wrapper_tick(k)
  <2>1. ret = "none" /\ Call(Kids(me)[1], {}, mem[me], top)
    BY <1>3 DEF Wrapper_tick, MayTick, Child
  <2> QED
    BY <1>0, <1>1, <1>2, <2>1, FirstCalls
<1>4. CASE Wrapper_resume(k)
  <2>1. PICK s : s = (IF k = "Inverter" THEN Inverted(ret) ELSE ret) /\ Return(s, {}, mem[me]) /\ ret # "none"
    BY <1>4 DEF Wrapper_resume, MayResume
  <2>2. ret \in Returned /\ \A r \in Returned : r = ret \/ ret \in Completed => Leaves(r, {})
    BY <1>0, <1>1, <2>1, ChildReturned
  <2>3. s \in Returned /\ (s = ret \/ ret \in Completed)
    BY <2>1, <2>2 DEF Inverted, Returned, Completed
  <2>4. {} \in SUBSET KidSet(me) /\ Fits({}, mem[me], hist[me])
    BY <1>0, <1>1, NowFits, Zenon
  <2> QED
    BY <1>0, <2>1, <2>2, <2>3, <2>4, KeepReturns
<1> QED
  BY <1>3, <1>4

\* All nodes of BehaviorTree.CPP.
LEMMA LibraryKeeps ==
  ASSUME TreeInv, Library
  PROVE  TreeInv'
<1>1. "SUCCESS" \in Completed /\ "FAILURE" \in Completed
  BY DEF Completed
<1> QED
  BY <1>1, MemoryKeeps, ReactiveKeeps, WrapperKeeps DEF Library

\* The leaves: conditions, actions, services, and those that are skipped.
LEMMA LeavesKeep ==
  ASSUME TreeInv, LeafStep
  PROVE  TreeInv'
<1>0. stack # <<>> /\ ret = "none"
  BY SMTT(30) DEF LeafStep, Skip, Action_tick, ComputePathToPose_tick, FollowPath_tick, BtServiceNode_tick, IsPathValidCondition_tick,
         OneShot_tick, Selector_tick, GoalUpdatedCondition_tick, GloballyUpdatedGoalCondition_tick, PathExpiringTimer_tick, MayTick
<1>1. /\ tree \in DOMAIN Trees /\ me \in Node /\ mem[me] \in Member /\ path \in Paths /\ goal \in Goals /\ Own(me)
      /\ Kind(me) \notin Controls \cup Decorators => KidSet(me) = {}
  BY <1>0, NowFacts
<1>2. ASSUME NEW s \in Result, NEW m \in Member, NEW p \in Paths, Leaf(s, m, p),
             Kind(me) \notin Controls \cup Decorators, Kind(me) = "Service" /\ m.flag => s = "RUNNING"
      PROVE  TreeInv'
  BY <1>0, <1>1, <1>2, LeafReturns DEF Result
<1>3. "RUNNING" \in Result /\ "SUCCESS" \in Result /\ "FAILURE" \in Result /\ Completed \subseteq Result /\ NoPath \in Paths
  BY DEF Result, Completed, NoPath, Paths
<1>4. CASE Skip
  <2>0. /\ stack' = SubSeq(stack, 1, Len(stack) - 1) /\ ret' = "SKIPPED"
        /\ UNCHANGED <<tree, goal, path, status, mem, hist>>
    BY <1>4 DEF Skip
  <2>1. KidSet(me) = {}
    <3>1. Kids(me) = <<>>
      BY <1>1, <1>4, CanSkipAssumption, SMTT(30) DEF Skip, Kids, Node
    <3> QED
      BY <3>1 DEF KidSet
  <2>2. Others({}, {})
    <3>1. HaltedFrom({}) = {}
      BY DEF HaltedFrom
    <3> QED
      BY <2>0, <3>1 DEF Others
  <2>3. PICK n : n = me
    OBVIOUS
  <2>4. /\ \A k : Kind(k)' = Kind(k) /\ Kids(k)' = Kids(k) /\ Child(k)' = Child(k) /\ KidSet(k)' = KidSet(k)
        /\ \A k, j, i, l : Tried(k, j, i, l)' <=> Tried(k, j, i, l)
    BY <2>0, SameTree
  <2>5. Own(n)'
    BY <1>1, <2>0, <2>3, <2>4, Zenon DEF Own, Counted
  <2>6. Running(n)'
    BY <2>1, <2>3, <2>4, Zenon DEF Running
  <2>7. /\ {} \in SUBSET KidSet(me) /\ \A d \in {} : status[d] # "RUNNING"
        /\ goal' \in Goals /\ path' \in Paths
        /\ status' \in [Node -> Status] /\ mem' \in [Node -> Member] /\ hist' \in [Node -> Past]
    BY <2>0 DEF TreeInv, TypeOK
  <2> QED
    BY <1>0, <2>0, <2>2, <2>3, <2>5, <2>6, <2>7, PopStep DEF Returned
<1>5. CASE Action_tick \/ OneShot_tick \/ Selector_tick \/ IsPathValidCondition_tick
  <2>1. Kind(me) \notin Controls \cup Decorators /\ Kind(me) # "Service" /\ \E s \in Result : Leaf(s, mem[me], path)
    BY <1>3, <1>5 DEF Action_tick, OneShot_tick, Selector_tick, IsPathValidCondition_tick, MayTick, Controls, Decorators
  <2> QED
    BY <1>1, <1>2, <2>1
<1>6. CASE ComputePathToPose_tick
  <2> DEFINE m == IF status[me] = "RUNNING" THEN mem[me] ELSE [mem[me] EXCEPT !.goal = goal]
  <2>1. Kind(me) \notin Controls \cup Decorators /\ Kind(me) # "Service"
    BY <1>6 DEF ComputePathToPose_tick, MayTick, Controls, Decorators
  <2>2. m \in Member /\ m.goal \in Goals \cup {0}
    <3>1. [mem[me] EXCEPT !.goal = goal] \in Member
      BY <1>1, SetGoal, Zenon
    <3>2. m \in Member
      BY <1>1, <3>1
    <3> QED
      BY <3>2, Fields, Zenon
  <2>3. \A l \in Lengths : [goal |-> m.goal, len |-> l] \in Paths
    BY <2>2 DEF Paths
  <2>4. \/ Leaf("RUNNING", m, path)
        \/ \E l \in Lengths : Leaf("SUCCESS", m, [goal |-> m.goal, len |-> l])
        \/ \E p \in {path, NoPath} : Leaf("FAILURE", m, p)
    BY <1>6 DEF ComputePathToPose_tick
  <2> HIDE DEF m
  <2> QED
    BY <1>1, <1>2, <1>3, <2>1, <2>2, <2>3, <2>4, Zenon
<1>7. CASE FollowPath_tick
  <2> DEFINE m == [mem[me] EXCEPT !.path = path]
  <2>1. Kind(me) \notin Controls \cup Decorators /\ Kind(me) # "Service"
    BY <1>7 DEF FollowPath_tick, MayTick, Controls, Decorators
  <2>2. m \in Member
    BY <1>1, SetPath, Zenon
  <2>3. Leaf("RUNNING", m, path) \/ \E s \in Completed : Leaf(s, m, path) \/ Leaf(s, mem[me], path)
    BY <1>7 DEF FollowPath_tick
  <2> HIDE DEF m
  <2> QED
    BY <1>1, <1>2, <1>3, <2>1, <2>2, <2>3
<1>8. CASE BtServiceNode_tick
  <2>1. Kind(me) \notin Controls \cup Decorators
    BY <1>8 DEF BtServiceNode_tick, MayTick, Controls, Decorators
  <2>2. PICK s \in Result : Leaf(s, [mem[me] EXCEPT !.flag = s = "RUNNING"], path)
    BY <1>8 DEF BtServiceNode_tick
  <2>3. PICK b \in BOOLEAN : b = (s = "RUNNING")
    BY Zenon
  <2>4. PICK m : m = [mem[me] EXCEPT !.flag = b]
    BY Zenon
  <2>5. m \in Member /\ m.flag = b
    BY <1>1, <2>4, SetFlag
  <2>6. Leaf(s, m, path) /\ (m.flag => s = "RUNNING")
    BY <2>2, <2>3, <2>4, <2>5, Zenon
  <2> QED
    BY <1>1, <1>2, <2>1, <2>5, <2>6, Zenon
<1>9. CASE GoalUpdatedCondition_tick \/ GloballyUpdatedGoalCondition_tick \/ PathExpiringTimer_tick
  <2>1. Kind(me) \notin Controls \cup Decorators /\ Kind(me) # "Service"
    BY <1>9 DEF GoalUpdatedCondition_tick, GloballyUpdatedGoalCondition_tick, PathExpiringTimer_tick, MayTick, Controls, Decorators
  <2>2. /\ [mem[me] EXCEPT !.goal = goal] \in Member /\ [mem[me] EXCEPT !.flag = FALSE, !.goal = goal] \in Member
        /\ [mem[me] EXCEPT !.flag = FALSE, !.path = path] \in Member
    BY <1>1, SetGoal, SetPath, Zenon
  <2>3. \E s \in Result : \/ Leaf(s, [mem[me] EXCEPT !.goal = goal], path)
                          \/ Leaf(s, [mem[me] EXCEPT !.flag = FALSE, !.goal = goal], path)
                          \/ Leaf(s, [mem[me] EXCEPT !.flag = FALSE, !.path = path], path)
    BY <1>3, <1>9, SMTT(30) DEF GoalUpdatedCondition_tick, GloballyUpdatedGoalCondition_tick, PathExpiringTimer_tick
  <2> QED
    BY <1>1, <1>2, <2>1, <2>2, <2>3
<1> QED
  BY <1>4, <1>5, <1>6, <1>7, <1>8, <1>9 DEF LeafStep

\* What happens between two ticks: the next tick, a new goal, haltTree().
LEMMA EngineKeeps ==
  ASSUME TreeInv, tickOnce \/ onLoop \/ haltTree
  PROVE  TreeInv'
<1>0. tree \in DOMAIN Trees /\ tree' = tree /\ stack = <<>> /\ TypeOK /\ Owns /\ Below
  BY DEF TreeInv, TypeOK, tickOnce, onLoop, haltTree
<1>1. /\ Node' = Node /\ Root' = Root /\ \A n : Kind(n)' = Kind(n) /\ Kids(n)' = Kids(n) /\ KidSet(n)' = KidSet(n)
      /\ \A n : Above(n)' = Above(n) /\ Child(n)' = Child(n)
      /\ \A n, i, h, k : Tried(n, i, h, k)' <=> Tried(n, i, h, k)
  BY <1>0, SameTree, SMTT(30)
<1>2. Frame' = Frame /\ Busy = {} /\ DOMAIN stack = {}
  BY <1>0, <1>1 DEF Frame, Busy
<1>3. ASSUME UNCHANGED <<status, mem, hist>> PROVE Owns' /\ \A p \in Node : Running(p)'
  <2>1. \A n \in Node : Own(n)'
    BY <1>0, <1>1, <1>3, Zenon DEF Owns, Own, Counted
  <2>2. \A p \in Node : Running(p)'
    BY <1>0, <1>1, <1>2, <1>3, SMTT(30) DEF Below, Running
  <2> QED
    BY <1>1, <2>1, <2>2 DEF Owns
<1>4. CASE tickOnce
  <2>1. PICK f : f = [node |-> Root, child |-> 1, skipped |-> 0]
    BY Zenon
  <2>2. stack' = <<f>> /\ ret' = "none" /\ UNCHANGED <<goal, path, status, mem, hist>>
    BY <1>4, <2>1, SMTT(30) DEF tickOnce
  <2>3. f \in Frame /\ f.node = Root /\ f.child = 1 /\ f.skipped = 0 /\ Root \in Node /\ Above(Root) = {Root}
    BY <1>0, <2>1, TreeFacts DEF Frame
  <2>4. stack' \in Seq(Frame) /\ Len(stack') = 1 /\ DOMAIN stack' = {1} /\ stack'[1] = f /\ top' = f
    BY <2>2, <2>3, SMTT(30) DEF top
  <2>5. TypeOK'
    BY <1>0, <1>1, <1>2, <2>2, <2>4 DEF TypeOK
  <2>6. Frames'
    <3>1. {stack'[j].node : j \in 1 .. 1} = {Root}
      BY <2>3, <2>4
    <3>2. Above(stack[1].node)' = {Root}
      BY <1>1, <2>3, <2>4, Zenon
    <3>3. \A i \in DOMAIN stack' : i = 1
      BY <2>4
    <3> QED
      BY <1>1, <2>3, <2>4, <3>1, <3>2, <3>3, Zenon DEF Frames
  <2>7. ~\E i : Entered(i)'
    BY <2>2, <2>4 DEF Entered
  <2>8. InCalls' /\ Answered'
    BY <2>2, <2>7 DEF InCalls, Answered
  <2> QED
    BY <1>1, <1>3, <2>2, <2>5, <2>6, <2>8 DEF TreeInv, Below
<1>5. ASSUME stack' = stack PROVE Frames' /\ InCalls' /\ Answered'
  <2>1. stack' = <<>> /\ DOMAIN stack' = {}
    BY <1>0, <1>2, <1>5
  <2> QED
    BY <2>1, Zenon DEF Frames, InCalls, Answered
<1>6. CASE onLoop
  <2>1. UNCHANGED <<path, stack, ret, status, mem, hist>> /\ goal' \in Goals
    BY <1>6, SMTT(30) DEF onLoop
  <2>2. TypeOK'
    BY <1>0, <1>1, <1>2, <2>1, SMTT(30) DEF TypeOK
  <2> QED
    BY <1>1, <1>3, <1>5, <2>1, <2>2 DEF TreeInv, Below
<1>7. CASE haltTree
  <2>1. /\ ret' = "none" /\ status' = [n \in Node |-> "IDLE"] /\ mem' = [n \in Node |-> Halted(n)] /\ path' = NoPath
        /\ hist' = [n \in Node |-> NoHistory] /\ goal' \in Goals /\ stack' = stack
    BY <1>7, SMTT(30) DEF haltTree
  <2>2. TypeOK'
    <3>1. status' \in [Node -> Status] /\ hist' \in [Node -> Past] /\ path' \in Paths
      BY <2>1, NoHistoryFits, SMTT(30) DEF Status, NoPath, Paths
    <3>2. mem' \in [Node -> Member]
      BY <1>0, <2>1, HaltedFacts
    <3> QED
      BY <1>0, <1>1, <1>2, <2>1, <3>1, <3>2, SMTT(30) DEF TypeOK
  <2>3. ASSUME NEW n \in Node PROVE Own(n)' /\ Running(n)'
    <3>0. /\ Kind(n) = "RecoveryNode" => Len(Kids(n)) = 2
          /\ Kind(n) \in Controls => Len(Kids(n)) >= 1
          /\ Kind(n) \in Decorators => Len(Kids(n)) = 1
          /\ Len(Kids(n)) \in Nat /\ DOMAIN Kids(n) = 1 .. Len(Kids(n)) /\ \A c \in KidSet(n) : c \in Node
      BY <1>0, KindFacts, TreeFacts
    <3>1. mem'[n] = Halted(n) /\ hist'[n] = NoHistory
      BY <2>1
    <3>2. \A c \in KidSet(n) : status'[c] # "RUNNING"
      BY <2>1, <3>0, SMTT(30)
    <3>3. Kind(n) \in Remembering => mem'[n].idx = 1 /\ 1 \in DOMAIN Kids(n)
      BY <1>0, <3>0, <3>1, HaltedFacts, SMTT(30) DEF Remembering, Controls
    <3>4. Kind(n) = "RecoveryNode" => Counted(n)'
      BY <1>0, <3>1, <3>3, HaltedFacts, NoHistoryFits, RetriesAssumption, SMTT(30) DEF Counted, Remembering
    <3>5. Kind(n) = "RoundRobin" => Tried(n, mem'[n].idx, hist'[n], mem'[n].count) /\ hist'[n].tried \subseteq DOMAIN Kids(n)
      <4> SUFFICES ASSUME Kind(n) = "RoundRobin" PROVE Tried(n, 1, hist'[n], 0) /\ mem'[n].idx = 1 /\ mem'[n].count = 0 /\ hist'[n].tried = {}
        BY SMTT(30) DEF Tried
      <4>1. Tried(n, 1, hist'[n], 0)
        BY <3>0 DEF Tried, Ago
      <4> QED
        BY <1>0, <3>1, <4>1, HaltedFacts, NoHistoryFits, Zenon DEF Remembering
    <3>6. Kind(n) = "SingleTrigger" => status'[Child(n)] # "RUNNING"
      BY <3>0, <3>2 DEF Decorators, Child, KidSet
    <3>7. Kind(n) = "Service" => ~mem'[n].flag
      BY <1>0, <3>1, HaltedFacts
    <3>8. Own(n)'
      BY <1>1, <3>3, <3>4, <3>5, <3>6, <3>7, Zenon DEF Own
    <3>9. Running(n)'
      BY <1>1, <3>2, Zenon DEF Running
    <3> QED
      BY <3>8, <3>9, SMTT(30)
  <2> QED
    BY <1>1, <1>5, <2>1, <2>2, <2>3 DEF TreeInv, Owns, Below
<1> QED
  BY <1>4, <1>6, <1>7

-----------------------------------------------------------------------------
(* The theorems.                                                           *)

\* A tree that was just loaded.
LEMMA Starts ==
  ASSUME Init
  PROVE  TreeInv
<1>0. tree \in DOMAIN Trees /\ stack = <<>> /\ ret = "none" /\ path = NoPath
  BY DEF Init
<1>1. \A n \in Node : /\ Fresh(n) \in Member /\ Fresh(n).idx = 1 /\ Fresh(n).count = 0
                      /\ Kind(n) = "Service" => ~Fresh(n).flag
  <2> SUFFICES ASSUME NEW n \in Node
               PROVE  /\ Fresh(n) \in Member /\ Fresh(n).idx = 1 /\ Fresh(n).count = 0
                      /\ Kind(n) = "Service" => ~Fresh(n).flag
    OBVIOUS
  <2>1. PICK b \in BOOLEAN : b = (Kind(n) \in {"GlobalUpdatedGoal", "PathExpiringTimer"})
    <3>1. (Kind(n) \in {"GlobalUpdatedGoal", "PathExpiringTimer"}) \in BOOLEAN
      OBVIOUS
    <3> QED
      BY <3>1, Zenon
  <2>2. Fresh(n) = [idx |-> 1, count |-> 0, flag |-> b, goal |-> 0, path |-> NoPath]
    BY <2>1 DEF Fresh
  <2>3. NoPath \in Paths
    BY DEF NoPath, Paths
  <2>4. Kind(n) = "Service" => ~b
    BY <2>1, Zenon
  <2> QED
    BY <2>2, <2>3, <2>4 DEF Member
<1>2. TypeOK
  <2>1. path \in Paths /\ stack \in Seq(Frame) /\ ret \in Returned \cup {"none"}
    BY <1>0, SMTT(30) DEF NoPath, Paths
  <2>2. status \in [Node -> Status] /\ mem \in [Node -> Member] /\ hist \in [Node -> Past]
    BY <1>1, NoHistoryFits DEF Init, Status
  <2> QED
    BY <2>1, <2>2 DEF TypeOK, Init
<1>3. Frames /\ InCalls /\ Answered
  BY <1>0 DEF Frames, InCalls, Answered
<1>4. ASSUME NEW n \in Node PROVE Own(n) /\ Running(n)
  <2>0. /\ Kind(n) \in Controls => Len(Kids(n)) >= 1
        /\ Kind(n) \in Decorators => Len(Kids(n)) = 1
        /\ Len(Kids(n)) \in Nat /\ DOMAIN Kids(n) = 1 .. Len(Kids(n)) /\ \A c \in KidSet(n) : c \in Node
    BY <1>0, KindFacts, TreeFacts
  <2>1. mem[n] = Fresh(n) /\ hist[n] = NoHistory /\ status[n] = "IDLE"
    BY DEF Init
  <2>2. \A c \in KidSet(n) : status[c] # "RUNNING"
    BY <2>0 DEF Init
  <2>3. Kind(n) \in Remembering => 1 \in DOMAIN Kids(n)
    BY <2>0, SMTT(30) DEF Remembering, Controls
  <2>4. Kind(n) = "RecoveryNode" => Counted(n)
    BY <1>1, <2>1, NoHistoryFits, RetriesAssumption, SMTT(30) DEF Counted
  <2>5. Kind(n) = "RoundRobin" => Tried(n, mem[n].idx, hist[n], mem[n].count) /\ hist[n].tried \subseteq DOMAIN Kids(n)
    <3>1. Tried(n, 1, hist[n], 0)
      BY <2>0 DEF Tried, Ago
    <3> QED
      BY <1>1, <2>1, <3>1, NoHistoryFits, SMTT(30)
  <2>6. Kind(n) = "SingleTrigger" => status[Child(n)] # "RUNNING"
    BY <2>0, <2>2 DEF Decorators, Child, KidSet
  <2> QED
    BY <1>1, <2>1, <2>2, <2>3, <2>4, <2>5, <2>6, Zenon DEF Own, Running
<1> QED
  BY <1>2, <1>3, <1>4 DEF TreeInv, Owns, Below

\* Every step keeps the invariant.
LEMMA Steps ==
  ASSUME TreeInv, [Next]_vars
  PROVE  TreeInv'
<1>1. CASE Control
  BY <1>1, RecoveryNodeKeeps, PipelineSequenceKeeps, RoundRobinKeeps, LibraryKeeps DEF Control
<1>2. CASE Decorator
  BY <1>2, ControllersKeep, SingleTriggerKeeps, PathLongerKeeps DEF Decorator
<1>3. CASE LeafStep
  BY <1>3, LeavesKeep
<1>4. CASE tickOnce \/ onLoop \/ haltTree
  BY <1>4, EngineKeeps
<1>5. CASE UNCHANGED vars
  <2>1. tree' = tree /\ UNCHANGED <<goal, path, stack, ret, status, mem, hist>>
    BY <1>5 DEF vars
  <2>2. /\ Node' = Node /\ Root' = Root /\ \A n : Kind(n)' = Kind(n) /\ Kids(n)' = Kids(n) /\ KidSet(n)' = KidSet(n)
        /\ \A n : Above(n)' = Above(n) /\ Child(n)' = Child(n)
        /\ \A n, i, h, k : Tried(n, i, h, k)' <=> Tried(n, i, h, k)
    BY <2>1, SameTree
  <2>3. TypeOK'
    <3>1. Frame' = Frame
      BY <2>2 DEF Frame
    <3> QED
      BY <2>1, <2>2, <3>1 DEF TreeInv, TypeOK
  <2>4. Frames'
    <3>1. \A i : Current(stack[i])' = Current(stack[i])
      BY <2>1, <2>2, Zenon DEF Current, At
    <3> QED
      BY <2>1, <2>2, <3>1, Zenon DEF TreeInv, Frames, top
  <2>5. InCalls'
    BY <2>1, <2>2, Zenon DEF TreeInv, InCalls, Calls, Entered, At
  <2>6. Answered'
    BY <2>1, <2>2, Zenon DEF TreeInv, Answered, Current, At, top
  <2>7. \A n \in Node : Own(n)' /\ (Running(n) => Running(n)')
    BY <2>1, <2>2, Zenon DEF TreeInv, Owns, Own, Counted, Running
  <2>8. Busy' = Busy
    BY <2>1 DEF Busy, Entered
  <2>9. Owns' /\ Below'
    BY <2>2, <2>7, <2>8 DEF TreeInv, Owns, Below
  <2> QED
    BY <2>3, <2>4, <2>5, <2>6, <2>9 DEF TreeInv
<1> QED
  BY <1>1, <1>2, <1>3, <1>4, <1>5 DEF Next, Step

\* In every tree, whatever its leaves return: the stack is the way from the root, every
\* node on it has done what it does before it calls a child, and every node's members and
\* the statuses below it agree.
THEOREM TreeInvariant == Spec => []TreeInv
<1>1. Init => TreeInv
  BY Starts
<1>2. TreeInv /\ [Next]_vars => TreeInv'
  BY Steps
<1> QED
  BY <1>1, <1>2, PTL DEF Spec

\* RunningBelowRunning for every well-formed tree: what runs between two ticks is below
\* what runs, so that halting from the root reaches it.
THEOREM RunningTheorem == Spec => []RunningBelowRunning
<1>1. TreeInv => RunningBelowRunning
  <2> SUFFICES ASSUME TreeInv, stack = <<>>, NEW p \in Node, NEW c \in Node
               PROVE  /\ c \in KidSet(p) /\ status[c] = "RUNNING" => status[p] = "RUNNING" \/ Kind(p) \in LetsGo
                      /\ Kind(c) = "Service" /\ mem[c].flag => status[c] = "RUNNING"
    BY DEF RunningBelowRunning, BetweenTicks, LetsGo
  <2>1. Busy = {}
    BY SMTT(30) DEF Busy
  <2> QED
    BY <2>1, Zenon DEF TreeInv, Below, Running, Owns, Own
<1> QED
  BY <1>1, TreeInvariant, PTL

\* GivesUpAfterRetries for every tree and every number of retries.
THEOREM RetriesTheorem == Spec => []GivesUpAfterRetries
<1>1. TreeInv => GivesUpAfterRetries
  <2> SUFFICES ASSUME TreeInv, NEW n \in Node, Kind(n) = "RecoveryNode"
               PROVE  /\ hist[n].recovered <= Retries
                      /\ mem[n].count >= Retries => hist[n].recovered = Retries \/ hist[n].skipped
    BY DEF GivesUpAfterRetries
  <2>1. Counted(n) /\ mem[n] \in Member /\ hist[n] \in Past
    BY Zenon DEF TreeInv, Owns, Own, TypeOK
  <2>2. mem[n].count \in Nat /\ hist[n].recovered \in Nat /\ Retries \in Nat
    BY <2>1, Fields, NoHistoryFits, RetriesAssumption, Zenon
  <2> QED
    BY <2>1, <2>2, SMTT(30) DEF Counted
<1> QED
  BY <1>1, TreeInvariant, PTL

\* RoundRobinTriesAll for every tree: a RoundRobin that fails or is skipped has tried all
\* its children.
THEOREM TriesAllTheorem == Spec => RoundRobinTriesAll
<1> DEFINE Fails == /\ stack # <<>> /\ Kind(me) = "RoundRobin" /\ Len(stack') < Len(stack)
                    /\ ret' \in {"FAILURE", "SKIPPED"}
           All == hist[me].tried \cup {mem[me].idx} = DOMAIN Kids(me)
<1>1. ASSUME TreeInv, [Next]_vars, Fails PROVE All
  <2>0. stack # <<>> /\ Kind(me) = "RoundRobin" /\ Len(stack') < Len(stack) /\ ret' \in {"FAILURE", "SKIPPED"}
    BY <1>1
  <2>1. /\ me \in Node /\ mem[me] \in Member /\ hist[me] \in Past /\ Own(me) /\ (ret # "none" => Calls(top)) /\ top.node = me
        /\ top.skipped \in Nat /\ tree \in DOMAIN Trees
        /\ Len(Kids(me)) \in Nat /\ Len(Kids(me)) >= 1 /\ DOMAIN Kids(me) = 1 .. Len(Kids(me))
    BY <1>1, <2>0, NowFacts, Zenon DEF Controls
  \* No other action returns from a RoundRobin.
  <2>2. RoundRobinNode_tick \/ RoundRobinNode_resume
    <3>1. ~Skip
      <4> SUFFICES ASSUME Skip PROVE FALSE
        OBVIOUS
      <4>1. Kids(me) = <<>>
        BY <2>1, CanSkipAssumption DEF Skip, Kids, Node
      <4> QED
        BY <2>1, <4>1
    <3>2. ~UNCHANGED vars
      BY <2>0, TopFacts, <1>1 DEF vars, TreeInv
    <3>3. ~(tickOnce \/ onLoop \/ haltTree)
      BY <2>0 DEF tickOnce, onLoop, haltTree
    <3>4. ~LeafStep
      BY <2>0, <3>1 DEF LeafStep, Action_tick, ComputePathToPose_tick, FollowPath_tick, BtServiceNode_tick, IsPathValidCondition_tick,
         OneShot_tick, Selector_tick, GoalUpdatedCondition_tick, GloballyUpdatedGoalCondition_tick, PathExpiringTimer_tick, MayTick
    <3>5. ~Decorator
      BY <2>0 DEF Decorator, RateController_tick, SpeedController_tick, GoalUpdatedController_tick, Controller_resume,
         DistanceController_tick, DistanceController_resume, SingleTrigger_tick, SingleTrigger_resume,
         PathLongerOnApproach_tick, PathLongerOnApproach_resume, MayTick, MayResume
    <3>6. ~Library
      BY <2>0 DEF Library, Memory_tick, Memory_resume, Reactive_tick, Reactive_resume, Wrapper_tick, Wrapper_resume, MayTick, MayResume
    <3>7. ~(RecoveryNode_tick \/ RecoveryNode_first \/ RecoveryNode_second \/ PipelineSequence_tick \/ PipelineSequence_resume)
      BY <2>0 DEF RecoveryNode_tick, RecoveryNode_first, RecoveryNode_second, PipelineSequence_tick, PipelineSequence_resume, MayTick, MayResume
    <3> QED
      BY <1>1, <3>2, <3>3, <3>4, <3>5, <3>6, <3>7 DEF Next, Step, Control
  <2>3. \A c, S, m, f : ~Call(c, S, m, f)
    <3> SUFFICES ASSUME NEW c, NEW S, NEW m, NEW f, Call(c, S, m, f) PROVE FALSE
      OBVIOUS
    <3>1. ret' = "none"
      BY DEF Call
    <3> QED
      BY <2>0, <3>1
  <2>4. \A s, S, m : Return(s, S, m) => ret' = s
    BY DEF Return
  <2> DEFINE failed == RoundRobinNode_failed([mem[me] EXCEPT !.idx = RoundRobinNode_next(@)].count)
             skipped == top.skipped + (IF ret = "SKIPPED" THEN 1 ELSE 0)
  <2>5. ret \in {"FAILURE", "SKIPPED"} /\ failed + skipped >= Len(Kids(me))
    BY <2>0, <2>2, <2>3, <2>4 DEF RoundRobinNode_tick, RoundRobinNode_resume
  <2>6. /\ mem[me].idx \in DOMAIN Kids(me) /\ mem[me].count \in Nat /\ hist[me].tried \subseteq DOMAIN Kids(me)
        /\ Tried(me, mem[me].idx, hist[me], mem[me].count + top.skipped)
    BY <2>0, <2>1, <2>5, Fields DEF Own, Calls, Remembering
  <2>7. failed = mem[me].count + (IF ret = "FAILURE" THEN 1 ELSE 0)
    BY <2>1, Zenon DEF RoundRobinNode_failed, Member
  <2> HIDE DEF failed
  <2>8. mem[me].count + top.skipped \in Nat /\ mem[me].count + top.skipped + 1 >= Len(Kids(me))
    BY <2>1, <2>5, <2>6, <2>7, SMTT(30)
  <2>9. PICK g : g.tried = hist[me].tried \cup {mem[me].idx}
    <3>1. [tried |-> hist[me].tried \cup {mem[me].idx}].tried = hist[me].tried \cup {mem[me].idx}
      BY Zenon
    <3> QED
      BY <3>1, Zenon
  <2>10. DOMAIN Kids(me) \subseteq g.tried
    BY <1>1, <2>0, <2>6, <2>8, <2>9, NextTried, Zenon
  <2> QED
    BY <2>6, <2>9, <2>10
<1>2. TreeInv /\ [Next]_vars => [Fails => All]_vars
  BY <1>1
<1> QED
  BY <1>2, TreeInvariant, PTL DEF Spec, RoundRobinTriesAll

=============================================================================
