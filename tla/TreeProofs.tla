------------------------------ MODULE TreeProofs ------------------------------
(*****************************************************************************)
(* The invariant of the behavior tree, and what a call and a return do to it *)
(* whichever node makes them.                                                *)
(*****************************************************************************)
EXTENDS BehaviorTree, TLAPS

-----------------------------------------------------------------------------
(* Sequences.                                                              *)

\* What a sequence holds.
LEMMA ElementOfSeq ==
  ASSUME NEW S, NEW s \in Seq(S), NEW i \in 1 .. Len(s)
  PROVE  s[i] \in S
OBVIOUS

\* A call pushed on the stack.
LEMMA AppendProperties ==
  ASSUME NEW S, NEW s \in Seq(S), NEW e \in S
  PROVE  /\ Append(s, e) \in Seq(S) /\ Len(Append(s, e)) = Len(s) + 1
         /\ \A i \in 1 .. Len(s) : Append(s, e)[i] = s[i]
         /\ Append(s, e)[Len(s) + 1] = e
OBVIOUS

\* A call that goes on.
LEMMA ExceptSeq ==
  ASSUME NEW S, NEW s \in Seq(S), NEW i \in 1 .. Len(s), NEW e \in S
  PROVE  /\ [s EXCEPT ![i] = e] \in Seq(S) /\ Len([s EXCEPT ![i] = e]) = Len(s)
         /\ \A j \in 1 .. Len(s) : [s EXCEPT ![i] = e][j] = IF j = i THEN e ELSE s[j]
OBVIOUS

-----------------------------------------------------------------------------
(* Trees.                                                                  *)

\* A node has one parent, and is not above it.
LEMMA TreeFacts ==
  ASSUME tree \in DOMAIN Trees
  PROVE  /\ Root \in Node /\ Above(Root) = {Root}
         /\ \A n \in Node : Kids(n) \in Seq(Node) /\ KidSet(n) \subseteq Node /\ n \in Above(n) /\ Above(n) \subseteq Node
         /\ \A n \in Node : \A a \in Above(n) : n \in Above(a) => a = n
         /\ \A n \in Node : \A c \in KidSet(n) : c # n /\ Above(c) = Above(n) \cup {c} /\ c \notin Above(n)
         /\ \A n, p \in Node : \A c \in KidSet(n) : c \in KidSet(p) => p = n
         /\ \A n \in Node : \A i, j \in DOMAIN Kids(n) : Kids(n)[i] = Kids(n)[j] => i = j
<1> DEFINE t == Trees[tree]
           N == DOMAIN t.nodes
           kids(n) == t.nodes[n].kids
<1>1. WellFormed(t)
  BY TreesAssumption
<1>2. Node = N /\ Root = t.root /\ \A n : Kids(n) = kids(n) /\ Above(n) = t.above[n]
  BY DEF Node, Root, Kids, Above
<1>3. \A n : KidSet(n) = {kids(n)[i] : i \in DOMAIN kids(n)}
  BY <1>2 DEF KidSet
<1>4. /\ t.root \in N /\ t.above \in [N -> SUBSET N] /\ t.above[t.root] = {t.root}
      /\ \A n \in N :
           /\ kids(n) \in Seq(N) /\ n \in t.above[n]
           /\ \A a \in t.above[n] : n \in t.above[a] => a = n
           /\ \A i \in DOMAIN kids(n) : kids(n)[i] # n /\ t.above[kids(n)[i]] = t.above[n] \cup {kids(n)[i]}
           /\ \A p \in N : \A i \in DOMAIN kids(n), j \in DOMAIN kids(p) :
                kids(n)[i] = kids(p)[j] => p = n /\ i = j
  BY <1>1 DEF WellFormed
<1> HIDE DEF t, N, kids
<1>5. \A n \in N : \A i \in DOMAIN kids(n) : kids(n)[i] \in N
  BY <1>4, ElementOfSeq
<1>6. \A n \in N : \A c \in KidSet(n) : c \in N /\ c # n /\ t.above[c] = t.above[n] \cup {c}
  BY <1>3, <1>4, <1>5
<1>7. ASSUME NEW n \in N, NEW c \in KidSet(n) PROVE c \notin t.above[n]
  <2>1. n \in t.above[c]
    BY <1>4, <1>6
  <2> QED
    BY <1>4, <1>6, <2>1
<1>8. \A n, p \in N : \A c \in KidSet(n) : c \in KidSet(p) => p = n
  BY <1>3, <1>4
<1>9. \A n \in N : \A i, j \in DOMAIN kids(n) : kids(n)[i] = kids(n)[j] => i = j
  BY <1>4
<1> QED
  BY <1>2, <1>4, <1>6, <1>7, <1>8, <1>9

\* The number of its children depends on the kind of a node.
LEMMA KindFacts ==
  ASSUME tree \in DOMAIN Trees, NEW n \in Node
  PROVE  /\ Kind(n) = "RecoveryNode" => Len(Kids(n)) = 2
         /\ Kind(n) \in Controls => Len(Kids(n)) >= 1
         /\ Kind(n) \in Decorators => Len(Kids(n)) = 1
         /\ Kind(n) \notin Controls \cup Decorators => KidSet(n) = {} /\ Kids(n) = <<>>
         /\ Len(Kids(n)) \in Nat /\ DOMAIN Kids(n) = 1 .. Len(Kids(n))
<1>1. WellFormed(Trees[tree])
  BY TreesAssumption
<1>2. /\ Kind(n) = "RecoveryNode" => Len(Kids(n)) = 2
      /\ Kind(n) \in Controls => Kids(n) # <<>>
      /\ Kind(n) \in Decorators => Len(Kids(n)) = 1
      /\ Kind(n) \notin Controls \cup Decorators => Kids(n) = <<>>
  BY <1>1 DEF WellFormed, Kind, Kids, Node
<1>3. Kids(n) \in Seq(Node)
  BY TreeFacts
<1>4. Len(Kids(n)) \in Nat /\ DOMAIN Kids(n) = 1 .. Len(Kids(n))
  BY <1>3
<1>5. Kids(n) # <<>> => Len(Kids(n)) >= 1
  BY <1>3
<1>6. Kids(n) = <<>> => KidSet(n) = {}
  BY DEF KidSet
<1> QED
  BY <1>2, <1>4, <1>5, <1>6

\* What is halted runs, is below S, and halting goes on to whatever runs below it.
LEMMA HaltFacts ==
  ASSUME tree \in DOMAIN Trees, NEW S \in SUBSET Node
  PROVE  /\ HaltedFrom(S) \subseteq Node
         /\ \A n \in HaltedFrom(S) : status[n] = "RUNNING" /\ S \cap Above(n) # {}
         /\ \A n \in S : status[n] = "RUNNING" => n \in HaltedFrom(S)
         /\ \A p \in HaltedFrom(S) : \A c \in KidSet(p) : status[c] = "RUNNING" => c \in HaltedFrom(S)
         /\ HaltedFrom({}) = {}
<1>1. HaltedFrom(S) \subseteq Node /\ HaltedFrom({}) = {}
  BY DEF HaltedFrom
<1>2. \A n \in HaltedFrom(S) : status[n] = "RUNNING" /\ S \cap Above(n) # {}
  BY TreeFacts DEF HaltedFrom
<1>3. \A n \in S : status[n] = "RUNNING" => n \in HaltedFrom(S)
  BY TreeFacts DEF HaltedFrom
<1>4. ASSUME NEW p \in HaltedFrom(S), NEW c \in KidSet(p), status[c] = "RUNNING" PROVE c \in HaltedFrom(S)
  <2>1. PICK s \in S \cap Above(p) : \A a \in Above(p) : s \in Above(a) => status[a] = "RUNNING"
    BY DEF HaltedFrom
  <2>2. p \in Node /\ c \in Node /\ Above(c) = Above(p) \cup {c}
    BY <1>1, TreeFacts
  <2>3. s \in S \cap Above(c) /\ \A a \in Above(c) : s \in Above(a) => status[a] = "RUNNING"
    BY <1>4, <2>1, <2>2
  <2> QED
    BY <2>2, <2>3 DEF HaltedFrom
<1> QED
  BY <1>1, <1>2, <1>3, <1>4

-----------------------------------------------------------------------------
(* The invariant.                                                          *)

Status == {"IDLE", "RUNNING", "SUCCESS", "FAILURE"}
Returned == {"RUNNING", "SUCCESS", "FAILURE", "SKIPPED"}
Paths == [goal : Goals \cup {0}, len : Lengths \cup {0}]
Member == [idx : Nat, count : Nat, flag : BOOLEAN, goal : Goals \cup {0}, path : Paths]
Past == [recovered : Nat, skipped : BOOLEAN, tried : SUBSET Nat]
Frame == [node : Node, child : Nat, skipped : Nat]

TypeOK ==
  /\ tree \in DOMAIN Trees /\ goal \in Goals /\ path \in Paths
  /\ stack \in Seq(Frame) /\ ret \in Returned \cup {"none"}
  /\ status \in [Node -> Status] /\ mem \in [Node -> Member] /\ hist \in [Node -> Past]

\* Where a node keeps which of its children it ticks: in a member, in its tick(), or nowhere.
Remembering == {"RecoveryNode", "RoundRobin", "Sequence", "SequenceWithMemory", "Fallback"}
Counting == {"PipelineSequence", "ReactiveSequence", "ReactiveFallback"}
At(f) == IF Kind(f.node) \in Remembering THEN mem[f.node].idx
         ELSE IF Kind(f.node) \in Counting THEN f.child ELSE 1
Current(f) == Kids(f.node)[At(f)]

\* A frame has called one of its children.
Entered(i) == i \in DOMAIN stack /\ (i < Len(stack) \/ ret # "none")

\* How many children before a RoundRobin's next one a child was ticked.
Ago(n, i, j) == IF j < i THEN i - j ELSE (i - j) + Len(Kids(n))
Tried(n, i, h, k) == \A j \in DOMAIN Kids(n) : Ago(n, i, j) <= k => j \in h.tried

\* The stack is the way from the root to the node that is ticked.
Frames ==
  /\ stack # <<>> => stack[1].node = Root
  /\ \A i \in DOMAIN stack : Above(stack[i].node) = {stack[j].node : j \in 1 .. i}
  /\ \A i \in DOMAIN stack : i # 1 => stack[i].node = Current(stack[i - 1])
  /\ stack # <<>> /\ ret = "none" => top.child = 1 /\ top.skipped = 0

\* What a node has done before it called a child.
Calls(f) ==
  LET n == f.node IN
  /\ Kind(n) \in Controls \cup Decorators /\ At(f) \in DOMAIN Kids(n)
  /\ Kind(n) = "PipelineSequence" \/ status[n] = "RUNNING"
  /\ Kind(n) = "SingleTrigger" => mem[n].flag
  /\ Kind(n) = "RoundRobin" => Tried(n, mem[n].idx, hist[n], mem[n].count + f.skipped)
InCalls == \A i \in DOMAIN stack : Entered(i) => Calls(stack[i])

\* What a child returned is its status, unless it was skipped.
Answered == stack # <<>> /\ ret \notin {"none", "SKIPPED"} => status[Current(top)] = ret

\* A RecoveryNode's counter, and what a node's members say of its children.
Counted(n) ==
  /\ hist[n].recovered <= mem[n].count /\ mem[n].count <= Retries
  /\ mem[n].idx = 2 => mem[n].count < Retries /\ status[Kids(n)[1]] # "RUNNING"
  /\ hist[n].skipped \/ hist[n].recovered = mem[n].count
Own(n) ==
  /\ Kind(n) \in Remembering => mem[n].idx \in DOMAIN Kids(n)
  /\ Kind(n) = "RecoveryNode" => Counted(n)
  /\ Kind(n) = "RoundRobin" => Tried(n, mem[n].idx, hist[n], mem[n].count) /\ hist[n].tried \subseteq DOMAIN Kids(n)
  /\ Kind(n) = "SingleTrigger" /\ status[Child(n)] = "RUNNING" => mem[n].flag
  /\ Kind(n) = "Service" /\ mem[n].flag => status[n] = "RUNNING"
Owns == \A n \in Node : Own(n)

\* What runs is below a node that runs or has called a child.
Busy == {stack[i].node : i \in {k \in DOMAIN stack : Entered(k)}}
OnStack == {stack[i].node : i \in DOMAIN stack}
LetsGo == {"DistanceController", "PathLongerOnApproach"}
Running(p) == \A c \in KidSet(p) : status[c] = "RUNNING" => status[p] = "RUNNING" \/ Kind(p) \in LetsGo
Below == \A p \in Node \ Busy : Running(p)

TreeInv == TypeOK /\ Frames /\ InCalls /\ Answered /\ Owns /\ Below

-----------------------------------------------------------------------------
(* The node that is ticked.                                                *)

\* The last call is that of a node, and the nodes above it are those on the stack.
LEMMA TopFacts ==
  ASSUME TypeOK, Frames, stack # <<>>
  PROVE  /\ Len(stack) \in Nat /\ Len(stack) >= 1 /\ Len(stack) \in DOMAIN stack /\ DOMAIN stack = 1 .. Len(stack)
         /\ top \in Frame /\ me \in Node /\ top = stack[Len(stack)] /\ me = top.node
         /\ Above(me) = OnStack /\ me \in OnStack
         /\ \A i \in DOMAIN stack : stack[i] \in Frame /\ stack[i].node \in Node
<1>1. stack \in Seq(Frame)
  BY DEF TypeOK
<1>2. Len(stack) \in Nat /\ Len(stack) >= 1 /\ Len(stack) \in DOMAIN stack /\ DOMAIN stack = 1 .. Len(stack)
  BY <1>1
<1>3. \A i \in DOMAIN stack : stack[i] \in Frame /\ stack[i].node \in Node
  <2>1. \A i \in DOMAIN stack : stack[i] \in Frame
    BY <1>1, ElementOfSeq
  <2> QED
    BY <2>1 DEF Frame
<1>4. Above(me) = {stack[j].node : j \in 1 .. Len(stack)}
  BY <1>2, Zenon DEF Frames, me, top
<1> QED
  BY <1>2, <1>3, <1>4 DEF me, top, OnStack

\* Its parent has called it, and it is in none of the calls before.
LEMMA ParentFacts ==
  ASSUME TypeOK, Frames, InCalls, stack # <<>>
  PROVE  /\ \A i \in DOMAIN stack : i # Len(stack) => stack[i].node # me
         /\ \A n \in Node : me \in KidSet(n) =>
              Len(stack) - 1 \in DOMAIN stack /\ n = stack[Len(stack) - 1].node /\ Current(stack[Len(stack) - 1]) = me
<1>0. tree \in DOMAIN Trees
  BY DEF TypeOK
<1>1. /\ Len(stack) \in Nat /\ Len(stack) >= 1 /\ DOMAIN stack = 1 .. Len(stack) /\ me = stack[Len(stack)].node /\ me \in Node
      /\ \A i \in DOMAIN stack : stack[i].node \in Node
  BY TopFacts
<1>2. CASE Len(stack) = 1
  <2>1. me = Root
    BY <1>1, <1>2 DEF Frames
  <2>2. \A n \in Node : me \notin KidSet(n)
    <3> SUFFICES ASSUME NEW n \in Node, me \in KidSet(n) PROVE FALSE
      OBVIOUS
    <3>1. Above(me) = Above(n) \cup {me} /\ n # me /\ n \in Above(n) /\ Above(me) = {me}
      BY <1>0, <2>1, TreeFacts
    <3> QED
      BY <3>1
  <2>3. \A i \in DOMAIN stack : i = Len(stack)
    BY <1>1, <1>2
  <2> QED
    BY <2>2, <2>3
<1>3. CASE Len(stack) # 1
  <2> DEFINE k == Len(stack) - 1
             p == stack[k].node
  <2>1. k \in DOMAIN stack /\ k < Len(stack) /\ p \in Node /\ Len(stack) \in DOMAIN stack
    BY <1>1, <1>3
  <2>2. me = Current(stack[k])
    BY <1>1, <1>3, <2>1 DEF Frames
  <2>3. At(stack[k]) \in DOMAIN Kids(p)
    BY <2>1 DEF InCalls, Entered, Calls
  <2>4. me \in KidSet(p)
    BY <2>2, <2>3 DEF Current, KidSet
  <2>5. me \notin Above(p) /\ Above(p) = {stack[j].node : j \in 1 .. k}
    BY <1>0, <2>1, <2>4, TreeFacts, Zenon DEF Frames
  <2>6. \A i \in DOMAIN stack : i # Len(stack) => i \in 1 .. k
    BY <1>1
  <2>7. \A n \in Node : me \in KidSet(n) => n = p
    BY <1>0, <2>1, <2>4, TreeFacts
  <2> QED
    BY <2>1, <2>2, <2>5, <2>6, <2>7
<1> QED
  BY <1>2, <1>3

-----------------------------------------------------------------------------
(* What a step of the node that is ticked does to the others.              *)

\* It halts its children in S, and resets those in D that have completed.
Others(S, D) ==
  /\ tree' = tree
  /\ \A n \in Node : n # me =>
       /\ mem'[n] = IF n \in HaltedFrom(S) THEN Halted(n) ELSE mem[n]
       /\ hist'[n] = IF n \in HaltedFrom(S) THEN NoHistory ELSE hist[n]
       /\ status'[n] = IF n \in S \cup D \/ \E p \in HaltedFrom(S) : n \in KidSet(p) THEN "IDLE" ELSE status[n]

\* A tree does not change while it is ticked.
LEMMA SameTree ==
  ASSUME tree' = tree
  PROVE  /\ Node' = Node /\ Root' = Root /\ \A n : Kind(n)' = Kind(n) /\ Kids(n)' = Kids(n) /\ KidSet(n)' = KidSet(n)
         /\ \A n : Above(n)' = Above(n) /\ Child(n)' = Child(n)
         /\ \A n, i, h, k : Tried(n, i, h, k)' <=> Tried(n, i, h, k)
<1>1. /\ Node' = Node /\ Root' = Root /\ \A n : Kind(n)' = Kind(n) /\ Kids(n)' = Kids(n)
      /\ \A n : Above(n)' = Above(n)
  BY DEF Node, Root, Kind, Kids, Above
<1>2. \A n : KidSet(n)' = KidSet(n) /\ Child(n)' = Child(n)
  BY <1>1 DEF KidSet, Child
<1>3. \A n, i, j : Ago(n, i, j)' = Ago(n, i, j)
  BY <1>1 DEF Ago
<1>4. \A n, i, h, k : Tried(n, i, h, k)' <=> Tried(n, i, h, k)
  BY <1>1, <1>3 DEF Tried
<1> QED
  BY <1>1, <1>2, <1>4

\* What a halt leaves in the members of a node.
LEMMA HaltedFacts ==
  ASSUME TypeOK, NEW n \in Node
  PROVE  /\ Halted(n) \in Member
         /\ Kind(n) \in Remembering => Halted(n).idx = 1
         /\ Kind(n) \in {"RecoveryNode", "RoundRobin"} => Halted(n).count = 0
         /\ Kind(n) = "SingleTrigger" => Halted(n) = mem[n]
         /\ Kind(n) = "Service" => ~Halted(n).flag
<1>1. mem[n] \in Member
  BY DEF TypeOK
<1>3. CASE Kind(n) \in {"RecoveryNode", "RoundRobin"}
  <2>0. PICK m \in Member : m = mem[n]
    BY <1>1
  <2>1. Halted(n) = [m EXCEPT !.idx = 1, !.count = 0]
    BY <1>3, <2>0 DEF Halted
  <2>2. [m EXCEPT !.idx = 1, !.count = 0] \in Member
    BY Zenon DEF Member
  <2>3. [m EXCEPT !.idx = 1, !.count = 0].idx = 1
    BY DEF Member
  <2>4. [m EXCEPT !.idx = 1, !.count = 0].count = 0
    BY DEF Member
  <2> QED
    BY <1>3, <2>1, <2>2, <2>3, <2>4
<1>4. CASE Kind(n) \in {"PipelineSequence", "Sequence", "SequenceWithMemory", "Fallback"}
  <2>1. Halted(n) = [mem[n] EXCEPT !.idx = 1]
    BY <1>4 DEF Halted
  <2>2. Halted(n) \in Member /\ Halted(n).idx = 1
    BY <1>1, <2>1 DEF Member
  <2> QED
    BY <1>4, <2>2
<1>5. CASE Kind(n) = "Service"
  <2>1. Halted(n) = [mem[n] EXCEPT !.flag = FALSE]
    BY <1>5 DEF Halted
  <2>2. Halted(n) \in Member /\ ~Halted(n).flag
    BY <1>1, <2>1, Zenon DEF Member
  <2> QED
    BY <1>5, <2>2 DEF Remembering
<1>6. CASE Kind(n) \notin {"RecoveryNode", "RoundRobin", "PipelineSequence", "Sequence", "SequenceWithMemory", "Fallback", "Service"}
  <2>1. Halted(n) = mem[n]
    BY <1>6 DEF Halted
  <2> QED
    BY <1>1, <1>6, <2>1 DEF Remembering
<1> QED
  BY <1>3, <1>4, <1>5, <1>6

\* The nodes on the stack are above what is halted: nothing happens to them.
LEMMA AboveKept ==
  ASSUME TreeInv, stack # <<>>, NEW S \in SUBSET KidSet(me), NEW D \in SUBSET KidSet(me), Others(S, D),
         NEW i \in DOMAIN stack, i # Len(stack), NEW n, n = stack[i].node
  PROVE  /\ n # me /\ n \in Node /\ mem'[n] = mem[n] /\ hist'[n] = hist[n] /\ status'[n] = status[n]
<1> USE DEF TreeInv
<1>0. tree \in DOMAIN Trees
  BY DEF TypeOK
<1>1. n # me /\ n \in Node /\ me \in Node /\ n \in Above(me) /\ n \in OnStack
  BY TopFacts, ParentFacts DEF OnStack
<1>2. Above(n) \subseteq Above(me)
  <2>1. Above(n) = {stack[j].node : j \in 1 .. i} /\ Above(me) = {stack[j].node : j \in DOMAIN stack} /\ DOMAIN stack = 1 .. Len(stack)
        /\ Len(stack) \in Nat
    BY TopFacts, Zenon DEF Frames, OnStack
  <2>2. 1 .. i \subseteq DOMAIN stack
    BY <2>1
  <2> QED
    BY <2>1, <2>2
<1>3. \A c \in KidSet(me) : c \notin Above(me)
  BY <1>0, <1>1, TreeFacts
<1>4. S \in SUBSET Node /\ S \cap Above(n) = {} /\ n \notin S \cup D
  BY <1>0, <1>1, <1>2, <1>3, TreeFacts
<1>5. n \notin HaltedFrom(S)
  BY <1>0, <1>4, HaltFacts
<1>6. ASSUME NEW p \in HaltedFrom(S), n \in KidSet(p) PROVE FALSE
  <2>1. p \in Node /\ S \cap Above(p) # {}
    BY <1>0, <1>4, HaltFacts
  <2>2. Above(n) = Above(p) \cup {n}
    BY <1>0, <1>6, <2>1, TreeFacts
  <2> QED
    BY <1>4, <2>1, <2>2
<1> QED
  BY <1>1, <1>4, <1>5, <1>6 DEF Others

\* The calls in progress are the same.
LEMMA OthersCalls ==
  ASSUME TreeInv, stack # <<>>, NEW S \in SUBSET KidSet(me), NEW D \in SUBSET KidSet(me), Others(S, D),
         NEW i \in DOMAIN stack, i # Len(stack), NEW f, f = stack[i]
  PROVE  Calls(f)' /\ Current(f)' = Current(f)
<1>1. Calls(f)
  <2>1. i < Len(stack)
    BY TopFacts DEF TreeInv
  <2> QED
    BY <2>1 DEF TreeInv, InCalls, Entered
<1>2. tree' = tree
  BY DEF Others
<1> DEFINE n == f.node
<1>3. n \in Node /\ mem'[n] = mem[n] /\ hist'[n] = hist[n] /\ status'[n] = status[n]
  BY AboveKept
<1>4. /\ \A k : Kind(k)' = Kind(k) /\ Kids(k)' = Kids(k)
      /\ \A k, j, h, l : Tried(k, j, h, l)' <=> Tried(k, j, h, l)
  BY <1>2, SameTree
<1>5. At(f)' = At(f)
  BY <1>3, <1>4 DEF At
<1> QED
  BY <1>1, <1>3, <1>4, <1>5 DEF Calls, Current

\* A node that runs and is not halted keeps running, and nothing is left running below what is.
LEMMA OthersStatus ==
  ASSUME TreeInv, stack # <<>>, NEW S \in SUBSET KidSet(me), NEW D \in SUBSET KidSet(me), Others(S, D),
         \A d \in D : status[d] # "RUNNING",
         NEW n \in Node, n # me
  PROVE  /\ status'[n] \in {"IDLE", status[n]}
         /\ status[n] = "RUNNING" /\ n \notin HaltedFrom(S) => status'[n] = "RUNNING"
         /\ \A c \in KidSet(n) : c # me /\ status'[c] = "RUNNING" => n \notin HaltedFrom(S)
<1>0. tree \in DOMAIN Trees /\ me \in Node
  BY TopFacts DEF TreeInv, TypeOK
<1>1. S \in SUBSET Node
  BY <1>0, TreeFacts
<1>2. /\ \A k \in S : status[k] = "RUNNING" => k \in HaltedFrom(S)
      /\ \A p \in HaltedFrom(S) : \A c \in KidSet(p) : status[c] = "RUNNING" => c \in HaltedFrom(S)
  BY <1>0, <1>1, HaltFacts
<1>3. status'[n] = IF n \in S \cup D \/ \E p \in HaltedFrom(S) : n \in KidSet(p) THEN "IDLE" ELSE status[n]
  BY DEF Others
<1>4. ASSUME status[n] = "RUNNING", n \notin HaltedFrom(S) PROVE status'[n] = "RUNNING"
  BY <1>2, <1>3, <1>4
<1>5. ASSUME NEW c \in KidSet(n), c # me, status'[c] = "RUNNING", n \in HaltedFrom(S) PROVE FALSE
  <2>1. c \in Node
    BY <1>0, TreeFacts
  <2>2. status'[c] = "IDLE"
    BY <1>5, <2>1 DEF Others
  <2> QED
    BY <1>5, <2>2
<1> QED
  BY <1>3, <1>4, <1>5

\* Whatever the node that is ticked does, the others are left as they should be.
LEMMA OthersOwn ==
  ASSUME TreeInv, stack # <<>>, NEW S \in SUBSET KidSet(me), NEW D \in SUBSET KidSet(me), Others(S, D),
         \A d \in D : status[d] # "RUNNING",
         NEW n \in Node, n # me
  PROVE  Own(n)'
<1>0. tree \in DOMAIN Trees /\ me \in Node /\ tree' = tree /\ TypeOK
  BY TopFacts DEF TreeInv, TypeOK, Others
<1>1. Own(n)
  BY DEF TreeInv, Owns
<1>2. /\ \A k : Kind(k)' = Kind(k) /\ Kids(k)' = Kids(k) /\ Child(k)' = Child(k)
      /\ \A k, j, h, l : Tried(k, j, h, l)' <=> Tried(k, j, h, l)
  BY <1>0, SameTree
<1>3. /\ mem'[n] = IF n \in HaltedFrom(S) THEN Halted(n) ELSE mem[n]
      /\ hist'[n] = IF n \in HaltedFrom(S) THEN NoHistory ELSE hist[n]
  BY DEF Others
<1>4. mem[n] \in Member /\ hist[n] \in Past /\ Retries \in Nat
  BY <1>0, RetriesAssumption DEF TypeOK
<1>5. /\ Kind(n) = "RecoveryNode" => Len(Kids(n)) = 2
      /\ Kind(n) \in Controls => Len(Kids(n)) >= 1
      /\ Kind(n) \in Decorators => Len(Kids(n)) = 1
      /\ Len(Kids(n)) \in Nat /\ DOMAIN Kids(n) = 1 .. Len(Kids(n))
  BY <1>0, KindFacts
<1>6. \A i \in DOMAIN Kids(n) : Kids(n)[i] \in KidSet(n) /\ Kids(n)[i] \in Node
  BY <1>0, TreeFacts DEF KidSet
\* A child that runs now ran before, or is the one that is ticked.
<1>7. ASSUME NEW i \in DOMAIN Kids(n), status'[Kids(n)[i]] = "RUNNING", status[Kids(n)[i]] # "RUNNING"
      PROVE  \E f : f.node = n /\ Calls(f) /\ At(f) = i
  <2>1. Kids(n)[i] = me
    BY <1>6, <1>7, OthersStatus
  <2> DEFINE k == Len(stack) - 1
  <2>2. k \in DOMAIN stack /\ n = stack[k].node /\ Current(stack[k]) = me
    BY <1>6, <2>1, ParentFacts DEF TreeInv
  <2>3. Calls(stack[k])
    <3>1. k < Len(stack)
      BY TopFacts DEF TreeInv
    <3> QED
      BY <2>2, <3>1 DEF TreeInv, InCalls, Entered
  <2>4. At(stack[k]) \in DOMAIN Kids(n)
    BY <2>2, <2>3 DEF Calls
  <2>5. At(stack[k]) = i
    BY <1>0, <2>1, <2>2, <2>4, TreeFacts, SMTT(30) DEF Current
  <2> QED
    BY <2>2, <2>3, <2>5
<1>8. Kind(n) \in Remembering => mem'[n].idx \in DOMAIN Kids(n)
  <2>1. Kind(n) \in Remembering => Kind(n) \in Controls
    BY DEF Remembering, Controls
  <2> QED
    BY <1>0, <1>1, <1>3, <1>5, <2>1, HaltedFacts DEF Own
<1>9. ASSUME Kind(n) = "RecoveryNode" PROVE Counted(n)'
  <2>1. CASE n \in HaltedFrom(S)
    <3>1. mem'[n].count = 0 /\ mem'[n].idx = 1 /\ hist'[n].recovered = 0
      BY <1>0, <1>3, <1>9, <2>1, HaltedFacts DEF Remembering, NoHistory
    <3> QED
      BY <1>4, <3>1 DEF Counted
  <2>2. CASE n \notin HaltedFrom(S)
    <3>1. mem'[n] = mem[n] /\ hist'[n] = hist[n] /\ Counted(n)
      BY <1>1, <1>3, <1>9, <2>2 DEF Own
    <3>2. ASSUME mem[n].idx = 2 PROVE status'[Kids(n)[1]] # "RUNNING"
      <4>1. 1 \in DOMAIN Kids(n) /\ status[Kids(n)[1]] # "RUNNING"
        BY <1>5, <1>9, <3>1, <3>2 DEF Counted
      <4>2. \A f : f.node = n => At(f) = 2
        BY <1>9, <3>2 DEF At, Remembering
      <4> QED
        BY <1>7, <4>1, <4>2
    <3> QED
      BY <1>2, <3>1, <3>2 DEF Counted
  <2> QED
    BY <2>1, <2>2
<1>10. ASSUME Kind(n) = "RoundRobin"
       PROVE  Tried(n, mem'[n].idx, hist'[n], mem'[n].count) /\ hist'[n].tried \subseteq DOMAIN Kids(n)
  <2>1. CASE n \in HaltedFrom(S)
    <3>1. mem'[n].count = 0 /\ mem'[n].idx = 1 /\ hist'[n].tried = {}
      BY <1>0, <1>3, <1>10, <2>1, HaltedFacts DEF Remembering, NoHistory
    <3>2. \A j \in DOMAIN Kids(n) : Ago(n, 1, j) >= 1
      BY <1>5, <1>10 DEF Ago, Controls
    <3> QED
      BY <1>5, <3>1, <3>2 DEF Tried, Ago
  <2>2. CASE n \notin HaltedFrom(S)
    BY <1>1, <1>3, <1>10, <2>2 DEF Own
  <2> QED
    BY <2>1, <2>2
<1>11. ASSUME Kind(n) = "SingleTrigger", status'[Child(n)] = "RUNNING" PROVE mem'[n].flag
  <2>1. mem'[n] = mem[n]
    BY <1>0, <1>3, <1>11, HaltedFacts
  <2>2. 1 \in DOMAIN Kids(n) /\ Child(n) = Kids(n)[1]
    BY <1>5, <1>11 DEF Decorators, Child
  <2>3. CASE status[Child(n)] = "RUNNING"
    BY <1>1, <1>11, <2>1, <2>3 DEF Own
  <2>4. CASE status[Child(n)] # "RUNNING"
    <3>1. PICK f : f.node = n /\ Calls(f)
      BY <1>7, <1>11, <2>2, <2>4
    <3> QED
      BY <1>11, <2>1, <3>1 DEF Calls
  <2> QED
    BY <2>3, <2>4
<1>12. ASSUME Kind(n) = "Service", mem'[n].flag PROVE status'[n] = "RUNNING"
  <2>1. n \notin HaltedFrom(S)
    BY <1>0, <1>3, <1>12, HaltedFacts
  <2>2. status[n] = "RUNNING"
    BY <1>1, <1>3, <1>12, <2>1 DEF Own
  <2> QED
    BY <2>1, <2>2, OthersStatus
<1> QED
  BY <1>2, <1>8, <1>9, <1>10, <1>11, <1>12 DEF Own

\* What ran below a node that is not in a call is halted with it.
LEMMA OthersRunning ==
  ASSUME TreeInv, stack # <<>>, NEW S \in SUBSET KidSet(me), NEW D \in SUBSET KidSet(me), Others(S, D),
         \A d \in D : status[d] # "RUNNING",
         NEW p \in Node, p # me, p \notin Busy
  PROVE  Running(p)'
<1>0. tree \in DOMAIN Trees /\ me \in Node /\ tree' = tree
  BY TopFacts DEF TreeInv, TypeOK, Others
<1>1. Running(p)
  BY DEF TreeInv, Below
<1>2. \A k : Kind(k)' = Kind(k) /\ KidSet(k)' = KidSet(k)
  BY <1>0, SameTree
<1>3. ASSUME NEW c \in KidSet(p), status'[c] = "RUNNING" PROVE status'[p] = "RUNNING" \/ Kind(p) \in LetsGo
  <2>1. c # me
    <3> SUFFICES ASSUME me \in KidSet(p) PROVE FALSE
      OBVIOUS
    <3>1. Len(stack) - 1 \in DOMAIN stack /\ p = stack[Len(stack) - 1].node
      BY ParentFacts DEF TreeInv
    <3>2. Len(stack) - 1 < Len(stack)
      BY TopFacts DEF TreeInv
    <3> QED
      BY <3>1, <3>2 DEF Busy, Entered
  <2>2. c \in Node
    BY <1>0, TreeFacts
  <2>3. status[c] = "RUNNING" /\ p \notin HaltedFrom(S)
    BY <1>3, <2>1, <2>2, OthersStatus, Zenon
  <2>4. status[p] = "RUNNING" \/ Kind(p) \in LetsGo
    BY <1>1, <2>3, Zenon DEF Running
  <2> QED
    BY <2>3, <2>4, OthersStatus
<1> QED
  BY <1>2, <1>3 DEF Running

-----------------------------------------------------------------------------
(* A call and a return.                                                    *)

\* The members m and the history h that the node that is ticked may leave.
Fits(S, m, h) ==
  /\ m \in Member /\ h \in Past /\ Kind(me) \in Controls \cup Decorators
  /\ Kind(me) \in Remembering => m.idx \in DOMAIN Kids(me)
  /\ Kind(me) = "RecoveryNode" =>
       /\ h.recovered <= m.count /\ m.count <= Retries
       /\ m.idx = 2 => m.count < Retries /\ (Kids(me)[1] \in S \/ status[Kids(me)[1]] # "RUNNING")
       /\ h.skipped \/ h.recovered = m.count
  /\ Kind(me) = "RoundRobin" => Tried(me, m.idx, h, m.count) /\ h.tried \subseteq DOMAIN Kids(me)
  /\ Kind(me) = "SingleTrigger" => m.flag \/ status[Child(me)] # "RUNNING"

\* Its members are then as they should be.
LEMMA MeOwn ==
  ASSUME TreeInv, stack # <<>>, NEW S \in SUBSET KidSet(me), NEW D \in SUBSET KidSet(me), Others(S, D),
         \A d \in D : status[d] # "RUNNING",
         NEW m, NEW h, Fits(S, m, h), NEW n, n = me, mem'[n] = m, hist'[n] = h
  PROVE  Own(n)'
<1>0. tree \in DOMAIN Trees /\ me \in Node /\ tree' = tree
  BY TopFacts DEF TreeInv, TypeOK, Others
<1>2. /\ \A k : Kind(k)' = Kind(k) /\ Kids(k)' = Kids(k) /\ Child(k)' = Child(k)
      /\ \A k, j, i, l : Tried(k, j, i, l)' <=> Tried(k, j, i, l)
  BY <1>0, SameTree, Zenon
<1>3. /\ Kind(n) = "RecoveryNode" => Len(Kids(n)) = 2
      /\ Kind(n) = "SingleTrigger" => Len(Kids(n)) = 1
      /\ DOMAIN Kids(n) = 1 .. Len(Kids(n))
  BY <1>0, KindFacts DEF Decorators
<1>4. \A c \in KidSet(n) : c \in Node /\ c # n
  BY <1>0, TreeFacts
<1>5. \A c \in KidSet(n) : status'[c] = "RUNNING" => status[c] = "RUNNING" /\ c \notin S
  <2> SUFFICES ASSUME NEW c \in KidSet(n), status'[c] = "RUNNING" PROVE status[c] = "RUNNING" /\ c \notin S
    OBVIOUS
  <2>1. c \in Node /\ c # me
    BY <1>4
  <2> QED
    BY <2>1 DEF Others
<1>6. /\ Kind(n) = "RecoveryNode" => Kids(n)[1] \in KidSet(n)
      /\ Kind(n) = "SingleTrigger" => Child(n) \in KidSet(n)
  BY <1>3 DEF KidSet, Child
<1>7. Kind(n) # "Service"
  BY Zenon DEF Fits, Controls, Decorators
<1>8. Kind(n) = "RecoveryNode" => Counted(n)'
  BY <1>2, <1>5, <1>6, Zenon DEF Fits, Counted
<1>9. Kind(n) = "SingleTrigger" /\ status'[Child(n)] = "RUNNING" => mem'[n].flag
  BY <1>5, <1>6 DEF Fits
<1> QED
  BY <1>2, <1>7, <1>8, <1>9 DEF Fits, Own

\* Halting children does not change the status of the node itself.
LEMMA MeKept ==
  ASSUME TypeOK, Frames, stack # <<>>, NEW S \in SUBSET KidSet(me), NEW D \in SUBSET KidSet(me)
  PROVE  HaltStatus(HaltedFrom(S), S \cup D)[me] = status[me]
<1>0. tree \in DOMAIN Trees /\ me \in Node
  BY TopFacts DEF TypeOK
<1>1. S \in SUBSET Node /\ S \cap Above(me) = {} /\ me \notin S \cup D
  BY <1>0, TreeFacts
<1>2. ASSUME NEW p \in HaltedFrom(S), me \in KidSet(p) PROVE FALSE
  <2>1. p \in Node /\ S \cap Above(p) # {}
    BY <1>0, <1>1, HaltFacts
  <2>2. Above(me) = Above(p) \cup {me}
    BY <1>0, <1>2, <2>1, TreeFacts
  <2> QED
    BY <1>1, <2>1, <2>2
<1> QED
  BY <1>0, <1>1, <1>2 DEF HaltStatus

\* What Call and Return have in common: halted children, and the members of the node.
LEMMA Effects ==
  ASSUME TypeOK, Frames, stack # <<>>, NEW S \in SUBSET KidSet(me), NEW D \in SUBSET KidSet(me),
         NEW m \in Member, NEW h \in Past, NEW s \in Status, UNCHANGED <<tree, goal>>,
         status' = [HaltStatus(HaltedFrom(S), S \cup D) EXCEPT ![me] = s],
         mem' = [HaltMem(HaltedFrom(S)) EXCEPT ![me] = m],
         hist' = [HaltHist(HaltedFrom(S)) EXCEPT ![me] = h],
         path' = HaltPath(HaltedFrom(S))
  PROVE  /\ Others(S, D) /\ status'[me] = s /\ mem'[me] = m /\ hist'[me] = h
         /\ tree' \in DOMAIN Trees /\ goal' \in Goals /\ path' \in Paths
         /\ status' \in [Node -> Status] /\ mem' \in [Node -> Member] /\ hist' \in [Node -> Past]
<1>0. tree \in DOMAIN Trees /\ me \in Node
  BY TopFacts DEF TypeOK
<1>1. NoPath \in Paths /\ NoHistory \in Past
  BY DEF NoPath, Paths, NoHistory, Past
<1>2. HaltStatus(HaltedFrom(S), S \cup D) \in [Node -> Status]
  BY DEF HaltStatus, TypeOK, Status
<1>3. HaltMem(HaltedFrom(S)) \in [Node -> Member]
  BY HaltedFacts DEF HaltMem, TypeOK
<1>4. HaltHist(HaltedFrom(S)) \in [Node -> Past]
  BY <1>1 DEF HaltHist, TypeOK
<1>5. /\ status' \in [Node -> Status] /\ mem' \in [Node -> Member] /\ hist' \in [Node -> Past]
      /\ status'[me] = s /\ mem'[me] = m /\ hist'[me] = h
  BY <1>0, <1>2, <1>3, <1>4, Zenon
<1>6. Others(S, D)
  <2> SUFFICES ASSUME NEW n \in Node, n # me
               PROVE  /\ mem'[n] = IF n \in HaltedFrom(S) THEN Halted(n) ELSE mem[n]
                      /\ hist'[n] = IF n \in HaltedFrom(S) THEN NoHistory ELSE hist[n]
                      /\ status'[n] = IF n \in S \cup D \/ \E p \in HaltedFrom(S) : n \in KidSet(p) THEN "IDLE" ELSE status[n]
    BY Zenon DEF Others
  <2>1. mem'[n] = HaltMem(HaltedFrom(S))[n] /\ hist'[n] = HaltHist(HaltedFrom(S))[n]
        /\ status'[n] = HaltStatus(HaltedFrom(S), S \cup D)[n]
    BY <1>2, <1>3, <1>4
  <2> QED
    BY <2>1 DEF HaltMem, HaltHist, HaltStatus
<1>7. path' \in Paths
  BY <1>1 DEF HaltPath, TypeOK
<1> QED
  BY <1>0, <1>5, <1>6, <1>7, Zenon DEF TypeOK

\* A node that has prepared for child j calls it.
LEMMA CallStep ==
  ASSUME TreeInv, stack # <<>>, NEW S \in SUBSET KidSet(me), NEW m, NEW h, Fits(S, m, h),
         NEW f \in Frame, f.node = me, NEW j \in DOMAIN Kids(me),
         j = IF Kind(me) \in Remembering THEN m.idx ELSE IF Kind(me) \in Counting THEN f.child ELSE 1,
         Kind(me) = "SingleTrigger" => m.flag,
         Kind(me) = "RoundRobin" => Tried(me, m.idx, h, m.count + f.skipped),
         Call(Kids(me)[j], S, m, f), History(S, h)
  PROVE  TreeInv'
<1>0. /\ TypeOK /\ Frames /\ InCalls /\ tree \in DOMAIN Trees /\ me \in Node /\ m \in Member /\ h \in Past
      /\ Kind(me) \in Controls \cup Decorators
  BY TopFacts DEF TreeInv, TypeOK, Fits
<1> DEFINE L == Len(stack)
           c == Kids(me)[j]
           new == [node |-> c, child |-> 1, skipped |-> 0]
<1>1. /\ stack' = Append([stack EXCEPT ![L] = f], new) /\ ret' = "none" /\ UNCHANGED <<tree, goal>>
      /\ mem' = [HaltMem(HaltedFrom(S)) EXCEPT ![me] = m]
      /\ hist' = [HaltHist(HaltedFrom(S)) EXCEPT ![me] = h] /\ path' = HaltPath(HaltedFrom(S))
  BY DEF Call, History
<1>2. PICK s \in Status : /\ Kind(me) # "PipelineSequence" => s = "RUNNING"
                          /\ status' = [HaltStatus(HaltedFrom(S), S \cup {}) EXCEPT ![me] = s]
  <2>1. S \cup {} = S /\ {} \in SUBSET KidSet(me)
    OBVIOUS
  <2>2. status' = [HaltStatus(HaltedFrom(S), S) EXCEPT ![me] = IF Kind(me) = "PipelineSequence" THEN HaltStatus(HaltedFrom(S), S)[me] ELSE "RUNNING"]
    BY Zenon DEF Call
  <2>3. HaltStatus(HaltedFrom(S), S)[me] = status[me] /\ status[me] \in Status
    <3>1. HaltStatus(HaltedFrom(S), S \cup {})[me] = status[me]
      BY <1>0, <2>1, MeKept, Zenon
    <3> QED
      BY <1>0, <2>1, <3>1 DEF TypeOK
  <2>4. (IF Kind(me) = "PipelineSequence" THEN HaltStatus(HaltedFrom(S), S)[me] ELSE "RUNNING") \in Status
    BY <2>3, Zenon DEF Status
  <2> QED
    BY <2>1, <2>2, <2>4, Zenon
<1>3. /\ Others(S, {}) /\ status'[me] = s /\ mem'[me] = m /\ hist'[me] = h
      /\ tree' \in DOMAIN Trees /\ goal' \in Goals /\ path' \in Paths
      /\ status' \in [Node -> Status] /\ mem' \in [Node -> Member] /\ hist' \in [Node -> Past]
  <2>1. {} \in SUBSET KidSet(me)
    OBVIOUS
  <2> QED
    BY <1>0, <1>1, <1>2, <2>1, Effects, Zenon
<1>4. /\ Node' = Node /\ Root' = Root /\ \A n : Kind(n)' = Kind(n) /\ Kids(n)' = Kids(n) /\ KidSet(n)' = KidSet(n)
      /\ \A n : Above(n)' = Above(n)
      /\ \A n, i, g, k : Tried(n, i, g, k)' <=> Tried(n, i, g, k)
  BY <1>1, SameTree
<1>5. c \in Node /\ c \in KidSet(me) /\ Above(c) = Above(me) \cup {c}
  <2>1. c \in KidSet(me)
    BY DEF KidSet
  <2> QED
    BY <1>0, <2>1, TreeFacts, SMT, SMTT(30)
<1>6. L \in Nat /\ L >= 1 /\ DOMAIN stack = 1 .. L /\ L \in DOMAIN stack /\ stack \in Seq(Frame) /\ me = stack[L].node
      /\ Above(me) = OnStack
  BY <1>0, TopFacts DEF TypeOK
<1>7. new \in Frame /\ new.node = c /\ new.child = 1 /\ new.skipped = 0
  BY <1>5 DEF Frame
<1> HIDE DEF L, c, new
<1>8. /\ stack' \in Seq(Frame) /\ Len(stack') = L + 1 /\ DOMAIN stack' = 1 .. (L + 1)
      /\ stack'[L + 1] = new /\ stack'[L] = f /\ \A i \in 1 .. L : i # L => stack'[i] = stack[i]
  <2> DEFINE q == [stack EXCEPT ![L] = f]
  <2>1. q \in Seq(Frame) /\ Len(q) = L /\ q[L] = f /\ \A i \in 1 .. L : i # L => q[i] = stack[i]
    <3>1. L \in 1 .. Len(stack) /\ L = Len(stack)
      BY <1>6 DEF L
    <3>2. /\ q \in Seq(Frame) /\ Len(q) = Len(stack)
          /\ \A i \in 1 .. Len(stack) : q[i] = IF i = L THEN f ELSE stack[i]
      BY <1>6, <3>1, ExceptSeq
    <3> QED
      BY <3>1, <3>2
  <2> HIDE DEF q
  <2>2. stack' = Append(q, new)
    BY <1>1 DEF q
  <2>3. stack' \in Seq(Frame) /\ Len(stack') = L + 1 /\ stack'[L + 1] = new /\ \A i \in 1 .. L : stack'[i] = q[i]
    BY <1>6, <1>7, <2>1, <2>2, AppendProperties
  <2> QED
    BY <1>6, <2>1, <2>3
<1>9. \A i \in 1 .. L : stack'[i].node = stack[i].node
  BY <1>6, <1>8
<1>10. ret' \in Returned \cup {"none"} /\ Frame' = Frame
  BY <1>1, <1>4 DEF Frame
<1>11. TypeOK'
  BY <1>3, <1>4, <1>8, <1>10, Zenon DEF TypeOK
<1>12. ASSUME NEW i \in 1 .. L PROVE \A g : g = stack'[i] => Calls(g)' /\ (i # L => Current(g)' = Current(g)) /\ (i = L => Current(g)' = c)
  <2>1. CASE i # L
    <3>1. stack'[i] = stack[i] /\ i \in DOMAIN stack /\ {} \in SUBSET KidSet(me)
      BY <1>6, <1>8, <2>1, Zenon
    <3> QED
      BY <1>3, <2>1, <3>1, OthersCalls, SMTT(30) DEF L
  <2>2. CASE i = L
    <3>1. At(f)' = j
      BY <1>3, <1>4 DEF At
    <3>2. Kind(me) = "PipelineSequence" \/ status'[me] = "RUNNING"
      BY <1>2, <1>3
    <3>3. Calls(f)'
      BY <1>0, <1>3, <1>4, <3>1, <3>2, Zenon DEF Calls
    <3>4. Current(f)' = c
      BY <1>4, <3>1, Zenon DEF Current, c
    <3> QED
      BY <1>8, <2>2, <3>3, <3>4
  <2> QED
    BY <2>1, <2>2
<1>13. Frames'
  <2>1. stack'[1].node = Root
    BY <1>0, <1>6, <1>9 DEF Frames
  <2>2. ASSUME NEW i \in DOMAIN stack' PROVE Above(stack'[i].node) = {stack'[k].node : k \in 1 .. i}
    <3>1. CASE i \in 1 .. L
      <4>1. Above(stack[i].node) = {stack[k].node : k \in 1 .. i}
        BY <1>0, <1>6, <3>1, Zenon DEF Frames
      <4>2. \A k \in 1 .. i : stack'[k].node = stack[k].node
        BY <1>6, <1>9, <3>1
      <4> QED
        BY <1>9, <3>1, <4>1, <4>2, Zenon
    <3>2. CASE i = L + 1
      <4>1. Above(me) = {stack[k].node : k \in 1 .. L}
        BY <1>6 DEF OnStack
      <4>2. \A k \in 1 .. i : k = L + 1 \/ k \in 1 .. L
        BY <1>6, <3>2
      <4>3. L + 1 \in 1 .. i /\ \A k \in 1 .. L : k \in 1 .. i
        BY <1>6, <3>2
      <4> QED
        BY <1>5, <1>7, <1>8, <1>9, <3>2, <4>1, <4>2, <4>3, SMTT(30)
    <3>3. i \in 1 .. L \/ i = L + 1
      BY <1>6, <1>8
    <3> QED
      BY <3>1, <3>2, <3>3, Zenon
  <2>3. ASSUME NEW i \in DOMAIN stack', i # 1, NEW g, g = stack'[i - 1] PROVE stack'[i].node = Current(g)'
    <3>1. i - 1 \in 1 .. L
      BY <1>6, <1>8, <2>3
    <3>2. CASE i - 1 = L
      <4>1. stack'[i].node = c
        BY <1>6, <1>7, <1>8, <3>2
      <4> QED
        BY <1>12, <2>3, <3>1, <3>2, <4>1, Zenon
    <3>3. CASE i - 1 # L
      <4>1. i \in 1 .. L /\ g = stack[i - 1]
        BY <1>6, <1>8, <2>3, <3>1, <3>3, SMTT(30)
      <4>2. stack[i].node = Current(g)
        BY <1>0, <1>6, <2>3, <4>1 DEF Frames
      <4> QED
        BY <1>9, <1>12, <2>3, <3>1, <3>3, <4>1, <4>2, Zenon
    <3> QED
      BY <3>2, <3>3
  <2>4. \A i \in DOMAIN stack' : i # 1 => stack'[i].node = Current(stack[i - 1])'
    BY <2>3, Zenon DEF Current, At
  <2>5. top' = new
    BY <1>8 DEF top
  <2> QED
    BY <1>4, <1>7, <2>1, <2>2, <2>4, <2>5, Zenon DEF Frames
<1>14. InCalls'
  <2>1. ASSUME NEW i \in DOMAIN stack', Entered(i)', NEW g, g = stack'[i] PROVE Calls(g)'
    <3>1. i \in 1 .. L
      BY <1>1, <1>6, <1>8, <2>1 DEF Entered
    <3> QED
      BY <1>12, <2>1, <3>1, Zenon
  <2> QED
    BY <2>1, Zenon DEF InCalls, Calls, At
<1>15. Answered'
  BY <1>1 DEF Answered
<1>16. Owns'
  <2>1. \A n \in Node : Own(n)'
    BY <1>3, OthersOwn, MeOwn
  <2> QED
    BY <1>4, <2>1 DEF Owns
<1>17. Below'
  <2>1. \A i \in 1 .. L : stack[i].node \in Busy'
    <3> SUFFICES ASSUME NEW i \in 1 .. L PROVE stack'[i].node \in Busy'
      BY <1>9
    <3>1. Entered(i)'
      BY <1>6, <1>8, SMTT(30) DEF Entered
    <3> QED
      BY <3>1, <1>6, <1>8 DEF Busy, Entered
  <2>2. me \in Busy' /\ Busy \subseteq Busy'
    BY <1>6, <2>1 DEF Busy
  <2>3. \A p \in Node : p # me /\ p \notin Busy => Running(p)'
    BY <1>3, OthersRunning
  <2> QED
    BY <1>4, <2>2, <2>3, SMTT(30) DEF Below
<1> QED
  BY <1>11, <1>13, <1>14, <1>15, <1>16, <1>17, Zenon DEF TreeInv

\* A node returns, and leaves itself and what is below it in order.
LEMMA PopStep ==
  ASSUME TreeInv, stack # <<>>, NEW S \in SUBSET KidSet(me), NEW D \in SUBSET KidSet(me), Others(S, D),
         \A d \in D : status[d] # "RUNNING",
         NEW s \in Returned, s # "SKIPPED" => status'[me] = s,
         stack' = SubSeq(stack, 1, Len(stack) - 1), ret' = s,
         goal' \in Goals, path' \in Paths,
         status' \in [Node -> Status], mem' \in [Node -> Member], hist' \in [Node -> Past],
         NEW n, n = me, Own(n)', Running(n)'
  PROVE  TreeInv'
<1>0. /\ TypeOK /\ Frames /\ InCalls /\ tree \in DOMAIN Trees /\ me \in Node /\ tree' = tree
  BY TopFacts DEF TreeInv, TypeOK, Others
<1> DEFINE L == Len(stack)
<1>4. /\ Node' = Node /\ Root' = Root /\ \A k : Above(k)' = Above(k)
  BY <1>0, SameTree
<1>6. L \in Nat /\ L >= 1 /\ DOMAIN stack = 1 .. L /\ L \in DOMAIN stack /\ stack \in Seq(Frame) /\ me = stack[L].node
  BY <1>0, TopFacts DEF TypeOK
<1>7. s # "none"
  BY DEF Returned
<1> HIDE DEF L
<1>8. /\ stack' \in Seq(Frame) /\ Len(stack') = L - 1 /\ DOMAIN stack' = 1 .. (L - 1)
      /\ \A i \in 1 .. (L - 1) : stack'[i] = stack[i] /\ i \in DOMAIN stack /\ i # L
  <2>1. stack' = SubSeq(stack, 1, L - 1)
    BY DEF L
  <2> QED
    BY <1>6, <2>1
<1>9. TypeOK'
  <2>1. Frame' = Frame
    BY <1>4 DEF Frame
  <2> QED
    BY <1>0, <1>4, <1>7, <1>8, <2>1 DEF TypeOK
<1>10. ASSUME NEW i \in 1 .. (L - 1), NEW g, g = stack[i] PROVE Calls(g)' /\ Current(g)' = Current(g)
  BY <1>8, <1>10, OthersCalls, Zenon DEF L
<1>11. Frames'
  <2>1. stack' # <<>> => stack'[1].node = Root
    <3>1. stack' # <<>> => 1 \in 1 .. (L - 1)
      BY <1>6, <1>8
    <3> QED
      BY <1>0, <1>8, <3>1 DEF Frames
  <2>2. ASSUME NEW i \in DOMAIN stack' PROVE Above(stack'[i].node) = {stack'[k].node : k \in 1 .. i}
    <3>1. Above(stack[i].node) = {stack[k].node : k \in 1 .. i}
      BY <1>0, <1>8, Zenon DEF Frames
    <3>2. \A k \in 1 .. i : stack'[k] = stack[k]
      <4>1. i \in 1 .. (L - 1)
        BY <1>8
      <4>2. \A k \in 1 .. i : k \in 1 .. (L - 1)
        BY <1>6, <4>1
      <4> QED
        BY <1>8, <4>2
    <3>3. stack'[i] = stack[i] /\ {stack'[k].node : k \in 1 .. i} = {stack[k].node : k \in 1 .. i}
      BY <1>8, <3>2
    <3> QED
      BY <3>1, <3>3, Zenon
  <2>3. ASSUME NEW i \in DOMAIN stack', i # 1, NEW g, g = stack'[i - 1] PROVE stack'[i].node = Current(g)'
    <3>1. i - 1 \in 1 .. (L - 1) /\ i \in DOMAIN stack /\ g = stack[i - 1]
      BY <1>6, <1>8, <2>3
    <3>2. stack[i].node = Current(g)
      BY <1>0, <2>3, <3>1, Zenon DEF Frames
    <3> QED
      BY <1>8, <1>10, <3>1, <3>2
  <2>4. \A i \in DOMAIN stack' : i # 1 => stack'[i].node = Current(stack[i - 1])'
    BY <2>3, Zenon DEF Current, At
  <2> QED
    BY <1>4, <1>7, <2>1, <2>2, <2>4, Zenon DEF Frames
<1>12. InCalls'
  <2>1. ASSUME NEW i \in DOMAIN stack', NEW g, g = stack'[i] PROVE Calls(g)'
    BY <1>8, <1>10, <2>1
  <2> QED
    BY <2>1, Zenon DEF InCalls, Calls, At
<1>13. Answered'
  <2> SUFFICES ASSUME stack' # <<>>, s # "SKIPPED" PROVE status'[Current(top)'] = s
    BY DEF Answered
  <2>1. L - 1 \in 1 .. (L - 1) /\ L # 1
    BY <1>6, <1>8
  <2>2. PICK g : g = stack[L - 1]
    OBVIOUS
  <2>3. top' = g
    BY <1>8, <2>1, <2>2 DEF top
  <2>4. Current(g) = me
    BY <1>0, <1>6, <2>1, <2>2, SMTT(30) DEF Frames
  <2>5. Current(g)' = me
    BY <1>10, <2>1, <2>2, <2>4
  <2>6. Current(top)' = me
    BY <2>3, <2>5, Zenon DEF Current, At
  <2> QED
    BY <2>6
<1>14. Owns'
  <2>1. \A k \in Node : Own(k)'
    BY OthersOwn
  <2> QED
    BY <1>4, <2>1 DEF Owns
<1>15. Below'
  <2>1. \A i \in 1 .. (L - 1) : stack[i].node \in Busy'
    <3> SUFFICES ASSUME NEW i \in 1 .. (L - 1) PROVE stack'[i].node \in Busy'
      BY <1>8
    <3>1. Entered(i)'
      BY <1>7, <1>8 DEF Entered
    <3> QED
      BY <3>1, <1>8, Zenon DEF Busy, Entered
  <2>2. \A i \in DOMAIN stack : i = L \/ i \in 1 .. (L - 1)
    BY <1>6
  <2>3. \A p \in Busy : p = me \/ p \in Busy'
    BY <1>6, <2>1, <2>2, Zenon DEF Busy
  <2>4. \A p \in Node : p # me /\ p \notin Busy => Running(p)'
    BY OthersRunning
  <2> QED
    BY <1>4, <2>3, <2>4 DEF Below
<1> QED
  BY <1>9, <1>11, <1>12, <1>13, <1>14, <1>15 DEF TreeInv

\* What a return leaves running below the node.
Leaves(s, S) ==
  \/ s = "RUNNING" \/ Kind(me) \in LetsGo
  \/ s = "SKIPPED" /\ Kind(me) \notin {"RecoveryNode", "RoundRobin"} /\ status[me] = "RUNNING"
  \/ \A c \in KidSet(me) \ S : status[c] # "RUNNING"

\* A control node or a decorator returns.
LEMMA ReturnStep ==
  ASSUME TreeInv, stack # <<>>, NEW S \in SUBSET KidSet(me), NEW m, NEW h, Fits(S, m, h),
         NEW s \in Returned, Leaves(s, S),
         Return(s, S, m), History(S, h)
  PROVE  TreeInv'
<1>0. /\ TypeOK /\ Frames /\ InCalls /\ tree \in DOMAIN Trees /\ me \in Node /\ m \in Member /\ h \in Past
  BY TopFacts, Zenon DEF TreeInv, TypeOK, Fits
<1> DEFINE D == {c \in KidSet(me) : Len(Kids(me)) = 1 /\ status[c] \in Completed}
           r == IF s # "SKIPPED" THEN s
                ELSE IF Kind(me) \in {"RecoveryNode", "RoundRobin"} THEN "IDLE" ELSE HaltStatus(HaltedFrom(S), S \cup D)[me]
<1>1. /\ stack' = SubSeq(stack, 1, Len(stack) - 1) /\ ret' = s /\ UNCHANGED <<tree, goal>>
      /\ status' = [HaltStatus(HaltedFrom(S), S \cup D) EXCEPT ![me] = r]
      /\ mem' = [HaltMem(HaltedFrom(S)) EXCEPT ![me] = m]
      /\ hist' = [HaltHist(HaltedFrom(S)) EXCEPT ![me] = h] /\ path' = HaltPath(HaltedFrom(S))
  BY DEF Return, History
<1>2. D \in SUBSET KidSet(me) /\ \A d \in D : status[d] # "RUNNING"
  BY DEF Completed
<1>3. r \in Status /\ (s # "SKIPPED" => r = s)
      /\ (s = "SKIPPED" /\ Kind(me) \notin {"RecoveryNode", "RoundRobin"} => r = status[me])
  <2>1. HaltStatus(HaltedFrom(S), S \cup D)[me] = status[me] /\ status[me] \in Status
    BY <1>0, <1>2, MeKept, Zenon DEF TypeOK
  <2> QED
    BY <2>1 DEF Status, Returned
<1> HIDE DEF D, r
<1>4. /\ Others(S, D) /\ status'[me] = r /\ mem'[me] = m /\ hist'[me] = h
      /\ goal' \in Goals /\ path' \in Paths
      /\ status' \in [Node -> Status] /\ mem' \in [Node -> Member] /\ hist' \in [Node -> Past]
  BY <1>0, <1>1, <1>2, <1>3, Effects, Zenon
<1>5. PICK n : n = me
  OBVIOUS
<1>6. Own(n)'
  BY <1>2, <1>4, <1>5, MeOwn
<1>7. Running(n)'
  <2>1. Kind(n)' = Kind(n) /\ KidSet(n)' = KidSet(n)
    BY <1>1, SameTree
  <2>2. ASSUME NEW c \in KidSet(n), status'[c] = "RUNNING" PROVE status'[n] = "RUNNING" \/ Kind(n) \in LetsGo
    <3>1. c \in Node /\ c # me
      BY <1>0, <1>5, TreeFacts
    <3>2. c \notin S /\ status[c] = "RUNNING"
      BY <1>4, <2>2, <3>1, Zenon DEF Others
    <3> QED
      BY <1>3, <1>4, <1>5, <2>2, <3>2 DEF Leaves
  <2> QED
    BY <2>1, <2>2 DEF Running
<1> QED
  BY <1>1, <1>2, <1>3, <1>4, <1>5, <1>6, <1>7, PopStep, Zenon

\* A leaf returns.
LEMMA LeafReturns ==
  ASSUME TreeInv, stack # <<>>, KidSet(me) = {}, Kind(me) \notin Controls \cup Decorators,
         NEW s \in {"RUNNING", "SUCCESS", "FAILURE"}, NEW m \in Member, NEW p \in Paths,
         Kind(me) = "Service" /\ m.flag => s = "RUNNING",
         Leaf(s, m, p)
  PROVE  TreeInv'
<1>0. /\ TypeOK /\ Frames /\ tree \in DOMAIN Trees /\ me \in Node /\ tree' = tree
  BY TopFacts, SMTT(30) DEF TreeInv, TypeOK, Leaf
<1>1. Others({}, {})
  <2>1. HaltedFrom({}) = {}
    BY DEF HaltedFrom
  <2>2. \A n \in Node : n # me => mem'[n] = mem[n] /\ status'[n] = status[n] /\ hist'[n] = hist[n]
    BY <1>0 DEF Leaf, TypeOK
  <2> QED
    BY <1>0, <2>1, <2>2 DEF Others
<1>2. status'[me] = s /\ mem'[me] = m /\ ret' = s /\ stack' = SubSeq(stack, 1, Len(stack) - 1)
  BY <1>0 DEF Leaf, TypeOK
<1>3. /\ goal' \in Goals /\ path' \in Paths
      /\ status' \in [Node -> Status] /\ mem' \in [Node -> Member] /\ hist' \in [Node -> Past]
  BY <1>0 DEF Leaf, TypeOK, Status
<1>4. PICK n : n = me
  OBVIOUS
<1>5. Kind(n)' = Kind(n) /\ KidSet(n)' = KidSet(n)
  BY <1>0, SameTree, Zenon
<1>6. Own(n)'
  BY <1>2, <1>4, <1>5, Zenon DEF Own, Controls, Decorators, Remembering
<1>7. Running(n)'
  BY <1>4, <1>5 DEF Running
<1>8. {} \in SUBSET KidSet(me) /\ \A d \in {} : status[d] # "RUNNING"
  OBVIOUS
<1> QED
  BY <1>1, <1>2, <1>3, <1>4, <1>6, <1>7, <1>8, PopStep DEF Returned
===============================================================================
