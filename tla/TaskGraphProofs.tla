-------------------------- MODULE TaskGraphProofs ---------------------------
(***************************************************************************)
(* Proofs about the three searches of the task graph, for any number of    *)
(* tasks and edges: get_ancestors, validate_dag and visualize.             *)
(***************************************************************************)
EXTENDS TaskGraph, FiniteSetTheorems, TLAPS

-----------------------------------------------------------------------------
(* get_ancestors.                                                          *)

\* A closure is the smallest closed set.
Closed(D, f) == \A n \in D : f[n] \subseteq D

\* Closure is the smallest closed set around S.
LEMMA ClosureIsSmallest ==
    ASSUME NEW S \in SUBSET Nodes, NEW f \in [Nodes -> SUBSET Nodes]
    PROVE  /\ Closure(S, f) \in SUBSET Nodes
           /\ S \subseteq Closure(S, f) /\ Closed(Closure(S, f), f)
           /\ \A D \in SUBSET Nodes :
                S \subseteq D /\ Closed(D, f) => Closure(S, f) \subseteq D
<1> DEFINE Smallest(X) ==
        /\ S \subseteq X /\ \A n \in X : f[n] \subseteq X
        /\ \A D \in SUBSET Nodes :
            (S \subseteq D /\ \A n \in D : f[n] \subseteq D) => X \subseteq D
           C == {m \in Nodes : \A D \in SUBSET Nodes :
                    (S \subseteq D /\ \A n \in D : f[n] \subseteq D) => m \in D}
<1>1. Smallest(C) /\ C \in SUBSET Nodes
  OBVIOUS
<1>2. Closure(S, f) = CHOOSE X \in SUBSET Nodes : Smallest(X)
  BY DEF Closure, Nodes
<1> HIDE DEF Smallest, C
<1>3. Smallest(Closure(S, f)) /\ Closure(S, f) \in SUBSET Nodes
  BY <1>1, <1>2
<1> QED BY <1>3 DEF Smallest, Closed

GraphInv ==
    /\ created \in Nat /\ Tasks \subseteq Nodes
    /\ preconditions \in [Nodes -> SUBSET Nodes]
    /\ children \in [Nodes -> Seq(Nodes)]
    /\ call # NoCall => call.self \in Nodes /\ call.node \in Nodes

\* The types of the graph and of the call are inductive.
LEMMA GraphInvStep == GraphInv /\ [GraphNext]_graphVars => GraphInv'
<1> SUFFICES ASSUME GraphInv, [GraphNext]_graphVars PROVE GraphInv'
  OBVIOUS
<1> USE GraphAssumption DEF GraphInv, Tasks, Nodes
<1>1. ASSUME NEW pre \in SUBSET Tasks, Create(pre) PROVE GraphInv'
  BY <1>1 DEF Create
<1>2. ASSUME NEW self \in Tasks, NEW node \in Tasks, AddChild(self, node)
      PROVE  GraphInv'
  BY <1>2 DEF AddChild, graph
<1>3. CASE AddChildReturns
  <2>1. call.self \in Nodes /\ call.node \in Nodes
    BY <1>3 DEF AddChildReturns, NoCall
  <2>2. children' \in [Nodes -> Seq(Nodes)]
    BY <2>1, <1>3 DEF AddChildReturns
  <2> QED BY <2>2, <1>3 DEF AddChildReturns
<1>4. ASSUME NEW self \in Tasks, ValidateDag(self) \/ Visualize(self)
      PROVE  GraphInv'
  <2>1. CASE ValidateDag(self)
    BY <2>1 DEF ValidateDag, graph
  <2>2. CASE Visualize(self)
    BY <2>2 DEF Visualize, graph
  <2> QED BY <1>4, <2>1, <2>2
<1>5. CASE PopAncestor \/ PopNode \/ DrawNode
  BY <1>5 DEF PopAncestor, PopNode, DrawNode, graph
<1>6. CASE ValidateDagReturns \/ ValidateDagRaises \/ VisualizeReturns
  BY <1>6 DEF ValidateDagReturns, ValidateDagRaises, VisualizeReturns,
     Finish, graph
<1>7. CASE UNCHANGED graphVars
  BY <1>7 DEF graphVars
<1> QED BY <1>1, <1>2, <1>3, <1>4, <1>5, <1>6, <1>7 DEF GraphNext, Loops

-----------------------------------------------------------------------------
(* get_ancestors.  The stack holds only what was found; what was popped    *)
(* has its preconditions in the result; and the result is in every set it  *)
(* has to be in.                                                           *)

AncestorsInv ==
    call.method = "add_child" =>
        /\ ancestors \subseteq Nodes
        /\ work \subseteq {call.self} \cup ancestors
        /\ \A n \in ({call.self} \cup ancestors) \ work : preconditions[n] \subseteq ancestors
        /\ \A D \in SUBSET Nodes :
            preconditions[call.self] \subseteq D /\ Closed(D, preconditions)
                => ancestors \subseteq D

\* Taking a task off the queue keeps the part of the ancestors that was seen.
LEMMA PopAncestorInv ==
    ASSUME GraphInv, AncestorsInv, PopAncestor
    PROVE  AncestorsInv'
<1> USE DEF GraphInv
<1>1. /\ call.method = "add_child" /\ call.self \in Nodes
      /\ UNCHANGED <<preconditions, call>>
  BY DEF PopAncestor, graph, NoCall
<1> PICK n \in work : /\ ancestors' = ancestors \cup NotSeen(n)
                      /\ work' = Pending(n)
  BY DEF PopAncestor
<1>2. ancestors' = ancestors \cup preconditions[n]
  BY DEF NotSeen
<1>3. n \in {call.self} \cup ancestors /\ n \in Nodes
  BY <1>1 DEF AncestorsInv
<1>4. work' \subseteq {call.self} \cup ancestors'
  BY <1>1, <1>2 DEF AncestorsInv, Pending, NotSeen
<1>5. ASSUME NEW m \in ({call.self} \cup ancestors') \ work'
      PROVE  preconditions[m] \subseteq ancestors'
  <2>1. CASE m = n
    BY <2>1, <1>2
  <2>2. CASE m # n
    <3>1. m \in ({call.self} \cup ancestors) \ work
      BY <1>5, <2>2, <1>2 DEF Pending, NotSeen
    <3> QED BY <3>1, <1>1, <1>2 DEF AncestorsInv
  <2> QED BY <2>1, <2>2
<1>6. ASSUME NEW D \in SUBSET Nodes, preconditions[call.self] \subseteq D,
             Closed(D, preconditions)
      PROVE  ancestors' \subseteq D
  <2>1. ancestors \subseteq D
    BY <1>1, <1>6 DEF AncestorsInv
  <2>2. preconditions[n] \subseteq D
    BY <2>1, <1>3, <1>6 DEF Closed
  <2> QED BY <2>1, <2>2, <1>2
<1>7. ancestors' \subseteq Nodes
  BY <1>1, <1>2, <1>3 DEF AncestorsInv
<1> QED BY <1>1, <1>4, <1>5, <1>6, <1>7 DEF AncestorsInv, Closed

\* The invariant of get_ancestors is inductive.
LEMMA AncestorsStep == GraphInv /\ AncestorsInv /\ [GraphNext]_graphVars => AncestorsInv'
<1> SUFFICES ASSUME GraphInv, AncestorsInv, [GraphNext]_graphVars PROVE AncestorsInv'
  OBVIOUS
<1>1. ASSUME NEW self \in Tasks, NEW node \in Tasks, AddChild(self, node)
      PROVE  AncestorsInv'
  BY <1>1 DEF AddChild, AncestorsInv, GraphInv
<1>2. ASSUME call'.method # "add_child" PROVE AncestorsInv'
  BY <1>2 DEF AncestorsInv
<1>3. ASSUME NEW pre \in SUBSET Tasks, Create(pre) PROVE AncestorsInv'
  BY <1>2, <1>3 DEF Create, NoCall
<1>4. CASE AddChildReturns \/ PopNode \/ DrawNode
  BY <1>2, <1>4 DEF AddChildReturns, PopNode, DrawNode, NoCall
<1>5. ASSUME NEW self \in Tasks, ValidateDag(self) \/ Visualize(self)
      PROVE  AncestorsInv'
  BY <1>2, <1>5 DEF ValidateDag, Visualize
<1>6. CASE ValidateDagReturns \/ ValidateDagRaises \/ VisualizeReturns
  BY <1>2, <1>6 DEF ValidateDagReturns, ValidateDagRaises,
     VisualizeReturns, Finish, NoCall
<1>7. CASE UNCHANGED graphVars
  BY <1>7 DEF graphVars, AncestorsInv, Closed
<1> QED BY <1>1, <1>3, <1>4, <1>5, <1>6, <1>7, PopAncestorInv DEF GraphNext, Loops

\* When add_child looks at what get_ancestors has returned, it is the smallest
\* set that holds the preconditions of the task and of every task in it.
THEOREM AncestorsAreComputed == GraphSpec => []AncestorsAreAll
<1>1. GraphInit => GraphInv /\ AncestorsInv
  BY GraphAssumption DEF GraphInit, GraphInv, AncestorsInv, NoCall,
     Tasks, Nodes
<1>2. GraphInv /\ AncestorsInv => AncestorsAreAll
  <2> SUFFICES ASSUME GraphInv, AncestorsInv, call.method = "add_child", work = {}
               PROVE  ancestors = Closure(preconditions[call.self], preconditions)
    BY DEF AncestorsAreAll
  <2>1. /\ preconditions[call.self] \in SUBSET Nodes
        /\ preconditions \in [Nodes -> SUBSET Nodes]
    BY DEF GraphInv, NoCall
  <2>2. preconditions[call.self] \subseteq ancestors /\ Closed(ancestors, preconditions)
    BY DEF AncestorsInv, Closed
  <2>3. ancestors \in SUBSET Nodes
    BY DEF AncestorsInv
  <2> DEFINE C == Closure(preconditions[call.self], preconditions)
  <2>4. /\ C \in SUBSET Nodes /\ preconditions[call.self] \subseteq C
        /\ Closed(C, preconditions)
        /\ preconditions[call.self] \subseteq ancestors /\ Closed(ancestors, preconditions)
            => C \subseteq ancestors
    BY <2>1, <2>3, ClosureIsSmallest
  <2> HIDE DEF C
  <2>5. ancestors \subseteq C
    BY <2>4 DEF AncestorsInv
  <2>6. ancestors = C
    BY <2>2, <2>4, <2>5
  <2> QED BY <2>6 DEF C
<1> QED BY <1>1, <1>2, GraphInvStep, AncestorsStep, PTL DEF GraphSpec

-----------------------------------------------------------------------------
(* validate_dag.                                                           *)

Kids == [m \in Nodes |-> Children(m)]

Below == Closure({call.self}, Kids)

Entries == [node : Nodes, path : SUBSET Nodes]

\* An entry of the stack is there for a child c of m, while m is on its path.
Waits(m, c) == \E i \in DOMAIN stack : stack[i].node = c /\ m \in stack[i].path

PathsInv ==
    /\ \A i \in DOMAIN stack :
        /\ stack[i].node \in Below
        /\ stack[i].path \subseteq Below /\ stack[i].path \subseteq visited
        /\ \A m \in stack[i].path :
            Children(m) \cap (stack[i].path \cup {stack[i].node}) # {}
    /\ \A i, j \in DOMAIN stack : i <= j => stack[i].path \subseteq stack[j].path

ChildrenInv ==
    \A m \in visited : \A c \in Children(m) :
        \/ Waits(m, c)
        \/ c \in visited /\ \A i \in DOMAIN stack : c \in stack[i].path => m \in stack[i].path

NoCycleInv ==
    \A S \in SUBSET visited :
        S # {} => \E m \in S : \A c \in Children(m) \cap S : Waits(m, c)

DagInv ==
    call.method = "validate_dag" =>
        /\ stack \in Seq(Entries) /\ visited \subseteq Nodes
        /\ call.self \in visited \/ \E i \in DOMAIN stack : stack[i].node = call.self
        /\ PathsInv /\ ChildrenInv /\ NoCycleInv

\* What is below the task of the call is closed under children, and smallest.
LEMMA BelowIsClosed ==
    ASSUME GraphInv, call.self \in Nodes
    PROVE  /\ \A m \in Nodes : Children(m) \subseteq Nodes
           /\ Below \in SUBSET Nodes /\ call.self \in Below
           /\ \A m \in Below : Children(m) \subseteq Below
           /\ \A D \in SUBSET Nodes :
                call.self \in D /\ (\A m \in D : Children(m) \subseteq D) => Below \subseteq D
<1>1. \A m \in Nodes : Children(m) \in SUBSET Nodes
  BY DEF GraphInv, Children
<1>2. Kids \in [Nodes -> SUBSET Nodes] /\ \A m \in Nodes : Kids[m] = Children(m)
  BY <1>1 DEF Kids
<1>3. {call.self} \in SUBSET Nodes
  OBVIOUS
<1>4. /\ Below \in SUBSET Nodes /\ {call.self} \subseteq Below /\ Closed(Below, Kids)
      /\ \A D \in SUBSET Nodes : {call.self} \subseteq D /\ Closed(D, Kids) => Below \subseteq D
  BY <1>2, <1>3, ClosureIsSmallest DEF Below
<1> QED BY <1>1, <1>2, <1>4 DEF Closed

\* What a loop leaves of its stack s when it pops the top, at L, and pushes k.
Shape(s, L, k, q) ==
    /\ \A j \in DOMAIN q : \/ j \in 1..(L - 1) /\ q[j] = s[j]
                           \/ j >= L /\ \E i \in DOMAIN k : q[j] = k[i]
    /\ \A j \in 1..(L - 1) : j \in DOMAIN s /\ j \in DOMAIN q /\ q[j] = s[j]
    /\ \A i \in DOMAIN k : \E j \in DOMAIN q : q[j] = k[i]

\* What a stack looks like when its top is replaced by several entries.
LEMMA PopAndPush ==
    ASSUME NEW S, NEW s \in Seq(S), s # <<>>, NEW k \in Seq(S)
    PROVE  /\ SubSeq(s, 1, Len(s) - 1) \o k \in Seq(S)
           /\ Shape(s, Len(s), k, SubSeq(s, 1, Len(s) - 1) \o k)
<1>1. Len(s) \in Nat \ {0} /\ DOMAIN s = 1..Len(s) /\ Len(k) \in Nat /\ DOMAIN k = 1..Len(k)
  OBVIOUS
<1> DEFINE p == SubSeq(s, 1, Len(s) - 1)
           q == p \o k
<1>2. p \in Seq(S) /\ Len(p) = Len(s) - 1 /\ \A j \in 1..(Len(s) - 1) : p[j] = s[j]
  BY <1>1
<1> HIDE DEF p
<1>3. /\ q \in Seq(S) /\ Len(q) = Len(p) + Len(k) /\ DOMAIN q = 1..Len(q)
      /\ \A j \in 1..(Len(p) + Len(k)) : q[j] = IF j <= Len(p) THEN p[j] ELSE k[j - Len(p)]
  BY <1>2
<1> SUFFICES Shape(s, Len(s), k, q)
  BY <1>3 DEF p
<1>4. ASSUME NEW j \in DOMAIN q
      PROVE  \/ j \in 1..(Len(s) - 1) /\ q[j] = s[j]
             \/ j >= Len(s) /\ \E i \in DOMAIN k : q[j] = k[i]
  <2>1. CASE j <= Len(p)
    BY <2>1, <1>1, <1>2, <1>3
  <2>2. CASE j > Len(p)
    <3>1. j - Len(p) \in DOMAIN k /\ q[j] = k[j - Len(p)]
      BY <2>2, <1>1, <1>2, <1>3
    <3> QED BY <3>1, <2>2, <1>1, <1>2, <1>3
  <2> QED BY <2>1, <2>2, <1>1, <1>2, <1>3
<1>5. ASSUME NEW i \in DOMAIN k PROVE \E j \in DOMAIN q : q[j] = k[i]
  <2>1. Len(p) + i \in DOMAIN q /\ q[Len(p) + i] = k[i]
    BY <1>1, <1>2, <1>3
  <2> QED BY <2>1
<1>6. \A j \in 1..(Len(s) - 1) : j \in DOMAIN s /\ j \in DOMAIN q /\ q[j] = s[j]
  BY <1>1, <1>2, <1>3
<1> HIDE DEF q
<1> QED BY <1>4, <1>5, <1>6, Zenon DEF Shape

\* A task that was not visited: its children go on the stack.
LEMMA PushInv ==
    ASSUME GraphInv, DagInv, PopNode, Top.node \notin visited
    PROVE  DagInv'
<1>1. /\ call.method = "validate_dag" /\ stack # <<>> /\ call.self \in Nodes
      /\ UNCHANGED <<children, call>>
  BY DEF PopNode, graph, GraphInv, NoCall
<1>2. /\ stack \in Seq(Entries) /\ visited \subseteq Nodes
      /\ call.self \in visited \/ \E i \in DOMAIN stack : stack[i].node = call.self
      /\ PathsInv /\ ChildrenInv /\ NoCycleInv
  BY <1>1 DEF DagInv
<1> PICK L \in Nat \ {0} : L = Len(stack) /\ DOMAIN stack = 1..L
  BY <1>1, <1>2
<1> PICK n, P : n = stack[L].node /\ P = stack[L].path
  OBVIOUS
<1>3. L \in DOMAIN stack /\ stack[L] \in Entries /\ n \in Nodes /\ P \in SUBSET Nodes
  <2>1. L \in DOMAIN stack /\ stack[L] \in Entries
    BY <1>2
  <2> QED BY <2>1 DEF Entries
<1>4. /\ n \notin P /\ n \notin visited /\ visited' = visited \cup {n}
      /\ stack' = Popped \o PushChildren(stack[L])
  BY DEF PopNode, Top, OnPath
<1>5. children[n] \in Seq(Nodes) /\ P \cup {n} \in SUBSET Nodes
  BY <1>3 DEF GraphInv
<1> DEFINE k == [i \in DOMAIN children[n] |-> [node |-> children[n][i], path |-> P \cup {n}]]
<1>6. /\ \A i \in DOMAIN children[n] : [node |-> children[n][i], path |-> P \cup {n}] \in Entries
      /\ Len(children[n]) \in Nat /\ DOMAIN children[n] = 1..Len(children[n])
  BY <1>5 DEF Entries
<1>7. k \in Seq(Entries)
  BY <1>6
<1>8. /\ \A i \in DOMAIN k : k[i].node \in Children(n) /\ k[i].path = P \cup {n}
      /\ \A c \in Children(n) : \E i \in DOMAIN k : k[i].node = c
  BY DEF Children
<1>9. stack' = SubSeq(stack, 1, Len(stack) - 1) \o k
  BY <1>4 DEF Popped, PushChildren
<1> HIDE DEF k
<1>10. stack' \in Seq(Entries) /\ Shape(stack, L, k, stack')
  BY <1>1, <1>2, <1>7, <1>9, PopAndPush, Zenon
<1>11. /\ \A j \in DOMAIN stack' :
            \/ j \in 1..(L - 1) /\ stack'[j] = stack[j]
            \/ j >= L /\ \E i \in DOMAIN k : stack'[j] = k[i]
       /\ \A j \in 1..(L - 1) : j \in DOMAIN stack /\ j \in DOMAIN stack' /\ stack'[j] = stack[j]
       /\ \A i \in DOMAIN k : \E j \in DOMAIN stack' : stack'[j] = k[i]
  BY <1>10, Zenon DEF Shape
<1>12. \A j \in DOMAIN stack' :
            \/ j \in 1..(L - 1) /\ stack'[j] = stack[j]
            \/ j >= L /\ stack'[j].node \in Children(n) /\ stack'[j].path = P \cup {n}
  BY <1>8, <1>11
<1>13. \A j \in 1..(L - 1) : j \in DOMAIN stack /\ j \in DOMAIN stack' /\ stack'[j] = stack[j]
  BY <1>11, Zenon
<1>14. \A c \in Children(n) :
            \E j \in DOMAIN stack' : stack'[j].node = c /\ stack'[j].path = P \cup {n}
  BY <1>8, <1>11
<1>15. /\ \A m : Children(m)' = Children(m)
       /\ Below' = Below
  BY <1>1 DEF Children, Below, Kids, Closure
<1>16. \A m \in Nodes : Children(m) \subseteq Nodes
  BY <1>1, BelowIsClosed
<1>17. \A m \in Below : Children(m) \subseteq Below
  BY <1>1, BelowIsClosed
<1>18. ASSUME NEW c \in Children(n) PROVE Waits(n, c)'
  <2> PICK j \in DOMAIN stack' : stack'[j].node = c /\ stack'[j].path = P \cup {n}
    BY <1>14, Zenon
  <2> QED BY DEF Waits
<1>19. ASSUME NEW m, NEW c, Waits(m, c), c # n PROVE Waits(m, c)'
  <2> PICK i \in DOMAIN stack : stack[i].node = c /\ m \in stack[i].path
    BY <1>19 DEF Waits
  <2>1. i \in 1..(L - 1)
    BY <1>19
  <2> QED BY <2>1, <1>13 DEF Waits
<1>20. PathsInv'
  <2>1. ASSUME NEW j \in DOMAIN stack'
        PROVE  /\ stack'[j].node \in Below
               /\ stack'[j].path \subseteq Below /\ stack'[j].path \subseteq visited'
               /\ \A m \in stack'[j].path :
                    Children(m) \cap (stack'[j].path \cup {stack'[j].node}) # {}
    <3>1. CASE j \in 1..(L - 1) /\ stack'[j] = stack[j]
      BY <3>1, <1>2, <1>4, <1>13 DEF PathsInv
    <3>2. CASE stack'[j].node \in Children(n) /\ stack'[j].path = P \cup {n}
      <4>1. /\ n \in Below /\ P \subseteq Below /\ P \subseteq visited
            /\ \A m \in P : Children(m) \cap (P \cup {n}) # {}
        BY <1>2, <1>3 DEF PathsInv
      <4> QED BY <3>2, <4>1, <1>4, <1>17
    <3> QED BY <2>1, <3>1, <3>2, <1>12
  <2>2. ASSUME NEW i \in DOMAIN stack', NEW j \in DOMAIN stack', i <= j
        PROVE  stack'[i].path \subseteq stack'[j].path
    <3>1. ASSUME NEW l \in 1..(L - 1) PROVE stack[l].path \subseteq P
      <4>1. l \in DOMAIN stack /\ L \in DOMAIN stack /\ l <= L
        OBVIOUS
      <4>2. stack[l].path \subseteq stack[L].path
        BY <4>1, <1>2, Zenon DEF PathsInv
      <4> QED BY <4>2
    <3>2. CASE i \in 1..(L - 1) /\ j \in 1..(L - 1)
      BY <3>2, <2>2, <1>2, <1>13 DEF PathsInv
    <3>3. CASE i \in 1..(L - 1) /\ j >= L
      BY <3>1, <3>3, <1>12, <1>13
    <3>4. CASE i >= L
      <4>1. j >= L
        BY <3>4, <2>2, <1>10
      <4> QED BY <3>4, <4>1, <1>12
    <3>5. i \in 1..(L - 1) \/ i >= L
      BY <1>12
    <3>6. j \in 1..(L - 1) \/ j >= L
      BY <1>12
    <3> QED BY <3>2, <3>3, <3>4, <3>5, <3>6
  <2> QED BY <2>1, <2>2, <1>15, Zenon DEF PathsInv
<1>21. ChildrenInv'
  <2> SUFFICES ASSUME NEW m \in visited', NEW c \in Children(m), ~Waits(m, c)'
               PROVE  /\ c \in visited'
                      /\ \A j \in DOMAIN stack' : c \in stack'[j].path => m \in stack'[j].path
    BY <1>15, Zenon DEF ChildrenInv
  <2>1. m \in visited
    BY <1>4, <1>18
  <2>2. CASE Waits(m, c)
    <3>1. c = n
      BY <2>2, <1>19
    <3> PICK i \in DOMAIN stack : stack[i].node = c /\ m \in stack[i].path
      BY <2>2 DEF Waits
    <3>2. m \in P
      BY <1>2, <1>3 DEF PathsInv
    <3>3. \A j \in 1..(L - 1) : n \notin stack[j].path
      BY <1>2, <1>4, <1>13 DEF PathsInv
    <3>4. ASSUME NEW j \in DOMAIN stack', c \in stack'[j].path PROVE m \in stack'[j].path
      <4>1. stack'[j].path = P \cup {n}
        BY <3>1, <3>3, <3>4, <1>12
      <4> QED BY <4>1, <3>2
    <3> QED BY <3>1, <3>4, <1>4
  <2>3. CASE ~Waits(m, c)
    <3>1. /\ c \in visited
          /\ \A i \in DOMAIN stack : c \in stack[i].path => m \in stack[i].path
      BY <2>1, <2>3, <1>2 DEF ChildrenInv
    <3>2. c \in P => m \in P
      BY <3>1, <1>3
    <3>3. ASSUME NEW j \in DOMAIN stack', c \in stack'[j].path PROVE m \in stack'[j].path
      <4>1. CASE j \in 1..(L - 1) /\ stack'[j] = stack[j]
        BY <4>1, <3>1, <3>3, <1>13
      <4>2. CASE stack'[j].path = P \cup {n}
        BY <4>2, <3>1, <3>2, <3>3, <1>4
      <4> QED BY <4>1, <4>2, <1>12
    <3> QED BY <3>1, <3>3, <1>4
  <2> QED BY <2>2, <2>3
<1>22. NoCycleInv'
  <2> SUFFICES ASSUME NEW S \in SUBSET visited', S # {}
               PROVE  \E m \in S : \A c \in Children(m) \cap S : Waits(m, c)'
    BY <1>15, Zenon DEF NoCycleInv
  <2>1. CASE n \in S
    BY <2>1, <1>18
  <2>2. CASE n \notin S
    <3>1. S \in SUBSET visited
      BY <2>2, <1>4
    <3> PICK m \in S : \A c \in Children(m) \cap S : Waits(m, c)
      BY <3>1, <1>2 DEF NoCycleInv
    <3> QED BY <2>2, <1>19
  <2> QED BY <2>1, <2>2
<1>23. call.self \in visited' \/ \E j \in DOMAIN stack' : stack'[j].node = call.self
  <2>1. CASE call.self \in visited
    BY <2>1, <1>4
  <2>2. ASSUME NEW i \in DOMAIN stack, stack[i].node = call.self
        PROVE  call.self \in visited' \/ \E j \in DOMAIN stack' : stack'[j].node = call.self
    <3>1. CASE i = L
      BY <2>2, <3>1, <1>4
    <3>2. CASE i \in 1..(L - 1)
      BY <2>2, <3>2, <1>13
    <3> QED BY <3>1, <3>2
  <2> QED BY <2>1, <2>2, <1>2
<1> QED BY <1>1, <1>3, <1>2, <1>4, <1>10, <1>20, <1>21, <1>22, <1>23 DEF DagInv

\* A task that was visited, and is on no path of the stack, is only popped.
LEMMA SkipInv ==
    ASSUME GraphInv, DagInv, PopNode, Top.node \in visited
    PROVE  DagInv'
<1>1. /\ call.method = "validate_dag" /\ stack # <<>> /\ call.self \in Nodes
      /\ UNCHANGED <<children, call>>
  BY DEF PopNode, graph, GraphInv, NoCall
<1>2. /\ stack \in Seq(Entries) /\ visited \subseteq Nodes
      /\ call.self \in visited \/ \E i \in DOMAIN stack : stack[i].node = call.self
      /\ PathsInv /\ ChildrenInv /\ NoCycleInv
  BY <1>1 DEF DagInv
<1> PICK L \in Nat \ {0} : L = Len(stack) /\ DOMAIN stack = 1..L
  BY <1>1, <1>2
<1> PICK n, P : n = stack[L].node /\ P = stack[L].path
  OBVIOUS
<1>3. n \notin P /\ n \in visited /\ visited' = visited /\ stack' = Popped
  BY DEF PopNode, Top, OnPath
<1>4. stack' \in Seq(Entries) /\ DOMAIN stack' = 1..(L - 1)
  BY <1>2, <1>3 DEF Popped
<1>5. \A j \in 1..(L - 1) : j \in DOMAIN stack /\ stack'[j] = stack[j]
  BY <1>2, <1>3 DEF Popped
<1>6. /\ \A m : Children(m)' = Children(m)
      /\ Below' = Below
  BY <1>1 DEF Children, Below, Kids, Closure
<1>7. ASSUME NEW m, NEW c, Waits(m, c), c # n PROVE Waits(m, c)'
  <2> PICK i \in DOMAIN stack : stack[i].node = c /\ m \in stack[i].path
    BY <1>7 DEF Waits
  <2>1. i \in 1..(L - 1)
    BY <1>7
  <2> QED BY <2>1, <1>4, <1>5 DEF Waits
<1>8. \A j \in DOMAIN stack : n \notin stack[j].path
  BY <1>2, <1>3 DEF PathsInv
<1>9. PathsInv'
  <2>1. ASSUME NEW j \in DOMAIN stack'
        PROVE  /\ stack'[j].node \in Below
               /\ stack'[j].path \subseteq Below /\ stack'[j].path \subseteq visited'
               /\ \A m \in stack'[j].path :
                    Children(m) \cap (stack'[j].path \cup {stack'[j].node}) # {}
    BY <1>2, <1>3, <1>4, <1>5 DEF PathsInv
  <2>2. ASSUME NEW i \in DOMAIN stack', NEW j \in DOMAIN stack', i <= j
        PROVE  stack'[i].path \subseteq stack'[j].path
    BY <2>2, <1>2, <1>4, <1>5 DEF PathsInv
  <2> QED BY <2>1, <2>2, <1>6, Zenon DEF PathsInv
<1>10. ChildrenInv'
  <2> SUFFICES ASSUME NEW m \in visited, NEW c \in Children(m), ~Waits(m, c)'
               PROVE  /\ c \in visited
                      /\ \A j \in DOMAIN stack' : c \in stack'[j].path => m \in stack'[j].path
    BY <1>3, <1>6, Zenon DEF ChildrenInv
  <2>1. CASE c = n
    BY <2>1, <1>3, <1>4, <1>5, <1>8
  <2>2. CASE c # n
    <3>1. /\ c \in visited
          /\ \A i \in DOMAIN stack : c \in stack[i].path => m \in stack[i].path
      BY <2>2, <1>2, <1>7 DEF ChildrenInv
    <3> QED BY <3>1, <1>4, <1>5
  <2> QED BY <2>1, <2>2
<1>11. NoCycleInv'
  <2> SUFFICES ASSUME NEW S \in SUBSET visited, S # {}
               PROVE  \E m \in S : \A c \in Children(m) \cap S : Waits(m, c)'
    BY <1>3, <1>6, Zenon DEF NoCycleInv
  <2>1. CASE n \notin S
    <3> PICK m \in S : \A c \in Children(m) \cap S : Waits(m, c)
      BY <1>2 DEF NoCycleInv
    <3> QED BY <2>1, <1>7
  <2>2. CASE n \in S
    <3> DEFINE F == {m \in S : \A j \in DOMAIN stack : m \notin stack[j].path}
    <3>1. F \in SUBSET visited /\ F # {}
      BY <2>2, <1>8
    <3> PICK m \in F : \A c \in Children(m) \cap F : Waits(m, c)
      BY <3>1, <1>2 DEF NoCycleInv
    <3>2. ASSUME NEW c \in Children(m) \cap S PROVE FALSE
      <4>1. ~Waits(m, c)
        BY DEF Waits
      <4>2. c \notin F
        BY <4>1
      <4>3. \A i \in DOMAIN stack : c \in stack[i].path => m \in stack[i].path
        BY <3>1, <4>1, <1>2 DEF ChildrenInv
      <4> QED BY <4>2, <4>3
    <3> QED BY <3>2
  <2> QED BY <2>1, <2>2
<1>12. call.self \in visited' \/ \E j \in DOMAIN stack' : stack'[j].node = call.self
  <2>1. CASE call.self \in visited
    BY <2>1, <1>3
  <2>2. ASSUME NEW i \in DOMAIN stack, stack[i].node = call.self
        PROVE  call.self \in visited' \/ \E j \in DOMAIN stack' : stack'[j].node = call.self
    <3>1. CASE i = L
      BY <2>2, <3>1, <1>3
    <3>2. CASE i \in 1..(L - 1)
      BY <2>2, <3>2, <1>4, <1>5
    <3> QED BY <3>1, <3>2
  <2> QED BY <2>1, <2>2, <1>2
<1> QED BY <1>1, <1>2, <1>3, <1>4, <1>9, <1>10, <1>11, <1>12 DEF DagInv

\* A task is below itself.
LEMMA SelfIsBelow == GraphInv /\ call.self \in Nodes => call.self \in Below
BY BelowIsClosed

\* The invariant of validate_dag is inductive.
LEMMA DagStep == GraphInv /\ DagInv /\ [GraphNext]_graphVars => DagInv'
<1> SUFFICES ASSUME GraphInv, DagInv, [GraphNext]_graphVars PROVE DagInv'
  OBVIOUS
<1>1. ASSUME call'.method # "validate_dag" PROVE DagInv'
  BY <1>1 DEF DagInv
<1>2. ASSUME NEW pre \in SUBSET Tasks, Create(pre) PROVE DagInv'
  BY <1>1, <1>2 DEF Create, NoCall
<1>3. ASSUME NEW self \in Tasks, NEW node \in Tasks, AddChild(self, node)
      PROVE  DagInv'
  BY <1>1, <1>3 DEF AddChild
<1>4. CASE PopAncestor \/ AddChildReturns \/ DrawNode
  BY <1>1, <1>4 DEF PopAncestor, AddChildReturns, DrawNode, NoCall
<1>5. CASE ValidateDagReturns \/ ValidateDagRaises \/ VisualizeReturns
  BY <1>1, <1>5 DEF ValidateDagReturns, ValidateDagRaises,
     VisualizeReturns, Finish, NoCall
<1>6. ASSUME NEW self \in Tasks, Visualize(self) PROVE DagInv'
  BY <1>1, <1>6 DEF Visualize
<1>7. ASSUME NEW self \in Tasks, ValidateDag(self) PROVE DagInv'
  <2>1. /\ stack' = <<[node |-> self, path |-> {}]>> /\ visited' = {}
        /\ self \in Nodes /\ call'.self = self
    BY <1>7 DEF ValidateDag, GraphInv
  <2>2. /\ stack' \in Seq(Entries) /\ DOMAIN stack' = {1}
        /\ stack'[1].node = self /\ stack'[1].path = {}
    BY <2>1 DEF Entries
  <2>3. GraphInv'
    BY GraphInvStep
  <2>4. (GraphInv /\ call.self \in Nodes => call.self \in Below)'
    BY SelfIsBelow, PTL
  <2>5. PathsInv'
    BY <2>1, <2>2, <2>3, <2>4 DEF PathsInv
  <2>6. ChildrenInv' /\ NoCycleInv'
    BY <2>1 DEF ChildrenInv, NoCycleInv
  <2> QED BY <2>1, <2>2, <2>5, <2>6 DEF DagInv
<1>8. CASE UNCHANGED graphVars
  <2>1. UNCHANGED <<stack, visited, children, call>>
    BY <1>8 DEF graphVars
  <2>2. /\ \A m : Children(m)' = Children(m)
        /\ Below' = Below /\ \A m, c : Waits(m, c)' = Waits(m, c)
    BY <2>1 DEF Children, Below, Kids, Closure, Waits
  <2>3. PathsInv' = PathsInv
    BY <2>1, <2>2 DEF PathsInv
  <2>4. ChildrenInv' = ChildrenInv
    BY <2>1, <2>2 DEF ChildrenInv
  <2>5. NoCycleInv' = NoCycleInv
    BY <2>1, <2>2 DEF NoCycleInv
  <2> QED BY <2>1, <2>3, <2>4, <2>5 DEF DagInv
<1>9. CASE PopNode
  BY <1>9, PushInv, SkipInv
<1> QED BY <1>2, <1>3, <1>4, <1>5, <1>6, <1>7, <1>8, <1>9 DEF GraphNext, Loops

\* validate_dag raises exactly when some tasks of the subtree each have a child
\* among them, whatever tasks its search skips because it visited them before.
THEOREM CyclesAreFound == GraphSpec => FindsCycles
<1>1. GraphInit => GraphInv /\ DagInv
  BY GraphAssumption DEF GraphInit, GraphInv, DagInv, NoCall,
     Tasks, Nodes
<1>2. ASSUME GraphInv, DagInv, ValidateDagReturns PROVE ~HasCycle(call.self)
  <2>1. call.method = "validate_dag" /\ stack = <<>> /\ call.self \in Nodes
    BY <1>2 DEF ValidateDagReturns, GraphInv, NoCall
  <2>2. /\ visited \in SUBSET Nodes /\ call.self \in visited
        /\ \A m, c : ~Waits(m, c)
    BY <1>2, <2>1 DEF DagInv, Waits
  <2>3. Below \subseteq visited
    <3>1. \A m \in visited : Children(m) \subseteq visited
      BY <1>2, <2>1, <2>2 DEF DagInv, ChildrenInv
    <3> QED BY <1>2, <2>1, <2>2, <3>1, BelowIsClosed
  <2>4. ASSUME NEW S \in SUBSET Below, S # {} PROVE \E m \in S : Children(m) \cap S = {}
    <3>1. S \in SUBSET visited
      BY <2>3
    <3> PICK m \in S : \A c \in Children(m) \cap S : Waits(m, c)
      BY <1>2, <2>1, <2>4, <3>1 DEF DagInv, NoCycleInv
    <3> QED BY <2>2
  <2> QED BY <2>4 DEF HasCycle, Below, Kids, Nodes
<1>3. ASSUME GraphInv, DagInv, ValidateDagRaises PROVE HasCycle(call.self)
  <2>1. call.method = "validate_dag" /\ stack # <<>> /\ OnPath
    BY <1>3 DEF ValidateDagRaises
  <2>2. Len(stack) \in DOMAIN stack
    BY <1>3, <2>1 DEF DagInv
  <2> PICK n, P : n = Top.node /\ P = Top.path
    OBVIOUS
  <2>3. /\ n \in P /\ P \subseteq Below
        /\ \A m \in P : Children(m) \cap (P \cup {n}) # {}
    BY <1>3, <2>1, <2>2 DEF DagInv, PathsInv, Top, OnPath
  <2>4. P \in SUBSET Below /\ P # {} /\ \A m \in P : Children(m) \cap P # {}
    BY <2>3
  <2> QED BY <2>4 DEF HasCycle, Below, Kids, Nodes
<1>4. GraphInv /\ DagInv =>
        [/\ ValidateDagReturns => ~HasCycle(call.self)
         /\ ValidateDagRaises => HasCycle(call.self)]_graphVars
  BY <1>2, <1>3
<1> QED BY <1>1, <1>4, GraphInvStep, DagStep, PTL
        DEF GraphSpec, FindsCycles

-----------------------------------------------------------------------------
(* visualize.                                                              *)

Places(s, v) == {i \in DOMAIN s : s[i] = v}

Stacked(c) == \E i \in DOMAIN stack : stack[i].node = c

\* What was drawn so far: the edges of the visited tasks, each as often as
\* add_child added it.
DrawnInv ==
    /\ \A n \in visited : \A m \in Nodes :
        Cardinality(Places(drawn, <<n, m>>)) = Cardinality(Places(children[n], m))
    /\ \A i \in DOMAIN drawn : drawn[i][1] \in visited

DrawInv ==
    /\ drawn \in Seq(Nodes \X Nodes)
    /\ call.method # "visualize" => drawn = <<>>
    /\ call.method = "visualize" =>
        /\ stack \in Seq(Entries) /\ visited \subseteq Below
        /\ \A i \in DOMAIN stack : stack[i].node \in Below
        /\ call.self \in visited \/ Stacked(call.self)
        /\ \A m \in visited : \A c \in Children(m) : c \in visited \/ Stacked(c)
        /\ DrawnInv

\* Shifting a set of positions keeps its size.
LEMMA ShiftCount ==
    ASSUME NEW T \in SUBSET Nat, IsFiniteSet(T), NEW d \in Nat
    PROVE  Cardinality({i + d : i \in T}) = Cardinality(T)
<1> DEFINE U == {i + d : i \in T}
           f == [i \in T |-> i + d]
<1>1. f \in [T -> U] /\ \A u \in U : \E i \in T : f[i] = u
  OBVIOUS
<1>2. \A i, j \in T : f[i] = f[j] => i = j
  OBVIOUS
<1> HIDE DEF f, U
<1>3. f \in Bijection(T, U)
  BY <1>1, <1>2 DEF Bijection, Injection, Surjection, IsInjective
<1>4. ExistsBijection(T, U)
  BY <1>3 DEF ExistsBijection
<1> QED BY <1>4, FS_Bijection DEF U

\* The entries of a concatenation.
LEMMA Concatenation ==
    ASSUME NEW S, NEW D \in Seq(S), NEW k \in Seq(S)
    PROVE  /\ D \o k \in Seq(S) /\ Len(D) \in Nat /\ Len(k) \in Nat
           /\ DOMAIN (D \o k) = 1..(Len(D) + Len(k))
           /\ \A j \in 1..(Len(D) + Len(k)) :
                (D \o k)[j] = IF j <= Len(D) THEN D[j] ELSE k[j - Len(D)]
OBVIOUS

\* What q holds after the edges from n to its children c were drawn onto D.
Draws(D, n, c, q) ==
    /\ \A i \in DOMAIN q : q[i][1] = n \/ \E j \in DOMAIN D : q[i] = D[j]
    /\ \A a, m \in Nodes : a # n => Places(q, <<a, m>>) = Places(D, <<a, m>>)
    /\ (\A i \in DOMAIN D : D[i][1] # n) =>
        \A m \in Nodes : Places(q, <<n, m>>) = {i + Len(D) : i \in Places(c, m)}

\* Drawing the edges to the children of a task appends one for each.
LEMMA DrawnEdges ==
    ASSUME NEW D \in Seq(Nodes \X Nodes), NEW c \in Seq(Nodes), NEW n \in Nodes
    PROVE  /\ D \o [i \in DOMAIN c |-> <<n, c[i]>>] \in Seq(Nodes \X Nodes)
           /\ Draws(D, n, c, D \o [i \in DOMAIN c |-> <<n, c[i]>>])
<1> DEFINE k == [i \in DOMAIN c |-> <<n, c[i]>>]
           q == D \o k
<1>1. k \in Seq(Nodes \X Nodes) /\ Len(k) = Len(c)
  OBVIOUS
<1>2. /\ Len(D) \in Nat /\ DOMAIN D = 1..Len(D) /\ Len(c) \in Nat /\ DOMAIN c = 1..Len(c)
      /\ \A i \in 1..Len(c) : k[i] = <<n, c[i]>>
  BY Len(c) \in Nat /\ DOMAIN c = 1..Len(c)
<1> HIDE DEF k
<1>3. /\ q \in Seq(Nodes \X Nodes) /\ DOMAIN q = 1..(Len(D) + Len(c))
      /\ \A j \in 1..(Len(D) + Len(c)) : q[j] = IF j <= Len(D) THEN D[j] ELSE k[j - Len(D)]
  <2>1. /\ q \in Seq(Nodes \X Nodes) /\ DOMAIN q = 1..(Len(D) + Len(k))
        /\ \A j \in 1..(Len(D) + Len(k)) :
            q[j] = IF j <= Len(D) THEN D[j] ELSE k[j - Len(D)]
    BY <1>1, Concatenation, Zenon
  <2> HIDE DEF q
  <2> QED BY <1>1, <2>1
<1> HIDE DEF q
<1> PICK d \in Nat : d = Len(D)
  BY <1>2
<1> PICK e \in Nat : e = Len(c)
  BY <1>2
<1>4. \A j \in 1..d : j \in DOMAIN q /\ q[j] = D[j]
  BY <1>2, <1>3
<1>5. ASSUME NEW i \in 1..e PROVE i + d \in DOMAIN q /\ q[i + d] = <<n, c[i]>>
  <2>1. i + d \in 1..(d + e) /\ ~(i + d <= d) /\ (i + d) - d = i
    OBVIOUS
  <2>2. q[i + d] = k[i]
    BY <2>1, <1>3
  <2> QED BY <2>1, <2>2, <1>2, <1>3
<1>6. ASSUME NEW j \in DOMAIN q PROVE j \in 1..d \/ \E i \in 1..e : j = i + d
  <2>1. CASE j <= d
    BY <2>1, <1>3
  <2>2. CASE j > d
    <3>1. j - d \in 1..e /\ j = (j - d) + d
      BY <2>2, <1>3
    <3> QED BY <3>1
  <2> QED BY <2>1, <2>2, <1>3
<1>7. ASSUME NEW i \in DOMAIN q PROVE q[i][1] = n \/ \E j \in DOMAIN D : q[i] = D[j]
  BY <1>2, <1>4, <1>5, <1>6
<1>8. ASSUME NEW a \in Nodes, NEW m \in Nodes, a # n
      PROVE  Places(q, <<a, m>>) = Places(D, <<a, m>>)
  <2>1. ASSUME NEW j \in DOMAIN q, q[j] = <<a, m>> PROVE j \in 1..d
    BY <2>1, <1>5, <1>6, <1>8
  <2> QED BY <2>1, <1>2, <1>4 DEF Places
<1>9. ASSUME \A i \in DOMAIN D : D[i][1] # n, NEW m \in Nodes
      PROVE  Places(q, <<n, m>>) = {i + d : i \in Places(c, m)}
  <2>1. ASSUME NEW j \in DOMAIN q, q[j] = <<n, m>>
        PROVE  \E i \in DOMAIN c : c[i] = m /\ j = i + d
    <3>1. j \notin 1..d
      BY <2>1, <1>2, <1>4, <1>9
    <3> PICK i \in 1..e : j = i + d
      BY <3>1, <1>6
    <3>2. <<n, c[i]>> = <<n, m>> /\ i \in DOMAIN c
      BY <2>1, <1>2, <1>5
    <3> QED BY <3>2
  <2>2. ASSUME NEW i \in DOMAIN c, c[i] = m PROVE i + d \in DOMAIN q /\ q[i + d] = <<n, m>>
    BY <2>2, <1>2, <1>5
  <2> QED BY <2>1, <2>2 DEF Places
<1>10. Draws(D, n, c, q)
  BY <1>7, <1>8, <1>9, Zenon DEF Draws
<1> QED BY <1>3, <1>10 DEF q, k

\* A task that was not visited: its edges are drawn.
LEMMA DrawNewInv ==
    ASSUME GraphInv, DrawInv, DrawNode, Top.node \notin visited
    PROVE  DrawInv'
<1>1. /\ call.method = "visualize" /\ stack # <<>> /\ call.self \in Nodes
      /\ UNCHANGED <<children, call>>
  BY DEF DrawNode, graph, GraphInv, NoCall
<1>2. /\ drawn \in Seq(Nodes \X Nodes)
      /\ stack \in Seq(Entries) /\ visited \subseteq Below
      /\ \A i \in DOMAIN stack : stack[i].node \in Below
      /\ call.self \in visited \/ Stacked(call.self)
      /\ \A m \in visited : \A c \in Children(m) : c \in visited \/ Stacked(c)
      /\ DrawnInv
  BY <1>1 DEF DrawInv
<1>3. Below \in SUBSET Nodes /\ \A m \in Below : Children(m) \subseteq Below
  BY <1>1, BelowIsClosed
<1> PICK L \in Nat \ {0} : L = Len(stack) /\ DOMAIN stack = 1..L
  BY <1>1, <1>2
<1> PICK n : n = stack[L].node
  OBVIOUS
<1>4. /\ n \notin visited /\ visited' = visited \cup {n}
      /\ stack' = Popped \o StackChildren(n)
      /\ drawn' = drawn \o EdgesFrom(n)
  BY DEF DrawNode, Top, Skip
<1>5. n \in Below /\ n \in Nodes /\ children[n] \in Seq(Nodes)
  BY <1>2, <1>3 DEF GraphInv
<1> DEFINE k == [i \in DOMAIN children[n] |-> [node |-> children[n][i], path |-> {}]]
<1>6. /\ \A i \in DOMAIN children[n] : [node |-> children[n][i], path |-> {}] \in Entries
      /\ Len(children[n]) \in Nat /\ DOMAIN children[n] = 1..Len(children[n])
  BY <1>5 DEF Entries
<1>7. k \in Seq(Entries)
  BY <1>6
<1>8. /\ \A i \in DOMAIN k : k[i].node \in Children(n)
      /\ \A c \in Children(n) : \E i \in DOMAIN k : k[i].node = c
  BY DEF Children
<1>9. stack' = SubSeq(stack, 1, Len(stack) - 1) \o k
  BY <1>4 DEF Popped, StackChildren
<1> HIDE DEF k
<1>10. stack' \in Seq(Entries) /\ Shape(stack, L, k, stack')
  BY <1>1, <1>2, <1>7, <1>9, PopAndPush, Zenon
<1>11. /\ \A j \in DOMAIN stack' :
            (j \in 1..(L - 1) /\ stack'[j] = stack[j]) \/ \E i \in DOMAIN k : stack'[j] = k[i]
       /\ \A j \in 1..(L - 1) : j \in DOMAIN stack /\ j \in DOMAIN stack' /\ stack'[j] = stack[j]
       /\ \A i \in DOMAIN k : \E j \in DOMAIN stack' : stack'[j] = k[i]
  BY <1>10, Zenon DEF Shape
<1>12. /\ \A m : Children(m)' = Children(m)
       /\ Below' = Below
  BY <1>1 DEF Children, Below, Kids, Closure
<1>13. ASSUME NEW c, Stacked(c), c # n PROVE Stacked(c)'
  <2> PICK i \in DOMAIN stack : stack[i].node = c
    BY <1>13 DEF Stacked
  <2>1. i \in 1..(L - 1)
    BY <1>13
  <2> QED BY <2>1, <1>11 DEF Stacked
<1>14. ASSUME NEW c \in Children(n) PROVE Stacked(c)'
  BY <1>8, <1>11 DEF Stacked
<1>15. \A j \in DOMAIN stack' : stack'[j].node \in Below
  BY <1>2, <1>3, <1>5, <1>8, <1>11
<1>16. \A m \in visited' : \A c \in Children(m) : c \in visited' \/ Stacked(c)'
  BY <1>2, <1>4, <1>13, <1>14
<1>17. call.self \in visited' \/ Stacked(call.self)'
  BY <1>1, <1>2, <1>4, <1>13
<1>18. drawn' = drawn \o [i \in DOMAIN children[n] |-> <<n, children[n][i]>>]
  BY <1>4 DEF EdgesFrom
<1>19. drawn' \in Seq(Nodes \X Nodes) /\ Draws(drawn, n, children[n], drawn')
  BY <1>2, <1>5, <1>18, DrawnEdges, Zenon
<1>20. DrawnInv'
  <2>1. \A i \in DOMAIN drawn' : drawn'[i][1] \in visited'
    BY <1>2, <1>4, <1>19 DEF DrawnInv, Draws
  <2>2. ASSUME NEW a \in visited, NEW m \in Nodes
        PROVE  Cardinality(Places(drawn', <<a, m>>)) = Cardinality(Places(children[a], m))
    <3>1. Places(drawn', <<a, m>>) = Places(drawn, <<a, m>>)
      BY <1>2, <1>3, <1>4, <1>5, <1>19 DEF Draws
    <3> QED BY <3>1, <1>2 DEF DrawnInv
  <2>3. ASSUME NEW m \in Nodes
        PROVE  Cardinality(Places(drawn', <<n, m>>)) = Cardinality(Places(children[n], m))
    <3>1. Places(drawn', <<n, m>>) = {i + Len(drawn) : i \in Places(children[n], m)}
      BY <1>2, <1>4, <1>19 DEF DrawnInv, Draws
    <3>2. Places(children[n], m) \in SUBSET (1..Len(children[n]))
      BY <1>6 DEF Places
    <3>3. IsFiniteSet(Places(children[n], m)) /\ Places(children[n], m) \in SUBSET Nat
      <4>1. IsFiniteSet(1..Len(children[n]))
        <5>1. 1 \in Int /\ Len(children[n]) \in Int
          BY <1>6
        <5> QED BY <5>1, FS_Interval, Zenon
      <4>2. IsFiniteSet(Places(children[n], m))
        BY <3>2, <4>1, FS_Subset
      <4> QED BY <3>2, <4>2, <1>6
    <3>4. Len(drawn) \in Nat
      BY <1>2
    <3> QED BY <3>1, <3>3, <3>4, ShiftCount
  <2> QED BY <2>1, <2>2, <2>3, <1>1, <1>4 DEF DrawnInv
<1>21. visited' \subseteq Below
  BY <1>2, <1>4, <1>5
<1> QED BY <1>1, <1>10, <1>12, <1>15, <1>16, <1>17, <1>19, <1>20, <1>21 DEF DrawInv

\* A task that was visited is skipped: its edges were drawn.
LEMMA DrawSkipInv ==
    ASSUME GraphInv, DrawInv, DrawNode, Top.node \in visited
    PROVE  DrawInv'
<1>1. /\ call.method = "visualize" /\ stack # <<>>
      /\ UNCHANGED <<children, call, drawn>>
  BY DEF DrawNode, graph, Skip
<1>2. /\ drawn \in Seq(Nodes \X Nodes)
      /\ stack \in Seq(Entries) /\ visited \subseteq Below
      /\ \A i \in DOMAIN stack : stack[i].node \in Below
      /\ call.self \in visited \/ Stacked(call.self)
      /\ \A m \in visited : \A c \in Children(m) : c \in visited \/ Stacked(c)
      /\ DrawnInv
  BY <1>1 DEF DrawInv
<1> PICK L \in Nat \ {0} : L = Len(stack) /\ DOMAIN stack = 1..L
  BY <1>1, <1>2
<1>3. stack[L].node \in visited /\ visited' = visited /\ stack' = Popped
  BY DEF DrawNode, Top, Skip
<1>4. stack' \in Seq(Entries) /\ DOMAIN stack' = 1..(L - 1)
  BY <1>2, <1>3 DEF Popped
<1>5. \A j \in 1..(L - 1) : j \in DOMAIN stack /\ stack'[j] = stack[j]
  BY <1>2, <1>3 DEF Popped
<1>6. /\ \A m : Children(m)' = Children(m)
      /\ Below' = Below
  BY <1>1 DEF Children, Below, Kids, Closure
<1>7. ASSUME NEW c, Stacked(c), c \notin visited PROVE Stacked(c)'
  <2> PICK i \in DOMAIN stack : stack[i].node = c
    BY <1>7 DEF Stacked
  <2>1. i \in 1..(L - 1)
    BY <1>3, <1>7
  <2> QED BY <2>1, <1>4, <1>5 DEF Stacked
<1>8. \A j \in DOMAIN stack' : stack'[j].node \in Below
  BY <1>2, <1>4, <1>5
<1>9. \A m \in visited : \A c \in Children(m) : c \in visited \/ Stacked(c)'
  BY <1>2, <1>7
<1>10. call.self \in visited \/ Stacked(call.self)'
  BY <1>1, <1>2, <1>7
<1>11. DrawnInv'
  BY <1>1, <1>2, <1>3 DEF DrawnInv, Places
<1> QED BY <1>1, <1>2, <1>3, <1>4, <1>6, <1>8, <1>9, <1>10, <1>11 DEF DrawInv

\* The invariant of visualize is inductive.
LEMMA DrawStep == GraphInv /\ DrawInv /\ [GraphNext]_graphVars => DrawInv'
<1> SUFFICES ASSUME GraphInv, DrawInv, [GraphNext]_graphVars PROVE DrawInv'
  OBVIOUS
<1>1. ASSUME call'.method # "visualize", drawn' = <<>> PROVE DrawInv'
  BY <1>1 DEF DrawInv
<1>2. ASSUME NEW pre \in SUBSET Tasks, Create(pre) PROVE DrawInv'
  BY <1>1, <1>2 DEF Create, NoCall, dfs, DrawInv
<1>3. ASSUME NEW self \in Tasks, NEW node \in Tasks, AddChild(self, node)
      PROVE  DrawInv'
  BY <1>1, <1>3 DEF AddChild, NoCall, dfs, DrawInv
<1>4. CASE PopAncestor \/ AddChildReturns \/ PopNode
  BY <1>1, <1>4 DEF PopAncestor, AddChildReturns, PopNode, NoCall,
     dfs, DrawInv
<1>5. CASE ValidateDagReturns \/ ValidateDagRaises \/ VisualizeReturns
  BY <1>1, <1>5 DEF ValidateDagReturns, ValidateDagRaises,
     VisualizeReturns, Finish, NoCall
<1>6. ASSUME NEW self \in Tasks, ValidateDag(self) PROVE DrawInv'
  BY <1>1, <1>6 DEF ValidateDag, NoCall, DrawInv
<1>7. ASSUME NEW self \in Tasks, Visualize(self) PROVE DrawInv'
  <2>1. /\ stack' = <<[node |-> self, path |-> {}]>> /\ visited' = {} /\ drawn' = <<>>
        /\ self \in Nodes /\ call'.self = self
    BY <1>7 DEF Visualize, NoCall, GraphInv, DrawInv
  <2>2. stack' \in Seq(Entries) /\ DOMAIN stack' = {1} /\ stack'[1].node = self
    BY <2>1 DEF Entries
  <2>3. GraphInv'
    BY GraphInvStep
  <2>4. (GraphInv /\ call.self \in Nodes => call.self \in Below)'
    BY SelfIsBelow, PTL
  <2>5. /\ \A j \in DOMAIN stack' : stack'[j].node \in Below'
        /\ Stacked(call.self)'
    BY <2>1, <2>2, <2>3, <2>4 DEF Stacked
  <2>6. DrawnInv'
    BY <2>1 DEF DrawnInv
  <2> QED BY <2>1, <2>2, <2>5, <2>6, <1>7 DEF DrawInv, Visualize
<1>8. CASE UNCHANGED graphVars
  <2>1. UNCHANGED <<stack, visited, children, call, drawn>>
    BY <1>8 DEF graphVars
  <2>2. /\ \A m : Children(m)' = Children(m)
        /\ Below' = Below /\ \A c : Stacked(c)' = Stacked(c) /\ DrawnInv' = DrawnInv
    BY <2>1 DEF Children, Below, Kids, Closure, Stacked, DrawnInv
  <2> QED BY <2>1, <2>2 DEF DrawInv
<1>9. CASE DrawNode
  BY <1>9, DrawNewInv, DrawSkipInv
<1> QED BY <1>2, <1>3, <1>4, <1>5, <1>6, <1>7, <1>8, <1>9 DEF GraphNext, Loops

\* When visualize is done, the picture has every edge below the root as often as
\* add_child added it, and no other edge.
THEOREM EveryEdgeIsDrawn == GraphSpec => []DrawsEveryEdgeOnce
<1>1. GraphInit => GraphInv /\ DrawInv
  BY GraphAssumption DEF GraphInit, GraphInv, DrawInv, NoCall,
     Tasks, Nodes
<1>2. ASSUME GraphInv, DrawInv PROVE DrawsEveryEdgeOnce
  <2> SUFFICES ASSUME call.method = "visualize", stack = <<>>, NEW n \in Nodes, NEW m \in Nodes
               PROVE  Cardinality(Places(drawn, <<n, m>>))
                        = IF n \in Below THEN Cardinality(Places(children[n], m)) ELSE 0
    BY DEF DrawsEveryEdgeOnce, Below, Kids, Nodes, Places
  <2>1. call.self \in Nodes
    BY <1>2 DEF GraphInv, NoCall
  <2>2. /\ visited \subseteq Below /\ call.self \in visited
        /\ \A a \in visited : Children(a) \subseteq visited
        /\ DrawnInv
    BY <1>2 DEF DrawInv, Stacked
  <2>3. Below = visited
    BY <1>2, <2>1, <2>2, BelowIsClosed
  <2>4. CASE n \in visited
    BY <2>2, <2>3, <2>4 DEF DrawnInv
  <2>5. CASE n \notin visited
    <3>1. Places(drawn, <<n, m>>) = {}
      BY <2>2, <2>5 DEF DrawnInv, Places
    <3> QED BY <3>1, <2>3, <2>5, FS_EmptySet
  <2> QED BY <2>4, <2>5
<1> QED BY <1>1, <1>2, GraphInvStep, DrawStep, PTL DEF GraphSpec
=============================================================================
