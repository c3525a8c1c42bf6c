------------------------------ MODULE TaskGraph -----------------------------
(***************************************************************************)
(* TaskNode (orchestration/symbolic/planner.py): tasks are created with    *)
(* preconditions among the tasks that exist, get children by add_child,    *)
(* which refuses an ancestor, and are searched for cycles by validate_dag. *)
(* visualize of PlanningGraph, which draws what is below its root, may be  *)
(* called before any such search.  The loops of get_ancestors,             *)
(* validate_dag and visualize are taken a round at a time.                 *)
(***************************************************************************)
EXTENDS Naturals, Sequences, FiniteSets, Functions

CONSTANTS
    MaxNodes,        \* bound on the number of tasks
    MaxEdges         \* bound on preconditions and children, counted together

ASSUME GraphAssumption == MaxNodes \in Nat

VARIABLES
    created,         \* the number of tasks that exist
    preconditions,
    children,        \* _children
    call,            \* the method that runs and the tasks it was called with
    work,            \* the stack of get_ancestors
    ancestors,
    stack, visited,  \* of validate_dag and of visualize
    drawn,           \* the edges of the picture, in the order they are drawn
    raised           \* whether the last method raised CircularDependencyError

graph == <<created, preconditions, children>>
search == <<work, ancestors>>
dfs == <<stack, visited, drawn>>
graphVars == <<created, preconditions, children, call, work, ancestors, stack, visited, drawn,
               raised>>

\* Tasks in the order of their creation.
Nodes == 1..MaxNodes

NoCall == [method |-> "none", self |-> 0, node |-> 0]

GraphInit ==
    /\ created = 0
    /\ preconditions = [n \in Nodes |-> {}]
    /\ children = [n \in Nodes |-> <<>>]
    /\ call = NoCall
    /\ work = {} /\ ancestors = {}
    /\ stack = <<>> /\ visited = {} /\ drawn = <<>>
    /\ raised = FALSE

Tasks == 1..created

Edges == FoldFunction(LAMBDA s, n : n + Cardinality(s), 0, preconditions)
         + FoldFunction(LAMBDA s, n : n + Len(s), 0, children)

\* __init__.  An empty list of preconditions is the default.
Create(pre) ==
    /\ call = NoCall
    /\ created + 1 \in Nodes
    /\ Edges + Cardinality(pre) <= MaxEdges
    /\ created' = created + 1
    /\ preconditions' = [preconditions EXCEPT ![created + 1] = pre]
    /\ UNCHANGED <<children, call, search, dfs, raised>>

-----------------------------------------------------------------------------
(* add_child and get_ancestors, which pops in an order that does not       *)
(* matter to what it returns.                                              *)

AddChild(self, node) ==
    /\ call = NoCall
    /\ Edges < MaxEdges
    /\ call' = [method |-> "add_child", self |-> self, node |-> node]
    /\ work' = {self}
    /\ ancestors' = {}
    /\ UNCHANGED <<graph, dfs, raised>>

NotSeen(current) == preconditions[current] \ ancestors

Pending_NoParents(current) == work \ {current}

Pending(current) == (work \ {current}) \cup NotSeen(current)

PopAncestor ==
    /\ call.method = "add_child"
    /\ \E current \in work :
        /\ ancestors' = ancestors \cup NotSeen(current)
        /\ work' = Pending(current)
    /\ UNCHANGED <<graph, call, dfs, raised>>

AddChildReturns ==
    /\ call.method = "add_child"
    /\ work = {}
    /\ raised' = (call.node \in ancestors)
    /\ children' = IF raised' THEN children
                   ELSE [children EXCEPT ![call.self] = Append(@, call.node)]
    /\ call' = NoCall
    /\ ancestors' = {}
    /\ UNCHANGED <<created, preconditions, work, dfs>>

-----------------------------------------------------------------------------
(* validate_dag.                                                           *)

ValidateDag(self) ==
    /\ call = NoCall
    /\ call' = [method |-> "validate_dag", self |-> self, node |-> self]
    /\ stack' = <<[node |-> self, path |-> {}]>>
    /\ visited' = {}
    /\ UNCHANGED <<graph, search, drawn, raised>>

Top == stack[Len(stack)]

PushChildren(top) ==
    [i \in DOMAIN children[top.node] |->
        [node |-> children[top.node][i], path |-> top.path \cup {top.node}]]

Popped_Kept == stack

Popped == SubSeq(stack, 1, Len(stack) - 1)

OnPath_NotVisited == Top.node \in Top.path /\ Top.node \notin visited

OnPath == Top.node \in Top.path

PopNode ==
    /\ call.method = "validate_dag"
    /\ stack # <<>>
    /\ ~OnPath
    /\ IF Top.node \in visited
       THEN stack' = Popped
       ELSE stack' = Popped \o PushChildren(Top)
    /\ visited' = visited \cup {Top.node}
    /\ UNCHANGED <<graph, call, search, drawn, raised>>

Finish(cyclic) ==
    /\ raised' = cyclic
    /\ call' = NoCall
    /\ stack' = <<>> /\ visited' = {} /\ drawn' = <<>>
    /\ UNCHANGED <<graph, search>>

ValidateDagReturns == call.method = "validate_dag" /\ stack = <<>> /\ Finish(FALSE)

ValidateDagRaises ==
    call.method = "validate_dag" /\ stack # <<>> /\ OnPath /\ Finish(TRUE)

-----------------------------------------------------------------------------
(* visualize, whose stack holds tasks without a path.                      *)

Visualize(root) ==
    /\ call = NoCall
    /\ call' = [method |-> "visualize", self |-> root, node |-> root]
    /\ stack' = <<[node |-> root, path |-> {}]>>
    /\ visited' = {}
    /\ UNCHANGED <<graph, search, drawn, raised>>

EdgesFrom(n) == [i \in DOMAIN children[n] |-> <<n, children[n][i]>>]

StackChildren(n) == [i \in DOMAIN children[n] |-> [node |-> children[n][i], path |-> {}]]

Skip_Never == FALSE

Skip == Top.node \in visited

DrawNode ==
    /\ call.method = "visualize"
    /\ stack # <<>>
    /\ IF Skip
       THEN stack' = Popped /\ UNCHANGED drawn
       ELSE /\ stack' = Popped \o StackChildren(Top.node)
            /\ drawn' = drawn \o EdgesFrom(Top.node)
    /\ visited' = visited \cup {Top.node}
    /\ UNCHANGED <<graph, call, search, raised>>

VisualizeReturns == call.method = "visualize" /\ stack = <<>> /\ Finish(FALSE)

-----------------------------------------------------------------------------
Loops ==
    \/ PopAncestor \/ AddChildReturns
    \/ PopNode \/ ValidateDagReturns \/ ValidateDagRaises
    \/ DrawNode \/ VisualizeReturns

GraphNext ==
    \/ \E pre \in SUBSET Tasks : Create(pre)
    \/ \E self, node \in Tasks : AddChild(self, node)
    \/ \E self \in Tasks : ValidateDag(self) \/ Visualize(self)
    \/ Loops

\* A Python thread that runs a loop goes on with it.
GraphSpec == GraphInit /\ [][GraphNext]_graphVars /\ WF_graphVars(Loops)

-----------------------------------------------------------------------------
Children(n) == {children[n][i] : i \in DOMAIN children[n]}

\* The smallest set that holds the tasks S and, with a task, what f gives it.
Closure(S, f) ==
    CHOOSE C \in SUBSET Nodes :
        /\ S \subseteq C /\ \A n \in C : f[n] \subseteq C
        /\ \A D \in SUBSET Nodes :
            (S \subseteq D /\ \A n \in D : f[n] \subseteq D) => C \subseteq D

\* Some tasks in the subtree of n each have a child among them.
HasCycle(n) ==
    \E S \in SUBSET Closure({n}, [m \in Nodes |-> Children(m)]) :
        S # {} /\ \A m \in S : Children(m) \cap S # {}

\* validate_dag, "Verify no cyclic dependencies in subtree": it raises exactly
\* when the subtree has a cycle, though a task it visited before is skipped.
FindsCycles ==
    [][/\ ValidateDagReturns => ~HasCycle(call.self)
       /\ ValidateDagRaises => HasCycle(call.self)]_graphVars

\* get_ancestors, "Get all parent dependencies": when add_child looks at it, the
\* set holds the preconditions of the task, theirs in turn, and nothing else.
AncestorsAreAll ==
    call.method = "add_child" /\ work = {}
        => ancestors = Closure(preconditions[call.self], preconditions)

\* visualize, "Generate DOT graph visualization": the picture has an edge for
\* every call of add_child on a task below the root and no other, however often
\* the task is reached and whether or not there is a cycle.
DrawsEveryEdgeOnce ==
    call.method = "visualize" /\ stack = <<>> =>
        LET below == Closure({call.self}, [m \in Nodes |-> Children(m)])
        IN  \A n, m \in Nodes :
                Cardinality({i \in DOMAIN drawn : drawn[i] = <<n, m>>})
                    = IF n \in below
                      THEN Cardinality({i \in DOMAIN children[n] : children[n][i] = m})
                      ELSE 0
=============================================================================
