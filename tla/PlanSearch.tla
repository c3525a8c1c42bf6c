----------------------------- MODULE PlanSearch -----------------------------
(***************************************************************************)
(* PlanningGraph (orchestration/symbolic/planner.py): generate_plan        *)
(* decomposes the root task and then, cheapest first, the last task of     *)
(* every decomposition that improved on the best so far.  Tasks form a     *)
(* tree that validate_dag accepts (see TaskGraph).  There is one resource, *)
(* and a task is too risky or not.  An option of a decomposition is given  *)
(* by the places of its tasks among the children of the task decomposed.   *)
(***************************************************************************)
EXTENDS Naturals, Sequences, FiniteSetsExt

CONSTANTS
    Tree,            \* the _children of each task; the root is task 1
    Costs, Amounts,  \* what a task may cost and need
    Pool             \* resource_pool

VARIABLES
    tasks,           \* for each task its type, cost, need and whether it is too risky
    heap,            \* the set of pairs of a cost and a task
    current,         \* the task popped, its cost and the options not tried yet
    best_plan,       \* NoPlan, or the option taken, of which task, and its cost
    outcome          \* "none", "plan" or "PlanException"

searchVars == <<tasks, heap, current, best_plan, outcome>>

NoPlan == [node |-> 0, option |-> {}, cost |-> 0]

Root == 1

Subtasks == DOMAIN Tree \ {Root}

\* No task has the root as a child, and costs and needs are not negative.
ASSUME SearchAssumption ==
    /\ Tree \in Seq(Seq(Subtasks)) /\ Tree # <<>>
    /\ Costs \subseteq Nat /\ Amounts \subseteq Nat /\ Pool \in Nat

SearchInit ==
    /\ tasks = <<>>
    /\ heap = {}
    /\ current = [node |-> Root, cost |-> 0, decompositions |-> {}]
    /\ best_plan = NoPlan
    /\ outcome = "none"

Types(n) == IF Tree[n] = <<>> THEN {"atomic"} ELSE {"AND", "OR"}

\* What the root itself costs and needs is never looked at.
GeneratePlan ==
    /\ tasks = <<>>
    /\ \E type \in [DOMAIN Tree -> {"AND", "OR", "atomic"}],
          cost \in [Subtasks -> Costs], need \in [Subtasks -> Amounts],
          risky \in SUBSET Subtasks :
        /\ \A n \in DOMAIN Tree : type[n] \in Types(n)
        /\ tasks' = [n \in DOMAIN Tree |->
                      IF n = Root THEN [type |-> type[n]]
                      ELSE [type |-> type[n], cost |-> cost[n], need |-> need[n],
                            risky |-> n \in risky]]
    /\ heap' = {[cost |-> 0, node |-> Root]}
    /\ UNCHANGED <<current, best_plan, outcome>>

-----------------------------------------------------------------------------
Child(n, i) == tasks[Tree[n][i]]

\* The places of the children that pass validate_resources, each on its own.
Valid(n) == {i \in DOMAIN Tree[n] : Child(n, i).need <= Pool}

decompose(n) ==
    CASE tasks[n].type = "AND" -> {Valid(n)} \ {{}}
      [] tasks[n].type = "OR"  -> {{i} : i \in Valid(n)}
      [] tasks[n].type = "atomic" -> {}

CostOf(n, option) == SumFunctionOnSet([i \in DOMAIN Tree[n] |-> Child(n, i).cost], option)

NeedOf(n, option) == SumFunctionOnSet([i \in DOMAIN Tree[n] |-> Child(n, i).need], option)

\* _evaluate_option returns a plan that is not too risky.
Admissible(n, option) ==
    NeedOf(n, option) <= Pool /\ \A i \in option : ~Child(n, i).risky

Improves_OrEqual(cost) == best_plan = NoPlan \/ cost <= best_plan.cost

Improves(cost) == best_plan = NoPlan \/ cost < best_plan.cost

Pop ==
    /\ outcome = "none"
    /\ current.decompositions = {}
    /\ \E e \in heap :
        /\ \A f \in heap : e.cost <= f.cost
        /\ heap' = heap \ {e}
        /\ current' = [node |-> e.node, cost |-> e.cost,
                       decompositions |-> decompose(e.node)]
    /\ UNCHANGED <<tasks, best_plan, outcome>>

\* A round of the loop over the decompositions, in the order of the children.
TryOption ==
    \E option \in current.decompositions :
        /\ \A other \in current.decompositions : Max(option) <= Max(other)
        /\ current' = [current EXCEPT !.decompositions = @ \ {option}]
        /\ LET n == current.node
               total_cost == current.cost + CostOf(n, option)
           IN  IF Admissible(n, option) /\ Improves(total_cost)
               THEN /\ best_plan' = [node |-> n, option |-> option, cost |-> total_cost]
                    /\ heap' = heap \cup {[cost |-> total_cost,
                                           node |-> Tree[n][Max(option)]]}
               ELSE UNCHANGED <<best_plan, heap>>
        /\ UNCHANGED <<tasks, outcome>>

ReturnPlan ==
    /\ tasks # <<>> /\ heap = {} /\ current.decompositions = {}
    /\ outcome = "none"
    /\ outcome' = IF best_plan = NoPlan THEN "PlanException" ELSE "plan"
    /\ UNCHANGED <<tasks, heap, current, best_plan>>

SearchNext == GeneratePlan \/ Pop \/ TryOption \/ ReturnPlan

SearchSpec == SearchInit /\ [][SearchNext]_searchVars

-----------------------------------------------------------------------------
SubtasksOf(n) == {Tree[n][i] : i \in DOMAIN Tree[n]}

\* A solution of the AND/OR tree: the root, all children of an AND task in it
\* and one of an OR task, nothing else, within the pool and not too risky.
IsSolution(S) ==
    /\ S = {Root} \cup UNION {SubtasksOf(n) \cap S : n \in S}
    /\ \A n \in S : /\ tasks[n].type = "AND" => SubtasksOf(n) \subseteq S
                    /\ tasks[n].type = "OR" => Cardinality(SubtasksOf(n) \cap S) = 1
    /\ SumFunctionOnSet([n \in Subtasks |-> tasks[n].need], S \ {Root}) <= Pool
    /\ \A n \in S \ {Root} : ~tasks[n].risky

Solutions == {S \in SUBSET DOMAIN Tree : IsSolution(S)}

SolutionCost(S) == SumFunctionOnSet([n \in Subtasks |-> tasks[n].cost], S \ {Root})

\* "Generate optimal plan using AO* algorithm": the tasks of the plan returned
\* are part of a cheapest solution, when there is a solution.
PlanIsOptimal ==
    outcome = "plan" /\ Solutions # {} =>
        \E S \in Solutions :
            /\ {Tree[best_plan.node][i] : i \in best_plan.option} \subseteq S
            /\ \A T \in Solutions : SolutionCost(S) <= SolutionCost(T)

\* Two entries of the heap never cost the same, so that heapq never goes on to
\* compare two tasks, which have no order and would raise a TypeError.
CostsAreDistinct == \A e, f \in heap : e.cost = f.cost => e = f
=============================================================================
