-------------------------- MODULE AlgorithmsProofs --------------------------
(***************************************************************************)
(* Proofs about the components that add up: the search of the planner, the *)
(* auction and the encrypted aggregation.  They rest on lemmas about sums  *)
(* over finite sets and about maxima, which come first.                    *)
(***************************************************************************)
EXTENDS PlanSearch, Auction, Aggregation, FiniteSetTheorems, WellFoundedInduction, TLAPS

-----------------------------------------------------------------------------
(* Sums and maxima.                                                        *)

\* Induction over the subsets of a finite set.
LEMMA SubsetInduction ==
    ASSUME NEW S, IsFiniteSet(S), NEW Good,
           \A T \in SUBSET S : (\A U \in SUBSET T : U # T => U \in Good) => T \in Good
    PROVE  \A T \in SUBSET S : T \in Good
<1> DEFINE Bad == (SUBSET S) \ Good
<1>1. IsWellFoundedOn(StrictSubsetOrdering(S), FiniteSubsetsOf(S))
  BY FS_StrictSubsetOrderingWellFounded
<1>2. FiniteSubsetsOf(S) = SUBSET S
  BY FS_FiniteSubsetsOfFinite
<1>3. Bad \subseteq FiniteSubsetsOf(S)
  BY <1>2
<1>4. CASE Bad # {}
  <2>1. PICK T \in Bad : \A U \in Bad : <<U, T>> \notin StrictSubsetOrdering(S)
    <3> DEFINE R == StrictSubsetOrdering(S)
               F == FiniteSubsetsOf(S)
    <3> SUFFICES \E T \in Bad : \A U \in Bad : ~(<<U, T>> \in R)
      OBVIOUS
    <3>1. IsWellFoundedOn(R, F) /\ Bad \subseteq F /\ Bad # {}
      BY <1>1, <1>3, <1>4
    <3> HIDE DEF Bad, R, F
    <3> QED BY <3>1, WFMin
  <2>2. \A U \in SUBSET T : U # T => U \in Good
    BY <2>1, Zenon DEF StrictSubsetOrdering
  <2> QED BY <2>1, <2>2
<1> QED BY <1>4

-----------------------------------------------------------------------------
(* SumFunctionOnSet is defined by a recursive function on the subsets.     *)
(* There is such a function, and it adds up f in any order.                *)

First(s) == CHOOSE e \in s : TRUE

\* The function that SumFunctionOnSet builds to add up f over S.
IsSum(g, f, S) ==
    g = [s \in SUBSET S |-> IF s = {} THEN 0 ELSE f[First(s)] + g[s \ {First(s)}]]

LEMMA FirstIsIn == ASSUME NEW s, s # {} PROVE First(s) \in s
BY DEF First

\* Two such functions agree where both are defined.
LEMMA SumAgrees ==
    ASSUME NEW f, NEW S, IsFiniteSet(S), NEW T \in SUBSET S, NEW g, NEW h,
           IsSum(g, f, S), IsSum(h, f, T)
    PROVE  \A s \in SUBSET T : g[s] = h[s]
<1> DEFINE Good == {s \in SUBSET T : g[s] = h[s]}
<1>1. IsFiniteSet(T)
  BY FS_Subset
<1>2. ASSUME NEW s \in SUBSET T, \A u \in SUBSET s : u # s => u \in Good
      PROVE  s \in Good
  <2>1. CASE s = {}
    BY <2>1 DEF IsSum
  <2>2. CASE s # {}
    <3>1. First(s) \in s
      BY <2>2, FirstIsIn
    <3>2. g[s \ {First(s)}] = h[s \ {First(s)}]
      BY <3>1, <1>2
    <3>3. g[s] = f[First(s)] + g[s \ {First(s)}]
      BY <2>2, Zenon DEF IsSum
    <3>4. h[s] = f[First(s)] + h[s \ {First(s)}]
      BY <2>2, Zenon DEF IsSum
    <3> QED BY <3>2, <3>3, <3>4
  <2> QED BY <2>1, <2>2
<1>3. \A s \in SUBSET T : s \in Good
  <2> HIDE DEF Good
  <2> QED BY <1>1, <1>2, SubsetInduction
<1> QED BY <1>3

\* There is one for every finite set: by induction, it extends that of any subset.
LEMMA SumExists ==
    ASSUME NEW f, NEW S, IsFiniteSet(S)
    PROVE  \E g : IsSum(g, f, S)
<1> DEFINE Good == {T \in SUBSET S : \E g : IsSum(g, f, T)}
           G(T) == CHOOSE g : IsSum(g, f, T)
<1>1. ASSUME NEW T \in SUBSET S, \A U \in SUBSET T : U # T => U \in Good
      PROVE  T \in Good
  <2> DEFINE h == [s \in SUBSET T |->
                     IF s = {} THEN 0
                     ELSE f[First(s)] + G(s \ {First(s)})[s \ {First(s)}]]
  <2>1. \A U \in SUBSET T : U # T => IsSum(G(U), f, U)
    BY <1>1
  <2>2. ASSUME NEW s \in SUBSET T, s # {}
        PROVE  h[s \ {First(s)}] = G(s \ {First(s)})[s \ {First(s)}]
    <3> DEFINE r == s \ {First(s)}
    <3>1. First(s) \in s
      BY <2>2, FirstIsIn
    <3>2. IsSum(G(r), f, r) /\ r \in SUBSET T
      BY <3>1, <2>1, Zenon
    <3> HIDE DEF r, G
    <3>3. CASE r = {}
      <4>1. h[r] = 0 /\ G(r)[r] = 0
        BY <3>2, <3>3 DEF IsSum
      <4> QED BY <4>1 DEF r
    <3>4. CASE r # {}
      <4> DEFINE q == r \ {First(r)}
      <4>1. First(r) \in r
        BY <3>4, FirstIsIn
      <4>2. IsSum(G(q), f, q) /\ q \in SUBSET r
        BY <4>1, <3>2, <2>1
      <4>3. IsFiniteSet(r)
        BY <3>2, FS_Subset
      <4>4. G(r)[q] = G(q)[q]
        <5> HIDE DEF q
        <5> QED BY <4>2, <4>3, <3>2, SumAgrees
      <4>5. G(r)[r] = f[First(r)] + G(r)[q]
        BY <3>2, <3>4, Zenon DEF IsSum
      <4>6. h[r] = f[First(r)] + G(q)[q]
        BY <3>2, <3>4
      <4> QED BY <4>4, <4>5, <4>6 DEF r
    <3> QED BY <3>3, <3>4
  <2>3. IsSum(h, f, T)
    <3> HIDE DEF h
    <3>1. h = [s \in SUBSET T |->
                     IF s = {} THEN 0
                     ELSE f[First(s)] + G(s \ {First(s)})[s \ {First(s)}]]
      BY DEF h
    <3> HIDE DEF G
    <3> QED BY <3>1, <2>2, Zenon DEF IsSum
  <2> QED BY <2>3
<1>2. \A T \in SUBSET S : T \in Good
  <2> HIDE DEF Good
  <2> QED BY <1>1, SubsetInduction
<1> QED BY <1>2

\* SumFunctionOnSet is the value that one of them has at the whole set.
LEMMA SumUnfolds ==
    ASSUME NEW f, NEW S, IsFiniteSet(S)
    PROVE  \E h : IsSum(h, f, S) /\ SumFunctionOnSet(f, S) = h[S]
<1>1. PICK g : IsSum(g, f, S)
  BY SumExists
<1> QED BY <1>1, Zenon DEF SumFunctionOnSet, FoldFunctionOnSet, MapThenFoldSet, IsSum, First

-----------------------------------------------------------------------------
\* The sum over no elements, and what one element contributes.
LEMMA SumOfNone == ASSUME NEW f PROVE SumFunctionOnSet(f, {}) = 0
<1>1. PICK h : IsSum(h, f, {}) /\ SumFunctionOnSet(f, {}) = h[{}]
  BY SumUnfolds, FS_EmptySet
<1> QED BY <1>1 DEF IsSum

\* A sum is its first term and the sum of the others.
LEMMA SumFirst ==
    ASSUME NEW f, NEW S, IsFiniteSet(S), S # {}
    PROVE  SumFunctionOnSet(f, S) = f[First(S)] + SumFunctionOnSet(f, S \ {First(S)})
<1> DEFINE R == S \ {First(S)}
<1>1. PICK g : IsSum(g, f, S) /\ SumFunctionOnSet(f, S) = g[S]
  BY SumUnfolds
<1>2. IsFiniteSet(R)
  BY FS_Subset
<1>3. PICK h : IsSum(h, f, R) /\ SumFunctionOnSet(f, R) = h[R]
  BY <1>2, SumUnfolds
<1>4. g[R] = h[R]
  BY <1>1, <1>3, SumAgrees
<1>5. g[S] = f[First(S)] + g[R]
  BY <1>1, Zenon DEF IsSum
<1> QED BY <1>1, <1>3, <1>4, <1>5

\* A sum of integers is an integer.
LEMMA SumType ==
    ASSUME NEW f, NEW S, IsFiniteSet(S), \A e \in S : f[e] \in Int
    PROVE  SumFunctionOnSet(f, S) \in Int
<1> DEFINE Good == {T \in SUBSET S : SumFunctionOnSet(f, T) \in Int}
<1>1. ASSUME NEW T \in SUBSET S, \A U \in SUBSET T : U # T => U \in Good
      PROVE  T \in Good
  <2>1. CASE T = {}
    BY <2>1, SumOfNone
  <2>2. CASE T # {}
    <3>1. First(T) \in T /\ IsFiniteSet(T)
      BY <2>2, FirstIsIn, FS_Subset
    <3>2. SumFunctionOnSet(f, T \ {First(T)}) \in Int /\ f[First(T)] \in Int
      BY <3>1, <1>1
    <3> QED BY <2>2, <3>1, <3>2, SumFirst
  <2> QED BY <2>1, <2>2
<1>2. \A T \in SUBSET S : T \in Good
  <2> HIDE DEF Good
  <2> QED BY <1>1, SubsetInduction, SMTT(30)
<1> QED BY <1>2

\* Any element may be taken out.
LEMMA SumSplits ==
    ASSUME NEW f, NEW S, IsFiniteSet(S), \A e \in S : f[e] \in Int
    PROVE  \A e \in S : SumFunctionOnSet(f, S) = f[e] + SumFunctionOnSet(f, S \ {e})
<1> DEFINE Good == {T \in SUBSET S : \A e \in T :
                      SumFunctionOnSet(f, T) = f[e] + SumFunctionOnSet(f, T \ {e})}
<1>1. ASSUME NEW T \in SUBSET S, \A U \in SUBSET T : U # T => U \in Good
      PROVE  T \in Good
  <2> SUFFICES ASSUME NEW e \in T
               PROVE  SumFunctionOnSet(f, T) = f[e] + SumFunctionOnSet(f, T \ {e})
    OBVIOUS
  <2> DEFINE y == First(T)
  <2>1. y \in T /\ IsFiniteSet(T)
    BY FirstIsIn, FS_Subset
  <2>2. SumFunctionOnSet(f, T) = f[y] + SumFunctionOnSet(f, T \ {y})
    BY <2>1, SumFirst
  <2> HIDE DEF y
  <2>3. CASE e = y
    BY <2>2, <2>3
  <2>4. CASE e # y
    <3>1. SumFunctionOnSet(f, T \ {y}) = f[e] + SumFunctionOnSet(f, (T \ {y}) \ {e})
      BY <2>1, <2>4, <1>1
    <3>2. SumFunctionOnSet(f, T \ {e}) = f[y] + SumFunctionOnSet(f, (T \ {e}) \ {y})
      BY <2>1, <2>4, <1>1
    <3>3. (T \ {e}) \ {y} = (T \ {y}) \ {e}
      OBVIOUS
    <3>4. SumFunctionOnSet(f, (T \ {y}) \ {e}) \in Int /\ f[e] \in Int /\ f[y] \in Int
      BY <2>1, FS_Subset, SumType
    <3> DEFINE rest == SumFunctionOnSet(f, (T \ {y}) \ {e})
    <3>5. /\ rest \in Int /\ f[e] \in Int /\ f[y] \in Int
          /\ SumFunctionOnSet(f, T) = f[y] + (f[e] + rest)
          /\ SumFunctionOnSet(f, T \ {e}) = f[y] + rest
      BY <2>2, <3>1, <3>2, <3>3, <3>4, Zenon
    <3> HIDE DEF rest
    <3> QED BY <3>5
  <2> QED BY <2>3, <2>4
<1>2. \A T \in SUBSET S : T \in Good
  <2> HIDE DEF Good
  <2> QED BY <1>1, SubsetInduction
<1> QED BY <1>2

\* Functions that agree on a set have the same sum over it.
LEMMA SumSame ==
    ASSUME NEW f, NEW g, NEW S, IsFiniteSet(S), \A e \in S : f[e] = g[e]
    PROVE  SumFunctionOnSet(f, S) = SumFunctionOnSet(g, S)
<1> DEFINE Good == {T \in SUBSET S : SumFunctionOnSet(f, T) = SumFunctionOnSet(g, T)}
<1>1. ASSUME NEW T \in SUBSET S, \A U \in SUBSET T : U # T => U \in Good
      PROVE  T \in Good
  <2>1. CASE T = {}
    BY <2>1, SumOfNone
  <2>2. CASE T # {}
    <3>1. First(T) \in T /\ IsFiniteSet(T)
      BY <2>2, FirstIsIn, FS_Subset
    <3>2. /\ SumFunctionOnSet(f, T \ {First(T)}) = SumFunctionOnSet(g, T \ {First(T)})
          /\ f[First(T)] = g[First(T)]
      BY <3>1, <1>1
    <3> QED BY <2>2, <3>1, <3>2, SumFirst
  <2> QED BY <2>1, <2>2
<1>2. \A T \in SUBSET S : T \in Good
  <2> HIDE DEF Good
  <2> QED BY <1>1, SubsetInduction
<1> QED BY <1>2

\* A sum of natural numbers is a natural number.
LEMMA SumIsNat ==
    ASSUME NEW f, NEW S, IsFiniteSet(S), \A e \in S : f[e] \in Nat
    PROVE  SumFunctionOnSet(f, S) \in Nat
<1> DEFINE Good == {T \in SUBSET S : SumFunctionOnSet(f, T) \in Nat}
<1>1. ASSUME NEW T \in SUBSET S, \A U \in SUBSET T : U # T => U \in Good
      PROVE  T \in Good
  <2>1. CASE T = {}
    BY <2>1, SumOfNone
  <2>2. CASE T # {}
    <3>1. First(T) \in T /\ IsFiniteSet(T)
      BY <2>2, FirstIsIn, FS_Subset
    <3>2. SumFunctionOnSet(f, T \ {First(T)}) \in Nat /\ f[First(T)] \in Nat
      BY <3>1, <1>1
    <3> QED BY <2>2, <3>1, <3>2, SumFirst
  <2> QED BY <2>1, <2>2
<1>2. \A T \in SUBSET S : T \in Good
  <2> HIDE DEF Good
  <2> QED BY <1>1, SubsetInduction
<1> QED BY <1>2

-----------------------------------------------------------------------------
\* A finite set of integers that is not empty has a greatest element.
LEMMA MaxIsGreatest ==
    ASSUME NEW S \in SUBSET Int, IsFiniteSet(S), S # {}
    PROVE  Max(S) \in S /\ \A y \in S : y <= Max(S)
<1> DEFINE Good == {T \in SUBSET S : T # {} => \E e \in T : \A y \in T : y <= e}
<1>1. ASSUME NEW T \in SUBSET S, \A U \in SUBSET T : U # T => U \in Good
      PROVE  T \in Good
  <2> SUFFICES ASSUME NEW z \in T PROVE \E e \in T : \A y \in T : y <= e
    BY Zenon
  <2>1. CASE T = {z}
    BY <2>1
  <2>2. CASE T # {z}
    <3>1. PICK w \in T \ {z} : \A y \in T \ {z} : y <= w
      <4>1. T \ {z} \in SUBSET T /\ T \ {z} # T /\ T \ {z} # {}
        BY <2>2
      <4>2. T \ {z} \in Good
        BY <4>1, <1>1, Zenon
      <4> QED BY <4>1, <4>2
    <3> DEFINE m == IF z <= w THEN w ELSE z
    <3>2. m \in T /\ \A y \in T : y <= m
      BY <3>1
    <3> QED BY <3>2
  <2> QED BY <2>1, <2>2
<1>2. \A T \in SUBSET S : T \in Good
  <2> HIDE DEF Good
  <2> QED BY <1>1, SubsetInduction, Zenon
<1>3. \E e \in S : \A y \in S : e >= y
  BY <1>2
<1> QED BY <1>3, Zenon DEF Max

-----------------------------------------------------------------------------
(* The search of the planner.                                              *)

\* The types of the tasks, and the costs and needs of all but the root.
TasksInv ==
    /\ \A n \in DOMAIN Tree : tasks[n].type \in {"AND", "OR", "atomic"}
    /\ \A n \in Subtasks : tasks[n].cost \in Nat /\ tasks[n].need \in Nat

Left == IF current.node = Root THEN current.decompositions ELSE {}

Tried == decompose(Root) \ Left

Waiting ==
    /\ heap = {[cost |-> 0, node |-> Root]} /\ current.decompositions = {}
    /\ best_plan = NoPlan /\ outcome = "none"

\* The best plan so far is the cheapest of the options of the root that were
\* tried.
BestInv ==
    /\ best_plan = NoPlan => \A o \in Tried : ~Admissible(Root, o)
    /\ best_plan # NoPlan =>
        /\ best_plan.node = Root /\ best_plan.option \in Tried
        /\ Admissible(Root, best_plan.option)
        /\ best_plan.cost = CostOf(Root, best_plan.option)
        /\ \A o \in Tried : Admissible(Root, o)
                => best_plan.cost <= CostOf(Root, o)

\* Whatever is left of the heap costs no less, so nothing found below the root
\* can improve on the best plan.
HeapInv ==
    /\ \A e \in heap : /\ e.node \in Subtasks /\ e.cost \in Nat
                       /\ best_plan # NoPlan /\ best_plan.cost <= e.cost
    /\ CostsAreDistinct
    /\ current.node \in DOMAIN Tree /\ current.cost \in Nat
    /\ current.node = Root => current.cost = 0
    /\ current.node # Root
        => best_plan # NoPlan /\ best_plan.cost <= current.cost
    /\ current.decompositions \subseteq decompose(current.node)

OutcomeInv ==
    /\ outcome # "none" => current.decompositions = {} /\ heap = {}
    /\ outcome = "plan" => best_plan # NoPlan
    /\ outcome = "PlanException" => best_plan = NoPlan

SearchInv ==
    /\ current = [node |-> current.node, cost |-> current.cost,
                  decompositions |-> current.decompositions]
    /\ tasks = <<>> =>
        /\ heap = {} /\ current.decompositions = {} /\ best_plan = NoPlan
        /\ outcome = "none"
    /\ tasks # <<>> => TasksInv /\ (Waiting \/ (BestInv /\ HeapInv /\ OutcomeInv))

\* An option is some of the children of the task, none of which is the root.
LEMMA OptionIsSome ==
    ASSUME TasksInv, NEW n \in DOMAIN Tree, NEW o \in decompose(n)
    PROVE  /\ o \in SUBSET (DOMAIN Tree[n]) /\ IsFiniteSet(o)
           /\ Max(o) \in o /\ \A i \in o : Tree[n][i] \in Subtasks
           /\ CostOf(n, o) \in Nat
<1>1. Tree[n] \in Seq(Subtasks)
  BY SearchAssumption
<1>2. /\ Len(Tree[n]) \in Int /\ 1 \in Int /\ DOMAIN Tree[n] = 1..Len(Tree[n])
      /\ \A i \in DOMAIN Tree[n] : Tree[n][i] \in Subtasks
  BY <1>1
<1>3. Valid(n) \in SUBSET (DOMAIN Tree[n])
  BY DEF Valid
<1>4. o \in SUBSET (DOMAIN Tree[n]) /\ o # {}
  <2>1. tasks[n].type \in {"AND", "OR", "atomic"}
    BY DEF TasksInv
  <2>2. CASE tasks[n].type = "AND"
    BY <2>2, <1>3 DEF decompose
  <2>3. CASE tasks[n].type = "OR"
    BY <2>3, <1>3 DEF decompose
  <2>4. CASE tasks[n].type = "atomic"
    BY <2>4 DEF decompose
  <2> QED BY <2>1, <2>2, <2>3, <2>4
<1>5. IsFiniteSet(DOMAIN Tree[n])
  BY <1>2, FS_Interval, Zenon
<1>6. IsFiniteSet(o)
  BY <1>4, <1>5, FS_Subset
<1>7. o \in SUBSET Int
  BY <1>2, <1>4
<1>8. Max(o) \in o
  BY <1>4, <1>6, <1>7, MaxIsGreatest
<1> DEFINE cost == [i \in DOMAIN Tree[n] |-> Child(n, i).cost]
<1>9. \A i \in o : cost[i] \in Nat
  BY <1>2, <1>4 DEF TasksInv, Child
<1>10. CostOf(n, o) = SumFunctionOnSet(cost, o)
  BY DEF CostOf
<1> HIDE DEF cost
<1>11. SumFunctionOnSet(cost, o) \in Nat
  BY <1>6, <1>9, SumIsNat
<1> QED BY <1>2, <1>4, <1>6, <1>8, <1>10, <1>11

\* Everything about an option depends on the tasks alone.
LEMMA OptionsStay ==
    ASSUME tasks' = tasks
    PROVE  /\ TasksInv' = TasksInv
           /\ \A n : decompose(n)' = decompose(n)
           /\ \A n, o : /\ CostOf(n, o)' = CostOf(n, o)
                        /\ Admissible(n, o)' = Admissible(n, o)
<1>1. \A n, i : Child(n, i)' = Child(n, i)
  BY DEF Child
<1>2. \A n : Valid(n)' = Valid(n)
  BY <1>1 DEF Valid
<1>3. \A n : decompose(n)' = decompose(n)
  BY <1>2, Zenon DEF decompose
<1>4. \A n, o : CostOf(n, o)' = CostOf(n, o)
  BY <1>1 DEF CostOf
<1>5. \A n, o : NeedOf(n, o)' = NeedOf(n, o)
  BY <1>1 DEF NeedOf
<1>6. \A n, o : Admissible(n, o)' = Admissible(n, o)
  BY <1>1, <1>5 DEF Admissible
<1>7. TasksInv' = TasksInv
  BY DEF TasksInv
<1> QED BY <1>3, <1>4, <1>6, <1>7

\* generate_plan fills the tasks and pushes the root.
LEMMA GenerateInv ==
    ASSUME SearchInv, GeneratePlan
    PROVE  SearchInv'
<1>1. /\ tasks = <<>> /\ heap' = {[cost |-> 0, node |-> Root]}
      /\ UNCHANGED <<current, best_plan, outcome>>
  BY DEF GeneratePlan
<1>2. Waiting'
  BY <1>1 DEF SearchInv, Waiting
<1> PICK type \in [DOMAIN Tree -> {"AND", "OR", "atomic"}],
         cost \in [Subtasks -> Costs], need \in [Subtasks -> Amounts],
         risky \in SUBSET Subtasks :
            tasks' = [n \in DOMAIN Tree |->
                        IF n = Root THEN [type |-> type[n]]
                        ELSE [type |-> type[n], cost |-> cost[n], need |-> need[n],
                              risky |-> n \in risky]]
  BY Zenon DEF GeneratePlan
<1>3. ASSUME NEW n \in DOMAIN Tree PROVE tasks'[n].type = type[n]
  BY DEF Root
<1>4. ASSUME NEW n \in Subtasks
      PROVE  tasks'[n].cost = cost[n] /\ tasks'[n].need = need[n]
  BY DEF Subtasks
<1>5. \A n \in DOMAIN Tree : type[n] \in {"AND", "OR", "atomic"}
  OBVIOUS
<1>6. \A n \in Subtasks : cost[n] \in Nat /\ need[n] \in Nat
  BY SearchAssumption, Zenon
<1>7. TasksInv'
  BY <1>3, <1>4, <1>5, <1>6 DEF TasksInv
<1>8. tasks' # <<>>
  <2>1. DOMAIN tasks' = DOMAIN Tree
    OBVIOUS
  <2>2. DOMAIN Tree # {}
    <3>1. Len(Tree) \in Nat \ {0} /\ DOMAIN Tree = 1..Len(Tree)
      <4>1. Tree \in Seq(Seq(Subtasks)) /\ Tree # <<>>
        BY SearchAssumption
      <4> HIDE DEF Subtasks
      <4> QED BY <4>1
    <3>2. 1 \in DOMAIN Tree
      BY <3>1
    <3> QED BY <3>2, Zenon
  <2> QED BY <2>1, <2>2
<1> QED BY <1>1, <1>2, <1>7, <1>8 DEF SearchInv

\* heappop takes a cheapest entry: what it leaves costs no less.
LEMMA PopInv ==
    ASSUME SearchInv, Pop
    PROVE  SearchInv'
<1>1. /\ current.decompositions = {} /\ outcome = "none"
      /\ UNCHANGED <<tasks, best_plan, outcome>>
  BY DEF Pop
<1> PICK e \in heap : /\ \A f \in heap : e.cost <= f.cost
                      /\ heap' = heap \ {e}
                      /\ current' = [node |-> e.node, cost |-> e.cost,
                                     decompositions |-> decompose(e.node)]
  BY DEF Pop
<1>2. tasks # <<>> /\ TasksInv
  BY DEF SearchInv
<1>3. /\ \A n : decompose(n)' = decompose(n)
      /\ \A n, o : /\ CostOf(n, o)' = CostOf(n, o)
                   /\ Admissible(n, o)' = Admissible(n, o)
      /\ TasksInv'
  BY <1>1, <1>2, OptionsStay
<1>4. /\ current'.node = e.node /\ current'.cost = e.cost
      /\ current'.decompositions = decompose(e.node)
      /\ current' = [node |-> current'.node, cost |-> current'.cost,
                     decompositions |-> current'.decompositions]
  OBVIOUS
<1>5. OutcomeInv'
  BY <1>1 DEF OutcomeInv
<1>6. CASE Waiting
  <2>1. /\ e.node = Root /\ e.cost = 0 /\ heap' = {} /\ best_plan' = NoPlan
        /\ Root \in DOMAIN Tree
    BY <1>1, <1>6, SearchAssumption, SMTT(30) DEF Waiting, Root
  <2>2. Tried' = {}
    BY <2>1, <1>3, <1>4 DEF Tried, Left
  <2>3. BestInv'
    BY <2>1, <2>2 DEF BestInv
  <2>4. HeapInv'
    BY <2>1, <1>3, <1>4, SMTT(30) DEF HeapInv, CostsAreDistinct
  <2> QED BY <2>3, <2>4, <1>1, <1>2, <1>3, <1>4, <1>5 DEF SearchInv
<1>7. CASE BestInv /\ HeapInv
  <2>1. /\ e.node \in DOMAIN Tree /\ e.node # Root /\ e.cost \in Nat
        /\ best_plan # NoPlan /\ best_plan.cost <= e.cost
    BY <1>7 DEF HeapInv, Subtasks
  <2>2. Tried' = Tried
    BY <2>1, <1>1, <1>3, <1>4 DEF Tried, Left
  <2>3. BestInv'
    BY <2>2, <1>1, <1>3, <1>7 DEF BestInv
  <2>4. HeapInv'
    BY <2>1, <1>1, <1>3, <1>4, <1>7 DEF HeapInv, CostsAreDistinct
  <2> QED BY <2>3, <2>4, <1>1, <1>2, <1>3, <1>4, <1>5 DEF SearchInv
<1> QED BY <1>2, <1>6, <1>7 DEF SearchInv

\* An admissible decomposition that is cheaper becomes the best plan.
LEMMA TryInv ==
    ASSUME SearchInv, TryOption
    PROVE  SearchInv'
<1> PICK o \in current.decompositions :
        /\ current' = [current EXCEPT !.decompositions = @ \ {o}]
        /\ IF /\ Admissible(current.node, o)
              /\ Improves(current.cost + CostOf(current.node, o))
           THEN /\ best_plan' = [node |-> current.node, option |-> o,
                                 cost |-> current.cost + CostOf(current.node, o)]
                /\ heap' = heap \cup {[cost |-> current.cost + CostOf(current.node, o),
                                       node |-> Tree[current.node][Max(o)]]}
           ELSE UNCHANGED <<best_plan, heap>>
        /\ UNCHANGED <<tasks, outcome>>
  BY Zenon DEF TryOption
<1>1. /\ current'.node = current.node /\ current'.cost = current.cost
      /\ current'.decompositions = current.decompositions \ {o}
      /\ current' = [node |-> current'.node, cost |-> current'.cost,
                     decompositions |-> current'.decompositions]
  BY Zenon DEF SearchInv
<1>2. tasks # <<>> /\ TasksInv /\ BestInv /\ HeapInv /\ OutcomeInv
  BY DEF SearchInv, Waiting
<1>3. /\ \A n : decompose(n)' = decompose(n)
      /\ \A n, p : /\ CostOf(n, p)' = CostOf(n, p)
                   /\ Admissible(n, p)' = Admissible(n, p)
      /\ TasksInv'
  BY <1>2, OptionsStay
<1>4. /\ current.node \in DOMAIN Tree /\ current.cost \in Nat
      /\ o \in decompose(current.node)
  BY <1>2 DEF HeapInv
<1>5. /\ CostOf(current.node, o) \in Nat
      /\ Tree[current.node][Max(o)] \in Subtasks
  BY <1>2, <1>4, OptionIsSome
<1>6. outcome = "none" /\ outcome' = "none"
  BY <1>2 DEF OutcomeInv, SearchInv
<1>7. OutcomeInv'
  BY <1>6 DEF OutcomeInv
<1> DEFINE c == CostOf(current.node, o)
<1>8. /\ Root \in DOMAIN Tree
      /\ \A p \in decompose(Root) : CostOf(Root, p) \in Nat
  <2>1. Root \in DOMAIN Tree
    BY SearchAssumption DEF Root
  <2> QED BY <2>1, <1>2, OptionIsSome
<1>9. best_plan # NoPlan => best_plan.cost \in Nat
  BY <1>2, <1>8 DEF BestInv, Tried
<1>10. SUFFICES BestInv' /\ HeapInv'
  BY <1>1, <1>2, <1>3, <1>7 DEF SearchInv
<1>11. CASE current.node # Root
  <2>1. best_plan # NoPlan /\ best_plan.cost <= current.cost
    BY <1>2, <1>11 DEF HeapInv
  <2>2. ~Improves(current.cost + c)
    BY <2>1, <1>4, <1>5, <1>9 DEF Improves
  <2>3. UNCHANGED <<best_plan, heap>>
    BY <2>2
  <2>4. Tried' = Tried
    BY <1>1, <1>3, <1>11 DEF Tried, Left
  <2>5. BestInv'
    BY <2>3, <2>4, <1>2, <1>3 DEF BestInv
  <2>6. HeapInv'
    BY <2>3, <1>1, <1>2, <1>3 DEF HeapInv, CostsAreDistinct
  <2> QED BY <2>5, <2>6
<1>12. CASE current.node = Root
  <2>1. current.cost = 0 /\ current.cost + c = c /\ c \in Nat
    BY <1>2, <1>5, <1>12 DEF HeapInv
  <2>2. Tried' = Tried \cup {o}
    BY <1>1, <1>2, <1>3, <1>4, <1>12 DEF Tried, Left, HeapInv
  <2>3. c = CostOf(Root, o)
    BY <1>12
  <2> HIDE DEF c
  <2>4. CASE Admissible(Root, o) /\ Improves(c)
    <3>1. /\ best_plan' = [node |-> Root, option |-> o, cost |-> c]
          /\ heap' = heap \cup {[cost |-> c, node |-> Tree[Root][Max(o)]]}
      BY <2>1, <2>4, <1>12 DEF c
    <3>2. /\ best_plan'.node = Root /\ best_plan'.option = o /\ best_plan'.cost = c
          /\ best_plan' # NoPlan
      BY <3>1 DEF NoPlan, Root
    <3>3. best_plan # NoPlan => c < best_plan.cost
      BY <2>4 DEF Improves
    <3>4. ASSUME NEW p \in Tried', Admissible(Root, p)
          PROVE  c <= CostOf(Root, p)
      <4>1. CASE p = o
        BY <4>1, <2>1, <2>3
      <4>2. CASE p \in Tried
        <5>1. best_plan # NoPlan /\ best_plan.cost <= CostOf(Root, p)
          BY <4>2, <3>4, <1>2 DEF BestInv
        <5>2. CostOf(Root, p) \in Nat
          BY <4>2, <1>8 DEF Tried
        <5> QED BY <5>1, <5>2, <3>3, <2>1, <1>9
      <4> QED BY <4>1, <4>2, <2>2
    <3>5. BestInv'
      BY <3>2, <3>4, <2>2, <2>3, <2>4, <1>3 DEF BestInv
    <3> DEFINE new == [cost |-> c, node |-> Tree[Root][Max(o)]]
    <3>6. new.cost = c /\ new.node \in Subtasks /\ heap' = heap \cup {new}
      BY <3>1, <1>5, <1>12
    <3> HIDE DEF new
    <3>7. ASSUME NEW e \in heap
          PROVE  e.node \in Subtasks /\ e.cost \in Nat /\ c < e.cost
      <4>1. /\ e.node \in Subtasks /\ e.cost \in Nat
            /\ best_plan # NoPlan /\ best_plan.cost <= e.cost
        BY <1>2 DEF HeapInv
      <4> QED BY <4>1, <3>3, <2>1, <1>9
    <3>8. ASSUME NEW e \in heap'
          PROVE  e.node \in Subtasks /\ e.cost \in Nat /\ c <= e.cost
      BY <3>6, <3>7, <2>1
    <3>9. CostsAreDistinct'
      <4>1. ASSUME NEW e \in heap', NEW f \in heap', e.cost = f.cost PROVE e = f
        <5>1. CASE e \in heap /\ f \in heap
          BY <5>1, <4>1, <1>2 DEF HeapInv, CostsAreDistinct
        <5>2. CASE e = new /\ f = new
          BY <5>2
        <5>3. CASE e = new /\ f \in heap
          BY <5>3, <4>1, <3>6, <3>7, <2>1
        <5>4. CASE f = new /\ e \in heap
          BY <5>4, <4>1, <3>6, <3>7, <2>1
        <5> QED BY <5>1, <5>2, <5>3, <5>4, <3>6
      <4> QED BY <4>1 DEF CostsAreDistinct
    <3>10. HeapInv'
      BY <3>2, <3>8, <3>9, <1>1, <1>2, <1>3, <1>12 DEF HeapInv
    <3> QED BY <3>5, <3>10
  <2>5. CASE ~(Admissible(Root, o) /\ Improves(c))
    <3>1. UNCHANGED <<best_plan, heap>>
      BY <2>1, <2>5, <1>12 DEF c
    <3>2. ASSUME Admissible(Root, o)
          PROVE  best_plan # NoPlan /\ best_plan.cost <= CostOf(Root, o)
      BY <3>2, <2>1, <2>3, <2>5, <1>9 DEF Improves
    <3>3. BestInv'
      BY <3>1, <3>2, <2>2, <1>2, <1>3 DEF BestInv
    <3>4. HeapInv'
      BY <3>1, <1>1, <1>2, <1>3 DEF HeapInv, CostsAreDistinct
    <3> QED BY <3>3, <3>4
  <2> QED BY <2>4, <2>5
<1> QED BY <1>11, <1>12

\* The invariant of the search is inductive.
LEMMA SearchInvStep == SearchInv /\ [SearchNext]_searchVars => SearchInv'
<1> SUFFICES ASSUME SearchInv, [SearchNext]_searchVars PROVE SearchInv'
  OBVIOUS
<1>1. ASSUME UNCHANGED <<tasks, heap, current, best_plan>>, OutcomeInv',
             outcome = "none" \/ outcome' = outcome,
             outcome' = outcome \/ (tasks # <<>> /\ heap = {})
      PROVE  SearchInv'
  <2>1. CASE tasks = <<>>
    BY <2>1, <1>1 DEF SearchInv
  <2>2. CASE tasks # <<>>
    <3>1. /\ \A n : decompose(n)' = decompose(n)
          /\ \A n, o : /\ CostOf(n, o)' = CostOf(n, o)
                       /\ Admissible(n, o)' = Admissible(n, o)
          /\ TasksInv' = TasksInv
      BY <1>1, OptionsStay, SMTT(30)
    <3>2. Tried' = Tried
      BY <3>1, <1>1 DEF Tried, Left
    <3>3. BestInv => BestInv'
      BY <3>1, <3>2, <1>1 DEF BestInv
    <3>4. HeapInv => HeapInv'
      BY <3>1, <1>1 DEF HeapInv, CostsAreDistinct
    <3>5. Waiting => Waiting'
      BY <1>1, Zenon DEF Waiting
    <3> QED BY <2>2, <3>1, <3>3, <3>4, <3>5, <1>1 DEF SearchInv
  <2> QED BY <2>1, <2>2
<1>2. CASE ReturnPlan
  <2>1. /\ UNCHANGED <<tasks, heap, current, best_plan>>
        /\ tasks # <<>> /\ heap = {} /\ current.decompositions = {} /\ outcome = "none"
        /\ outcome' = IF best_plan = NoPlan THEN "PlanException" ELSE "plan"
    BY <1>2 DEF ReturnPlan
  <2>2. OutcomeInv'
    BY <2>1 DEF OutcomeInv
  <2> QED BY <2>1, <2>2, <1>1
<1>3. CASE UNCHANGED searchVars
  <2>1. UNCHANGED <<tasks, heap, current, best_plan, outcome>>
    BY <1>3 DEF searchVars
  <2>2. OutcomeInv
    BY DEF SearchInv, Waiting, OutcomeInv
  <2>3. OutcomeInv'
    BY <2>1, <2>2 DEF OutcomeInv
  <2> QED BY <2>1, <2>3, <1>1
<1> QED BY <1>2, <1>3, GenerateInv, PopInv, TryInv DEF SearchNext

LEMMA SearchInitially == SearchInit => SearchInv
BY DEF SearchInit, SearchInv

RootOptions == {o \in decompose(Root) : Admissible(Root, o)}

\* The plan is a cheapest admissible option of the root, its children's costs
\* alone counted, and there is an exception when no option is admissible.
CheapestOfTheRoot ==
    /\ outcome = "plan" =>
        /\ best_plan.node = Root /\ best_plan.option \in RootOptions
        /\ best_plan.cost = CostOf(Root, best_plan.option)
        /\ \A o \in RootOptions : best_plan.cost <= CostOf(Root, o)
    /\ outcome = "PlanException" => RootOptions = {}

\* What generate_plan computes, for any tree, costs, needs and pool, is a
\* cheapest admissible option of the root, whatever the tasks below its children
\* cost: the search below the root never changes the plan.  It raises exactly
\* when no option of the root is admissible.
THEOREM SearchEndsAtTheRoot == SearchSpec => []CheapestOfTheRoot
<1>1. SearchInv => CheapestOfTheRoot
  <2> SUFFICES ASSUME SearchInv PROVE CheapestOfTheRoot
    BY DEF CheapestOfTheRoot
  <2>1. CASE outcome \notin {"plan", "PlanException"}
    BY <2>1 DEF CheapestOfTheRoot
  <2>2. CASE outcome \in {"plan", "PlanException"}
    <3>1. BestInv /\ OutcomeInv
      BY <2>2 DEF SearchInv, Waiting
    <3>2. Tried = decompose(Root)
      BY <2>2, <3>1 DEF OutcomeInv, Tried, Left
    <3>3. \A o : o \in RootOptions
                <=> o \in Tried /\ Admissible(Root, o)
      BY <3>2 DEF RootOptions
    <3> QED BY <2>2, <3>1, <3>3 DEF CheapestOfTheRoot, BestInv, OutcomeInv
  <2> QED BY <2>1, <2>2
<1> QED BY <1>1, SearchInitially, SearchInvStep, PTL DEF SearchSpec

\* heapq never compares two tasks: no two entries of the heap cost the same.
THEOREM HeapCostsDiffer == SearchSpec => []CostsAreDistinct
<1>1. SearchInv => CostsAreDistinct
  BY DEF SearchInv, HeapInv, Waiting, CostsAreDistinct
<1> QED BY <1>1, SearchInitially, SearchInvStep, PTL DEF SearchSpec

-----------------------------------------------------------------------------
(* The auction.                                                            *)

\* The allocation meets the constraints from Solve on, and winners is made of it.
SaleInv ==
    /\ \E S : bids \in Seq(S)
    /\ stage \in {"solved", "done"} => x \in Feasible({})
    /\ stage = "done" => winners = {<<bids[i].package, bids[i].bidder>> : i \in Entries}

\* The bids are a finite sequence, so what is chosen among them is finite.
LEMMA BidsAreFinite ==
    ASSUME SaleInv, NEW S \in SUBSET (DOMAIN bids)
    PROVE  IsFiniteSet(S)
<1>1. DOMAIN bids = 1..Len(bids) /\ Len(bids) \in Int /\ 1 \in Int
  BY DEF SaleInv
<1>2. IsFiniteSet(DOMAIN bids)
  BY <1>1, FS_Interval, Zenon
<1> QED BY <1>2, FS_Subset

\* Two bids of the allocation whose packages share an item are one bid.
LEMMA ItemsKeepApart ==
    ASSUME SaleInv, stage \in {"solved", "done"}, NEW i \in x, NEW j \in x,
           bids[i].package \cap bids[j].package \cap Items # {}
    PROVE  i = j
<1> PICK item \in Items : item \in bids[i].package /\ item \in bids[j].package
  OBVIOUS
<1> DEFINE A == {k \in x : item \in bids[k].package}
<1>1. x \in SUBSET (DOMAIN bids) /\ Cardinality(A) <= 1
  BY DEF SaleInv, Feasible, ItemConstraint
<1>2. A \in SUBSET (DOMAIN bids) /\ i \in A /\ j \in A
  BY <1>1
<1> HIDE DEF A
<1>3. IsFiniteSet(A)
  BY <1>2, BidsAreFinite
<1>4. \A T \in SUBSET A : IsFiniteSet(T) /\ Cardinality(T) \in Nat /\ Cardinality(T) <= Cardinality(A)
  BY <1>3, FS_Subset, FS_CardinalityType
<1>5. Cardinality({i}) = 1 /\ IsFiniteSet({i})
  BY FS_Singleton, Zenon
<1>6. CASE i # j
  <2>1. Cardinality({i} \cup {j}) = 2
    <3>1. j \notin {i}
      BY <1>6
    <3>2. Cardinality({i} \cup {j}) = Cardinality({i}) + 1
      BY <1>5, <3>1, FS_AddElement, Zenon
    <3> QED BY <3>2, <1>5
  <2>2. {i} \cup {j} \in SUBSET A
    BY <1>2
  <2> QED BY <2>1, <2>2, <1>1, <1>3, <1>4, FS_CardinalityType
<1> QED BY <1>6

\* The invariant of the auction is inductive.
LEMMA SaleInvStep == SaleInv /\ [SaleNext]_saleVars => SaleInv'
<1> SUFFICES ASSUME SaleInv, [SaleNext]_saleVars PROVE SaleInv'
  OBVIOUS
<1>1. ASSUME NEW b, NEW p, NEW v, NEW n, PlaceBid(b, p, v, n)
      PROVE  SaleInv'
  <2> DEFINE bid == [bidder |-> b, package |-> p, value |-> v, nonce |-> n]
  <2>1. stage' = "bidding" /\ bids' = Append(bids, bid)
    BY <1>1 DEF PlaceBid
  <2>2. PICK S : bids \in Seq(S)
    BY DEF SaleInv
  <2> HIDE DEF bid
  <2>3. bids \in Seq(S \cup {bid}) /\ bid \in S \cup {bid}
    BY <2>2
  <2>4. bids' \in Seq(S \cup {bid})
    BY <2>1, <2>3
  <2> QED BY <2>1, <2>4 DEF SaleInv
<1>2. CASE Construct
  BY <1>2 DEF Construct, SaleInv
<1>3. ASSUME bids' = bids PROVE Feasible({})' = Feasible({})
  BY <1>3 DEF Feasible, ItemConstraint
<1>4. CASE Solve
  <2>1. bids' = bids /\ stage' \in {"solved", "RuntimeError"}
    BY <1>4 DEF Solve
  <2>2. stage' = "solved" => x' \in Feasible({})
    BY <1>4 DEF Solve
  <2> QED BY <2>1, <2>2, <1>3 DEF SaleInv
<1>5. CASE ComputeVcgPayments
  <2>1. /\ UNCHANGED <<bids, x>> /\ stage = "solved" /\ stage' = "done"
        /\ winners' = {<<bids[i].package, bids[i].bidder>> : i \in Entries}
    BY <1>5 DEF ComputeVcgPayments
  <2>2. Entries' = Entries
    BY <2>1 DEF Entries
  <2> QED BY <2>1, <2>2, <1>3 DEF SaleInv
<1>6. CASE UNCHANGED saleVars
  <2>1. UNCHANGED <<bids, x, stage, winners>>
    BY <1>6 DEF saleVars
  <2>2. Entries' = Entries
    BY <2>1 DEF Entries
  <2> QED BY <2>1, <2>2, <1>3 DEF SaleInv
<1> QED BY <1>1, <1>2, <1>4, <1>5, <1>6 DEF SaleNext

\* Whatever is bid on whatever packages, and whichever allocation the solver
\* returns, no item of the auction is sold twice and no winning bid on one of
\* them is missing in winners.
THEOREM ItemsAreSoldOnce == SaleSpec => []SellsEveryItemOnce
<1>1. SaleInit => SaleInv
  BY DEF SaleInit, SaleInv
<1>2. SaleInv => SellsEveryItemOnce
  <2> SUFFICES ASSUME SaleInv, stage = "done" PROVE SellsEveryItemOnce
    BY DEF SellsEveryItemOnce
  <2>1. winners = {<<bids[i].package, bids[i].bidder>> : i \in Entries} /\ Entries \subseteq x
    BY DEF SaleInv, Entries
  <2>2. ASSUME NEW e \in winners, NEW f \in winners, e[1] \cap f[1] \cap Items # {}
        PROVE  e = f
    <3>1. PICK i \in x : e = <<bids[i].package, bids[i].bidder>>
      BY <2>1
    <3>2. PICK j \in x : f = <<bids[j].package, bids[j].bidder>>
      BY <2>1
    <3>3. i = j
      BY <2>2, <3>1, <3>2, ItemsKeepApart
    <3> QED BY <3>1, <3>2, <3>3
  <2>3. ASSUME NEW i \in x, bids[i].package \cap Items # {}
        PROVE  <<bids[i].package, bids[i].bidder>> \in winners
    <3>1. x \in SUBSET (DOMAIN bids) /\ DOMAIN bids \in SUBSET Int
      BY DEF SaleInv, Feasible
    <3>2. ASSUME NEW j \in x, bids[j].package = bids[i].package PROVE j <= i
      BY <2>3, <3>1, <3>2, ItemsKeepApart
    <3>3. i \in Entries
      BY <3>2 DEF Entries
    <3> QED BY <3>3, <2>1
  <2> QED BY <2>2, <2>3 DEF SellsEveryItemOnce
<1> QED BY <1>1, <1>2, SaleInvStep, PTL DEF SaleSpec

-----------------------------------------------------------------------------
(* The encrypted aggregation.                                              *)

\* The places of parameter i, flattened, in the first update.
Size(i) == DOMAIN flatten(prepared[1][i])

\* The sum of element k of parameter i over the first n updates.
Total(i, k, n) == SumFunctionOnSet(Inputs(i, k), 1..n)

Has(u, i) == i \in DOMAIN prepared[u] /\ DOMAIN flatten(prepared[u][i]) = Size(i)

IsTotal(v, i, n) ==
    /\ v \in [encrypted : [Size(i) -> Int]]
    /\ \A u \in 1..n : Has(u, i)
    /\ \A k \in Size(i) : v.encrypted[k] = Total(i, k, n)

\* The server still has what the clients encrypted.
UpdatesInv ==
    /\ prepared \in Seq(ParamLists)
    /\ updates = [u \in DOMAIN prepared |-> encrypt_parameters(prepared[u])]

AggregatedInv ==
    /\ prepared # <<>> /\ \E V : aggregated \in Seq(V)
    /\ \A i \in DOMAIN aggregated : IsTotal(aggregated[i], i, Len(prepared))

\* Every finished parameter is the sum over all updates, the one at hand the
\* sum over those that were added.
SumsInv ==
    /\ UpdatesInv
    /\ phase = "adding" /\ prepared # <<>> =>
        /\ AggregatedInv
        /\ added \in 0..Len(prepared)
        /\ added # 0 => IsTotal(param_agg, param_idx, added)
    /\ phase \in {"aggregated", "decrypted"} =>
        AggregatedInv /\ Len(aggregated) = Len(prepared[1])
    /\ phase = "decrypted" => decrypted = [i \in DOMAIN aggregated |-> aggregated[i].encrypted]

\* flatten keeps every element of an array, in row-major order.
LEMMA FlatArray ==
    ASSUME NEW a \in Arrays
    PROVE  /\ flatten(a) \in [DOMAIN flatten(a) -> Int]
           /\ \A k \in DOMAIN flatten(a) : flatten(a)[k] = Element(a, k)
<1>1. \A k \in DOMAIN flatten(a) : flatten(a)[k] = Element(a, k)
  BY DEF flatten
<1>2. flatten(a) = [k \in DOMAIN flatten(a) |-> flatten(a)[k]]
  BY DEF flatten
<1>3. \A k \in DOMAIN flatten(a) : Element(a, k) \in Int
  BY SumsAssumption, Zenon
<1> HIDE DEF flatten, Element
<1> QED BY <1>1, <1>2, <1>3

\* What the server has of an update.
LEMMA UpdateAt ==
    ASSUME UpdatesInv, NEW u \in DOMAIN updates
    PROVE  /\ u \in DOMAIN prepared /\ prepared[u] \in Seq(Arrays)
           /\ DOMAIN updates[u] = DOMAIN prepared[u]
           /\ \A i \in DOMAIN updates[u] :
                /\ prepared[u][i] \in Arrays
                /\ updates[u][i] = [encrypted |-> flatten(prepared[u][i])]
<1>1. u \in DOMAIN prepared /\ updates[u] = encrypt_parameters(prepared[u])
  BY DEF UpdatesInv
<1>2. prepared[u] \in Seq(Arrays)
  BY <1>1, SumsAssumption DEF UpdatesInv
<1>3. DOMAIN updates[u] = DOMAIN prepared[u]
  BY <1>1 DEF encrypt_parameters
<1>4. \A i \in DOMAIN prepared[u] :
        updates[u][i] = [encrypted |-> flatten(prepared[u][i])]
  BY <1>1, Zenon DEF encrypt_parameters
<1>5. \A i \in DOMAIN prepared[u] : prepared[u][i] \in Arrays
  BY <1>2
<1> QED BY <1>1, <1>2, <1>3, <1>4, <1>5, Zenon

\* There is one encrypted update for each prepared one.
LEMMA UpdatesDomain ==
    ASSUME UpdatesInv
    PROVE  /\ Len(prepared) \in Nat /\ DOMAIN prepared = 1..Len(prepared)
           /\ Len(updates) = Len(prepared) /\ DOMAIN updates = DOMAIN prepared
           /\ (updates = <<>>) <=> (prepared = <<>>)
           /\ (prepared # <<>>) <=> (Len(prepared) > 0)
<1>1. Len(prepared) \in Nat /\ DOMAIN prepared = 1..Len(prepared)
  BY DEF UpdatesInv
<1>2. DOMAIN updates = 1..Len(prepared)
  BY <1>1 DEF UpdatesInv
<1>3. updates = [u \in 1..Len(prepared) |-> updates[u]]
  BY <1>1 DEF UpdatesInv
<1>4. Len(updates) = Len(prepared)
  BY <1>1, <1>2, <1>3
<1>5. (prepared # <<>>) <=> (Len(prepared) > 0)
  BY <1>1 DEF UpdatesInv
<1>6. (updates # <<>>) <=> (Len(updates) > 0)
  BY <1>1, <1>2, <1>3, <1>4
<1> QED BY <1>1, <1>2, <1>4, <1>5, <1>6

\* What update u contributes to element k of parameter i.
LEMMA InputAt ==
    ASSUME UpdatesInv, NEW u \in DOMAIN prepared, NEW i, Has(u, i), NEW k \in Size(i)
    PROVE  /\ Inputs(i, k)[u] = flatten(prepared[u][i])[k]
           /\ Inputs(i, k)[u] \in Int
<1>1. prepared[u][i] \in Arrays /\ k \in DOMAIN flatten(prepared[u][i])
  BY UpdateAt, UpdatesDomain, Zenon DEF Has
<1>2. Inputs(i, k)[u] = Element(prepared[u][i], k)
  BY DEF Inputs
<1> HIDE DEF flatten, Element
<1> QED BY <1>1, <1>2, FlatArray

\* One update more adds its element to the total.
LEMMA TotalGrows ==
    ASSUME UpdatesInv, NEW n \in Nat, n < Len(prepared), NEW i, NEW k \in Size(i),
           \A u \in 1..(n + 1) : Has(u, i)
    PROVE  Total(i, k, n + 1) = Total(i, k, n) + flatten(prepared[n + 1][i])[k]
<1> DEFINE f == Inputs(i, k)
           S == 1..(n + 1)
<1>1. IsFiniteSet(S) /\ n + 1 \in S /\ S \ {n + 1} = 1..n /\ IsFiniteSet(1..n)
  <2>1. 1 \in Int /\ n \in Int /\ n + 1 \in Int
    OBVIOUS
  <2>2. IsFiniteSet(1..n) /\ IsFiniteSet(1..(n + 1))
    BY <2>1, FS_Interval, Zenon
  <2> QED BY <2>2
<1>2. S \subseteq DOMAIN prepared
  BY UpdatesDomain
<1>3. \A u \in S : f[u] = flatten(prepared[u][i])[k] /\ f[u] \in Int
  BY <1>2, InputAt, Zenon
<1>4. \A u \in 1..n : f[u] \in Int
  BY <1>3
<1> HIDE DEF f
<1>5. SumFunctionOnSet(f, 1..n) \in Int
  BY <1>1, <1>4, SumType, Zenon
<1>6. SumFunctionOnSet(f, S) = f[n + 1] + SumFunctionOnSet(f, S \ {n + 1})
  <2>1. \A u \in S : f[u] \in Int
    BY <1>3, Zenon
  <2>2. IsFiniteSet(S) /\ n + 1 \in S
    BY <1>1
  <2> HIDE DEF S
  <2>3. \A y \in S : SumFunctionOnSet(f, S) = f[y] + SumFunctionOnSet(f, S \ {y})
    BY <2>1, <2>2, SumSplits
  <2> QED BY <2>2, <2>3
<1>7. f[n + 1] = flatten(prepared[n + 1][i])[k] /\ f[n + 1] \in Int
  BY <1>1, <1>3, Zenon
<1>8. /\ Total(i, k, n + 1) = SumFunctionOnSet(f, S)
      /\ Total(i, k, n) = SumFunctionOnSet(f, 1..n)
  BY Zenon DEF Total, f
<1>9. SumFunctionOnSet(f, S) = f[n + 1] + SumFunctionOnSet(f, 1..n)
  BY <1>1, <1>6, Zenon
<1> HIDE DEF S
<1> QED BY <1>5, <1>7, <1>8, <1>9

\* The sum of a parameter starts with that of the first update.
LEMMA CopyFirstInv ==
    ASSUME SumsInv, CopyFirst
    PROVE  SumsInv'
<1> DEFINE i == param_idx
<1>1. /\ UNCHANGED <<prepared, updates, aggregated, phase>> /\ phase = "adding"
      /\ updates # <<>> /\ i \in DOMAIN updates[1] /\ param_agg' = updates[1][i] /\ added' = 1
  BY DEF CopyFirst
<1>2. UpdatesInv /\ UpdatesInv'
  BY <1>1 DEF SumsInv, UpdatesInv
<1>3. prepared # <<>> /\ 1 \in DOMAIN updates /\ 1 \in DOMAIN prepared /\ 0 < Len(prepared)
      /\ Len(prepared) \in Nat
  BY <1>1, <1>2, UpdatesDomain
<1>4. /\ i \in DOMAIN prepared[1] /\ prepared[1][i] \in Arrays
      /\ param_agg' = [encrypted |-> flatten(prepared[1][i])]
  BY <1>1, <1>2, <1>3, UpdateAt, Zenon
<1>5. flatten(prepared[1][i]) \in [Size(i) -> Int] /\ Has(1, i)
  BY <1>4, FlatArray, Zenon DEF Size, Has
<1> HIDE DEF i
<1>6. \A k \in Size(i) : Total(i, k, 1) = flatten(prepared[1][i])[k]
  <2> SUFFICES ASSUME NEW k \in Size(i) PROVE Total(i, k, 1) = flatten(prepared[1][i])[k]
    OBVIOUS
  <2>1. Total(i, k, 0) = 0
    <3>1. 1..0 = {}
      OBVIOUS
    <3> QED BY <3>1, SumOfNone, Zenon DEF Total
  <2>2. Total(i, k, 0 + 1) = Total(i, k, 0) + flatten(prepared[0 + 1][i])[k]
    <3>1. \A u \in 1..(0 + 1) : Has(u, i)
      BY <1>5
    <3>2. 0 \in Nat
      OBVIOUS
    <3> QED BY <3>1, <3>2, <1>2, <1>3, TotalGrows, Zenon
  <2>3. 0 + 1 = 1
    OBVIOUS
  <2>4. flatten(prepared[1][i])[k] \in Int
    BY <1>5
  <2> HIDE DEF flatten, Total
  <2> QED BY <2>1, <2>2, <2>3, <2>4
<1>7. IsTotal(param_agg', i, 1)
  <2>1. /\ param_agg' \in [encrypted : [Size(i) -> Int]]
        /\ param_agg'.encrypted = flatten(prepared[1][i])
    <3> HIDE DEF flatten
    <3> QED BY <1>4, <1>5
  <2>2. \A u \in 1..1 : Has(u, i)
    BY <1>5
  <2> QED BY <2>1, <2>2, <1>6, Zenon DEF IsTotal
<1>8. IsTotal(param_agg, param_idx, added)'
  <2>1. i = param_idx'
    BY <1>1, SMTT(30) DEF i, param_idx
  <2> QED BY <1>1, <1>7, <2>1, Zenon DEF IsTotal, Has, Size, Total, Inputs
<1>9. AggregatedInv'
  BY <1>1, <1>3 DEF SumsInv, AggregatedInv, IsTotal, Has, Size, Total, Inputs
<1>10. added' \in 0..Len(prepared')
  BY <1>1, <1>3
<1>11. phase' = "adding"
  BY <1>1, SMTT(30)
<1> QED BY <1>2, <1>8, <1>9, <1>10, <1>11 DEF SumsInv

\* Each update is added to the sum once.
LEMMA AddUpdateInv ==
    ASSUME SumsInv, AddUpdate
    PROVE  SumsInv'
<1> DEFINE i == param_idx
           n == added
<1>1. /\ UNCHANGED <<prepared, updates, aggregated, phase>> /\ phase = "adding"
      /\ n \in 1..(Len(updates) - 1) /\ i \in DOMAIN updates[n + 1]
      /\ DOMAIN updates[n + 1][i].encrypted = DOMAIN param_agg.encrypted
      /\ param_agg' = Add(param_agg, updates[n + 1][i]) /\ added' = n + 1
  BY DEF AddUpdate, AfterSum, Fits
<1>2. UpdatesInv /\ UpdatesInv'
  BY <1>1 DEF SumsInv, UpdatesInv
<1>3. /\ prepared # <<>> /\ n \in Nat /\ n # 0 /\ n < Len(prepared) /\ Len(prepared) \in Nat
      /\ n + 1 \in DOMAIN updates
  BY <1>1, <1>2, UpdatesDomain
<1>4. IsTotal(param_agg, i, n)
  BY <1>1, <1>3 DEF SumsInv
<1>5. /\ i \in DOMAIN prepared[n + 1] /\ prepared[n + 1][i] \in Arrays
      /\ updates[n + 1][i] = [encrypted |-> flatten(prepared[n + 1][i])]
  BY <1>1, <1>2, <1>3, UpdateAt, Zenon
<1>6. flatten(prepared[n + 1][i]) \in [Size(i) -> Int] /\ Has(n + 1, i)
  <2> HIDE DEF flatten
  <2>1. param_agg.encrypted \in [Size(i) -> Int]
    BY <1>4 DEF IsTotal
  <2>2. updates[n + 1][i].encrypted = flatten(prepared[n + 1][i])
    BY <1>5
  <2>3. DOMAIN flatten(prepared[n + 1][i]) = Size(i)
    BY <1>1, <2>1, <2>2
  <2> QED BY <2>3, <1>5, FlatArray, Zenon DEF Has
<1> HIDE DEF i, n
<1>7. \A u \in 1..(n + 1) : Has(u, i)
  BY <1>3, <1>4, <1>6 DEF IsTotal
<1>8. \A k \in Size(i) :
        Total(i, k, n + 1) = Total(i, k, n) + flatten(prepared[n + 1][i])[k]
  BY <1>2, <1>3, <1>7, TotalGrows, Zenon
<1>9. IsTotal(param_agg', i, n + 1)
  <2> DEFINE w == flatten(prepared[n + 1][i])
  <2>1. w \in [Size(i) -> Int]
    BY <1>6
  <2>2. param_agg' = Add(param_agg, [encrypted |-> w])
    BY <1>1, <1>5
  <2>3. \A k \in Size(i) : Total(i, k, n + 1) = Total(i, k, n) + w[k]
    BY <1>8
  <2> HIDE DEF w
  <2>4. /\ param_agg.encrypted \in [Size(i) -> Int]
        /\ \A k \in Size(i) : param_agg.encrypted[k] = Total(i, k, n)
    BY <1>4 DEF IsTotal
  <2>5. param_agg' = [encrypted |-> [k \in Size(i) |-> param_agg.encrypted[k] + w[k]]]
    BY <2>2, <2>4 DEF Add
  <2>6. param_agg' \in [encrypted : [Size(i) -> Int]]
    BY <2>1, <2>4, <2>5, SMTT(30)
  <2>7. \A k \in Size(i) : param_agg'.encrypted[k] = Total(i, k, n + 1)
    BY <2>3, <2>4, <2>5
  <2> QED BY <2>6, <2>7, <1>7, Zenon DEF IsTotal
<1>10. IsTotal(param_agg, param_idx, added)'
  <2>1. i = param_idx'
    BY <1>1, SMTT(30) DEF i, param_idx
  <2> QED BY <1>1, <1>9, <2>1, Zenon DEF IsTotal, Has, Size, Total, Inputs
<1>11. AggregatedInv'
  <2>1. AggregatedInv
    BY <1>1, <1>3 DEF SumsInv
  <2>2. prepared' = prepared /\ aggregated' = aggregated
    BY <1>1
  <2> QED BY <2>1, <2>2, ZenonT(30) DEF AggregatedInv, IsTotal, Has, Size, Total, Inputs
<1>12. added' \in 0..Len(prepared')
  BY <1>1, <1>3
<1>13. phase' = "adding"
  BY <1>1
<1> QED BY <1>2, <1>10, <1>11, <1>12, <1>13 DEF SumsInv

\* A parameter is appended when all the updates are in its sum.
LEMMA AppendParameterInv ==
    ASSUME SumsInv, AppendParameter
    PROVE  SumsInv'
<1> DEFINE i == param_idx
<1>1. /\ UNCHANGED <<prepared, updates, param_agg, phase>> /\ phase = "adding"
      /\ added > 0 /\ added = Len(updates)
      /\ aggregated' = Append(aggregated, param_agg) /\ added' = 0
  BY DEF AppendParameter
<1>2. UpdatesInv /\ UpdatesInv'
  BY <1>1 DEF SumsInv, UpdatesInv
<1>3. prepared # <<>> /\ added = Len(prepared) /\ added # 0 /\ Len(prepared) \in Nat
  BY <1>1, <1>2, UpdatesDomain
<1>4. IsTotal(param_agg, i, Len(prepared)) /\ AggregatedInv
  BY <1>1, <1>3 DEF SumsInv
<1> PICK V : aggregated \in Seq(V)
  BY <1>4 DEF AggregatedInv
<1>5. /\ aggregated \in Seq(V \cup {param_agg})
      /\ \A j \in DOMAIN aggregated : IsTotal(aggregated[j], j, Len(prepared))
  BY <1>4 DEF AggregatedInv
<1>6. \A j \in DOMAIN aggregated' : IsTotal(aggregated'[j], j, Len(prepared))
  <2> SUFFICES ASSUME NEW j \in DOMAIN aggregated'
               PROVE  IsTotal(aggregated'[j], j, Len(prepared))
    OBVIOUS
  <2>1. \/ j \in DOMAIN aggregated /\ aggregated'[j] = aggregated[j]
        \/ j = Len(aggregated) + 1 /\ aggregated'[j] = param_agg
    BY <1>1, <1>5
  <2> QED BY <2>1, <1>4, <1>5, Zenon DEF param_idx
<1>7. aggregated' \in Seq(V \cup {param_agg})
  BY <1>1, <1>5
<1>8. \A j \in DOMAIN aggregated' : IsTotal(aggregated[j], j, Len(prepared))'
  BY <1>1, <1>6, ZenonT(30) DEF IsTotal, Has, Size, Total, Inputs
<1>9. AggregatedInv'
  BY <1>1, <1>3, <1>7, <1>8 DEF AggregatedInv
<1>10. added' = 0 /\ added' \in 0..Len(prepared') /\ phase' = "adding"
  BY <1>1, <1>3
<1> QED BY <1>2, <1>9, <1>10 DEF SumsInv

\* The invariant of the aggregation is inductive.
LEMMA SumsInvStep == SumsInv /\ [SumsNext]_sumVars => SumsInv'
<1> SUFFICES ASSUME SumsInv, [SumsNext]_sumVars PROVE SumsInv'
  OBVIOUS
<1>1. ASSUME NEW params \in ParamLists, ClientPrepare(params) PROVE SumsInv'
  <2>1. /\ phase' = "collecting" /\ prepared' = Append(prepared, params)
        /\ updates' = Append(updates, encrypt_parameters(params))
    BY <1>1 DEF ClientPrepare
  <2>2. prepared' \in Seq(ParamLists) /\ prepared \in Seq(ParamLists)
    BY <2>1 DEF SumsInv, UpdatesInv
  <2>3. updates' = [u \in DOMAIN prepared' |-> encrypt_parameters(prepared'[u])]
    <3> HIDE DEF encrypt_parameters
    <3> QED BY <2>1, <2>2, UpdatesDomain DEF SumsInv, UpdatesInv
  <2> QED BY <2>1, <2>2, <2>3 DEF SumsInv, UpdatesInv
<1>2. ASSUME UNCHANGED <<prepared, updates, aggregated, param_agg, added>>
      PROVE  /\ UpdatesInv' /\ (AggregatedInv => AggregatedInv')
             /\ (IsTotal(param_agg, param_idx, added)
                 => IsTotal(param_agg, param_idx, added)')
  <2>1. UpdatesInv'
    BY <1>2, SMTT(30) DEF SumsInv, UpdatesInv
  <2>2. AggregatedInv => AggregatedInv'
    BY <1>2 DEF AggregatedInv, IsTotal, Has, Size, Total, Inputs
  <2>3. IsTotal(param_agg, param_idx, added)
            => IsTotal(param_agg, param_idx, added)'
    BY <1>2, Zenon DEF IsTotal, Has, Size, Total, Inputs, param_idx
  <2> QED BY <2>1, <2>2, <2>3
<1>3. CASE Serialize
  BY <1>2, <1>3 DEF Serialize, SumsInv
<1>4. CASE ServerAggregate
  <2>1. /\ UNCHANGED <<prepared, updates>> /\ aggregated' = <<>> /\ added' = 0
        /\ phase' = "adding"
    BY <1>4 DEF ServerAggregate
  <2>2. UpdatesInv' /\ Len(prepared') \in Nat
    BY <2>1, UpdatesDomain DEF SumsInv, UpdatesInv
  <2>3. prepared' # <<>> => AggregatedInv'
    BY <2>1 DEF AggregatedInv
  <2> QED BY <2>1, <2>2, <2>3 DEF SumsInv
<1>5. CASE CopyFirst
  BY <1>5, CopyFirstInv
<1>6. CASE AddUpdate
  BY <1>6, AddUpdateInv
<1>7. CASE AppendParameter
  BY <1>7, AppendParameterInv
<1>8. CASE AggregateRaises
  BY <1>2, <1>8 DEF AggregateRaises, SumsInv
<1>9. CASE AggregateReturns
  <2>1. /\ UNCHANGED <<prepared, updates, aggregated, param_agg, added>>
        /\ phase = "adding" /\ phase' = "aggregated"
        /\ updates # <<>> /\ Len(aggregated) = Len(updates[1])
    BY <1>9 DEF AggregateReturns
  <2>2. prepared # <<>> /\ 1 \in DOMAIN updates
    BY <2>1, UpdatesDomain DEF SumsInv
  <2>3. Len(updates[1]) = Len(prepared[1])
    <3>1. prepared[1] \in Seq(Arrays) /\ updates[1] = encrypt_parameters(prepared[1])
      BY <2>2, UpdateAt DEF SumsInv, UpdatesInv
    <3> HIDE DEF flatten
    <3> QED BY <3>1 DEF encrypt_parameters
  <2> QED BY <1>2, <2>1, <2>2, <2>3 DEF SumsInv
<1>10. CASE DecryptParameters
  BY <1>2, <1>10 DEF DecryptParameters, SumsInv
<1>11. CASE UNCHANGED sumVars
  BY <1>2, <1>11 DEF sumVars, SumsInv
<1> QED BY <1>1, <1>3, <1>4, <1>5, <1>6, <1>7, <1>8, <1>9, <1>10, <1>11, SMTT(30)
        DEF SumsNext

\* What decrypt_parameters returns after secure_aggregate is, in every element
\* of every parameter, the sum over all updates of what the clients encrypted:
\* none is left out, none is counted twice, however often they are aggregated,
\* and whatever parameters, shapes and sizes the models have.
THEOREM UpdatesAreAddedOnce == SumsSpec => []AggregatesEveryUpdate
<1>1. SumsInit => SumsInv
  BY DEF SumsInit, SumsInv, UpdatesInv
<1>2. SumsInv => AggregatesEveryUpdate
  <2> SUFFICES ASSUME SumsInv, phase = "decrypted"
               PROVE  /\ Len(decrypted) = Len(prepared[1])
                      /\ \A i \in DOMAIN decrypted :
                          /\ \A u \in DOMAIN prepared :
                              /\ i \in DOMAIN prepared[u]
                              /\ DOMAIN decrypted[i] = DOMAIN flatten(prepared[u][i])
                          /\ \A k \in DOMAIN decrypted[i] :
                              decrypted[i][k]
                                = SumFunctionOnSet(Inputs(i, k), DOMAIN prepared)
    BY Zenon DEF AggregatesEveryUpdate
  <2>1. /\ UpdatesInv /\ AggregatedInv /\ Len(aggregated) = Len(prepared[1])
        /\ decrypted = [i \in DOMAIN aggregated |-> aggregated[i].encrypted]
    BY DEF SumsInv
  <2>2. /\ DOMAIN prepared = 1..Len(prepared) /\ 1 \in DOMAIN prepared
        /\ DOMAIN updates = DOMAIN prepared
    BY <2>1, UpdatesDomain DEF AggregatedInv
  <2>3. Len(decrypted) = Len(aggregated)
    <3>1. PICK V : aggregated \in Seq(V)
      BY <2>1 DEF AggregatedInv
    <3> QED BY <2>1, <3>1
  <2>4. ASSUME NEW i \in DOMAIN decrypted
        PROVE  /\ \A u \in DOMAIN prepared :
                   /\ i \in DOMAIN prepared[u]
                   /\ DOMAIN decrypted[i] = DOMAIN flatten(prepared[u][i])
               /\ \A k \in DOMAIN decrypted[i] :
                   decrypted[i][k] = SumFunctionOnSet(Inputs(i, k), DOMAIN prepared)
    <3>1. IsTotal(aggregated[i], i, Len(prepared)) /\ decrypted[i] = aggregated[i].encrypted
      BY <2>1 DEF AggregatedInv
    <3>2. \A u \in DOMAIN prepared :
            i \in DOMAIN prepared[u] /\ DOMAIN flatten(prepared[u][i]) = Size(i)
      BY <2>2, <3>1, Zenon DEF IsTotal, Has
    <3>3. decrypted[i] \in [Size(i) -> Int]
      BY <3>1 DEF IsTotal
    <3>4. DOMAIN decrypted[i] = Size(i)
      BY <3>3, Zenon
    <3>5. \A k \in Size(i) :
            decrypted[i][k] = SumFunctionOnSet(Inputs(i, k), DOMAIN prepared)
      BY <2>2, <3>1, Zenon DEF IsTotal, Total
    <3> QED BY <3>2, <3>4, <3>5, Zenon
  <2> QED BY <2>1, <2>3, <2>4, Zenon
<1> QED BY <1>1, <1>2, SumsInvStep, PTL DEF SumsSpec
=============================================================================
