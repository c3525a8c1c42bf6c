----------------------------- MODULE Algorithms -----------------------------
(***************************************************************************)
(* The components that compute: the proof of work, the task graph and the  *)
(* search of the planner, the auction, the DQN agent and the encrypted     *)
(* aggregation.  They share no state, so a behaviour exercises one of      *)
(* them, its focus, and leaves the others as they start.                   *)
(***************************************************************************)
EXTENDS ProofOfWork, TaskGraph, PlanSearch, Auction, ReplayLearner, Aggregation

VARIABLE focus

SuiteInit ==
    /\ focus \in {"pow", "graph", "search", "auction", "learner", "sums"}
    /\ Init
    /\ GraphInit /\ SearchInit /\ SaleInit /\ LearnerInit /\ SumsInit

Only(component) == focus = component /\ UNCHANGED focus

SuiteNext ==
    \/ Only("pow") /\ Next
        /\ UNCHANGED <<graphVars, searchVars, saleVars, learnerVars, sumVars>>
    \/ Only("graph") /\ GraphNext
        /\ UNCHANGED <<vars, searchVars, saleVars, learnerVars, sumVars>>
    \/ Only("search") /\ SearchNext
        /\ UNCHANGED <<vars, graphVars, saleVars, learnerVars, sumVars>>
    \/ Only("auction") /\ SaleNext
        /\ UNCHANGED <<vars, graphVars, searchVars, learnerVars, sumVars>>
    \/ Only("learner") /\ LearnerNext
        /\ UNCHANGED <<vars, graphVars, searchVars, saleVars, sumVars>>
    \/ Only("sums") /\ SumsNext
        /\ UNCHANGED <<vars, graphVars, searchVars, saleVars, learnerVars>>

suiteVars == <<focus, vars, graphVars, searchVars, saleVars, learnerVars, sumVars>>

\* The operating system runs every thread that has not returned, and a loop
\* that runs goes on.
SuiteSpec ==
    /\ SuiteInit /\ [][SuiteNext]_suiteVars
    /\ \A thread \in Threads : WF_vars(focus = "pow" /\ Step(thread))
    /\ WF_vars(focus = "pow" /\ Return)
    /\ WF_graphVars(Loops)
    /\ WF_learnerVars(LearnerProceed)

-----------------------------------------------------------------------------
\* Every loop ends: the threads of proof_of_work reach the end of theirs and it
\* returns; get_ancestors, validate_dag and visualize return or raise, whatever
\* cycles add_child let in.
LoopsEnd ==
    (focus = "pow" \/ call # NoCall)
        ~> (result # -1 \/ (focus = "graph" /\ call = NoCall))
=============================================================================
