------------------------------ MODULE AzureArc ------------------------------
(***************************************************************************)
(* AzureArcController (services/multi_cloud_mesh/service_sync/             *)
(* azure_arc.py): callers connect one cluster, deploy an extension to it   *)
(* and enforce policies on it.  Each request to Azure is a step, between   *)
(* which other callers and the cluster's own agent take theirs; any may    *)
(* fail, also after Azure has carried it out.                              *)
(***************************************************************************)
EXTENDS Naturals, Sequences, Functions

CONSTANTS
    Deployers,
    TagSets,         \* tags a caller may pass
    Policies,        \* records of a name and a definition id
    Lists,           \* sequences of them, passed to enforce_policy
    Settings,        \* names of settings; those in Secure begin with "secure."
    Secure,
    MaxChanges       \* bound on what the agent changes

ASSUME ArcAssumption ==
    /\ Lists \subseteq Seq(Policies)
    /\ \A p \in Policies : p = [name |-> p.name, id |-> p.id]

VARIABLES
    exists,          \* whether the resource graph knows the cluster
    tags, properties,     \* of the resource; properties is a version number
    extension,       \* the settings of the extension, {} before it is deployed
    assigned,        \* the policy assignments: from a name to a definition
    call             \* what each caller is doing

cluster == <<exists, tags, properties, extension, assigned>>
arcVars == <<exists, tags, properties, extension, assigned, call>>

Idle == [at |-> "idle"]

ArcInit ==
    /\ exists = FALSE
    /\ tags = {} /\ properties = 0 /\ extension = {}
    /\ assigned = <<>>
    /\ call = [c \in Deployers |-> Idle]

\* A caller whose call raised may try again, with this or another method.
Free(c) == call[c].at \in {"idle", "raised"}

Set(c, r) == call' = [call EXCEPT ![c] = r]

\* External: the cluster is registered, and its agent reports.
Agent ==
    /\ properties < MaxChanges
    /\ exists' = TRUE
    /\ properties' = properties + 1
    /\ UNCHANGED <<tags, extension, assigned, call>>

AfterFailure_Continues(c) ==
    IF call[c].at = "policies" /\ call[c].made < Len(call[c].list)
    THEN [call[c] EXCEPT !.made = @ + 1] ELSE [at |-> "raised"]

AfterFailure(c) == [at |-> "raised"]

\* Any request may raise, and the method with it.
Raise(c) ==
    /\ call[c].at \in {"get", "put", "policies"}
    /\ Set(c, AfterFailure(c))
    /\ UNCHANGED cluster

-----------------------------------------------------------------------------
(* connect_cluster and _apply_tags.                                        *)

ConnectCluster(c, t) ==
    /\ Free(c)
    /\ Set(c, IF exists THEN [at |-> "get", tags |-> t] ELSE [at |-> "raised"])
    /\ UNCHANGED cluster

GetResource(c) ==
    /\ call[c].at = "get"
    /\ Set(c, [at |-> "put", tags |-> call[c].tags, properties |-> properties])
    /\ UNCHANGED cluster

\* The update replaces all tags, and the properties by those that were read.
PutResource(c) ==
    /\ call[c].at = "put"
    /\ tags' = call[c].tags
    /\ properties' = call[c].properties
    /\ \/ Set(c, [at |-> "connected", tags |-> call[c].tags])
       \/ Set(c, [at |-> "raised"])
    /\ UNCHANGED <<exists, extension, assigned>>

-----------------------------------------------------------------------------
\* deploy_extension passes on the settings that begin with "secure.".
Protected(settings) == settings \cap Secure

DeployExtension(c, settings) ==
    /\ Free(c)
    /\ \/ /\ extension' = Protected(settings)
          /\ \/ Set(c, [at |-> "deployed"])
             \/ Set(c, [at |-> "raised"])
       \/ UNCHANGED extension /\ Set(c, [at |-> "raised"])
    /\ UNCHANGED <<exists, tags, properties, assigned>>

-----------------------------------------------------------------------------
(* enforce_policy: the list and the number of assignments made.            *)

EnforcePolicy(c, list) ==
    /\ Free(c)
    /\ Set(c, [at |-> "policies", list |-> list, made |-> 0])
    /\ UNCHANGED cluster

\* f"nuzon-{policy['name']}": a second assignment of the name replaces the first.
AssignmentName(c) == call[c].list[call[c].made + 1].name

CreateAssignment(c) ==
    /\ call[c].at = "policies"
    /\ call[c].made < Len(call[c].list)
    /\ LET policy == call[c].list[call[c].made + 1]
       IN  assigned' = [n \in DOMAIN assigned \cup {AssignmentName(c)} |->
                           IF n = AssignmentName(c) THEN policy.id ELSE assigned[n]]
    /\ \/ Set(c, [call[c] EXCEPT !.made = @ + 1])
       \/ Set(c, AfterFailure(c))
    /\ UNCHANGED <<exists, tags, properties, extension>>

EnforceReturns(c) ==
    /\ call[c].at = "policies"
    /\ call[c].made = Len(call[c].list)
    /\ Set(c, [at |-> "enforced",
               policies_applied |-> [i \in 1..call[c].made |-> call[c].list[i].name]])
    /\ UNCHANGED cluster

ArcNext ==
    \/ Agent
    \/ \E c \in Deployers :
        \/ Raise(c)
        \/ \E t \in TagSets : ConnectCluster(c, t)
        \/ GetResource(c) \/ PutResource(c)
        \/ \E s \in SUBSET Settings : DeployExtension(c, s)
        \/ \E list \in Lists : EnforcePolicy(c, list)
        \/ CreateAssignment(c) \/ EnforceReturns(c)

ArcSpec == ArcInit /\ [][ArcNext]_arcVars

-----------------------------------------------------------------------------
\* Whatever the callers do at the same time and wherever they fail: a policy that
\* enforce_policy reports as applied is assigned under its name, no assignment
\* has a name nobody asked for, and an assignment holds a definition that goes
\* with its name.  Of two callers that use one name the last definition stays.
AppliedMeansAssigned ==
    /\ \A c \in Deployers : call[c].at = "enforced"
        => Range(call[c].policies_applied) \subseteq DOMAIN assigned
    /\ \A n \in DOMAIN assigned : [name |-> n, id |-> assigned[n]] \in Policies
=============================================================================
