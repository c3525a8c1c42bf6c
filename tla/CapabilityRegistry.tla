------------------------- MODULE CapabilityRegistry -------------------------
(***************************************************************************)
(* CapabilityRegistry (agent/core/capability.rs): async tasks register     *)
(* versions of capabilities and execute them.  Two FIFO mutexes guard the  *)
(* map of versions and the map of resource pools; execute keeps both       *)
(* guards until it returns.  A task may be cancelled at any await, which   *)
(* drops its guards and its permit.                                        *)
(***************************************************************************)
EXTENDS Integers, FiniteSets, Sequences, SequencesExt

CONSTANTS
    Tasks,
    Capabilities,
    Versions,        \* a set of numbers, ordered as the semantic versions are
    HalfCores,       \* possible values of max_cpu_cores, in halves of a core
    NoPool, NoCall

ASSUME RegistryAssumption ==
    /\ IsFiniteSet(Tasks)
    /\ Versions \subseteq Nat /\ HalfCores \subseteq Nat
    /\ NoPool \notin Nat

VARIABLES
    pc,              \* what each task awaits
    call,            \* the arguments of its call
    selected,        \* the version execute has chosen
    capsQueue,       \* the capabilities mutex: its holder, then its waiters
    poolsQueue,      \* the resource_pools mutex
    versions,        \* the registered versions of each capability
    pools,           \* the permits of each capability's pool
    inUse            \* the permits taken

guards == <<capsQueue, poolsQueue>>
registryVars == <<pc, call, selected, guards, versions, pools, inUse>>

Registrations ==
    [op : {"register"}, id : Capabilities, version : Versions, cores : HalfCores]

\* A version requirement is the set of the versions it matches.
Executions ==
    [op : {"execute"}, id : Capabilities, req : SUBSET Versions \ {{}}]

\* A task is at most once in a queue.
Without(queue, t) ==
    IF t \in Range(queue)
    THEN RemoveAt(queue, CHOOSE i \in DOMAIN queue : queue[i] = t)
    ELSE queue

-----------------------------------------------------------------------------
RegistryInit ==
    /\ pc = [t \in Tasks |-> "idle"]
    /\ call = [t \in Tasks |-> NoCall]
    /\ selected = [t \in Tasks |-> 0]
    /\ capsQueue = <<>> /\ poolsQueue = <<>>
    /\ versions = [c \in Capabilities |-> {}]
    /\ pools = [c \in Capabilities |-> NoPool]
    /\ inUse = [c \in Capabilities |-> 0]

Call(t, args) ==
    /\ pc[t] = "idle"
    /\ pc' = [pc EXCEPT ![t] = "caps"]
    /\ call' = [call EXCEPT ![t] = args]
    /\ capsQueue' = Append(capsQueue, t)
    /\ UNCHANGED <<selected, poolsQueue, versions, pools, inUse>>

\* The call returns or is dropped, and its guards with it.
Return(t) ==
    /\ pc' = [pc EXCEPT ![t] = "idle"]
    /\ call' = [call EXCEPT ![t] = NoCall]
    /\ selected' = [selected EXCEPT ![t] = 0]
    /\ capsQueue' = Without(capsQueue, t)
    /\ poolsQueue' = Without(poolsQueue, t)

DropPermit_Forgotten(t) == UNCHANGED inUse

DropPermit(t) ==
    inUse' = [inUse EXCEPT ![call[t].id] = IF pc[t] = "run" THEN @ - 1 ELSE @]

Cancel(t) ==
    /\ pc[t] # "idle"
    /\ Return(t)
    /\ DropPermit(t)
    /\ UNCHANGED <<versions, pools>>

-----------------------------------------------------------------------------
(* register: bail if the version exists; otherwise create the pool if      *)
(* there is none, and insert the version.                                  *)

CheckVersion_AndInsert(c, v) == versions' = [versions EXCEPT ![c] = @ \cup {v}]

CheckVersion(c, v) == UNCHANGED versions

RegisterCheck(t) ==
    LET c == call[t].id
        v == call[t].version
    IN  /\ pc[t] = "caps" /\ call[t].op = "register"
        /\ Head(capsQueue) = t
        /\ \/ v \in versions[c] /\ Return(t) /\ UNCHANGED versions
           \/ /\ v \notin versions[c]
              /\ CheckVersion(c, v)
              /\ pc' = [pc EXCEPT ![t] = "pools"]
              /\ poolsQueue' = Append(poolsQueue, t)
              /\ UNCHANGED <<call, selected, capsQueue>>
        /\ UNCHANGED <<pools, inUse>>

\* ResourcePool::new: `cpu_cores as usize` truncates.
Permits(halfCores) == halfCores \div 2

RegisterInsert(t) ==
    LET c == call[t].id IN
    /\ pc[t] = "pools" /\ call[t].op = "register"
    /\ Head(poolsQueue) = t
    /\ pools' = [pools EXCEPT ![c] =
                    IF @ = NoPool THEN Permits(call[t].cores) ELSE @]
    /\ versions' = [versions EXCEPT ![c] = @ \cup {call[t].version}]
    /\ Return(t)
    /\ UNCHANGED inUse

-----------------------------------------------------------------------------
(* execute: select the latest compatible version, find the pool, await a   *)
(* permit, run with a timeout.                                             *)

ExecuteSelect(t) ==
    LET compatible == versions[call[t].id] \cap call[t].req IN
    /\ pc[t] = "caps" /\ call[t].op = "execute"
    /\ Head(capsQueue) = t
    /\ \/ compatible = {} /\ Return(t)
       \/ /\ compatible # {}
          /\ selected' = [selected EXCEPT ![t] = Max(compatible)]
          /\ pc' = [pc EXCEPT ![t] = "pools"]
          /\ poolsQueue' = Append(poolsQueue, t)
          /\ UNCHANGED <<call, capsQueue>>
    /\ UNCHANGED <<versions, pools, inUse>>

KeepGuards_Dropped ==
    capsQueue' = Tail(capsQueue) /\ poolsQueue' = Tail(poolsQueue)

\* caps and pools live to the end of execute.
KeepGuards == UNCHANGED guards

ExecuteFindPool(t) ==
    /\ pc[t] = "pools" /\ call[t].op = "execute"
    /\ Head(poolsQueue) = t
    /\ IF pools[call[t].id] = NoPool
       THEN Return(t)
       ELSE /\ pc' = [pc EXCEPT ![t] = "permit"]
            /\ KeepGuards
            /\ UNCHANGED <<call, selected>>
    /\ UNCHANGED <<versions, pools, inUse>>

PermitAvailable_OneSpare(c) == inUse[c] + 1 < pools[c]

PermitAvailable(c) == inUse[c] < pools[c]

Allocate(t) ==
    /\ pc[t] = "permit"
    /\ PermitAvailable(call[t].id)
    /\ inUse' = [inUse EXCEPT ![call[t].id] = @ + 1]
    /\ pc' = [pc EXCEPT ![t] = "run"]
    /\ UNCHANGED <<call, selected, guards, versions, pools>>

\* The capability answers, fails or is timed out.
ExecuteReturn(t) ==
    /\ pc[t] = "run"
    /\ Return(t)
    /\ DropPermit(t)
    /\ UNCHANGED <<versions, pools>>

-----------------------------------------------------------------------------
Step(t) ==
    \/ RegisterCheck(t) \/ RegisterInsert(t)
    \/ ExecuteSelect(t) \/ ExecuteFindPool(t) \/ Allocate(t) \/ ExecuteReturn(t)

RegistryNext ==
    \E t \in Tasks :
        \/ \E args \in Registrations \cup Executions : Call(t, args)
        \/ Step(t)
        \/ Cancel(t)

RegistrySpec == RegistryInit /\ [][RegistryNext]_registryVars

\* The executor polls a task that can go on; the timeout ends a capability
\* that does not answer.
RegistryFairness == \A t \in Tasks : WF_registryVars(Step(t))

RegistryFairSpec == RegistrySpec /\ RegistryFairness

-----------------------------------------------------------------------------
\* "Select latest compatible version": the version execute runs is still the
\* latest compatible one when it runs, although other tasks register newer
\* ones all the time.
RunsTheLatestVersion ==
    \A t \in Tasks :
        pc[t] \in {"pools", "permit", "run"} /\ call[t].op = "execute"
            => selected[t] = Max(versions[call[t].id] \cap call[t].req)

\* A registered version has a pool, also when its register was cancelled
\* half-way: "Resource pool missing" is never returned.
RegisteredHasPool ==
    \A c \in Capabilities : versions[c] # {} => pools[c] # NoPool

\* Permits are conserved: those taken are those of the tasks that run, however
\* tasks return, fail, time out or are cancelled.
PermitsAreConserved ==
    \A c \in Capabilities :
        inUse[c] = Cardinality({t \in Tasks : pc[t] = "run" /\ call[t].id = c})

\* Every call returns.
CallsReturn == \A t \in Tasks : pc[t] # "idle" ~> pc[t] = "idle"

\* capability.rs:143 calls a pool "Resource isolation pool": a capability
\* whose own pool has permits is executed, whatever the other pools are like.
PoolsAreIsolated ==
    \A t \in Tasks, c \in Capabilities :
        /\ pc[t] = "caps" /\ call[t].op = "execute"
        /\ call[t].id = c /\ pools[c] # NoPool /\ pools[c] > 0
        ~> pc[t] \in {"idle", "run"}
=============================================================================
