----------------------------- MODULE Lifecycle ------------------------------
(***************************************************************************)
(* LifecycleManager (agent/core/lifecycle.go): replicas of the state       *)
(* manager, each with its own state machine, that share one etcd.  Start   *)
(* takes a lease and writes the leader key under it, a heartbeat renews    *)
(* the lease, Shutdown terminates the state machine and revokes the lease. *)
(* Leases and the leader key live in etcd and survive a manager.           *)
(***************************************************************************)
EXTENDS Naturals

CONSTANTS
    Managers,        \* the replicas
    MaxLeases,       \* bound on the number of leases etcd grants
    MaxRestarts,     \* bound on the restarts of managers' processes
    EtcdFails        \* can a call to etcd return an error by itself

ASSUME LifecycleAssumption ==
    MaxLeases \in Nat /\ MaxRestarts \in Nat /\ EtcdFails \in BOOLEAN

VARIABLES
    currentState, previousState,
    leaseID,         \* 0 before the first grant
    start,           \* where the caller of Start is
    heartbeats,      \* the number of stateHeartbeat goroutines
    shutdownChan,
    shutdown,        \* where the caller of Shutdown is, or how it returned
    orderly,         \* managers whose Shutdown was called after Start returned nil,
                     \* and whose Start was not called again since
    restarts,
    live,            \* etcd: leases that have neither expired nor been revoked
    renewed,         \* etcd: leases renewed in the current half of their TTL
    granted,         \* etcd: the last lease granted
    leader           \* etcd: the lease the leader key is attached to, 0 without a key

fsmVars == <<currentState, previousState>>
managerVars == <<fsmVars, leaseID, start, heartbeats, shutdownChan, shutdown,
                 orderly, restarts>>
etcdVars == <<live, renewed, granted, leader>>
vars == <<managerVars, etcdVars>>

Leases == 1..MaxLeases

States == {"BOOTING", "CONFIGURING", "HEALTHY", "DEGRADED", "MAINTENANCE",
           "TERMINATING"}

transitionMatrix ==
    [BOOTING     |-> {"CONFIGURING", "TERMINATING"},
     CONFIGURING |-> {"HEALTHY", "DEGRADED"},
     HEALTHY     |-> {"DEGRADED", "MAINTENANCE"},
     DEGRADED    |-> {"HEALTHY", "MAINTENANCE"},
     MAINTENANCE |-> {"HEALTHY", "TERMINATING"},
     TERMINATING |-> {}]

validTransition(from, to) == to \in transitionMatrix[from]

-----------------------------------------------------------------------------
(* etcd, from the calls the manager makes.                                 *)

\* A lease that ends takes the keys attached to it along.
DropLease(l) ==
    /\ live' = live \ {l}
    /\ renewed' = renewed \ {l}
    /\ leader' = IF leader = l THEN 0 ELSE leader

\* Half a TTL passes for a lease: it has been renewed since, or it expires.
Tick(l) ==
    /\ l \in live
    /\ \/ l \in renewed /\ renewed' = renewed \ {l} /\ UNCHANGED <<live, leader>>
       \/ l \notin renewed /\ DropLease(l)
    /\ UNCHANGED <<managerVars, granted>>

-----------------------------------------------------------------------------
Init ==
    /\ currentState = [m \in Managers |-> "BOOTING"]
    /\ previousState = [m \in Managers |-> "BOOTING"]
    /\ leaseID = [m \in Managers |-> 0]
    /\ start = [m \in Managers |-> "idle"]
    /\ heartbeats = [m \in Managers |-> 0]
    /\ shutdownChan = [m \in Managers |-> "open"]
    /\ shutdown = [m \in Managers |-> "no"]
    /\ orderly = {}
    /\ restarts = 0
    /\ live = {} /\ renewed = {} /\ granted = 0 /\ leader = 0

\* The process dies and NewLifecycleManager runs in a new one.
Restart(m) ==
    /\ restarts < MaxRestarts
    /\ restarts' = restarts + 1
    /\ currentState' = [currentState EXCEPT ![m] = "BOOTING"]
    /\ previousState' = [previousState EXCEPT ![m] = "BOOTING"]
    /\ leaseID' = [leaseID EXCEPT ![m] = 0]
    /\ start' = [start EXCEPT ![m] = "idle"]
    /\ heartbeats' = [heartbeats EXCEPT ![m] = 0]
    /\ shutdownChan' = [shutdownChan EXCEPT ![m] = "open"]
    /\ shutdown' = [shutdown EXCEPT ![m] = "no"]
    /\ orderly' = orderly \ {m}
    /\ UNCHANGED etcdVars

-----------------------------------------------------------------------------
(* Start: acquireStateLock is a Grant and then a Put.  Nothing keeps a     *)
(* caller from calling it again, after it failed, after it succeeded or    *)
(* after Shutdown.                                                         *)

StartCall(m) ==
    /\ start[m] \notin {"grant", "put"}
    /\ start' = [start EXCEPT ![m] = "grant"]
    /\ orderly' = orderly \ {m}
    /\ UNCHANGED <<fsmVars, leaseID, heartbeats, shutdownChan, shutdown, restarts,
                   etcdVars>>

GrantLease ==
    /\ granted < MaxLeases
    /\ granted' = granted + 1
    /\ live' = live \cup {granted + 1}
    /\ renewed' = renewed \cup {granted + 1}

\* A grant that returns an error may have been applied: its lease is lost.
Grant(m) ==
    /\ start[m] = "grant"
    /\ \/ /\ shutdown[m] # "closed" /\ GrantLease
          /\ \/ /\ leaseID' = [leaseID EXCEPT ![m] = granted + 1]
                /\ start' = [start EXCEPT ![m] = "put"]
             \/ /\ EtcdFails
                /\ start' = [start EXCEPT ![m] = "failed"]
                /\ UNCHANGED leaseID
       \/ /\ EtcdFails \/ shutdown[m] = "closed"
          /\ start' = [start EXCEPT ![m] = "failed"]
          /\ UNCHANGED <<granted, live, renewed, leaseID>>
    /\ UNCHANGED <<fsmVars, heartbeats, shutdownChan, shutdown, orderly, restarts, leader>>

PutLeader_NoLease(l) == leader' = MaxLeases + 1

\* Put with clientv3.WithLease.
PutLeader(l) == leader' = l

\* The Put is unconditional.  One that returns an error may have been applied.
Put(m) ==
    /\ start[m] = "put"
    /\ LET possible == leaseID[m] \in live /\ shutdown[m] # "closed" IN
       \/ /\ possible /\ PutLeader(leaseID[m])
          /\ \/ /\ start' = [start EXCEPT ![m] = "started"]
                /\ heartbeats' = [heartbeats EXCEPT ![m] = @ + 1]
             \/ /\ EtcdFails
                /\ start' = [start EXCEPT ![m] = "failed"]
                /\ UNCHANGED heartbeats
       \/ /\ EtcdFails \/ ~possible
          /\ start' = [start EXCEPT ![m] = "failed"]
          /\ UNCHANGED <<leader, heartbeats>>
    /\ UNCHANGED <<fsmVars, leaseID, shutdownChan, shutdown, orderly, restarts,
                   live, renewed, granted>>

(* stateHeartbeat: renew every half TTL the lease that leaseID holds then, *)
(* which need not be that of its own Start; a failed renewal is logged.    *)

Renewable(m) == leaseID[m] \in live /\ shutdown[m] # "closed"

Heartbeat(m) ==
    /\ heartbeats[m] > 0
    /\ Renewable(m)
    /\ renewed' = renewed \cup {leaseID[m]}
    /\ UNCHANGED <<managerVars, live, granted, leader>>

LeaveHeartbeat_Break(m) == UNCHANGED heartbeats

LeaveHeartbeat(m) == heartbeats' = [heartbeats EXCEPT ![m] = @ - 1]

HeartbeatReturn(m) ==
    /\ heartbeats[m] > 0
    /\ shutdownChan[m] = "closed"
    /\ LeaveHeartbeat(m)
    /\ UNCHANGED <<fsmVars, leaseID, start, shutdownChan, shutdown, orderly,
                   restarts, etcdVars>>

-----------------------------------------------------------------------------
(* Transition: the whole body runs under mu.  An invalid transition and a  *)
(* failed persistTransition return an error and change nothing.            *)

SetState_CurrentFirst(m, s) ==
    /\ currentState' = [currentState EXCEPT ![m] = s]
    /\ previousState' = [previousState EXCEPT ![m] = s]

SetState(m, s) ==
    /\ previousState' = [previousState EXCEPT ![m] = currentState[m]]
    /\ currentState' = [currentState EXCEPT ![m] = s]

Transition(m, s) ==
    /\ validTransition(currentState[m], s)
    /\ SetState(m, s)
    /\ UNCHANGED <<leaseID, start, heartbeats, shutdownChan, shutdown, orderly,
                   restarts, etcdVars>>

-----------------------------------------------------------------------------
(* Shutdown: close(shutdownChan), Transition to TERMINATING, Revoke, Close *)
(* of the etcd client; any error returns at once.                          *)

Shutdown(m) ==
    \/ /\ shutdownChan[m] = "open"
       /\ shutdownChan' = [shutdownChan EXCEPT ![m] = "closed"]
       /\ shutdown' = [shutdown EXCEPT ![m] = "transition"]
       /\ orderly' = IF start[m] = "started" THEN orderly \cup {m} ELSE orderly
       /\ UNCHANGED <<fsmVars, leaseID, start, heartbeats, restarts, etcdVars>>
    \/ shutdownChan[m] = "closed" /\ Restart(m)   \* close panics

ShutdownTransition(m) ==
    /\ shutdown[m] = "transition"
    /\ LET valid == validTransition(currentState[m], "TERMINATING") IN
       \/ /\ valid /\ SetState(m, "TERMINATING")
          /\ shutdown' = [shutdown EXCEPT ![m] = "revoke"]
       \/ /\ EtcdFails \/ ~valid
          /\ shutdown' = [shutdown EXCEPT ![m] = "error"]
          /\ UNCHANGED fsmVars
    /\ UNCHANGED <<leaseID, start, heartbeats, shutdownChan, orderly, restarts,
                   etcdVars>>

SkipRevoke_Always(m) == TRUE

SkipRevoke(m) == leaseID[m] = 0

\* A lease that is gone makes Revoke fail; one that fails may have been applied.
ShutdownRevoke(m) ==
    /\ shutdown[m] = "revoke"
    /\ \/ /\ SkipRevoke(m)
          /\ shutdown' = [shutdown EXCEPT ![m] = "close"]
          /\ UNCHANGED <<live, renewed, leader>>
       \/ /\ ~SkipRevoke(m)
          /\ leaseID[m] \in live
          /\ DropLease(leaseID[m])
          /\ \/ shutdown' = [shutdown EXCEPT ![m] = "close"]
             \/ EtcdFails /\ shutdown' = [shutdown EXCEPT ![m] = "error"]
       \/ /\ ~SkipRevoke(m)
          /\ EtcdFails \/ leaseID[m] \notin live
          /\ shutdown' = [shutdown EXCEPT ![m] = "error"]
          /\ UNCHANGED <<live, renewed, leader>>
    /\ UNCHANGED <<fsmVars, leaseID, start, heartbeats, shutdownChan, orderly,
                   restarts, granted>>

ShutdownCloseClient(m) ==
    /\ shutdown[m] = "close"
    /\ shutdown' = [shutdown EXCEPT ![m] = "closed"]
    /\ UNCHANGED <<fsmVars, leaseID, start, heartbeats, shutdownChan, orderly,
                   restarts, etcdVars>>

-----------------------------------------------------------------------------
Next ==
    \/ \E l \in Leases : Tick(l)
    \/ \E m \in Managers :
        \/ StartCall(m) \/ Grant(m) \/ Put(m)
        \/ Heartbeat(m) \/ HeartbeatReturn(m)
        \/ \E s \in States : Transition(m, s)
        \/ Shutdown(m) \/ ShutdownTransition(m) \/ ShutdownRevoke(m)
        \/ ShutdownCloseClient(m)
        \/ Restart(m)

Spec == Init /\ [][Next]_vars

\* Time passes, and the heartbeat goroutine of a closed channel gets to run.
Fairness ==
    /\ \A l \in Leases : WF_vars(Tick(l))
    /\ \A m \in Managers : WF_vars(HeartbeatReturn(m))

FairSpec == Spec /\ Fairness

-----------------------------------------------------------------------------
TypeOK ==
    /\ currentState \in [Managers -> States]
    /\ previousState \in [Managers -> States]
    /\ leaseID \in [Managers -> 0..MaxLeases]
    /\ start \in [Managers -> {"idle", "grant", "put", "started", "failed"}]
    /\ heartbeats \in [Managers -> Nat]
    /\ shutdownChan \in [Managers -> {"open", "closed"}]
    /\ shutdown \in [Managers -> {"no", "transition", "revoke", "close",
                                  "closed", "error"}]
    /\ orderly \in SUBSET Managers
    /\ restarts \in 0..MaxRestarts
    /\ granted \in 0..MaxLeases
    /\ live \in SUBSET (1..granted)
    /\ renewed \in SUBSET live
    /\ leader \in 0..granted

\* However callers of Transition and Shutdown interleave, the remembered
\* pair of states is an edge of the transition matrix, and a shutdown that
\* got past its transition stays in TERMINATING.
StatesAreAPath ==
    \A m \in Managers :
        /\ \/ validTransition(previousState[m], currentState[m])
           \/ previousState[m] = "BOOTING" /\ currentState[m] = "BOOTING"
        /\ shutdown[m] \in {"revoke", "close", "closed"}
              => currentState[m] = "TERMINATING"

\* A Shutdown that was called after the last Start succeeded, and that closed
\* the client, left neither its lease nor its leader key behind in etcd.
CleanShutdownReleasesLeadership ==
    \A m \in orderly :
        shutdown[m] = "closed" => leaseID[m] \notin live /\ leader # leaseID[m]

\* Even when Shutdown fails half-way, or races with Start, the manager's
\* lease ends: the heartbeat does not keep renewing it.
ShutdownFreesTheLease ==
    \A m \in Managers : shutdownChan[m] = "closed" ~> leaseID[m] \notin live

\* A leader key that no heartbeat renews goes away or is taken over by a manager
\* whose heartbeat does: whether its manager crashed, its Start was told that
\* the Put failed, a second Start has moved leaseID on, or a Shutdown stopped
\* half-way, it does not stay with a manager that is gone.
UnrenewedKeyLapses ==
    LET renewable == \E m \in Managers : heartbeats[m] > 0 /\ leaseID[m] = leader
    IN  leader # 0 /\ ~renewable ~> leader = 0 \/ renewable

\* lifecycle.go:90 says a Start that returns nil acquired "cluster
\* leadership": no two managers hold it at a time.
SingleLeader ==
    \A m, n \in Managers :
        /\ start[m] = "started" /\ leaseID[m] \in live
        /\ start[n] = "started" /\ leaseID[n] \in live
        => m = n

=============================================================================
