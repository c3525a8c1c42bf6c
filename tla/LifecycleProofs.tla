-------------------------- MODULE LifecycleProofs ---------------------------
(***************************************************************************)
(* Safety of the lifecycle managers, for any number of managers, leases    *)
(* and restarts.                                                           *)
(***************************************************************************)
EXTENDS Lifecycle, TLAPS

\* What CleanShutdownReleasesLeadership rests on: lease numbers are fresh, a
\* manager that is past Grant has one, and an orderly shutdown past its Revoke
\* has none that is live.
LeaseInv ==
    \A m \in Managers :
        /\ leaseID[m] <= granted
        /\ start[m] \in {"put", "started"} => leaseID[m] # 0
        /\ m \in orderly => start[m] = "started"
        /\ m \in orderly /\ shutdown[m] \in {"close", "closed"}
              => leaseID[m] \notin live

\* A leader key is attached to a lease that is live.
KeyInv == leader \in live \cup {0}

IInv == TypeOK /\ KeyInv /\ LeaseInv

LEMMA InitInv == Init => IInv /\ StatesAreAPath
BY LifecycleAssumption
   DEF Init, IInv, TypeOK, States, KeyInv, LeaseInv, StatesAreAPath

USE DEF fsmVars, managerVars, etcdVars, vars

LEMMA TypeStep == TypeOK /\ [Next]_vars => TypeOK'
<1> SUFFICES ASSUME TypeOK, [Next]_vars PROVE TypeOK'
  OBVIOUS
<1> USE LifecycleAssumption DEF TypeOK
<1>1. ASSUME NEW l \in Leases, Tick(l) PROVE TypeOK'
  <2>1. live' \subseteq 1..granted /\ renewed' \subseteq live'
    BY <1>1, Zenon DEF Tick, DropLease
  <2>2. leader' \in 0..granted
    BY <1>1 DEF Tick, DropLease
  <2> QED BY <1>1, <2>1, <2>2 DEF Tick
<1>2. ASSUME NEW m \in Managers, StartCall(m) PROVE TypeOK'
  BY <1>2 DEF StartCall
<1>3. ASSUME NEW m \in Managers, Grant(m) PROVE TypeOK'
  <2>1. CASE UNCHANGED <<granted, live, renewed, leaseID>>
    BY <1>3, <2>1 DEF Grant
  <2>2. CASE /\ granted < MaxLeases
             /\ granted' = granted + 1
             /\ live' = live \cup {granted + 1}
             /\ renewed' = renewed \cup {granted + 1}
             /\ \/ leaseID' = [leaseID EXCEPT ![m] = granted + 1]
                \/ leaseID' = leaseID
    <3>1. granted' \in 0..MaxLeases /\ 1..granted \subseteq 1..granted'
      BY <2>2
    <3>2. /\ live' \in SUBSET (1..granted') /\ renewed' \in SUBSET live'
          /\ leaseID' \in [Managers -> 0..MaxLeases]
      BY <2>2, <3>1
    <3>3. leader' \in 0..granted'
      BY <1>3, <3>1, <2>2 DEF Grant
    <3> QED BY <1>3, <3>1, <3>2, <3>3 DEF Grant
  <2> QED BY <1>3, <2>1, <2>2, Zenon DEF Grant, GrantLease
<1>4. ASSUME NEW m \in Managers, Put(m) PROVE TypeOK'
  BY <1>4 DEF Put, PutLeader
<1>5. ASSUME NEW m \in Managers, Heartbeat(m) PROVE TypeOK'
  BY <1>5, Zenon DEF Heartbeat, Renewable
<1>6. ASSUME NEW m \in Managers, HeartbeatReturn(m) PROVE TypeOK'
  BY <1>6 DEF HeartbeatReturn, LeaveHeartbeat
<1>7. ASSUME NEW m \in Managers, NEW s \in States, Transition(m, s) PROVE TypeOK'
  BY <1>7 DEF Transition, SetState
<1>8. ASSUME NEW m \in Managers, Shutdown(m), ~Restart(m) PROVE TypeOK'
  BY <1>8, Zenon DEF Shutdown
<1>9. ASSUME NEW m \in Managers, ShutdownTransition(m) PROVE TypeOK'
  BY <1>9 DEF ShutdownTransition, SetState, States
<1>10. ASSUME NEW m \in Managers, ShutdownRevoke(m) PROVE TypeOK'
  <2>1. live' \subseteq 1..granted /\ renewed' \subseteq live'
    BY <1>10, Zenon DEF ShutdownRevoke, DropLease
  <2>2. leader' \in 0..granted
    BY <1>10 DEF ShutdownRevoke, DropLease
  <2> QED BY <1>10, <2>1, <2>2 DEF ShutdownRevoke
<1>11. ASSUME NEW m \in Managers, ShutdownCloseClient(m) PROVE TypeOK'
  BY <1>11 DEF ShutdownCloseClient
<1>12. ASSUME NEW m \in Managers, Restart(m) PROVE TypeOK'
  BY <1>12 DEF Restart, States
<1>13. CASE UNCHANGED vars
  BY <1>13
<1> QED
  BY <1>1, <1>2, <1>3, <1>4, <1>5, <1>6, <1>7, <1>8, <1>9, <1>10, <1>11, <1>12,
     <1>13 DEF Next

\* A lease that ends takes the key along, and a Put is under a live lease.
LEMMA KeyStep == TypeOK /\ KeyInv /\ [Next]_vars => KeyInv'
<1> SUFFICES ASSUME TypeOK, KeyInv, [Next]_vars PROVE KeyInv'
  OBVIOUS
<1> USE DEF KeyInv
<1>1. CASE live \subseteq live' /\ UNCHANGED leader
  BY <1>1
<1>2. ASSUME NEW l, DropLease(l) PROVE KeyInv'
  BY <1>2 DEF DropLease
<1>3. ASSUME NEW l \in Leases, Tick(l) PROVE KeyInv'
  BY <1>1, <1>2, <1>3 DEF Tick
<1>4. ASSUME NEW m \in Managers, Put(m) PROVE KeyInv'
  BY <1>4 DEF Put, PutLeader
<1>5. ASSUME NEW m \in Managers, ShutdownRevoke(m) PROVE KeyInv'
  BY <1>1, <1>2, <1>5 DEF ShutdownRevoke
<1>6. ASSUME NEW m \in Managers,
             \/ StartCall(m) \/ Grant(m) \/ Heartbeat(m) \/ HeartbeatReturn(m)
             \/ \E s \in States : Transition(m, s)
             \/ Shutdown(m) \/ ShutdownTransition(m) \/ ShutdownCloseClient(m)
             \/ Restart(m)
      PROVE  live \subseteq live' /\ UNCHANGED leader
  BY <1>6 DEF StartCall, Grant, GrantLease, Heartbeat, HeartbeatReturn, Transition,
              Shutdown, ShutdownTransition, ShutdownCloseClient, Restart
<1>7. ASSUME UNCHANGED vars PROVE live \subseteq live' /\ UNCHANGED leader
  BY <1>7
<1> QED BY <1>1, <1>3, <1>4, <1>5, <1>6, <1>7 DEF Next

LEMMA LeaseStep == TypeOK /\ LeaseInv /\ [Next]_vars => LeaseInv'
<1> SUFFICES ASSUME TypeOK, LeaseInv, [Next]_vars PROVE LeaseInv'
  OBVIOUS
<1> USE LifecycleAssumption DEF LeaseInv, TypeOK
<1>1. ASSUME NEW l \in Leases, Tick(l) PROVE LeaseInv'
  BY <1>1 DEF Tick, DropLease
<1>2. ASSUME NEW m \in Managers, StartCall(m) PROVE LeaseInv'
  BY <1>2 DEF StartCall
<1>3. ASSUME NEW m \in Managers, Grant(m) PROVE LeaseInv'
  <2>1. m \notin orderly /\ start' \in [Managers -> {"idle", "grant", "put", "started", "failed"}]
    BY <1>3 DEF Grant
  <2>2. CASE /\ UNCHANGED <<granted, live, leaseID>>
             /\ start' = [start EXCEPT ![m] = "failed"]
    BY <1>3, <2>1, <2>2 DEF Grant
  <2>3. CASE /\ granted' = granted + 1
             /\ live' = live \cup {granted + 1}
             /\ leaseID' = [leaseID EXCEPT ![m] = granted + 1]
             /\ start' = [start EXCEPT ![m] = "put"]
    BY <1>3, <2>1, <2>3 DEF Grant
  <2>4. CASE /\ granted' = granted + 1
             /\ live' = live \cup {granted + 1}
             /\ leaseID' = leaseID
             /\ start' = [start EXCEPT ![m] = "failed"]
    BY <1>3, <2>1, <2>4 DEF Grant
  <2> QED BY <1>3, <2>2, <2>3, <2>4, Zenon DEF Grant, GrantLease
<1>4. ASSUME NEW m \in Managers, Put(m) PROVE LeaseInv'
  BY <1>4 DEF Put
<1>5. ASSUME NEW m \in Managers, Heartbeat(m) PROVE LeaseInv'
  BY <1>5 DEF Heartbeat
<1>6. ASSUME NEW m \in Managers, HeartbeatReturn(m) PROVE LeaseInv'
  BY <1>6 DEF HeartbeatReturn
<1>7. ASSUME NEW m \in Managers, NEW s \in States, Transition(m, s) PROVE LeaseInv'
  BY <1>7 DEF Transition
<1>8. ASSUME NEW m \in Managers, Shutdown(m), ~Restart(m) PROVE LeaseInv'
  BY <1>8 DEF Shutdown
<1>9. ASSUME NEW m \in Managers, ShutdownTransition(m) PROVE LeaseInv'
  BY <1>9 DEF ShutdownTransition
<1>10. ASSUME NEW m \in Managers, ShutdownRevoke(m) PROVE LeaseInv'
  BY <1>10 DEF ShutdownRevoke, DropLease, SkipRevoke
<1>11. ASSUME NEW m \in Managers, ShutdownCloseClient(m) PROVE LeaseInv'
  BY <1>11 DEF ShutdownCloseClient
<1>12. ASSUME NEW m \in Managers, Restart(m) PROVE LeaseInv'
  BY <1>12 DEF Restart
<1>13. CASE UNCHANGED vars
  BY <1>13
<1> QED
  BY <1>1, <1>2, <1>3, <1>4, <1>5, <1>6, <1>7, <1>8, <1>9, <1>10, <1>11, <1>12,
     <1>13 DEF Next

LEMMA Invariance == Spec => []IInv
<1>1. IInv /\ [Next]_vars => IInv'
  BY TypeStep, KeyStep, LeaseStep DEF IInv
<1> QED BY InitInv, <1>1, PTL DEF Spec

\* Every variable keeps its type; etcd never renews a lease that is gone.
THEOREM TypeCorrect == Spec => []TypeOK
<1>1. IInv => TypeOK
  BY DEF IInv
<1> QED BY Invariance, <1>1, PTL

\* An orderly Shutdown that closes the etcd client has released leadership.
THEOREM CleanShutdown == Spec => []CleanShutdownReleasesLeadership
<1>1. IInv => CleanShutdownReleasesLeadership
  BY DEF IInv, TypeOK, KeyInv, LeaseInv,
         CleanShutdownReleasesLeadership
<1> QED BY Invariance, <1>1, PTL

-----------------------------------------------------------------------------
(* The state machines: TERMINATING has no successor, so no concurrent      *)
(* Transition can undo the one that Shutdown made.                         *)

LEMMA SetStateFacts ==
    ASSUME TypeOK, StatesAreAPath, NEW m \in Managers, NEW s \in States,
           validTransition(currentState[m], s), SetState(m, s)
    PROVE  /\ currentState[m] # "TERMINATING"
           /\ \A n \in Managers :
                \/ validTransition(previousState'[n], currentState'[n])
                \/ previousState'[n] = "BOOTING" /\ currentState'[n] = "BOOTING"
           /\ \A n \in Managers \ {m} : currentState'[n] = currentState[n]
           /\ currentState'[m] = s
<1>1. currentState[m] # "TERMINATING"
  BY DEF validTransition, transitionMatrix
<1> QED BY <1>1 DEF TypeOK, StatesAreAPath, SetState

LEMMA PathStep ==
    TypeOK /\ StatesAreAPath /\ [Next]_vars => StatesAreAPath'
<1> SUFFICES ASSUME TypeOK, StatesAreAPath, [Next]_vars
             PROVE  StatesAreAPath'
  OBVIOUS
<1>1. CASE UNCHANGED <<currentState, previousState, shutdown>>
  BY <1>1 DEF StatesAreAPath
<1>2. ASSUME NEW m \in Managers, NEW s \in States, Transition(m, s)
      PROVE  StatesAreAPath'
  BY <1>2, SetStateFacts DEF Transition, StatesAreAPath
<1>3. ASSUME NEW m \in Managers, ShutdownTransition(m) PROVE StatesAreAPath'
  <2>1. CASE /\ validTransition(currentState[m], "TERMINATING")
             /\ SetState(m, "TERMINATING")
             /\ shutdown' = [shutdown EXCEPT ![m] = "revoke"]
    BY <2>1, SetStateFacts DEF StatesAreAPath, TypeOK, States
  <2>2. CASE shutdown' = [shutdown EXCEPT ![m] = "error"] /\ UNCHANGED fsmVars
    BY <2>2 DEF StatesAreAPath, TypeOK
  <2> QED BY <1>3, <2>1, <2>2, Zenon DEF ShutdownTransition
<1>4. ASSUME NEW m \in Managers, Restart(m) PROVE StatesAreAPath'
  BY <1>4 DEF Restart, StatesAreAPath, TypeOK
<1>5. ASSUME NEW m \in Managers, UNCHANGED fsmVars,
             \/ shutdown' = [shutdown EXCEPT ![m] = "transition"]
             \/ shutdown' = [shutdown EXCEPT ![m] = "error"]
             \/ /\ shutdown[m] \in {"revoke", "close"}
                /\ shutdown' \in [Managers -> {"no", "transition", "revoke",
                                               "close", "closed", "error"}]
                /\ \A n \in Managers \ {m} : shutdown'[n] = shutdown[n]
      PROVE  StatesAreAPath'
  BY <1>5 DEF StatesAreAPath, TypeOK
<1>6. ASSUME NEW m \in Managers, Shutdown(m), ~Restart(m) PROVE StatesAreAPath'
  BY <1>5, <1>6 DEF Shutdown
<1>7. ASSUME NEW m \in Managers, ShutdownRevoke(m) PROVE StatesAreAPath'
  <2>1. \/ shutdown' = [shutdown EXCEPT ![m] = "close"]
        \/ shutdown' = [shutdown EXCEPT ![m] = "error"]
    BY <1>7, Zenon DEF ShutdownRevoke
  <2>2. shutdown[m] = "revoke" /\ UNCHANGED fsmVars
    BY <1>7 DEF ShutdownRevoke
  <2> QED BY <1>5, <2>1, <2>2 DEF TypeOK
<1>8. ASSUME NEW m \in Managers, ShutdownCloseClient(m) PROVE StatesAreAPath'
  BY <1>5, <1>8, Zenon DEF ShutdownCloseClient, TypeOK
<1>9. ASSUME NEW m \in Managers,
             \/ StartCall(m) \/ Grant(m) \/ Put(m)
             \/ Heartbeat(m) \/ HeartbeatReturn(m)
      PROVE  UNCHANGED <<currentState, previousState, shutdown>>
  BY <1>9 DEF StartCall, Grant, Put, Heartbeat, HeartbeatReturn
<1>10. ASSUME NEW l \in Leases, Tick(l)
       PROVE  UNCHANGED <<currentState, previousState, shutdown>>
  BY <1>10 DEF Tick
<1>11. ASSUME UNCHANGED vars
       PROVE  UNCHANGED <<currentState, previousState, shutdown>>
  BY <1>11
<1> QED
  BY <1>1, <1>2, <1>3, <1>4, <1>6, <1>7, <1>8, <1>9, <1>10, <1>11 DEF Next

\* The states of a manager follow the transition matrix, and a Shutdown that
\* got past its transition is never undone.
THEOREM StatesPath == Spec => []StatesAreAPath
<1>1. TypeOK /\ StatesAreAPath /\ [Next]_vars => (TypeOK /\ StatesAreAPath)'
  BY TypeStep, PathStep
<1>2. Init => TypeOK /\ StatesAreAPath
  BY InitInv DEF IInv
<1> QED BY <1>1, <1>2, PTL DEF Spec
=============================================================================
