---------------------- MODULE CapabilityRegistryProofs ----------------------
(***************************************************************************)
(* Proofs about the capability registry, for any finite set of tasks and   *)
(* any capabilities, versions and pool sizes.                              *)
(***************************************************************************)
EXTENDS CapabilityRegistry, SequenceTheorems, FiniteSetTheorems, TLAPS

-----------------------------------------------------------------------------
(* The queue of a mutex.                                                   *)

\* A task that leaves the queue takes no other task out of it, and leaves the
\* holder at the head of the queue if it is another task.
LEMMA LeavingKeepsOthers ==
    ASSUME NEW S, NEW q \in Seq(S), NEW t \in S, NEW u \in Range(q), u # t
    PROVE  /\ Without(q, t) \in Seq(S)
           /\ u \in Range(Without(q, t))
           /\ Head(q) = u => Head(Without(q, t)) = u
<1>1. CASE t \notin Range(q)
  BY <1>1 DEF Without
<1>2. CASE t \in Range(q)
  <2> DEFINE i == CHOOSE i \in DOMAIN q : q[i] = t
             a == SubSeq(q, 1, i - 1)
             b == SubSeq(q, i + 1, Len(q))
             w == a \o b
  <2>1. i \in 1..Len(q) /\ q[i] = t /\ Len(q) \in Nat
    BY <1>2, LenProperties DEF Range
  <2>2. Without(q, t) = w
    BY <1>2, Zenon DEF Without, RemoveAt
  <2> HIDE DEF i
  <2>3. /\ a \in Seq(S) /\ Len(a) = i - 1
        /\ \A k \in 1..(i - 1) : a[k] = q[k]
    BY <2>1
  <2>4. /\ b \in Seq(S) /\ Len(b) = Len(q) - i
        /\ \A k \in 1..(Len(q) - i) : b[k] = q[i + k]
    BY <2>1
  <2> HIDE DEF a, b
  <2>5. /\ w \in Seq(S) /\ Len(w) = Len(q) - 1 /\ DOMAIN w = 1..(Len(q) - 1)
        /\ \A k \in 1..(i - 1) : w[k] = q[k]
        /\ \A k \in i..(Len(q) - 1) : w[k] = q[k + 1]
    <3>1. /\ w \in Seq(S) /\ Len(w) = Len(a) + Len(b)
          /\ DOMAIN w = 1..Len(w)
          /\ \A k \in 1..Len(w) :
                w[k] = IF k <= Len(a) THEN a[k] ELSE b[k - Len(a)]
      <4>1. a \in Seq(S) /\ b \in Seq(S)
        BY <2>3, <2>4
      <4>2. /\ w \in Seq(S) /\ Len(w) = Len(a) + Len(b)
            /\ \A k \in 1..(Len(a) + Len(b)) :
                  w[k] = IF k <= Len(a) THEN a[k] ELSE b[k - Len(a)]
        BY <4>1, ConcatProperties, Zenon
      <4> HIDE DEF w
      <4>3. DOMAIN w = 1..Len(w)
        BY <4>2, LenProperties
      <4> QED BY <4>2, <4>3
    <3> HIDE DEF w
    <3>2. ASSUME NEW k \in i..(Len(q) - 1) PROVE w[k] = q[k + 1]
      <4>1. /\ k \in 1..Len(w) /\ ~(k <= Len(a))
            /\ k - Len(a) \in 1..(Len(q) - i)
            /\ i + (k - Len(a)) = k + 1
        BY <3>1, <2>1, <2>3, <2>4
      <4>2. w[k] = b[k - Len(a)]
        BY <4>1, <3>1
      <4>3. b[k - Len(a)] = q[i + (k - Len(a))]
        BY <4>1, <2>4
      <4> QED BY <4>1, <4>2, <4>3
    <3>3. ASSUME NEW k \in 1..(i - 1) PROVE w[k] = q[k]
      BY <3>1, <2>1, <2>3, <2>4, SMTT(30)
    <3>4. Len(w) = Len(q) - 1
      BY <3>1, <2>1, <2>3, <2>4
    <3> QED BY <3>1, <3>2, <3>3, <3>4
  <2> HIDE DEF w
  <2>6. PICK j \in 1..Len(q) : q[j] = u
    BY LenProperties DEF Range
  <2>7. j # i
    BY <2>1, <2>6
  <2>8. \E k \in DOMAIN w : w[k] = u
    <3>1. CASE j < i
      BY <3>1, <2>1, <2>5, <2>6
    <3>2. CASE j > i
      <4>1. j - 1 \in i..(Len(q) - 1) /\ (j - 1) + 1 = j
        BY <3>2, <2>1
      <4>2. w[j - 1] = u /\ j - 1 \in DOMAIN w
        BY <4>1, <2>1, <2>5, <2>6
      <4> QED BY <4>2
    <3> QED BY <3>1, <3>2, <2>1, <2>7
  <2>9. ASSUME Head(q) = u PROVE Head(w) = u
    <3>1. Head(q) = q[1]
      OBVIOUS
    <3>2. i # 1
      BY <3>1, <2>9, <2>1
    <3>3. w[1] = u /\ w # <<>>
      BY <3>1, <3>2, <2>9, <2>1, <2>5, SMTT(30)
    <3> QED BY <3>3, <2>5
  <2> QED BY <2>2, <2>5, <2>8, <2>9 DEF Range
<1> QED BY <1>1, <1>2

\* Leaving gives a queue of tasks again.
LEMMA LeavingIsAQueue ==
    ASSUME NEW S, NEW q \in Seq(S), NEW t \in S
    PROVE  Without(q, t) \in Seq(S)
<1>1. CASE t \notin Range(q)
  BY <1>1 DEF Without
<1>2. CASE t \in Range(q)
  <2> DEFINE i == CHOOSE i \in DOMAIN q : q[i] = t
  <2>1. i \in 1..Len(q) /\ Len(q) \in Nat
    BY <1>2, LenProperties DEF Range
  <2>2. Without(q, t) = SubSeq(q, 1, i - 1) \o SubSeq(q, i + 1, Len(q))
    BY <1>2, Zenon DEF Without, RemoveAt
  <2> HIDE DEF i
  <2>3. SubSeq(q, 1, i - 1) \in Seq(S) /\ SubSeq(q, i + 1, Len(q)) \in Seq(S)
    BY <2>1
  <2> QED BY <2>2, <2>3
<1> QED BY <1>1, <1>2

\* A task that joins the queue is in it, and so is every task before it; the
\* holder stays at the head.
LEMMA JoiningKeepsOthers ==
    ASSUME NEW S, NEW q \in Seq(S), NEW t \in S
    PROVE  /\ Append(q, t) \in Seq(S)
           /\ Range(Append(q, t)) = Range(q) \cup {t}
           /\ q # <<>> => Head(Append(q, t)) = Head(q)
<1> DEFINE r == Append(q, t)
<1>1. /\ r \in Seq(S) /\ Len(q) \in Nat
      /\ DOMAIN q = 1..Len(q)
      /\ DOMAIN r = 1..(Len(q) + 1)
      /\ \A i \in 1..Len(q) : r[i] = q[i]
      /\ r[Len(q) + 1] = t
  OBVIOUS
<1>2. q # <<>> => Head(r) = Head(q)
  OBVIOUS
<1> HIDE DEF r
<1>3. ASSUME NEW x \in Range(r) PROVE x \in Range(q) \cup {t}
  BY <1>1 DEF Range
<1>4. ASSUME NEW x \in Range(q) PROVE x \in Range(r)
  BY <1>1 DEF Range
<1>5. t \in Range(r)
  BY <1>1 DEF Range
<1>6. Range(r) = Range(q) \cup {t}
  BY <1>3, <1>4, <1>5
<1> QED BY <1>1, <1>2, <1>6 DEF r
-----------------------------------------------------------------------------
(* The invariant.  A task that has passed the first mutex is its holder    *)
(* until it returns: only that keeps versions still while execute awaits   *)
(* the pools and a permit.                                                 *)

TypeInv ==
    /\ pc \in [Tasks -> {"idle", "caps", "pools", "permit", "run"}]
    /\ call \in [Tasks -> Registrations \cup Executions \cup {NoCall}]
    /\ \A t \in Tasks :
          pc[t] # "idle" => call[t] \in Registrations \cup Executions
    /\ DOMAIN selected = Tasks /\ selected = [t \in Tasks |-> selected[t]]
    /\ capsQueue \in Seq(Tasks) /\ poolsQueue \in Seq(Tasks)
    /\ versions \in [Capabilities -> SUBSET Versions]
    /\ pools \in [Capabilities -> Nat \cup {NoPool}]
    /\ inUse \in [Capabilities -> Int]

HolderInv ==
    \A t \in Tasks :
        /\ pc[t] # "idle" => t \in Range(capsQueue)
        /\ pc[t] \in {"pools", "permit", "run"} => Head(capsQueue) = t

\* What a call names is a capability.
LEMMA CallNames ==
    ASSUME TypeInv, NEW t \in Tasks, pc[t] # "idle"
    PROVE  call[t].id \in Capabilities
BY DEF TypeInv, Registrations, Executions

\* The permits taken stay a number.
LEMMA DropPermitType ==
    ASSUME TypeInv, NEW t \in Tasks, pc[t] # "idle", DropPermit(t)
    PROVE  inUse' \in [Capabilities -> Int]
<1> DEFINE c == call[t].id
<1>1. c \in Capabilities /\ inUse[c] \in Int
  BY CallNames DEF TypeInv
<1>2. (IF pc[t] = "run" THEN inUse[c] - 1 ELSE inUse[c]) \in Int
  BY <1>1
<1> QED BY <1>1, <1>2 DEF TypeInv, DropPermit

LEMMA TypeInit == RegistryInit => TypeInv /\ HolderInv
BY DEF RegistryInit, TypeInv, HolderInv

\* The part of the type invariant that Return touches.
LEMMA ReturnType ==
    ASSUME TypeInv, NEW t \in Tasks, Return(t)
    PROVE  /\ pc' \in [Tasks -> {"idle", "caps", "pools", "permit", "run"}]
           /\ call' \in [Tasks -> Registrations \cup Executions \cup {NoCall}]
           /\ \A u \in Tasks :
                 pc'[u] # "idle" => call'[u] \in Registrations \cup Executions
           /\ DOMAIN selected' = Tasks
           /\ selected' = [u \in Tasks |-> selected'[u]]
           /\ capsQueue' \in Seq(Tasks) /\ poolsQueue' \in Seq(Tasks)
<1>1. capsQueue' \in Seq(Tasks) /\ poolsQueue' \in Seq(Tasks)
  BY LeavingIsAQueue DEF TypeInv, Return
<1> QED BY <1>1, ZenonT(30) DEF TypeInv, Return

LEMMA TypeStep == TypeInv /\ [RegistryNext]_registryVars => TypeInv'
<1> SUFFICES ASSUME TypeInv, [RegistryNext]_registryVars PROVE TypeInv'
  OBVIOUS
<1>1. CASE UNCHANGED registryVars
  BY <1>1 DEF TypeInv, registryVars, guards
<1>2. ASSUME NEW t \in Tasks, NEW args \in Registrations \cup Executions,
             Call(t, args)
      PROVE  TypeInv'
  <2>1. capsQueue' \in Seq(Tasks)
    BY <1>2, JoiningKeepsOthers DEF TypeInv, Call
  <2> QED BY <2>1, <1>2 DEF TypeInv, Call
<1>3. ASSUME NEW t \in Tasks, Cancel(t) PROVE TypeInv'
  <2>1. inUse' \in [Capabilities -> Int]
    BY <1>3, DropPermitType DEF Cancel
  <2> QED BY <2>1, <1>3, ReturnType DEF TypeInv, Cancel
<1>4. ASSUME NEW t \in Tasks, RegisterCheck(t) PROVE TypeInv'
  <2>1. CASE Return(t) /\ UNCHANGED versions
    BY <2>1, <1>4, ReturnType DEF TypeInv, RegisterCheck
  <2>2. CASE /\ CheckVersion(call[t].id, call[t].version)
             /\ pc' = [pc EXCEPT ![t] = "pools"]
             /\ poolsQueue' = Append(poolsQueue, t)
             /\ UNCHANGED <<call, selected, capsQueue>>
    <3>1. poolsQueue' \in Seq(Tasks)
      BY <2>2, JoiningKeepsOthers DEF TypeInv
    <3> QED BY <3>1, <2>2, <1>4 DEF TypeInv, RegisterCheck, CheckVersion
  <2> QED BY <1>4, <2>1, <2>2 DEF RegisterCheck
<1>5. ASSUME NEW t \in Tasks, RegisterInsert(t) PROVE TypeInv'
  <2>1. call[t] \in Registrations
    BY <1>5 DEF TypeInv, RegisterInsert, Registrations, Executions
  <2>2. call[t].version \in Versions /\ Permits(call[t].cores) \in Nat
    <3>1. call[t].version \in Versions /\ call[t].cores \in HalfCores
      BY <2>1 DEF Registrations
    <3>2. call[t].cores \in Nat
      BY <3>1, RegistryAssumption, Zenon
    <3>3. \A n \in Nat : n \div 2 \in Nat
      OBVIOUS
    <3> QED BY <3>1, <3>2, <3>3 DEF Permits
  <2>3. pools' \in [Capabilities -> Nat \cup {NoPool}]
    BY <2>2, <1>5, Zenon DEF TypeInv, RegisterInsert
  <2>4. versions' \in [Capabilities -> SUBSET Versions]
    BY <2>2, <1>5, Zenon DEF TypeInv, RegisterInsert
  <2>5. inUse' \in [Capabilities -> Int] /\ Return(t)
    BY <1>5 DEF TypeInv, RegisterInsert
  <2> QED BY <2>3, <2>4, <2>5, ReturnType, SMTT(30) DEF TypeInv
<1>6. ASSUME NEW t \in Tasks, ExecuteSelect(t) PROVE TypeInv'
  <2>1. CASE Return(t)
    BY <2>1, <1>6, ReturnType, SMTT(30) DEF TypeInv, ExecuteSelect
  <2>2. CASE ~Return(t)
    <3>1. /\ selected' = [selected EXCEPT
                 ![t] = Max(versions[call[t].id] \cap call[t].req)]
          /\ pc[t] = "caps" /\ pc' = [pc EXCEPT ![t] = "pools"]
          /\ poolsQueue' = Append(poolsQueue, t)
          /\ UNCHANGED <<call, capsQueue, versions, pools, inUse>>
      BY <2>2, <1>6, Zenon DEF ExecuteSelect
    <3>2. poolsQueue' \in Seq(Tasks)
      BY <3>1, JoiningKeepsOthers DEF TypeInv
    <3>3. DOMAIN selected' = Tasks /\ selected' = [u \in Tasks |-> selected'[u]]
      BY <3>1, Zenon DEF TypeInv
    <3> QED BY <3>1, <3>2, <3>3 DEF TypeInv
  <2> QED BY <2>1, <2>2
<1>7. ASSUME NEW t \in Tasks, ExecuteFindPool(t) PROVE TypeInv'
  <2>1. CASE Return(t)
    BY <2>1, <1>7, ReturnType DEF TypeInv, ExecuteFindPool
  <2>2. CASE ~Return(t)
    BY <2>2, <1>7, ZenonT(30) DEF TypeInv, ExecuteFindPool, KeepGuards, guards
  <2> QED BY <2>1, <2>2
<1>8. ASSUME NEW t \in Tasks, Allocate(t) PROVE TypeInv'
  <2>1. call[t].id \in Capabilities
    BY <1>8, CallNames DEF Allocate
  <2>2. inUse' \in [Capabilities -> Int]
    BY <2>1, <1>8 DEF TypeInv, Allocate
  <2> QED BY <2>2, <1>8 DEF TypeInv, Allocate, guards
<1>9. ASSUME NEW t \in Tasks, ExecuteReturn(t) PROVE TypeInv'
  <2>1. inUse' \in [Capabilities -> Int]
    BY <1>9, DropPermitType DEF ExecuteReturn
  <2> QED BY <2>1, <1>9, ReturnType, SMTT(30) DEF TypeInv, ExecuteReturn
<1> QED
  BY <1>1, <1>2, <1>3, <1>4, <1>5, <1>6, <1>7, <1>8, <1>9 DEF RegistryNext, Step

-----------------------------------------------------------------------------
(* The holder of the first mutex.                                          *)

\* Returning or being cancelled.
LEMMA ReturnHolder ==
    ASSUME TypeInv, HolderInv, NEW t \in Tasks, Return(t) PROVE HolderInv'
<1> SUFFICES ASSUME NEW u \in Tasks, pc'[u] # "idle"
             PROVE  /\ u \in Range(capsQueue')
                    /\ pc'[u] \in {"pools", "permit", "run"}
                          => Head(capsQueue') = u
  BY DEF HolderInv
<1>1. u # t /\ pc'[u] = pc[u]
  BY DEF TypeInv, Return
<1>2. capsQueue \in Seq(Tasks) /\ capsQueue' = Without(capsQueue, t)
  BY DEF TypeInv, Return
<1>3. u \in Range(capsQueue)
  BY <1>1 DEF HolderInv
<1>4. /\ u \in Range(Without(capsQueue, t))
      /\ Head(capsQueue) = u => Head(Without(capsQueue, t)) = u
  BY <1>1, <1>2, <1>3, LeavingKeepsOthers, Zenon
<1> QED BY <1>1, <1>2, <1>4 DEF HolderInv

\* Going on to the next await: the mutex is not touched.
LEMMA AdvanceHolder ==
    ASSUME TypeInv, HolderInv, NEW t \in Tasks, NEW next, pc[t] # "idle",
           Head(capsQueue) = t, pc' = [pc EXCEPT ![t] = next],
           capsQueue' = capsQueue
    PROVE  HolderInv'
BY DEF TypeInv, HolderInv

LEMMA HolderStep == TypeInv /\ HolderInv /\ [RegistryNext]_registryVars => HolderInv'
<1> SUFFICES ASSUME TypeInv, HolderInv, [RegistryNext]_registryVars PROVE HolderInv'
  OBVIOUS
<1>1. CASE UNCHANGED registryVars
  BY <1>1 DEF HolderInv, registryVars, guards
<1>2. ASSUME NEW t \in Tasks, NEW args \in Registrations \cup Executions,
             Call(t, args)
      PROVE  HolderInv'
  <2>1. capsQueue \in Seq(Tasks) /\ capsQueue' = Append(capsQueue, t)
    BY <1>2 DEF TypeInv, Call
  <2>2. /\ Range(capsQueue') = Range(capsQueue) \cup {t}
        /\ capsQueue # <<>> => Head(capsQueue') = Head(capsQueue)
    BY <2>1, JoiningKeepsOthers
  <2>3. Range(<<>>) = {}
    BY DEF Range
  <2>4. ASSUME NEW u \in Tasks, pc'[u] # "idle"
        PROVE  /\ u \in Range(capsQueue')
               /\ pc'[u] \in {"pools", "permit", "run"} => Head(capsQueue') = u
    <3>1. CASE u = t
      BY <3>1, <1>2, <2>2 DEF TypeInv, Call
    <3>2. CASE u # t
      <4>1. pc'[u] = pc[u] /\ u \in Range(capsQueue)
        BY <3>2, <2>4, <1>2 DEF TypeInv, Call, HolderInv
      <4>2. capsQueue # <<>>
        BY <4>1, <2>3
      <4> QED BY <4>1, <4>2, <2>2 DEF HolderInv
    <3> QED BY <3>1, <3>2
  <2> QED BY <2>4 DEF HolderInv
<1>3. ASSUME NEW t \in Tasks, Cancel(t) PROVE HolderInv'
  BY <1>3, ReturnHolder DEF Cancel
<1>4. ASSUME NEW t \in Tasks, RegisterCheck(t) PROVE HolderInv'
  <2>1. CASE Return(t)
    BY <2>1, ReturnHolder
  <2>2. CASE ~Return(t)
    <3>1. /\ pc[t] = "caps" /\ Head(capsQueue) = t
          /\ pc' = [pc EXCEPT ![t] = "pools"] /\ capsQueue' = capsQueue
      BY <2>2, <1>4, Zenon DEF RegisterCheck
    <3> QED BY <3>1, AdvanceHolder, ZenonT(30)
  <2> QED BY <2>1, <2>2
<1>5. ASSUME NEW t \in Tasks, RegisterInsert(t) PROVE HolderInv'
  BY <1>5, ReturnHolder DEF RegisterInsert
<1>6. ASSUME NEW t \in Tasks, ExecuteSelect(t) PROVE HolderInv'
  <2>1. CASE Return(t)
    BY <2>1, ReturnHolder
  <2>2. CASE ~Return(t)
    <3>1. /\ pc[t] = "caps" /\ Head(capsQueue) = t
          /\ pc' = [pc EXCEPT ![t] = "pools"] /\ capsQueue' = capsQueue
      BY <2>2, <1>6, Zenon DEF ExecuteSelect
    <3> QED BY <3>1, AdvanceHolder, Zenon
  <2> QED BY <2>1, <2>2
<1>7. ASSUME NEW t \in Tasks, ExecuteFindPool(t) PROVE HolderInv'
  <2>1. CASE Return(t)
    BY <2>1, ReturnHolder
  <2>2. CASE ~Return(t)
    <3>1. /\ pc[t] = "pools" /\ pc' = [pc EXCEPT ![t] = "permit"]
          /\ capsQueue' = capsQueue
      BY <2>2, <1>7 DEF ExecuteFindPool, KeepGuards, guards
    <3>2. Head(capsQueue) = t
      BY <3>1 DEF HolderInv
    <3> QED BY <3>1, <3>2, AdvanceHolder, Zenon
  <2> QED BY <2>1, <2>2
<1>8. ASSUME NEW t \in Tasks, Allocate(t) PROVE HolderInv'
  <2>1. /\ pc[t] = "permit" /\ pc' = [pc EXCEPT ![t] = "run"]
        /\ capsQueue' = capsQueue
    BY <1>8 DEF Allocate, guards
  <2>2. Head(capsQueue) = t
    BY <2>1 DEF HolderInv
  <2> QED BY <2>1, <2>2, AdvanceHolder, Zenon
<1>9. ASSUME NEW t \in Tasks, ExecuteReturn(t) PROVE HolderInv'
  BY <1>9, ReturnHolder DEF ExecuteReturn
<1> QED
  BY <1>1, <1>2, <1>3, <1>4, <1>5, <1>6, <1>7, <1>8, <1>9, SMTT(30) DEF RegistryNext, Step

-----------------------------------------------------------------------------
(* Pools.                                                                  *)

LEMMA PoolStep ==
    TypeInv /\ RegisteredHasPool /\ [RegistryNext]_registryVars => RegisteredHasPool'
<1> SUFFICES ASSUME TypeInv, RegisteredHasPool, [RegistryNext]_registryVars
             PROVE  RegisteredHasPool'
  OBVIOUS
<1>1. CASE UNCHANGED <<versions, pools>>
  BY <1>1 DEF RegisteredHasPool
<1>2. ASSUME NEW t \in Tasks, RegisterInsert(t) PROVE RegisteredHasPool'
  <2>1. call[t] \in Registrations
    BY <1>2 DEF TypeInv, RegisterInsert, Registrations, Executions
  <2>2. call[t].id \in Capabilities /\ call[t].cores \in Nat
    BY <2>1, RegistryAssumption, Zenon DEF Registrations
  <2>3. Permits(call[t].cores) \in Nat
    <3>1. \A n \in Nat : n \div 2 \in Nat
      OBVIOUS
    <3> QED BY <3>1, <2>2 DEF Permits
  <2>4. pools'[call[t].id] # NoPool
    BY <2>2, <2>3, <1>2, RegistryAssumption, SMTT(30) DEF TypeInv, RegisterInsert
  <2>5. \A c \in Capabilities \ {call[t].id} :
            versions'[c] = versions[c] /\ pools'[c] = pools[c]
    BY <1>2, SMTT(30) DEF TypeInv, RegisterInsert
  <2> QED BY <2>4, <2>5, SMTT(30) DEF RegisteredHasPool
<1>3. UNCHANGED <<versions, pools>> \/ \E t \in Tasks : RegisterInsert(t)
  BY ZenonT(30)
     DEF RegistryNext, Step, Call, Cancel, RegisterCheck, CheckVersion, ExecuteSelect,
         ExecuteFindPool, Allocate, ExecuteReturn, registryVars
<1> QED BY <1>1, <1>2, <1>3

\* Every registered version has a resource pool: "Resource pool missing" is
\* never the answer of execute (capability.rs register and execute).
THEOREM PoolsAreThere == RegistrySpec => []RegisteredHasPool
<1>1. RegistryInit => RegisteredHasPool
  BY DEF RegistryInit, RegisteredHasPool
<1>2. RegistryInit => TypeInv
  BY TypeInit
<1> QED BY <1>1, <1>2, TypeStep, PoolStep, PTL DEF RegistrySpec

-----------------------------------------------------------------------------
(* Versions.                                                               *)

Executing(t) ==
    pc[t] \in {"pools", "permit", "run"} /\ call[t].op = "execute"

\* A step that leaves versions alone keeps the choice of every execution that
\* it does not start.
LEMMA ChoiceKept ==
    ASSUME RunsTheLatestVersion, versions' = versions,
           \A u \in Tasks : Executing(u)' =>
               /\ Executing(u)
               /\ call'[u] = call[u] /\ selected'[u] = selected[u]
    PROVE  RunsTheLatestVersion'
BY DEF RunsTheLatestVersion, Executing

LEMMA ReturnChoice ==
    ASSUME TypeInv, NEW t \in Tasks, Return(t), NEW u \in Tasks, Executing(u)'
    PROVE  /\ Executing(u) /\ u # t
           /\ call'[u] = call[u] /\ selected'[u] = selected[u]
BY DEF TypeInv, Return, Executing

LEMMA ChoiceStep ==
    /\ TypeInv /\ HolderInv /\ RunsTheLatestVersion
    /\ [RegistryNext]_registryVars
    => RunsTheLatestVersion'
<1> SUFFICES ASSUME TypeInv, HolderInv, RunsTheLatestVersion, [RegistryNext]_registryVars
             PROVE  RunsTheLatestVersion'
  OBVIOUS
<1>1. CASE UNCHANGED registryVars
  BY <1>1, ChoiceKept DEF registryVars, Executing
<1>2. ASSUME NEW t \in Tasks, NEW args \in Registrations \cup Executions,
             Call(t, args)
      PROVE  RunsTheLatestVersion'
  <2>1. \A u \in Tasks : Executing(u)' =>
            /\ Executing(u)
            /\ call'[u] = call[u] /\ selected'[u] = selected[u]
    BY <1>2 DEF TypeInv, Call, Executing
  <2> QED BY <2>1, <1>2, ChoiceKept, SMTT(30) DEF Call
<1>3. ASSUME NEW t \in Tasks, Return(t), versions' = versions
      PROVE  RunsTheLatestVersion'
  BY <1>3, ChoiceKept, ReturnChoice, SMTT(30)
<1>4. ASSUME NEW t \in Tasks, RegisterCheck(t), ~Return(t)
      PROVE  RunsTheLatestVersion'
  <2>1. \A u \in Tasks : Executing(u)' =>
            /\ Executing(u)
            /\ call'[u] = call[u] /\ selected'[u] = selected[u]
    BY <1>4 DEF TypeInv, RegisterCheck, Executing
  <2> QED BY <2>1, <1>4, ChoiceKept, SMTT(30) DEF RegisterCheck, CheckVersion
<1>5. ASSUME NEW t \in Tasks, RegisterInsert(t)
      PROVE  RunsTheLatestVersion'
  <2>1. Head(capsQueue) = t /\ Return(t)
    BY <1>5 DEF HolderInv, RegisterInsert
  <2>2. \A u \in Tasks : ~Executing(u)'
    BY <2>1, ReturnChoice DEF HolderInv, Executing
  <2> QED BY <2>2 DEF RunsTheLatestVersion, Executing
<1>6. ASSUME NEW t \in Tasks, ExecuteSelect(t), ~Return(t)
      PROVE  RunsTheLatestVersion'
  <2>1. /\ selected' = [selected EXCEPT
                 ![t] = Max(versions[call[t].id] \cap call[t].req)]
        /\ pc' = [pc EXCEPT ![t] = "pools"]
        /\ call' = call /\ versions' = versions
    BY <1>6, Zenon DEF ExecuteSelect
  <2>2. selected'[t] = Max(versions[call[t].id] \cap call[t].req)
    BY <2>1 DEF TypeInv
  <2>3. \A u \in Tasks \ {t} : pc'[u] = pc[u] /\ selected'[u] = selected[u]
    BY <2>1 DEF TypeInv
  <2> QED BY <2>1, <2>2, <2>3, SMTT(30) DEF RunsTheLatestVersion
<1>7. ASSUME NEW t \in Tasks, ExecuteFindPool(t), ~Return(t)
      PROVE  RunsTheLatestVersion'
  <2>1. \A u \in Tasks : Executing(u)' =>
            /\ Executing(u)
            /\ call'[u] = call[u] /\ selected'[u] = selected[u]
    BY <1>7 DEF TypeInv, ExecuteFindPool, Executing
  <2> QED BY <2>1, <1>7, ChoiceKept, SMTT(30) DEF ExecuteFindPool
<1>8. ASSUME NEW t \in Tasks, Allocate(t) PROVE RunsTheLatestVersion'
  <2>1. \A u \in Tasks : Executing(u)' =>
            /\ Executing(u)
            /\ call'[u] = call[u] /\ selected'[u] = selected[u]
    BY <1>8 DEF TypeInv, Allocate, Executing
  <2> QED BY <2>1, <1>8, ChoiceKept, SMTT(30) DEF Allocate
<1>9. \/ \E t \in Tasks : Return(t) /\ versions' = versions
      \/ UNCHANGED registryVars
      \/ \E t \in Tasks :
            \/ \E args \in Registrations \cup Executions : Call(t, args)
            \/ RegisterCheck(t) /\ ~Return(t)
            \/ RegisterInsert(t)
            \/ ExecuteSelect(t) /\ ~Return(t)
            \/ ExecuteFindPool(t) /\ ~Return(t)
            \/ Allocate(t)
  <2>1. ASSUME NEW t \in Tasks,
               \/ RegisterCheck(t) \/ ExecuteSelect(t) \/ ExecuteFindPool(t)
               \/ ExecuteReturn(t) \/ Cancel(t)
        PROVE  versions' = versions
    BY <2>1 DEF RegisterCheck, CheckVersion, ExecuteSelect, ExecuteFindPool,
                ExecuteReturn, Cancel
  <2>2. ASSUME NEW t \in Tasks, ExecuteReturn(t) \/ Cancel(t)
        PROVE  Return(t)
    BY <2>2 DEF ExecuteReturn, Cancel
  <2> QED BY <2>1, <2>2, Zenon DEF RegistryNext, Step
<1> QED BY <1>1, <1>2, <1>3, <1>4, <1>5, <1>6, <1>7, <1>8, <1>9, SMTT(30)

\* The version that execute runs is the latest compatible one until it
\* returns, whatever other tasks register, return from or cancel meanwhile.
THEOREM LatestVersionRuns == RegistrySpec => []RunsTheLatestVersion
<1>1. RegistryInit => RunsTheLatestVersion
  BY DEF RegistryInit, RunsTheLatestVersion
<1> QED BY <1>1, TypeInit, TypeStep, HolderStep, ChoiceStep, PTL DEF RegistrySpec

-----------------------------------------------------------------------------
(* Permits.                                                                *)

Running(c) == {t \in Tasks : pc[t] = "run" /\ call[t].id = c}

LEMMA RunningIsFinite ==
    ASSUME NEW c
    PROVE  IsFiniteSet(Running(c)) /\ Cardinality(Running(c)) \in Nat
<1>1. Running(c) \subseteq Tasks
  BY DEF Running
<1> QED BY <1>1, RegistryAssumption, FS_Subset, FS_CardinalityType, SMTT(30)

\* A step that neither starts nor ends an execution.
LEMMA PermitsKept ==
    ASSUME PermitsAreConserved, inUse' = inUse,
           \A c \in Capabilities : Running(c)' = Running(c)
    PROVE  PermitsAreConserved'
BY DEF PermitsAreConserved, Running

\* A call that returns or is cancelled before it runs holds no permit.
LEMMA ReturnRunning ==
    ASSUME TypeInv, NEW t \in Tasks, Return(t), NEW c
    PROVE  Running(c)' = Running(c) \ {t}
BY DEF TypeInv, Return, Running

\* The permit goes with the call.
LEMMA DropKept ==
    ASSUME TypeInv, PermitsAreConserved, NEW t \in Tasks, pc[t] # "idle",
           Return(t), DropPermit(t)
    PROVE  PermitsAreConserved'
<1>1. PICK d \in Capabilities : d = call[t].id
  BY CallNames
<1>2. CASE pc[t] # "run"
  <2>1. inUse' = inUse
    BY <1>1, <1>2 DEF TypeInv, DropPermit
  <2>2. \A c \in Capabilities : Running(c)' = Running(c)
    BY <1>2, ReturnRunning DEF Running
  <2> QED BY <2>1, <2>2, PermitsKept, SMTT(30)
<1>3. CASE pc[t] = "run"
  <2>1. /\ inUse'[d] = inUse[d] - 1
        /\ \A c \in Capabilities \ {d} : inUse'[c] = inUse[c]
    BY <1>1, <1>3 DEF TypeInv, DropPermit
  <2>2. t \in Running(d) /\ \A c \in Capabilities \ {d} : t \notin Running(c)
    BY <1>1, <1>3 DEF Running
  <2>3. Cardinality(Running(d)') = Cardinality(Running(d)) - 1
    <3>1. Cardinality(Running(d) \ {t}) = Cardinality(Running(d)) - 1
      BY <2>2, RunningIsFinite, FS_RemoveElement, Zenon
    <3> QED BY <3>1, ReturnRunning
  <2>4. \A c \in Capabilities \ {d} : Running(c)' = Running(c)
    BY <2>2, ReturnRunning
  <2>5. \A c \in Capabilities : inUse[c] = Cardinality(Running(c))
    BY DEF PermitsAreConserved, Running
  <2>6. \A c \in Capabilities : inUse'[c] = Cardinality(Running(c)')
    BY <1>1, <2>1, <2>3, <2>4, <2>5, SMTT(30)
  <2> QED BY <2>6 DEF PermitsAreConserved, Running
<1> QED BY <1>2, <1>3

LEMMA PermitsStep ==
    TypeInv /\ PermitsAreConserved /\ [RegistryNext]_registryVars => PermitsAreConserved'
<1> SUFFICES ASSUME TypeInv, PermitsAreConserved, [RegistryNext]_registryVars
             PROVE  PermitsAreConserved'
  OBVIOUS
<1>1. CASE UNCHANGED registryVars
  BY <1>1, PermitsKept DEF registryVars, Running
<1>2. ASSUME NEW t \in Tasks, NEW args \in Registrations \cup Executions,
             Call(t, args)
      PROVE  PermitsAreConserved'
  <2>1. \A c \in Capabilities : Running(c)' = Running(c)
    BY <1>2 DEF TypeInv, Call, Running
  <2> QED BY <2>1, <1>2, PermitsKept DEF Call
<1>3. ASSUME NEW t \in Tasks, pc[t] \in {"caps", "pools"}, Return(t),
             inUse' = inUse
      PROVE  PermitsAreConserved'
  <2>1. \A c \in Capabilities : Running(c)' = Running(c)
    BY <1>3, ReturnRunning DEF Running
  <2> QED BY <2>1, <1>3, PermitsKept
<1>4. ASSUME NEW t \in Tasks, pc[t] \in {"caps", "pools"}, call' = call,
             \E next \in {"pools", "permit"} : pc' = [pc EXCEPT ![t] = next],
             inUse' = inUse
      PROVE  PermitsAreConserved'
  <2>1. \A c \in Capabilities : Running(c)' = Running(c)
    BY <1>4 DEF TypeInv, Running
  <2> QED BY <2>1, <1>4, PermitsKept
<1>5. ASSUME NEW t \in Tasks, Allocate(t) PROVE PermitsAreConserved'
  <2>1. PICK d \in Capabilities : d = call[t].id
    BY <1>5, CallNames DEF Allocate
  <2>2. /\ inUse'[d] = inUse[d] + 1
        /\ \A c \in Capabilities \ {d} : inUse'[c] = inUse[c]
    BY <1>5, <2>1 DEF TypeInv, Allocate
  <2>3. /\ t \notin Running(d) /\ Running(d)' = Running(d) \cup {t}
        /\ \A c \in Capabilities \ {d} : Running(c)' = Running(c)
    BY <1>5, <2>1 DEF TypeInv, Allocate, Running
  <2>4. Cardinality(Running(d)') = Cardinality(Running(d)) + 1
    BY <2>3, RunningIsFinite, FS_AddElement, ZenonT(30)
  <2>5. \A c \in Capabilities : inUse[c] = Cardinality(Running(c))
    BY DEF PermitsAreConserved, Running
  <2>6. \A c \in Capabilities : inUse'[c] = Cardinality(Running(c)')
    BY <2>1, <2>2, <2>3, <2>4, <2>5
  <2> QED BY <2>6 DEF PermitsAreConserved, Running
<1>6. ASSUME NEW t \in Tasks, ExecuteReturn(t) \/ Cancel(t)
      PROVE  PermitsAreConserved'
  BY <1>6, DropKept DEF ExecuteReturn, Cancel
<1>7. ASSUME NEW t \in Tasks,
             RegisterCheck(t) \/ RegisterInsert(t) \/ ExecuteSelect(t)
                 \/ ExecuteFindPool(t)
      PROVE  PermitsAreConserved'
  <2>1. pc[t] \in {"caps", "pools"} /\ inUse' = inUse
    BY <1>7 DEF RegisterCheck, RegisterInsert, ExecuteSelect, ExecuteFindPool
  <2>2. CASE Return(t)
    BY <2>1, <2>2, <1>3
  <2>3. CASE ~Return(t)
    <3>1. /\ call' = call
          /\ \E next \in {"pools", "permit"} : pc' = [pc EXCEPT ![t] = next]
      BY <2>3, <1>7
         DEF RegisterCheck, RegisterInsert, ExecuteSelect, ExecuteFindPool
    <3> QED BY <2>1, <3>1, <1>4, ZenonT(30)
  <2> QED BY <2>2, <2>3
<1> QED BY <1>1, <1>2, <1>5, <1>6, <1>7, Zenon DEF RegistryNext, Step

\* The permits taken from a pool are those of the calls that run with it,
\* however calls return, fail, time out or are cancelled: none is lost and
\* none is given back twice.
THEOREM PermitsConserved == RegistrySpec => []PermitsAreConserved
<1>1. RegistryInit => PermitsAreConserved
  <2>1. ASSUME RegistryInit, NEW c \in Capabilities PROVE Running(c) = {}
    BY <2>1 DEF RegistryInit, Running
  <2> QED BY <2>1, FS_EmptySet, Zenon DEF RegistryInit, PermitsAreConserved, Running
<1>2. RegistryInit => TypeInv
  BY TypeInit
<1> QED BY <1>1, <1>2, TypeStep, PermitsStep, PTL DEF RegistrySpec
=============================================================================
