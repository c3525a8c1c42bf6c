---------------------------- MODULE StoresProofs ----------------------------
(***************************************************************************)
(* Proofs about the memory store and the vector store, for any callers,    *)
(* agents and batches, and any size of the cache and of the pool.          *)
(***************************************************************************)
EXTENDS MemoryStore, VectorStore, FiniteSetTheorems, TLAPS

-----------------------------------------------------------------------------
(* The memory store, for any size of the cache and number of records.      *)

Record == [id : Nat, agent : Agents, version : Nat]
Transaction == [read : SUBSET Record, committed : BOOLEAN, rec : Record]

MemoryTypes ==
    /\ rows \in SUBSET Record /\ IsFiniteSet(rows)
    /\ tx \in [Callers -> {Nothing} \cup Transaction]
    /\ lastID \in Nat

\* A transaction inserts the version that follows those it has read; once it
\* has committed, its record is in the table.
TxInv ==
    \A c \in Callers : tx[c] # Nothing =>
        /\ tx[c].rec.version = NextVersion(tx[c].read)
        /\ tx[c].committed => tx[c].rec \in rows

\* The cache holds records of the table under their ids.
CacheInv == \A e \in cache : e.key = e.rec.id /\ e.rec \in rows

MemoryInv == MemoryTypes /\ TxInv /\ CacheInv /\ VersionsAreDense /\ AnswersTheQuestion

-----------------------------------------------------------------------------
\* COALESCE(MAX(version), 0) of the versions 1..n is n.
LEMMA MaxOfInterval == ASSUME NEW n \in Nat PROVE Max({0} \cup 1..n) = n
<1>1. n \in {0} \cup 1..n /\ \A y \in {0} \cup 1..n : n >= y
  OBVIOUS
<1>2. \A x \in {0} \cup 1..n : (\A y \in {0} \cup 1..n : x >= y) => x = n
  BY <1>1
<1> QED BY <1>1, <1>2 DEF Max

\* The version selected for a table whose versions are 1, ..., n.
LEMMA NextOfDense ==
    ASSUME NEW n \in Nat, NEW table, {r.version : r \in table} = 1..n
    PROVE  NextVersion(table) = n + 1
BY MaxOfInterval DEF NextVersion

\* The rows of an agent are finitely many.
LEMMA RowsFinite ==
    ASSUME MemoryTypes, NEW a \in Agents
    PROVE  IsFiniteSet(RowsOf(a)) /\ Cardinality(RowsOf(a)) \in Nat
BY FS_Subset, FS_CardinalityType DEF MemoryTypes, RowsOf

\* CacheSet only adds a record under its id.
LEMMA CacheSetAdds ==
    ASSUME NEW r \in Record, CacheSet(r), NEW e \in cache'
    PROVE  e \in cache \/ (e.key = r.id /\ e.rec = r)
BY DEF CacheSet, CacheKey

\* Caching a row that is in the table keeps the cache a part of it.
LEMMA CacheSetInv ==
    ASSUME MemoryTypes, CacheInv, NEW r \in rows, CacheSet(r), UNCHANGED rows
    PROVE  CacheInv'
<1> SUFFICES ASSUME NEW e \in cache' PROVE e.key = e.rec.id /\ e.rec \in rows
  BY DEF CacheInv
<1>1. r \in Record
  BY DEF MemoryTypes
<1>2. e \in cache \/ (e.key = r.id /\ e.rec = r)
  BY <1>1, CacheSetAdds
<1> QED BY <1>1, <1>2 DEF CacheInv, Record

-----------------------------------------------------------------------------
LEMMA MemoryInitially == Init => MemoryInv
<1> SUFFICES ASSUME Init PROVE MemoryInv
  OBVIOUS
<1> USE DEF Init
<1>1. MemoryTypes
  BY FS_EmptySet DEF MemoryTypes
<1>2. VersionsAreDense
  BY FS_EmptySet DEF VersionsAreDense, RowsOf
<1> QED BY <1>1, <1>2 DEF MemoryInv, TxInv, CacheInv, AnswersTheQuestion

\* A transaction begins with the version that follows those it reads.
LEMMA BeginStoreInv ==
    ASSUME MemoryInv, NEW c \in Callers, NEW a \in Agents, BeginStore(c, a)
    PROVE  MemoryInv'
<1> DEFINE n == Cardinality(RowsOf(a))
           rec == [id |-> lastID + 1, agent |-> a, version |-> NextVersion(RowsOf(a))]
           t == [read |-> RowsOf(a), committed |-> FALSE, rec |-> rec]
<1>1. n \in Nat
  BY RowsFinite DEF MemoryInv
<1>2. NextVersion(RowsOf(a)) \in Nat
  BY <1>1, NextOfDense DEF MemoryInv, VersionsAreDense
<1>3. t \in Transaction
  BY <1>2 DEF MemoryInv, MemoryTypes, RowsOf, Record, Transaction
<1>4. tx' = [tx EXCEPT ![c] = t] /\ lastID' = lastID + 1
      /\ UNCHANGED <<rows, cache, asked, answer>>
  BY DEF BeginStore
<1> HIDE DEF t
<1>5. MemoryTypes'
  BY <1>3, <1>4 DEF MemoryInv, MemoryTypes
<1>6. t.rec.version = NextVersion(t.read) /\ ~t.committed
  BY DEF t
<1>7. TxInv'
  BY <1>4, <1>6, Zenon DEF MemoryInv, MemoryTypes, TxInv, NextVersion
<1>8. CacheInv' /\ VersionsAreDense' /\ AnswersTheQuestion'
  BY <1>4, Zenon DEF MemoryInv, CacheInv, VersionsAreDense, AnswersTheQuestion, RowsOf
<1> QED BY <1>5, <1>7, <1>8 DEF MemoryInv

\* The serializable transaction keeps the versions of its agent dense.
LEMMA CommitDense ==
    ASSUME MemoryInv, NEW c \in Callers, Commit(c)
    PROVE  VersionsAreDense'
<1> DEFINE rec == tx[c].rec
           n == Cardinality(RowsOf(rec.agent))
<1>1. tx[c] \in Transaction /\ rec \in Record
  BY DEF MemoryInv, MemoryTypes, Commit, Transaction
<1>2. rec.agent \in Agents
  BY <1>1 DEF Record
<1>3. n \in Nat /\ IsFiniteSet(RowsOf(rec.agent))
  BY <1>2, RowsFinite DEF MemoryInv
<1>4. rec.version = n + 1
  <2>1. {r.version : r \in RowsOf(rec.agent)} = 1..n
    BY <1>2 DEF MemoryInv, VersionsAreDense
  <2>2. rec.version = NextVersion(RowsOf(rec.agent))
    BY DEF MemoryInv, TxInv, Commit, Serializable
  <2> QED BY <1>3, <2>1, <2>2, NextOfDense
<1>5. rows' = rows \cup {rec}
  BY DEF Commit
<1> SUFFICES ASSUME NEW a \in Agents
             PROVE  /\ {r.version : r \in RowsOf(a)'} = 1..Cardinality(RowsOf(a)')
                    /\ \A r, s \in RowsOf(a)' : r.version = s.version => r = s
  BY DEF VersionsAreDense
<1>6. CASE a # rec.agent
  <2>1. RowsOf(a)' = RowsOf(a)
    BY <1>5, <1>6 DEF RowsOf
  <2> QED BY <2>1 DEF MemoryInv, VersionsAreDense
<1>7. CASE a = rec.agent
  <2>1. RowsOf(a)' = RowsOf(a) \cup {rec}
    BY <1>5, <1>7 DEF RowsOf
  <2>2. \A r \in RowsOf(a) : r.version \in 1..n
    BY <1>7 DEF MemoryInv, VersionsAreDense
  <2>3. rec \notin RowsOf(a)
    BY <2>2, <1>3, <1>4
  <2>4. Cardinality(RowsOf(a)') = n + 1
    BY <2>1, <2>3, <1>3, <1>7, FS_AddElement, Zenon
  <2>5. {r.version : r \in RowsOf(a)} = 1..n
    BY <1>7 DEF MemoryInv, VersionsAreDense
  <2>6. {r.version : r \in RowsOf(a)'} = 1..n \cup {n + 1}
    BY <2>1, <2>5, <1>4
  <2>7. 1..n \cup {n + 1} = 1..(n + 1)
    BY <1>3
  <2>8. \A r, s \in RowsOf(a)' : r.version = s.version => r = s
    <3>1. \A r, s \in RowsOf(a) : r.version = s.version => r = s
      BY DEF MemoryInv, VersionsAreDense
    <3>2. \A r \in RowsOf(a) : r.version # rec.version
      BY <2>2, <1>3, <1>4
    <3> QED BY <2>1, <3>1, <3>2
  <2> QED BY <2>4, <2>6, <2>7, <2>8
<1> QED BY <1>6, <1>7

\* What a transaction read is still so when it commits, so its version is next.
LEMMA CommitInv ==
    ASSUME MemoryInv, NEW c \in Callers, Commit(c)
    PROVE  MemoryInv'
<1> DEFINE t == [tx[c] EXCEPT !.committed = TRUE]
<1>1. tx[c] # Nothing /\ tx[c] \in Transaction
  BY DEF MemoryInv, MemoryTypes, Commit
<1>2. t \in Transaction /\ t.rec = tx[c].rec /\ t.read = tx[c].read
  BY <1>1, Zenon DEF Transaction
<1>3. rows' = rows \cup {tx[c].rec} /\ UNCHANGED <<cache, asked, answer, lastID>>
  BY DEF Commit
<1>4. tx' = [tx EXCEPT ![c] = t] \/ tx' = [tx EXCEPT ![c] = Nothing]
  BY DEF Commit
<1> HIDE DEF t
<1>5. MemoryTypes'
  <2>1. rows' \in SUBSET Record /\ IsFiniteSet(rows')
    BY <1>1, <1>3, FS_AddElement DEF MemoryInv, MemoryTypes, Transaction
  <2>2. tx' \in [Callers -> {Nothing} \cup Transaction]
    BY <1>2, <1>4 DEF MemoryInv, MemoryTypes
  <2> QED BY <2>1, <2>2, <1>3 DEF MemoryInv, MemoryTypes
<1>6. TxInv'
  <2> SUFFICES ASSUME NEW d \in Callers, tx'[d] # Nothing
               PROVE  /\ tx'[d].rec.version = NextVersion(tx'[d].read)
                      /\ tx'[d].committed => tx'[d].rec \in rows'
    BY DEF TxInv, NextVersion
  <2>1. CASE d = c
    <3>1. tx'[d] = t
      BY <2>1, <1>4 DEF MemoryInv, MemoryTypes
    <3> QED BY <3>1, <1>1, <1>2, <1>3 DEF MemoryInv, TxInv
  <2>2. CASE d # c
    <3>1. tx'[d] = tx[d]
      BY <2>2, <1>4 DEF MemoryInv, MemoryTypes
    <3> QED BY <3>1, <1>3 DEF MemoryInv, TxInv
  <2> QED BY <2>1, <2>2
<1>7. CacheInv' /\ AnswersTheQuestion'
  BY <1>3 DEF MemoryInv, CacheInv, AnswersTheQuestion
<1> QED BY <1>5, <1>6, <1>7, CommitDense DEF MemoryInv

\* Returning caches a row of the table; failing leaves table and cache alone.
LEMMA StoreEndsInv ==
    ASSUME MemoryInv, NEW c \in Callers, StoreReturn(c) \/ StoreFails(c)
    PROVE  MemoryInv'
<1>1. tx' = [tx EXCEPT ![c] = Nothing] /\ UNCHANGED <<rows, asked, answer, lastID>>
  BY DEF StoreReturn, StoreFails
<1>2. MemoryTypes' /\ TxInv'
  BY <1>1 DEF MemoryInv, MemoryTypes, TxInv, NextVersion
<1>3. CacheInv'
  <2>1. CASE StoreReturn(c)
    BY <2>1, <1>1, CacheSetInv DEF StoreReturn, MemoryInv, TxInv
  <2>2. CASE StoreFails(c)
    BY <2>2 DEF StoreFails, MemoryInv, CacheInv
  <2> QED BY <2>1, <2>2
<1>4. VersionsAreDense' /\ AnswersTheQuestion'
  BY <1>1 DEF MemoryInv, VersionsAreDense, AnswersTheQuestion, RowsOf
<1> QED BY <1>2, <1>3, <1>4 DEF MemoryInv

\* What the cache finds has the ID that was asked for, the table the agent and
\* the version.
LEMMA RetrieveInv ==
    ASSUME MemoryInv, NEW a, NEW v, RetrieveMemory(a, v)
    PROVE  MemoryInv'
<1>1. /\ asked' = [agent |-> a, version |-> v]
      /\ UNCHANGED <<rows, tx, lastID>>
      /\ \/ answer' = Nothing /\ UNCHANGED cache
         \/ \E e \in cache : e.key = a /\ answer' = e.rec /\ UNCHANGED cache
         \/ \E r \in Select(a, v) : answer' = r /\ CacheSet(r)
  BY DEF RetrieveMemory
<1>2. MemoryTypes' /\ TxInv' /\ VersionsAreDense'
  BY <1>1, Zenon DEF MemoryInv, MemoryTypes, TxInv, VersionsAreDense, RowsOf, NextVersion
<1>3. CASE answer' = Nothing /\ UNCHANGED cache
  BY <1>1, <1>2, <1>3 DEF MemoryInv, CacheInv, AnswersTheQuestion
<1>4. CASE \E e \in cache : e.key = a /\ answer' = e.rec /\ UNCHANGED cache
  <2>1. CacheInv'
    BY <1>1, <1>4 DEF MemoryInv, CacheInv
  <2>2. AnswersTheQuestion'
    BY <1>1, <1>4 DEF MemoryInv, CacheInv, AnswersTheQuestion
  <2> QED BY <1>2, <2>1, <2>2 DEF MemoryInv
<1>5. CASE \E r \in Select(a, v) : answer' = r /\ CacheSet(r)
  <2> PICK r \in Select(a, v) : answer' = r /\ CacheSet(r)
    BY <1>5
  <2>1. r \in rows /\ r.agent = a /\ r.version = v
    BY DEF Select
  <2>2. CacheInv'
    BY <1>1, <2>1, CacheSetInv DEF MemoryInv
  <2>3. AnswersTheQuestion'
    BY <1>1, <2>1 DEF AnswersTheQuestion
  <2> QED BY <1>2, <2>2, <2>3 DEF MemoryInv
<1> QED BY <1>1, <1>3, <1>4, <1>5

\* The invariant of the memory store is inductive.
LEMMA MemoryInvStep == MemoryInv /\ [Next]_vars => MemoryInv'
<1> SUFFICES ASSUME MemoryInv, [Next]_vars PROVE MemoryInv'
  OBVIOUS
<1>1. ASSUME NEW c \in Callers, NEW a \in Agents, BeginStore(c, a) PROVE MemoryInv'
  BY <1>1, BeginStoreInv
<1>2. ASSUME NEW c \in Callers, Commit(c) PROVE MemoryInv'
  BY <1>2, CommitInv
<1>3. ASSUME NEW c \in Callers, StoreReturn(c) \/ StoreFails(c) PROVE MemoryInv'
  BY <1>3, StoreEndsInv
<1>4. ASSUME NEW a, NEW v, RetrieveMemory(a, v) PROVE MemoryInv'
  BY <1>4, RetrieveInv
<1>5. ASSUME UNCHANGED vars PROVE MemoryInv'
  BY <1>5 DEF vars, MemoryInv, MemoryTypes, TxInv, CacheInv, VersionsAreDense, AnswersTheQuestion,
     RowsOf, NextVersion
<1> QED BY <1>1, <1>2, <1>3, <1>4, <1>5 DEF Next

LEMMA MemoryInvariance == Spec => []MemoryInv
BY MemoryInitially, MemoryInvStep, PTL DEF Spec

\* StoreMemory numbers the records of an agent 1, 2, 3, ... without a gap or a
\* duplicate, for any number of callers.
THEOREM VersionsStayDense == Spec => []VersionsAreDense
<1>1. MemoryInv => VersionsAreDense
  BY DEF MemoryInv
<1> QED BY <1>1, MemoryInvariance, PTL

\* Whatever the cache holds, and whether an agent's ID or a record's is passed,
\* RetrieveMemory answers with a committed record that has the agent and version
\* or the ID it was asked for.
THEOREM AnswersAreRight == Spec => []AnswersTheQuestion
<1>1. MemoryInv => AnswersTheQuestion
  BY DEF MemoryInv
<1> QED BY <1>1, MemoryInvariance, PTL

-----------------------------------------------------------------------------
(* The vector store.                                                       *)

Places == {"none", "acquire", "insert", "send", "sendHeld", "done"}

Done(c) == {b \in Batches : batch[c][b] = "done"}

VectorTypes ==
    /\ caller \in [Inserters -> {"idle", "insert", "nil", "error"}]
    /\ batch \in [Inserters -> [Batches -> Places]]
    /\ errChan \in [Inserters -> Nat]

\* A goroutine that has returned has inserted its batch or reported an error.
DoneInv ==
    \A c \in Inserters, b \in Batches :
        batch[c][b] = "done" => <<c, b>> \in collection \/ errChan[c] > 0

\* Each goroutine reports at most one error, and then returns.
ErrorInv == \A c \in Inserters : errChan[c] <= Cardinality(Done(c))

\* An idle caller has no goroutines.
IdleInv == \A c \in Inserters, b \in Batches : caller[c] = "idle" => batch[c][b] = "none"

\* The monitor closes the old connection before it makes a new one.
ConnectionInv == OneConnection /\ (monitor = "connect" => open = {})

PoolInv == VectorTypes /\ DoneInv /\ ErrorInv /\ IdleInv /\ NilMeansInserted

\* The channel has room for every goroutine that has an error to report: none
\* waits for a reader that waits for it in turn.
SendNeverWaits ==
    \A c \in Inserters, b \in Batches :
        batch[c][b] \in {"send", "sendHeld"} => errChan[c] < Capacity

-----------------------------------------------------------------------------
(* The connection.                                                         *)

\* The invariant of the connection is inductive.
LEMMA ConnectionStep == ConnectionInv /\ [VectorNext]_vectorVars => ConnectionInv'
<1> SUFFICES ASSUME ConnectionInv, [VectorNext]_vectorVars PROVE ConnectionInv'
  OBVIOUS
<1> USE DEF ConnectionInv, OneConnection, connection, pool
<1>1. CASE HealthCheckFails
  BY <1>1 DEF HealthCheckFails, CloseStale
<1>2. CASE ConnectWithRetry
  BY <1>2 DEF ConnectWithRetry
<1>3. CASE MonitorReturns
  BY <1>3 DEF MonitorReturns
<1>4. CASE CloseChannel
  BY <1>4 DEF CloseChannel
<1>5. CASE CloseClient
  BY <1>5, Zenon DEF CloseClient
<1>6. ASSUME UNCHANGED connection PROVE ConnectionInv'
  BY <1>6
<1>7. ASSUME NEW c \in Inserters, InsertVectors(c) \/ VectorProceed(c) PROVE UNCHANGED connection
  BY <1>7, Zenon DEF InsertVectors, VectorProceed, Acquire, Insert, Send, InsertReturns
<1>8. ASSUME NEW s \in Searchers, Hold(s) \/ Release(s) PROVE UNCHANGED connection
  BY <1>8 DEF Hold, Release
<1> QED BY <1>1, <1>2, <1>3, <1>4, <1>5, <1>6, <1>7, <1>8 DEF VectorNext, vectorVars

\* However often the monitor replaces the connection, and whenever Close runs,
\* no connection but the one in use is open.
THEOREM AtMostOneConnection == VectorSpec => []OneConnection
<1>1. VectorInit => ConnectionInv
  BY DEF VectorInit, ConnectionInv, OneConnection
<1>2. ConnectionInv => OneConnection
  BY DEF ConnectionInv, OneConnection
<1> QED BY <1>1, <1>2, ConnectionStep, PTL DEF VectorSpec

-----------------------------------------------------------------------------
(* The goroutines of InsertVectors.  One that moves on without returning   *)
(* leaves the set of those that have returned as it is.                    *)

LEMMA PoolInitially == VectorInit => PoolInv
<1> SUFFICES ASSUME VectorInit PROVE PoolInv
  BY DEF VectorInit
<1> USE VectorsAssumption DEF VectorInit
<1>1. VectorTypes /\ IdleInv
  BY DEF VectorTypes, IdleInv, Places
<1>2. ErrorInv
  <2> SUFFICES ASSUME NEW c \in Inserters PROVE 0 <= Cardinality(Done(c))
    BY DEF ErrorInv
  <2> QED BY VectorsAssumption, FS_Subset, FS_CardinalityType DEF Done
<1>3. DoneInv /\ NilMeansInserted
  BY DEF DoneInv, NilMeansInserted
<1> QED BY <1>1, <1>2, <1>3 DEF PoolInv

\* A step of one goroutine that leaves it at a place other than "done".
LEMMA GotoInv ==
    ASSUME PoolInv, NEW c \in Inserters, NEW b \in Batches, NEW p \in Places \ {"done"},
           caller[c] # "idle", batch[c][b] # "done", VectorGoto(c, b, p),
           collection \subseteq collection', UNCHANGED <<caller, errChan>>
    PROVE  PoolInv'
<1>1. batch' \in [Inserters -> [Batches -> Places]]
  BY DEF PoolInv, VectorTypes, VectorGoto
<1>2. \A d \in Inserters, e \in Batches :
        batch'[d][e] = IF d = c /\ e = b THEN p ELSE batch[d][e]
  BY DEF PoolInv, VectorTypes, VectorGoto
<1>3. \A d \in Inserters : Done(d)' = Done(d)
  BY <1>2 DEF Done
<1>4. VectorTypes' /\ DoneInv' /\ IdleInv' /\ NilMeansInserted'
  BY <1>1, <1>2 DEF PoolInv, VectorTypes, DoneInv, IdleInv, NilMeansInserted
<1>5. ErrorInv'
  BY <1>3 DEF PoolInv, ErrorInv
<1> QED BY <1>4, <1>5 DEF PoolInv

\* A goroutine returns, having inserted its batch or reported an error.
LEMMA ReturnInv ==
    ASSUME PoolInv, NEW c \in Inserters, NEW b \in Batches,
           caller[c] # "idle", batch[c][b] # "done", VectorGoto(c, b, "done"),
           collection \subseteq collection', UNCHANGED caller,
           \/ <<c, b>> \in collection' /\ UNCHANGED errChan
           \/ errChan' = [errChan EXCEPT ![c] = @ + 1]
    PROVE  PoolInv'
<1>1. batch' \in [Inserters -> [Batches -> Places]] /\ errChan' \in [Inserters -> Nat]
  BY DEF PoolInv, VectorTypes, VectorGoto, Places
<1>2. \A d \in Inserters, e \in Batches :
        batch'[d][e] = IF d = c /\ e = b THEN "done" ELSE batch[d][e]
  BY DEF PoolInv, VectorTypes, VectorGoto
<1>3. \A d \in Inserters : errChan[d] \in Nat
        /\ errChan'[d] >= errChan[d]
        /\ errChan'[d] <= errChan[d] + 1
        /\ (d # c => errChan'[d] = errChan[d])
  BY DEF PoolInv, VectorTypes
<1>4. <<c, b>> \in collection' \/ errChan'[c] > 0
  BY DEF PoolInv, VectorTypes
<1>5. DoneInv'
  <2> SUFFICES ASSUME NEW d \in Inserters, NEW e \in Batches, batch'[d][e] = "done"
               PROVE  <<d, e>> \in collection' \/ errChan'[d] > 0
    BY DEF DoneInv
  <2>1. CASE d = c /\ e = b
    BY <2>1, <1>4
  <2>2. CASE ~(d = c /\ e = b)
    <3>1. <<d, e>> \in collection \/ errChan[d] > 0
      BY <2>2, <1>2 DEF PoolInv, DoneInv
    <3> QED BY <3>1, <1>1, <1>3
  <2> QED BY <2>1, <2>2
<1>6. VectorTypes' /\ IdleInv' /\ NilMeansInserted'
  BY <1>1, <1>2 DEF PoolInv, VectorTypes, IdleInv, NilMeansInserted
<1>7. ErrorInv'
  <2> SUFFICES ASSUME NEW d \in Inserters PROVE errChan'[d] <= Cardinality(Done(d)')
    BY DEF ErrorInv
  <2>1. IsFiniteSet(Done(d)) /\ Cardinality(Done(d)) \in Nat
    BY VectorsAssumption, FS_Subset, FS_CardinalityType DEF Done
  <2>2. CASE d = c
    <3>1. Done(d)' = Done(d) \cup {b} /\ b \notin Done(d)
      BY <2>2, <1>2 DEF Done
    <3>2. Cardinality(Done(d)') = Cardinality(Done(d)) + 1
      BY <3>1, <2>1, FS_AddElement, Zenon
    <3> QED BY <3>2, <2>1, <1>1, <1>3 DEF PoolInv, ErrorInv
  <2>3. CASE d # c
    <3>1. Done(d)' = Done(d)
      BY <2>3, <1>2 DEF Done
    <3> QED BY <3>1, <2>3, <1>3 DEF PoolInv, ErrorInv
  <2> QED BY <2>2, <2>3
<1> QED BY <1>5, <1>6, <1>7 DEF PoolInv

\* InsertVectors starts with none of its batches returned.
LEMMA CallInv ==
    ASSUME PoolInv, NEW c \in Inserters, InsertVectors(c)
    PROVE  PoolInv'
<1>1. /\ caller[c] = "idle" /\ UNCHANGED <<errChan, collection>>
      /\ \/ caller' = [caller EXCEPT ![c] = "error"] /\ UNCHANGED batch
         \/ /\ caller' = [caller EXCEPT ![c] = "insert"]
            /\ batch' = [batch EXCEPT ![c] = [b \in Batches |-> "acquire"]]
  BY DEF InsertVectors, Become
<1>2. VectorTypes'
  BY <1>1 DEF PoolInv, VectorTypes, Places
<1>3. \A d \in Inserters, e \in Batches : batch'[d][e] = batch[d][e]
        \/ (d = c /\ batch'[d][e] = "acquire" /\ batch[d][e] = "none")
  BY <1>1 DEF PoolInv, VectorTypes, IdleInv
<1>4. \A d \in Inserters : caller'[d] = caller[d] \/ (d = c /\ caller'[d] \in {"insert", "error"})
  BY <1>1 DEF PoolInv, VectorTypes
<1>5. \A d \in Inserters : Done(d)' = Done(d)
  BY <1>3 DEF Done
<1>6. ErrorInv'
  BY <1>1, <1>5 DEF PoolInv, ErrorInv
<1>7. DoneInv' /\ NilMeansInserted'
  BY <1>1, <1>3, <1>4 DEF PoolInv, DoneInv, NilMeansInserted
<1>8. IdleInv'
  BY <1>1 DEF PoolInv, VectorTypes, IdleInv
<1> QED BY <1>2, <1>6, <1>7, <1>8 DEF PoolInv

\* InsertVectors returns when all of its batches have.
LEMMA ReturnsInv ==
    ASSUME PoolInv, NEW c \in Inserters, InsertReturns(c)
    PROVE  PoolInv'
<1>1. /\ \A b \in Batches : batch[c][b] = "done"
      /\ caller[c] = "insert"
      /\ caller' = [caller EXCEPT ![c] = IF errChan[c] > 0 THEN "error" ELSE "nil"]
      /\ UNCHANGED <<batch, errChan, collection>>
  BY DEF InsertReturns, Become
<1>2. VectorTypes' /\ DoneInv' /\ IdleInv'
  BY <1>1 DEF PoolInv, VectorTypes, DoneInv, IdleInv
<1>3. ErrorInv'
  BY <1>1 DEF PoolInv, ErrorInv, Done
<1>4. NilMeansInserted'
  BY <1>1 DEF PoolInv, VectorTypes, DoneInv, NilMeansInserted
<1> QED BY <1>2, <1>3, <1>4 DEF PoolInv

\* The invariant of the pool is inductive.
LEMMA PoolStep == PoolInv /\ [VectorNext]_vectorVars => PoolInv'
<1> SUFFICES ASSUME PoolInv, [VectorNext]_vectorVars PROVE PoolInv'
  OBVIOUS
<1>1. ASSUME NEW c \in Inserters, NEW b \in Batches, batch[c][b] # "none"
      PROVE  caller[c] # "idle"
  BY <1>1 DEF PoolInv, IdleInv
<1>2. ASSUME NEW c \in Inserters, NEW b \in Batches, Acquire(c, b) PROVE PoolInv'
  <2>1. /\ batch[c][b] = "acquire"
        /\ UNCHANGED <<caller, errChan, collection>>
        /\ VectorGoto(c, b, "insert") \/ VectorGoto(c, b, "send")
    BY <1>2 DEF Acquire, AfterCancel
  <2> QED BY <2>1, <1>1, GotoInv DEF Places
<1>3. ASSUME NEW c \in Inserters, NEW b \in Batches, Insert(c, b) PROVE PoolInv'
  <2>1. /\ batch[c][b] = "insert"
        /\ UNCHANGED <<caller, errChan>>
        /\ collection \subseteq collection'
        /\ (<<c, b>> \in collection' /\ VectorGoto(c, b, "done")) \/ VectorGoto(c, b, "sendHeld")
    BY <1>3 DEF Insert
  <2>2. CASE <<c, b>> \in collection' /\ VectorGoto(c, b, "done")
    BY <2>1, <2>2, <1>1, ReturnInv
  <2>3. CASE VectorGoto(c, b, "sendHeld")
    BY <2>1, <2>3, <1>1, GotoInv DEF Places
  <2> QED BY <2>1, <2>2, <2>3
<1>4. ASSUME NEW c \in Inserters, NEW b \in Batches, Send(c, b) PROVE PoolInv'
  <2>1. /\ batch[c][b] \in {"send", "sendHeld"}
        /\ UNCHANGED <<caller, collection>>
        /\ errChan' = [errChan EXCEPT ![c] = @ + 1]
        /\ VectorGoto(c, b, "done")
    BY <1>4 DEF Send
  <2> QED BY <2>1, <1>1, ReturnInv, Zenon
<1>5. ASSUME UNCHANGED <<caller, batch, errChan, collection>> PROVE PoolInv'
  BY <1>5 DEF PoolInv, VectorTypes, DoneInv, ErrorInv, IdleInv, NilMeansInserted, Done
<1>6. ASSUME NEW s \in Searchers, Hold(s) \/ Release(s) PROVE PoolInv'
  BY <1>5, <1>6 DEF Hold, Release
<1>7. ASSUME HealthCheckFails \/ ConnectWithRetry \/ MonitorReturns
             \/ CloseChannel \/ CloseClient
      PROVE  PoolInv'
  BY <1>5, <1>7, Zenon DEF HealthCheckFails, ConnectWithRetry, MonitorReturns, CloseChannel,
     CloseClient, pool
<1>8. ASSUME UNCHANGED vectorVars PROVE PoolInv'
  BY <1>5, <1>8 DEF vectorVars
<1>9. ASSUME NEW c \in Inserters, InsertVectors(c) \/ VectorProceed(c) PROVE PoolInv'
  BY <1>2, <1>3, <1>4, <1>9, CallInv, ReturnsInv DEF VectorProceed
<1> QED BY <1>6, <1>7, <1>8, <1>9 DEF VectorNext

\* When InsertVectors returns nil, every batch is in the database.
THEOREM NilIsInserted == VectorSpec => []NilMeansInserted
<1>1. PoolInv => NilMeansInserted
  BY DEF PoolInv, NilMeansInserted
<1> QED BY <1>1, PoolInitially, PoolStep, PTL DEF VectorSpec

\* No goroutine waits to report its error: the channel made with one place for
\* each batch is never full before all of them have reported.
THEOREM SendsNeverWait == VectorSpec => []SendNeverWaits
<1>1. PoolInv => SendNeverWaits
  <2> SUFFICES ASSUME PoolInv, NEW c \in Inserters, NEW b \in Batches,
                      batch[c][b] \in {"send", "sendHeld"}
               PROVE  errChan[c] < Capacity
    BY DEF SendNeverWaits
  <2>1. Done(c) \subseteq Batches /\ b \notin Done(c)
    BY DEF Done
  <2>2. /\ Cardinality(Done(c)) \in Nat /\ Cardinality(Batches) \in Nat
        /\ Cardinality(Done(c)) < Cardinality(Batches)
    BY <2>1, VectorsAssumption, FS_Subset, FS_CardinalityType
  <2>3. Capacity = Cardinality(Batches)
    BY DEF Capacity, Cardinality
  <2> QED BY <2>2, <2>3 DEF PoolInv, VectorTypes, ErrorInv
<1> QED BY <1>1, PoolInitially, PoolStep, PTL DEF VectorSpec
=============================================================================
