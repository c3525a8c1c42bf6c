----------------------------- MODULE MemoryStore ----------------------------
(***************************************************************************)
(* MemoryAdapter (core/cognition_engine/memory_architect/                  *)
(* memgpt_adapter.go): callers store versioned records of agents in a      *)
(* serializable transaction and retrieve them through a cache.  Encryption *)
(* and compression are inverse to each other and are left out; a record's  *)
(* data is told apart by its id.                                           *)
(***************************************************************************)
EXTENDS Naturals, FiniteSetsExt

CONSTANTS
    Callers, Agents,
    CacheSize,
    MaxRecords,      \* bound on the number of calls of StoreMemory
    Nothing          \* no transaction, no answer

ASSUME MemoryAssumption == CacheSize \in Nat /\ MaxRecords \in Nat

VARIABLES
    rows,            \* the memories table
    cache,           \* pairs of a key and a record
    tx,              \* each caller's open transaction
    asked,           \* the arguments of the last RetrieveMemory
    answer,          \* the record it returned
    lastID           \* ids handed out by generateUUID

vars == <<rows, cache, tx, asked, answer, lastID>>

\* The IDs of records.  StoreMemory returns them, and they are strings as the
\* IDs of agents are.
IDs == 1..MaxRecords

RowsOf(a) == {r \in rows : r.agent = a}

\* SELECT COALESCE(MAX(version),0)+1
NextVersion(table) == Max({0} \cup {r.version : r \in table}) + 1

Init ==
    /\ rows = {} /\ cache = {}
    /\ tx = [c \in Callers |-> Nothing]
    /\ asked = Nothing /\ answer = Nothing
    /\ lastID = 0

-----------------------------------------------------------------------------
CacheKey_Agent(r) == r.agent

\* Set is called with record.ID, Get with the agentID of RetrieveMemory.
CacheKey(r) == r.id

\* The least recently used entry makes room; which one that is, is left open.
CacheSet(r) ==
    LET new == {e \in cache : e.key # CacheKey(r)}
               \cup {[key |-> CacheKey(r), rec |-> r]}
    IN  IF Cardinality(new) <= CacheSize
        THEN cache' = new
        ELSE \E e \in new : cache' = new \ {e}

-----------------------------------------------------------------------------
(* StoreMemory: begin and select the version; insert and commit; cache.     *)

BeginStore(c, a) ==
    /\ tx[c] = Nothing
    /\ lastID < MaxRecords
    /\ lastID' = lastID + 1
    /\ tx' = [tx EXCEPT ![c] =
                [read |-> RowsOf(a), committed |-> FALSE,
                 rec  |-> [id |-> lastID + 1, agent |-> a,
                           version |-> NextVersion(RowsOf(a))]]]
    /\ UNCHANGED <<rows, cache, asked, answer>>

Serializable_ReadCommitted(t) == TRUE

\* LevelSerializable: what the transaction read is still so when it commits.
Serializable(t) == t.read = RowsOf(t.rec.agent)

Commit(c) ==
    /\ tx[c] # Nothing
    /\ ~tx[c].committed
    /\ Serializable(tx[c])
    /\ rows' = rows \cup {tx[c].rec}
    /\ \/ tx' = [tx EXCEPT ![c].committed = TRUE]
       \/ tx' = [tx EXCEPT ![c] = Nothing]     \* the answer is lost: "commit failed"
    /\ UNCHANGED <<cache, asked, answer, lastID>>

StoreReturn(c) ==
    /\ tx[c] # Nothing
    /\ tx[c].committed
    /\ CacheSet(tx[c].rec)
    /\ tx' = [tx EXCEPT ![c] = Nothing]
    /\ UNCHANGED <<rows, asked, answer, lastID>>

\* A statement or the commit fails, and the deferred Rollback runs.
StoreFails(c) ==
    /\ tx[c] # Nothing
    /\ ~tx[c].committed
    /\ tx' = [tx EXCEPT ![c] = Nothing]
    /\ UNCHANGED <<rows, cache, asked, answer, lastID>>

-----------------------------------------------------------------------------
(* RetrieveMemory.                                                         *)

Select(a, v) == {r \in rows : r.agent = a /\ r.version = v}

RetrieveMemory(a, v) ==
    LET hits == {e \in cache : e.key = a}
    IN  /\ asked' = [agent |-> a, version |-> v]
        /\ IF hits # {}
           THEN (\E e \in hits : answer' = e.rec) /\ UNCHANGED cache
           ELSE \/ answer' = Nothing /\ UNCHANGED cache    \* no such row, or "query failed"
              \/ \E r \in Select(a, v) : answer' = r /\ CacheSet(r)
        /\ UNCHANGED <<rows, tx, lastID>>

-----------------------------------------------------------------------------
Next ==
    \/ \E c \in Callers :
        (\E a \in Agents : BeginStore(c, a)) \/ Commit(c) \/ StoreReturn(c) \/ StoreFails(c)
    \/ \E a \in Agents \cup IDs, v \in 1..MaxRecords : RetrieveMemory(a, v)

Spec == Init /\ [][Next]_vars

-----------------------------------------------------------------------------
\* "Version control": the versions of an agent's records are 1, 2, 3, ...
\* without a gap and without a duplicate, although no unique index says so,
\* two callers read the same maximum, and a commit fails or is applied while
\* its caller is told that it failed.
VersionsAreDense ==
    \A a \in Agents :
        /\ {r.version : r \in RowsOf(a)} = 1..Cardinality(RowsOf(a))
        /\ \A r, s \in RowsOf(a) : r.version = s.version => r = s

\* RetrieveMemory answers with a committed record, and with the one that it was
\* asked for: the record of that agent and version, or the one with that ID when
\* it is called with what StoreMemory returned, which only the cache knows.
AnswersTheQuestion ==
    answer # Nothing =>
        /\ answer \in rows
        /\ \/ answer.agent = asked.agent /\ answer.version = asked.version
           \/ answer.id = asked.agent
=============================================================================
