----------------------------- MODULE VectorStore ----------------------------
(***************************************************************************)
(* MilvusAdapter (platform/data_plane/vector_engine/milvus_adapter.go):    *)
(* InsertVectors inserts batches in parallel, each in a goroutine that     *)
(* takes a permit of the pool and reports an error on a channel; a monitor *)
(* replaces a connection whose health check fails; Close stops it.  What   *)
(* CreateCollection and SearchVectors ask of the database is left out:     *)
(* they hold a permit for a while.  metrics is taken to be set.            *)
(***************************************************************************)
EXTENDS Naturals, FiniteSets

CONSTANTS
    Inserters,       \* callers of InsertVectors, who call it once,
    Searchers,       \* and of the other two methods
    Batches,         \* the batches chunkSlice makes of an input
    PoolSize,        \* maxConnPoolSize
    MaxLinks         \* bound on the number of connections made

ASSUME VectorsAssumption == IsFiniteSet(Batches)

VARIABLES
    connPool,        \* permits left
    link,            \* the client in use: the number of its connection
    open,            \* connections that are not closed
    monitor,         \* "select", "connect" or "returned"
    healthCheck,     \* "open", "closed", or "closed, client closed" after Close
    caller,          \* "idle", "insert", "nil" or "error"
    holding,         \* searchers that have a permit
    batch,           \* where the goroutine of each batch is
    errChan,         \* the number of errors on each call's channel
    collection       \* the batches in the database

pool == <<connPool, caller, holding, batch, errChan, collection>>
connection == <<link, open, monitor, healthCheck>>
vectorVars == <<connPool, link, open, monitor, healthCheck, caller, holding, batch, errChan,
                collection>>

VectorInit ==
    /\ connPool = PoolSize
    /\ link = 1 /\ open = {1}
    /\ monitor = "select" /\ healthCheck = "open"
    /\ caller = [c \in Inserters |-> "idle"]
    /\ batch = [c \in Inserters |-> [b \in Batches |-> "none"]]
    /\ errChan = [c \in Inserters |-> 0]
    /\ holding = {} /\ collection = {}

Become(c, s) == caller' = [caller EXCEPT ![c] = s]
VectorGoto(c, b, place) == batch' = [batch EXCEPT ![c][b] = place]

-----------------------------------------------------------------------------
(* InsertVectors.                                                          *)

\* Inputs whose lengths do not agree are refused.
InsertVectors(c) ==
    /\ caller[c] = "idle"
    /\ \/ Become(c, "error") /\ UNCHANGED batch
       \/ /\ Become(c, "insert")
          /\ batch' = [batch EXCEPT ![c] = [b \in Batches |-> "acquire"]]
    /\ UNCHANGED <<connPool, holding, errChan, collection, connection>>

AfterCancel_Returns == "done"

AfterCancel == "send"

\* Acquire gets a permit, or the context ends first.
Acquire(c, b) ==
    /\ batch[c][b] = "acquire"
    /\ \/ connPool > 0 /\ connPool' = connPool - 1 /\ VectorGoto(c, b, "insert")
       \/ UNCHANGED connPool /\ VectorGoto(c, b, AfterCancel)
    /\ UNCHANGED <<caller, holding, errChan, collection, connection>>

\* On an open connection the batch may be inserted, also when an error is
\* returned because the answer is lost.
Insert(c, b) ==
    /\ batch[c][b] = "insert"
    /\ \/ link \in open /\ collection' = collection \cup {<<c, b>>}
       \/ UNCHANGED collection
    /\ \/ <<c, b>> \in collection' /\ VectorGoto(c, b, "done") /\ connPool' = connPool + 1
       \/ VectorGoto(c, b, "sendHeld") /\ UNCHANGED connPool
    /\ UNCHANGED <<caller, holding, errChan, connection>>

Capacity_One == 1

\* make(chan error, len(batches)), which nobody reads before the goroutines
\* have returned.
Capacity == Cardinality(Batches)

\* The deferred Release follows the send.
Send(c, b) ==
    /\ batch[c][b] \in {"send", "sendHeld"}
    /\ errChan[c] < Capacity
    /\ errChan' = [errChan EXCEPT ![c] = @ + 1]
    /\ connPool' = IF batch[c][b] = "sendHeld" THEN connPool + 1 ELSE connPool
    /\ VectorGoto(c, b, "done")
    /\ UNCHANGED <<caller, holding, collection, connection>>

\* After wg.Wait.
InsertReturns(c) ==
    /\ caller[c] = "insert"
    /\ \A b \in Batches : batch[c][b] = "done"
    /\ Become(c, IF errChan[c] > 0 THEN "error" ELSE "nil")
    /\ UNCHANGED <<connPool, holding, batch, errChan, collection, connection>>

-----------------------------------------------------------------------------
(* CreateCollection and SearchVectors.                                     *)

Hold(s) ==
    /\ s \notin holding
    /\ connPool > 0
    /\ connPool' = connPool - 1
    /\ holding' = holding \cup {s}
    /\ UNCHANGED <<caller, batch, errChan, collection, connection>>

Release(s) ==
    /\ s \in holding
    /\ connPool' = connPool + 1
    /\ holding' = holding \ {s}
    /\ UNCHANGED <<caller, batch, errChan, collection, connection>>

-----------------------------------------------------------------------------
(* connectionMonitor, reconnect and Close.                                 *)

CloseStale_Not == UNCHANGED open

\* An error of Close, which says that the connection was closed before, is only
\* logged.
CloseStale == open' = open \ {link}

HealthCheckFails ==
    /\ monitor = "select"
    /\ link < MaxLinks
    /\ CloseStale
    /\ monitor' = "connect"
    /\ UNCHANGED <<link, healthCheck, pool>>

\* One of the attempts succeeds, or none does and the closed client stays.
ConnectWithRetry ==
    /\ monitor = "connect"
    /\ monitor' = "select"
    /\ \/ link' = link + 1 /\ open' = open \cup {link + 1}
       \/ UNCHANGED <<link, open>>
    /\ UNCHANGED <<healthCheck, pool>>

MonitorReturns ==
    /\ monitor = "select" /\ healthCheck # "open"
    /\ monitor' = "returned"
    /\ UNCHANGED <<link, open, healthCheck, pool>>

\* Close, in two steps.
CloseChannel ==
    /\ healthCheck = "open"
    /\ healthCheck' = "closed"
    /\ UNCHANGED <<link, open, monitor, pool>>

CloseClient ==
    /\ healthCheck = "closed"
    /\ open' = open \ {link}
    /\ healthCheck' = "closed, client closed"
    /\ UNCHANGED <<link, monitor, pool>>

-----------------------------------------------------------------------------
VectorProceed(c) ==
    InsertReturns(c) \/ \E b \in Batches : Acquire(c, b) \/ Insert(c, b) \/ Send(c, b)

VectorNext ==
    \/ \E c \in Inserters : InsertVectors(c) \/ VectorProceed(c)
    \/ \E s \in Searchers : Hold(s) \/ Release(s)
    \/ HealthCheckFails \/ ConnectWithRetry \/ MonitorReturns
    \/ CloseChannel \/ CloseClient

\* The scheduler runs the goroutines, and every request ends with its context.
VectorSpec ==
    /\ VectorInit /\ [][VectorNext]_vectorVars
    /\ \A c \in Inserters : WF_vectorVars(VectorProceed(c))

-----------------------------------------------------------------------------
\* InsertVectors returns nil only if every batch is in the database, although
\* batches fail, are cancelled while they wait for a permit, or lose their
\* connection to the monitor or to Close.
NilMeansInserted ==
    \A c \in Inserters, b \in Batches : caller[c] = "nil" => <<c, b>> \in collection

\* Connections do not pile up: the only one that may be open is the one in use,
\* however often the monitor replaces it and whenever Close runs.  That one may
\* stay open: a monitor that is reconnecting does not notice Close.
OneConnection == open \subseteq {link}
=============================================================================
