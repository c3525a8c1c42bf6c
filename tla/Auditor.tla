------------------------------ MODULE Auditor -------------------------------
(***************************************************************************)
(* EnterpriseAuditor (security/audit/auditor.go): callers put audit events *)
(* on a bounded channel, a pool of workers takes them off and writes them  *)
(* to the audit_logs table, Shutdown stops the workers and closes the      *)
(* database.  The table is on disk and survives the process; everything    *)
(* else is memory.                                                         *)
(***************************************************************************)
EXTENDS Naturals, Sequences, Functions

CONSTANTS
    Events,          \* the events callers want recorded
    Workers,         \* goroutines running processEvents
    Closers,         \* goroutines that may call Shutdown
    MaxQueueSize,    \* capacity of eventQueue
    MaxStops,        \* bound on the number of times the process ends
    NoEvent          \* a worker's hands when empty

ASSUME AuditorAssumption ==
    /\ NoEvent \notin Events
    /\ MaxQueueSize \in Nat \ {0}
    /\ MaxStops \in Nat

VARIABLES
    process,         \* is a process with an auditor running
    eventQueue,      \* the buffered channel
    shutdownChan,    \* "open" or "closed"
    worker,          \* where each worker is
    holding,         \* the event each worker has taken off the channel
    closer,          \* where each caller of Shutdown is
    db,              \* the database handle
    rows,            \* audit_logs
    accepted,        \* events for which LogEvent returned nil, in that order
    refused,         \* events whose last LogEvent returned an error
    reported,        \* events named in an "Audit persistence failed" log line
    dropped,         \* events that were in memory when a process ended
    stops            \* how often a process has ended

vars == <<process, eventQueue, shutdownChan, worker, holding, closer, db, rows,
          accepted, refused, reported, dropped, stops>>

callerVars == <<accepted, refused>>
tableVars == <<rows, reported>>

Held == Range(holding) \ {NoEvent}

-----------------------------------------------------------------------------
(* NewEnterpriseAuditor: open the database, make the channels, create the  *)
(* table if it is missing, start the workers.                              *)

Init ==
    /\ process = "up" /\ db = "open" /\ shutdownChan = "open"
    /\ worker = [w \in Workers |-> "select"]
    /\ holding = [w \in Workers |-> NoEvent]
    /\ closer = [c \in Closers |-> "idle"]
    /\ eventQueue = <<>> /\ rows = <<>> /\ accepted = <<>>
    /\ refused = {} /\ reported = {} /\ dropped = {}
    /\ stops = 0

InitializeDatabase_NotIfExists == rows' = <<>>

InitializeDatabase == UNCHANGED rows

\* In a new process.  The constructor's error paths leave no auditor behind:
\* the process stays down.
NewEnterpriseAuditor ==
    /\ process = "down"
    /\ process' = "up" /\ db' = "open" /\ shutdownChan' = "open"
    /\ InitializeDatabase
    /\ worker' = [w \in Workers |-> "select"]
    /\ UNCHANGED <<eventQueue, holding, closer, callerVars, reported, dropped, stops>>

-----------------------------------------------------------------------------
(* LogEvent: a select whose default fires only when the channel is full    *)
(* and the context is alive.  An event is submitted again only by a caller *)
(* that got an error for it.                                               *)

QueueHasRoom_Always == TRUE

QueueHasRoom == Len(eventQueue) < MaxQueueSize

LogEvent(e, ctxDone) ==
    /\ process = "up"
    /\ e \notin Range(accepted)
    /\ \/ /\ QueueHasRoom
          /\ eventQueue' = Append(eventQueue, e)
          /\ accepted' = Append(accepted, e)
          /\ refused' = refused \ {e}
       \/ /\ ctxDone \/ ~QueueHasRoom
          /\ refused' = refused \cup {e}
          /\ UNCHANGED <<eventQueue, accepted>>
    /\ UNCHANGED <<process, shutdownChan, worker, holding, closer, db,
                   tableVars, dropped, stops>>

-----------------------------------------------------------------------------
(* processEvents: one select per round.  When both channels are ready the  *)
(* runtime picks either.                                                   *)

Receive(e) == e = Head(eventQueue) /\ eventQueue' = Tail(eventQueue)

TakeEvent(w) ==
    /\ process = "up"
    /\ worker[w] = "select"
    /\ eventQueue # <<>>
    /\ \E e \in Events : Receive(e) /\ holding' = [holding EXCEPT ![w] = e]
    /\ worker' = [worker EXCEPT ![w] = "persist"]
    /\ UNCHANGED <<process, shutdownChan, closer, db, callerVars, tableVars,
                   dropped, stops>>

Report_Ignored(e) == UNCHANGED reported

Report(e) == reported' = reported \cup {e}

NextRound_Retry(w) == UNCHANGED <<holding, worker>>

NextRound_OnlyOnSuccess(w) ==
    /\ holding' = [holding EXCEPT ![w] = NoEvent]
    /\ worker' = [worker EXCEPT ![w] = IF rows' # rows THEN "select" ELSE "done"]

NextRound(w) ==
    /\ holding' = [holding EXCEPT ![w] = NoEvent]
    /\ worker' = [worker EXCEPT ![w] = "select"]

\* persistEvent inserts one row, or fails and the failure is only logged.
PersistEvent(w) ==
    /\ process = "up"
    /\ worker[w] = "persist"
    /\ \/ /\ db = "open"
          /\ rows' = Append(rows, holding[w])
          /\ UNCHANGED reported
       \/ Report(holding[w]) /\ UNCHANGED rows
    /\ NextRound(w)
    /\ UNCHANGED <<process, eventQueue, shutdownChan, closer, db, callerVars,
                   dropped, stops>>

LeaveLoop_Break(w) == UNCHANGED worker

LeaveLoop(w) == worker' = [worker EXCEPT ![w] = "done"]

WorkerReturn(w) ==
    /\ process = "up"
    /\ worker[w] = "select"
    /\ shutdownChan = "closed"
    /\ LeaveLoop(w)
    /\ UNCHANGED <<process, eventQueue, shutdownChan, holding, closer, db,
                   callerVars, tableVars, dropped, stops>>

-----------------------------------------------------------------------------
(* The end of a process, by a crash, by an exit, or by the panic of a      *)
(* second close(shutdownChan): what was in memory is gone.                 *)

EndProcess ==
    /\ stops < MaxStops
    /\ process' = "down"
    /\ dropped' = dropped \cup Range(eventQueue) \cup Held
    /\ stops' = stops + 1
    /\ eventQueue' = <<>>
    /\ holding' = [w \in Workers |-> NoEvent]
    /\ worker' = [w \in Workers |-> "done"]
    /\ closer' = [c \in Closers |-> "idle"]
    /\ shutdownChan' = "closed"
    /\ db' = "closed"
    /\ UNCHANGED <<callerVars, tableVars>>

ProcessEnds == process = "up" /\ EndProcess

(* Shutdown: close(shutdownChan), wg.Wait(), db.Close().                   *)

Shutdown(c) ==
    /\ process = "up"
    /\ closer[c] = "idle"
    /\ \/ /\ shutdownChan = "open"
          /\ shutdownChan' = "closed"
          /\ closer' = [closer EXCEPT ![c] = "waiting"]
          /\ UNCHANGED <<process, eventQueue, worker, holding, db, callerVars,
                         tableVars, dropped, stops>>
       \/ shutdownChan = "closed" /\ EndProcess

WaitGroupIsZero_NotAwaited == TRUE

WaitGroupIsZero == \A w \in Workers : worker[w] = "done"

ShutdownReturn(c) ==
    /\ process = "up"
    /\ closer[c] = "waiting"
    /\ WaitGroupIsZero
    /\ db' = "closed"
    /\ closer' = [closer EXCEPT ![c] = "returned"]
    /\ UNCHANGED <<process, eventQueue, shutdownChan, worker, holding,
                   callerVars, tableVars, dropped, stops>>

-----------------------------------------------------------------------------
WorkerStep(w) == TakeEvent(w) \/ PersistEvent(w) \/ WorkerReturn(w)

Next ==
    \/ \E e \in Events, ctxDone \in BOOLEAN : LogEvent(e, ctxDone)
    \/ \E w \in Workers : WorkerStep(w)
    \/ \E c \in Closers : Shutdown(c) \/ ShutdownReturn(c)
    \/ ProcessEnds
    \/ NewEnterpriseAuditor

Spec == Init /\ [][Next]_vars

\* The Go scheduler runs every runnable goroutine.
Fairness ==
    /\ \A w \in Workers : WF_vars(WorkerStep(w))
    /\ \A c \in Closers : WF_vars(ShutdownReturn(c))

FairSpec == Spec /\ Fairness

-----------------------------------------------------------------------------
TypeOK ==
    /\ process \in {"up", "down"}
    /\ eventQueue \in Seq(Events)
    /\ Len(eventQueue) <= MaxQueueSize
    /\ shutdownChan \in {"open", "closed"}
    /\ worker \in [Workers -> {"select", "persist", "done"}]
    /\ holding \in [Workers -> Events \cup {NoEvent}]
    /\ closer \in [Closers -> {"idle", "waiting", "returned"}]
    /\ db \in {"open", "closed"}
    /\ rows \in Seq(Events)
    /\ accepted \in Seq(Events)
    /\ refused \in SUBSET Events
    /\ reported \in SUBSET Events
    /\ dropped \in SUBSET Events
    /\ stops \in 0..MaxStops

\* Where accepted events go: an event for which LogEvent returned nil is on the
\* channel, in a worker's hands, in the table, named in a logged persistence
\* failure, or was in memory when a process ended; and nothing else is.  The
\* last two are losses, of which a log line is left and nothing at all.  An
\* event that was last refused is never recorded.
AcceptedIsAccountedFor ==
    /\ Range(accepted) = Range(eventQueue) \cup Held \cup Range(rows)
                    \cup reported \cup dropped
    /\ refused \cap Range(accepted) = {}

\* At most once: however workers, Shutdown and restarts interleave, an event
\* is in one of those places only, held by one worker only, and fills one
\* row of audit_logs only.
RecordedAtMostOnce ==
    /\ IsInjective(rows)
    /\ IsInjective(eventQueue)
    /\ \A v, w \in Workers : holding[v] = holding[w] /\ v # w => holding[v] = NoEvent
    /\ Range(eventQueue) \cap (Held \cup Range(rows) \cup reported \cup dropped) = {}
    /\ Held \cap (Range(rows) \cup reported \cup dropped) = {}
    /\ Range(rows) \cap (reported \cup dropped) = {}

\* Shutdown waits for the workers: the database is closed only once every
\* worker has returned, so db.Close() never comes between taking an event off
\* the channel and persisting it; and a worker that has returned holds none.
DbOpenWhilePersisting ==
    \A w \in Workers :
        /\ process = "down" \/ db = "closed" => worker[w] = "done"
        /\ worker[w] = "persist" <=> holding[w] # NoEvent

\* The table is an append-only ledger of accepted events, also across the
\* end of a process and the start of the next one (README.md, "Audit Vault:
\* Immutable ledger").
Trail == INSTANCE AuditTrail
            WITH pending <- Range(eventQueue) \cup Held, ledger <- rows
TrailSpec == Trail!Spec

\* Shutdown returns: a worker that still finds events on the channel does
\* not keep wg.Wait() waiting for ever.
ShutdownCompletes ==
    \A c \in Closers : closer[c] = "waiting" ~> closer[c] # "waiting"

\* While nobody shuts the auditor down, an accepted event is recorded, or its
\* loss is reported.
QueuedIsHandled ==
    \A e \in Events :
        e \in Range(eventQueue)
            ~> \/ e \in Range(rows) \cup reported
               \/ shutdownChan = "closed"
=============================================================================
