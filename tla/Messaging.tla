------------------------------ MODULE Messaging -----------------------------
(***************************************************************************)
(* EnterpriseNATS (agent/communication/pubsub/nats.go): asynchronous       *)
(* publication whose acknowledgements are tracked with a timeout, a        *)
(* subscription with manual acknowledgement and bounded redelivery, three  *)
(* counters that both sides update, and Shutdown.  The broker is modelled  *)
(* from these calls; a message stands for one call of Publish.             *)
(***************************************************************************)
EXTENDS Naturals, FiniteSets

CONSTANTS
    Messages,
    MaxPending,      \* PublishAsyncMaxPending
    MaxDeliver       \* deliveries of a message before the broker gives up

ASSUME NatsAssumption == IsFiniteSet(Messages) /\ MaxDeliver \in Nat

VARIABLES
    pub,             \* the publisher's side of each message
    wire,            \* its future: "sent", "ok", "err", or "lost"
    stored,          \* messages in the stream
    sent,            \* how often the broker sent each message to the subscriber
    deliveries,      \* how often each message was given to the handler
    handling,        \* messages that a handler is running for
    handled,         \* messages for which the handler returned nil
    acked,           \* messages whose acknowledgement reached the broker
    conn,            \* "open", "draining" or "closed"
    shutdown,        \* where Shutdown is
    process,         \* "up" or "exited"
    msgPublished, msgDelivered, msgFailed

pubVars == <<pub, wire, stored>>
subVars == <<sent, deliveries, handling, handled, acked>>
counters == <<msgPublished, msgDelivered, msgFailed>>
runVars == <<conn, shutdown, process>>
natsVars == <<pub, wire, stored, sent, deliveries, handling, handled, acked,
              conn, shutdown, process, msgPublished, msgDelivered, msgFailed>>

Pending == {m \in Messages : pub[m] = "tracking"}

\* What the library still waits for, also once trackAck has given up on it.
Outstanding == {m \in Messages : wire[m] \in {"sent", "lost"}}

NatsInit ==
    /\ pub = [m \in Messages |-> "new"]
    /\ wire = [m \in Messages |-> "none"]
    /\ stored = {} /\ handling = {} /\ handled = {} /\ acked = {}
    /\ sent = [m \in Messages |-> 0]
    /\ deliveries = [m \in Messages |-> 0]
    /\ conn = "open" /\ shutdown = "no" /\ process = "up"
    /\ msgPublished = 0 /\ msgDelivered = 0 /\ msgFailed = 0

-----------------------------------------------------------------------------
(* Publish and trackAck.                                                   *)

\* PublishAsync fails on a closed connection, may fail on one that is being
\* drained, and fails when too many acknowledgements are outstanding.
Publish(m) ==
    LET stalled == Cardinality(Outstanding) >= MaxPending IN
    /\ process = "up"
    /\ pub[m] = "new"
    /\ msgPublished' = msgPublished + 1
    /\ \/ /\ conn # "closed" /\ ~stalled
          /\ pub' = [pub EXCEPT ![m] = "tracking"]
          /\ wire' = [wire EXCEPT ![m] = "sent"]
          /\ UNCHANGED msgFailed
       \/ /\ conn # "open" \/ stalled
          /\ pub' = [pub EXCEPT ![m] = "refused"]
          /\ msgFailed' = msgFailed + 1
          /\ UNCHANGED wire
    /\ UNCHANGED <<stored, subVars, msgDelivered, runVars>>

\* The broker stores the message, and its answer may be lost; or rejects it.
BrokerAnswer(m) ==
    /\ wire[m] = "sent"
    /\ \/ /\ stored' = stored \cup {m}
          /\ \E answer \in {"ok", "lost"} : wire' = [wire EXCEPT ![m] = answer]
       \/ wire' = [wire EXCEPT ![m] = "err"] /\ UNCHANGED stored
    /\ UNCHANGED <<pub, subVars, counters, runVars>>

AckTimeout_Uncounted == UNCHANGED msgFailed

AckTimeout == msgFailed' = msgFailed + 1

\* Three select cases; the timeout may win against an answer that is there.
TrackAck(m) ==
    /\ process = "up"
    /\ pub[m] = "tracking"
    /\ \/ /\ wire[m] = "ok"
          /\ pub' = [pub EXCEPT ![m] = "acked"]
          /\ msgDelivered' = msgDelivered + 1
          /\ UNCHANGED msgFailed
       \/ /\ wire[m] = "err"
          /\ pub' = [pub EXCEPT ![m] = "rejected"]
          /\ msgFailed' = msgFailed + 1
          /\ UNCHANGED msgDelivered
       \/ /\ pub' = [pub EXCEPT ![m] = "timedOut"]
          /\ AckTimeout
          /\ UNCHANGED msgDelivered
    /\ UNCHANGED <<wire, stored, subVars, msgPublished, runVars>>

-----------------------------------------------------------------------------
(* Subscribe: the callback runs once for each time a message is sent, and  *)
(* not while it runs for the same message.                                 *)

MayDeliver_Once(m) == sent[m] < 1

MayDeliver(m) == sent[m] < MaxDeliver

\* The first time, after a Nak, or because no acknowledgement came in time; the
\* handler may still be running.
Deliver(m) ==
    /\ process = "up" /\ conn = "open"
    /\ m \in stored \ acked
    /\ MayDeliver(m)
    /\ sent' = [sent EXCEPT ![m] = @ + 1]
    /\ UNCHANGED <<pubVars, deliveries, handling, handled, acked, counters, runVars>>

\* What was sent is given to the handler, also while the connection is drained.
Callback(m) ==
    /\ process = "up" /\ conn # "closed"
    /\ m \notin handling /\ deliveries[m] < sent[m]
    /\ handling' = handling \cup {m}
    /\ deliveries' = [deliveries EXCEPT ![m] = @ + 1]
    /\ UNCHANGED <<pubVars, sent, handled, acked, counters, runVars>>

Nak_Acks(m) == acked' = acked \cup {m}

\* The broker may send the message again, at once or when it stops waiting.
Nak(m) == UNCHANGED acked

HandlerFails(m) ==
    /\ process = "up" /\ m \in handling
    /\ handling' = handling \ {m}
    /\ msgFailed' = msgFailed + 1
    /\ Nak(m)
    /\ UNCHANGED <<pubVars, sent, deliveries, handled, msgPublished, msgDelivered, runVars>>

\* The error of Ack is ignored: an acknowledgement that does not reach the
\* broker leads to a redelivery.
HandlerSucceeds(m) ==
    /\ process = "up" /\ m \in handling
    /\ handling' = handling \ {m}
    /\ handled' = handled \cup {m}
    /\ msgDelivered' = msgDelivered + 1
    /\ \/ conn # "closed" /\ acked' = acked \cup {m}
       \/ UNCHANGED acked
    /\ UNCHANGED <<pubVars, sent, deliveries, msgPublished, msgFailed, runVars>>

-----------------------------------------------------------------------------
(* Shutdown: close(shutdownChan), Drain, Close, Unregister.  Drain only    *)
(* starts to drain.  A second call panics.  The closed handler, which also *)
(* runs when the connection is lost for good, exits the process.           *)

Shutdown ==
    /\ process = "up"
    /\ \/ /\ shutdown = "no"
          /\ shutdown' = "drain"
          /\ UNCHANGED process
       \/ /\ shutdown # "no"
          /\ process' = "exited"
          /\ UNCHANGED shutdown
    /\ UNCHANGED <<pubVars, subVars, counters, conn>>

Drain ==
    /\ process = "up" /\ shutdown = "drain"
    /\ shutdown' = "close"
    /\ conn' = IF conn = "open" THEN "draining" ELSE conn
    /\ UNCHANGED <<pubVars, subVars, counters, process>>

Close ==
    /\ process = "up" /\ shutdown = "close"
    /\ shutdown' = "closed"
    /\ conn' = "closed"
    /\ UNCHANGED <<pubVars, subVars, counters, process>>

ConnectionLost ==
    /\ process = "up" /\ conn # "closed"
    /\ conn' = "closed"
    /\ UNCHANGED <<pubVars, subVars, counters, shutdown, process>>

ClosedHandler ==
    /\ process = "up" /\ conn = "closed"
    /\ process' = "exited"
    /\ UNCHANGED <<pubVars, subVars, counters, conn, shutdown>>

-----------------------------------------------------------------------------
Handle(m) == HandlerFails(m) \/ HandlerSucceeds(m)

NatsNext ==
    \/ \E m \in Messages :
        Publish(m) \/ BrokerAnswer(m) \/ TrackAck(m)
        \/ Deliver(m) \/ Callback(m) \/ Handle(m)
    \/ Shutdown \/ Drain \/ Close \/ ConnectionLost \/ ClosedHandler

Progress(m) == Deliver(m) \/ Callback(m) \/ Handle(m)

\* The broker delivers what it may deliver, and handlers are run and return.
NatsSpec ==
    NatsInit /\ [][NatsNext]_natsVars /\ \A m \in Messages : WF_natsVars(Progress(m))

-----------------------------------------------------------------------------
\* At least once: a message that the broker takes off the stream was handled
\* without error.  A failed handler, a lost acknowledgement, a publisher that
\* gave up on it or a shutdown never discards it.
AckedMeansHandled == acked \subseteq handled

\* The deliveries so far, by message and number.
Deliveries == {d \in Messages \X (1..MaxDeliver) : d[2] <= deliveries[d[1]]}

\* Every Publish and every delivery is counted exactly once, as delivered or
\* as failed, apart from those still in progress; in particular a timeout and
\* a late acknowledgement of the same message are not both counted.
CountersAddUp ==
    msgPublished + Cardinality(Deliveries)
        = msgDelivered + msgFailed + Cardinality(Pending) + Cardinality(handling)

\* A stored message is handled, unless its deliveries are used up or the
\* connection or the process goes away; whether its publisher gave up on it does not matter.
StoredIsHandled ==
    \A m \in Messages :
        m \in stored ~> \/ m \in handled
                        \/ deliveries[m] = MaxDeliver /\ m \notin handling
                        \/ conn # "open" \/ process = "exited"

\* nats.go:179 announces a "graceful shutdown": once Shutdown has closed the
\* connection, no delivery is being handled and no acknowledgement is awaited.
ShutdownIsGraceful ==
    shutdown = "closed" => handling = {} /\ Pending = {}
=============================================================================
