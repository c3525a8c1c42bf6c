--------------------------- MODULE ServicesProofs ---------------------------
(***************************************************************************)
(* Proofs about the components of Services that talk to other systems, for *)
(* any messages, documents, models and policies and any limits.            *)
(***************************************************************************)
EXTENDS Messaging, SdkClient, IDocAdapter, LlmGateway, AzureArc, FiniteSetTheorems, TLAPS

-----------------------------------------------------------------------------
(* Messaging.  The counters balance because every step that begins or ends *)
(* a publication or a delivery adds to one of them.                        *)

Count(f, v) == Cardinality({m \in Messages : f[m] = v})

PubStates == {"new", "tracking", "refused", "acked", "rejected", "timedOut"}

NatsTypes ==
    /\ pub \in [Messages -> PubStates]
    /\ handling \in SUBSET Messages
    /\ sent \in [Messages -> 0..MaxDeliver] /\ deliveries \in [Messages -> 0..MaxDeliver]
    /\ msgPublished \in Nat /\ msgDelivered \in Nat /\ msgFailed \in Nat

BalanceInv ==
    msgPublished + Cardinality(Deliveries)
        = msgDelivered + msgFailed + Count(pub, "tracking") + Cardinality(handling)

NatsInv == NatsTypes /\ AckedMeansHandled /\ BalanceInv

One(u, v) == IF u = v THEN 1 ELSE 0

\* Changing one entry of a function changes the number of entries with a given
\* value by at most one.
LEMMA CountOfUpdate ==
    ASSUME NEW S, NEW f \in [Messages -> S], NEW m \in Messages, NEW v, NEW w
    PROVE  /\ Count(f, v) \in Nat /\ Count([f EXCEPT ![m] = w], v) \in Nat
           /\ Count([f EXCEPT ![m] = w], v) = Count(f, v) + One(w, v) - One(f[m], v)
<1> DEFINE g == [f EXCEPT ![m] = w]
           F == {k \in Messages : f[k] = v}
           G == {k \in Messages : g[k] = v}
<1>1. IsFiniteSet(F) /\ IsFiniteSet(G) /\ Cardinality(F) \in Nat /\ Cardinality(G) \in Nat
  BY FS_Subset, FS_CardinalityType, NatsAssumption
<1>2. CASE f[m] # v /\ w = v
  <2>1. G = F \cup {m} /\ m \notin F
    BY <1>2
  <2> QED BY <2>1, <1>1, <1>2, FS_AddElement DEF Count, One
<1>3. CASE f[m] = v /\ w # v
  <2>1. F = G \cup {m} /\ m \notin G
    BY <1>3
  <2> QED BY <2>1, <1>1, <1>3, FS_AddElement, SMTT(30) DEF Count, One
<1>4. CASE (f[m] = v) <=> (w = v)
  <2>1. F = G
    BY <1>4
  <2> QED BY <2>1, <1>1, <1>4 DEF Count, One
<1> QED BY <1>2, <1>3, <1>4

\* There are finitely many deliveries to account for.
LEMMA DeliveriesFinite == IsFiniteSet(Deliveries) /\ Cardinality(Deliveries) \in Nat
<1>1. IsFiniteSet(Messages \X (1..MaxDeliver))
  <2>1. IsFiniteSet(1..MaxDeliver)
    BY FS_Interval, NatsAssumption
  <2> QED BY <2>1, FS_Product, NatsAssumption
<1>2. Deliveries \subseteq Messages \X (1..MaxDeliver)
  BY DEF Deliveries
<1> QED BY <1>1, <1>2, FS_Subset, FS_CardinalityType

\* So are the messages in a handler, and one more or less changes their number
\* by one.
LEMMA HandlingFinite ==
    ASSUME NatsTypes
    PROVE  /\ Cardinality(handling) \in Nat
           /\ \A m \in Messages \ handling :
                Cardinality(handling \cup {m}) = Cardinality(handling) + 1
           /\ \A m \in handling :
                Cardinality(handling \ {m}) = Cardinality(handling) - 1
<1>1. IsFiniteSet(handling)
  BY FS_Subset, NatsAssumption DEF NatsTypes
<1>2. Cardinality(handling) \in Nat
  BY <1>1, FS_CardinalityType
<1>3. \A m \in Messages \ handling : Cardinality(handling \cup {m}) = Cardinality(handling) + 1
  BY <1>1, FS_AddElement
<1>4. \A m \in handling : Cardinality(handling \ {m}) = Cardinality(handling) - 1
  BY <1>1, FS_RemoveElement
<1> QED BY <1>2, <1>3, <1>4

\* A step of the publisher.
LEMMA PublisherStep ==
    ASSUME NatsInv, NEW m \in Messages, NEW w \in PubStates, pub' = [pub EXCEPT ![m] = w],
           UNCHANGED subVars,
           msgPublished' \in Nat, msgDelivered' \in Nat, msgFailed' \in Nat,
           msgPublished' - msgPublished + One(pub[m], "tracking")
               = msgDelivered' - msgDelivered + msgFailed' - msgFailed + One(w, "tracking")
    PROVE  NatsInv'
<1> USE DEF subVars
<1>1. NatsTypes' /\ AckedMeansHandled'
  BY DEF NatsInv, NatsTypes, AckedMeansHandled
<1>2. Deliveries' = Deliveries
  BY DEF Deliveries
<1>3. /\ Count(pub, "tracking") \in Nat /\ Count(pub', "tracking") \in Nat
      /\ Count(pub', "tracking")
           = Count(pub, "tracking") + One(w, "tracking") - One(pub[m], "tracking")
  BY CountOfUpdate, Zenon DEF NatsInv, NatsTypes
<1>4. handling' = handling /\ Cardinality(handling) \in Nat
  BY HandlingFinite DEF NatsInv
<1>5. BalanceInv'
  <2>1. msgPublished \in Nat /\ msgDelivered \in Nat /\ msgFailed \in Nat
    BY DEF NatsInv, NatsTypes
  <2>2. One(w, "tracking") \in Nat /\ One(pub[m], "tracking") \in Nat
    BY DEF One
  <2> PICK D, H, T, U, a, b :
        /\ D = Cardinality(Deliveries) /\ H = Cardinality(handling)
        /\ T = Count(pub, "tracking") /\ U = Count(pub', "tracking")
        /\ a = One(w, "tracking") /\ b = One(pub[m], "tracking")
    OBVIOUS
  <2>3. /\ D \in Nat /\ H \in Nat /\ T \in Nat /\ U \in Nat /\ U = T + a - b
        /\ a \in Nat /\ b \in Nat
    BY <1>3, <1>4, <2>2, DeliveriesFinite
  <2>4. msgPublished + D = msgDelivered + msgFailed + T + H
    BY DEF NatsInv, BalanceInv
  <2>5. msgPublished' - msgPublished + b = msgDelivered' - msgDelivered + msgFailed' - msgFailed + a
    OBVIOUS
  <2>6. msgPublished' + D = msgDelivered' + msgFailed' + U + H
    BY <2>1, <2>3, <2>4, <2>5
  <2> QED BY <1>2, <1>4, <2>6 DEF BalanceInv
<1> QED BY <1>1, <1>5 DEF NatsInv

\* A delivery begins, and its message is in a handler.
LEMMA CallbackStep ==
    ASSUME NatsInv, NEW m \in Messages, Callback(m)
    PROVE  NatsInv'
<1> USE DEF NatsInv, NatsTypes
<1>1. /\ m \notin handling /\ deliveries[m] < sent[m] /\ sent[m] \in 0..MaxDeliver
      /\ handling' = handling \cup {m}
      /\ deliveries' = [deliveries EXCEPT ![m] = deliveries[m] + 1]
      /\ UNCHANGED <<pub, sent, handled, acked, msgPublished, msgDelivered, msgFailed>>
  BY DEF Callback, pubVars, counters
<1>2. NatsTypes' /\ AckedMeansHandled'
  BY <1>1, NatsAssumption DEF AckedMeansHandled
<1>3. Cardinality(Deliveries') = Cardinality(Deliveries) + 1
  <2> DEFINE d == <<m, deliveries[m] + 1>>
  <2>1. d \in Messages \X (1..MaxDeliver) /\ d \notin Deliveries
    BY <1>1, NatsAssumption DEF Deliveries
  <2>2. Deliveries' = Deliveries \cup {d}
    <3>1. ASSUME NEW e \in Messages \X (1..MaxDeliver)
          PROVE  e[2] <= deliveries'[e[1]] <=> e[2] <= deliveries[e[1]] \/ e = d
      BY <1>1, NatsAssumption
    <3> QED BY <2>1, <3>1 DEF Deliveries
  <2> QED BY <2>1, <2>2, DeliveriesFinite, FS_AddElement, Zenon
<1>4. Cardinality(handling) \in Nat /\ Cardinality(handling') = Cardinality(handling) + 1
  BY <1>1, HandlingFinite
<1>5. Count(pub', "tracking") = Count(pub, "tracking") /\ Count(pub, "tracking") \in Nat
  BY <1>1, CountOfUpdate, Zenon
<1>6. BalanceInv'
  BY <1>1, <1>3, <1>4, <1>5, DeliveriesFinite DEF BalanceInv
<1> QED BY <1>2, <1>6

\* A handler that returns or fails is counted, as delivered or as failed.
LEMMA HandlerStep ==
    ASSUME NatsInv, NEW m \in Messages, Handle(m)
    PROVE  NatsInv'
<1> USE DEF NatsInv, NatsTypes
<1>1. /\ m \in handling /\ handling' = handling \ {m}
      /\ handled \subseteq handled' /\ acked' \subseteq acked \cup (handled' \cap {m})
      /\ \/ msgDelivered' = msgDelivered + 1 /\ UNCHANGED msgFailed
         \/ msgFailed' = msgFailed + 1 /\ UNCHANGED msgDelivered
      /\ UNCHANGED <<pub, sent, deliveries, msgPublished>>
  BY DEF Handle, HandlerFails, HandlerSucceeds, Nak, pubVars
<1>2. NatsTypes' /\ AckedMeansHandled'
  BY <1>1 DEF AckedMeansHandled
<1>3. Deliveries' = Deliveries
  BY <1>1 DEF Deliveries
<1>4. Cardinality(handling) \in Nat /\ Cardinality(handling') = Cardinality(handling) - 1
  BY <1>1, HandlingFinite
<1>5. Count(pub', "tracking") = Count(pub, "tracking") /\ Count(pub, "tracking") \in Nat
  BY <1>1, CountOfUpdate, Zenon
<1>6. BalanceInv'
  BY <1>1, <1>3, <1>4, <1>5, DeliveriesFinite DEF BalanceInv
<1> QED BY <1>2, <1>6

\* The invariant of messaging is inductive.
LEMMA NatsInvStep == NatsInv /\ [NatsNext]_natsVars => NatsInv'
<1> SUFFICES ASSUME NatsInv, [NatsNext]_natsVars PROVE NatsInv'
  OBVIOUS
<1> USE DEF pubVars, counters, runVars
<1>1. ASSUME NEW m \in Messages, Publish(m) PROVE NatsInv'
  <2>1. PICK w \in {"tracking", "refused"} :
          /\ pub[m] = "new" /\ pub' = [pub EXCEPT ![m] = w]
          /\ msgPublished' = msgPublished + 1
          /\ msgFailed' = IF w = "refused" THEN msgFailed + 1 ELSE msgFailed
          /\ UNCHANGED <<subVars, msgDelivered>>
    BY <1>1 DEF Publish
  <2>2. /\ w \in PubStates
        /\ msgPublished' \in Nat /\ msgDelivered' \in Nat /\ msgFailed' \in Nat
        /\ msgPublished' - msgPublished + One(pub[m], "tracking")
             = msgDelivered' - msgDelivered + msgFailed' - msgFailed + One(w, "tracking")
    BY <2>1 DEF NatsInv, NatsTypes, PubStates, One
  <2> QED BY <2>1, <2>2, PublisherStep, Zenon
<1>2. ASSUME NEW m \in Messages, TrackAck(m) PROVE NatsInv'
  <2>1. PICK w \in {"acked", "rejected", "timedOut"} :
          /\ pub[m] = "tracking" /\ pub' = [pub EXCEPT ![m] = w]
          /\ \/ msgDelivered' = msgDelivered + 1 /\ UNCHANGED msgFailed
             \/ msgFailed' = msgFailed + 1 /\ UNCHANGED msgDelivered
          /\ UNCHANGED <<subVars, msgPublished>>
    BY <1>2 DEF TrackAck, AckTimeout
  <2>2. /\ w \in PubStates
        /\ msgPublished' \in Nat /\ msgDelivered' \in Nat /\ msgFailed' \in Nat
        /\ msgPublished' - msgPublished + One(pub[m], "tracking")
             = msgDelivered' - msgDelivered + msgFailed' - msgFailed + One(w, "tracking")
    BY <2>1 DEF NatsInv, NatsTypes, PubStates, One
  <2> QED BY <2>1, <2>2, PublisherStep, Zenon
<1>3. ASSUME UNCHANGED <<pub, subVars, counters>> PROVE NatsInv'
  BY <1>3 DEF NatsInv, NatsTypes, AckedMeansHandled, BalanceInv, Deliveries, Count, subVars
<1>4. ASSUME NEW m \in Messages, BrokerAnswer(m) PROVE NatsInv'
  BY <1>3, <1>4 DEF BrokerAnswer
<1>5. CASE Shutdown \/ Drain \/ Close \/ ConnectionLost
           \/ ClosedHandler
  BY <1>3, <1>5 DEF Shutdown, Drain, Close, ConnectionLost,
     ClosedHandler
<1>6. CASE UNCHANGED natsVars
  BY <1>3, <1>6 DEF natsVars, subVars
<1>7. ASSUME NEW m \in Messages, Deliver(m) PROVE NatsInv'
  <2>1. /\ sent[m] < MaxDeliver /\ sent' = [sent EXCEPT ![m] = sent[m] + 1]
        /\ UNCHANGED <<pub, deliveries, handling, handled, acked, counters>>
    BY <1>7 DEF Deliver, MayDeliver
  <2>2. NatsTypes' /\ AckedMeansHandled'
    BY <2>1, NatsAssumption DEF NatsInv, NatsTypes, AckedMeansHandled
  <2>3. BalanceInv'
    BY <2>1 DEF NatsInv, BalanceInv, Deliveries, Count
  <2> QED BY <2>2, <2>3 DEF NatsInv
<1> QED BY <1>1, <1>2, <1>4, <1>5, <1>6, <1>7, CallbackStep, HandlerStep DEF NatsNext

LEMMA NatsInvInit == NatsInit => NatsInv
<1> SUFFICES ASSUME NatsInit PROVE NatsInv
  OBVIOUS
<1> USE DEF NatsInit
<1>1. NatsTypes /\ AckedMeansHandled
  BY NatsAssumption DEF NatsTypes, AckedMeansHandled, PubStates
<1>2. /\ Deliveries = {}
      /\ {m \in Messages : pub[m] = "tracking"} = {}
  BY NatsAssumption DEF Deliveries
<1>3. BalanceInv
  BY <1>2, FS_EmptySet DEF BalanceInv, Count
<1> QED BY <1>1, <1>3 DEF NatsInv

\* At-least-once delivery: whatever handlers, acknowledgements, publishers and
\* Shutdown do, the broker drops no message that was not handled.
THEOREM AckedIsHandled == NatsSpec => []AckedMeansHandled
<1>1. NatsInv => AckedMeansHandled
  BY DEF NatsInv
<1> QED BY <1>1, NatsInvInit, NatsInvStep, PTL DEF NatsSpec

\* Every Publish and every delivery is counted once: the counters of both
\* sides balance after any interleaving of them.
THEOREM CountersBalance == NatsSpec => []CountersAddUp
<1>1. NatsInv => CountersAddUp
  BY DEF NatsInv, BalanceInv, CountersAddUp, Count, Pending
<1> QED BY <1>1, NatsInvInit, NatsInvStep, PTL DEF NatsSpec

-----------------------------------------------------------------------------
(* The SDK client.  Between the arrival of a response and the end of the   *)
(* hook the breaker lags behind what has arrived by the one response.      *)

Settled == {"idle", "attempt", "sent", "handle"}

Agrees(n) == circuit_open <=> n >= Threshold

\* What the breaker holds while the thread is at a place of the hook.
BreakerAt(t, p) ==
    /\ p \in Settled => failure_count = consecutive /\ Agrees(consecutive)
    /\ p \in {"load", "store"} => consecutive = failure_count + 1 /\ Agrees(failure_count)
    /\ p = "store" => local[t] = failure_count
    /\ p = "compare" => failure_count = consecutive /\ Agrees(consecutive - 1)
    /\ p = "trip" => failure_count = consecutive /\ consecutive >= Threshold
    /\ p \in {"reset", "reclose"} => consecutive = 0
    /\ p = "reclose" => failure_count = 0

SdkInv(t) ==
    /\ pc \in [{t} -> Settled \cup {"load", "store", "compare", "trip", "reset", "reclose"}]
    /\ local \in [{t} -> Nat]
    /\ circuit_open \in BOOLEAN /\ failure_count \in Nat /\ consecutive \in Nat
    /\ BreakerAt(t, pc[t])

\* The breaker does not open without a failure.
LEMMA NeverOpenAtZero == ~(0 >= Threshold)
  BY SdkAssumption, SMTT(30)

\* The invariant of the SDK client is inductive when one thread uses it.
LEMMA SdkInvStep ==
    ASSUME NEW t, Threads = {t}
    PROVE  SdkInv(t) /\ [SdkNext]_sdkVars => SdkInv(t)'
<1> SUFFICES ASSUME SdkInv(t), [SdkNext]_sdkVars PROVE SdkInv(t)'
  OBVIOUS
<1> USE SdkAssumption DEF SdkInv, Settled, SdkGoto
<1>1. ASSUME UNCHANGED <<circuit_open, failure_count, local, consecutive>>,
             pc[t] \in Settled, pc' = pc \/ \E p \in Settled : pc' = [pc EXCEPT ![t] = p]
      PROVE  SdkInv(t)'
  BY <1>1 DEF BreakerAt, Agrees
<1>2. CASE Execute(t) \/ Stream(t)
  BY <1>1, <1>2 DEF Execute, Stream, Begin, breaker, history
<1>3. CASE Attempt(t) \/ TransportError(t) \/ HandleOutcome(t)
  BY <1>1, <1>3 DEF Attempt, TransportError, HandleOutcome, End, breaker,
     history
<1>4. CASE Response(t)
  BY <1>4 DEF Response, AfterClientError, breaker, BreakerAt, Agrees
<1>5. CASE LoadCount(t)
  BY <1>5 DEF LoadCount, breaker, history, BreakerAt, Agrees
<1>6. CASE StoreCount(t)
  BY <1>6 DEF StoreCount, history, BreakerAt, Agrees
<1>7. CASE Compare(t)
  BY <1>7 DEF Compare, ThresholdReached, breaker, history, BreakerAt, Agrees
<1>8. CASE Trip(t) \/ ResetCount(t) \/ Reclose(t)
  <2>1. CASE Trip(t)
    BY <2>1 DEF Trip, history, BreakerAt, Agrees
  <2>2. CASE ResetCount(t)
    BY <2>2 DEF ResetCount, history, BreakerAt, Agrees
  <2>3. CASE Reclose(t)
    <3>1. /\ circuit_open' = FALSE /\ failure_count' = 0 /\ consecutive' = 0 /\ local' = local
          /\ pc' = [pc EXCEPT ![t] = "handle"]
      BY <2>3 DEF Reclose, history, BreakerAt
    <3>2. Agrees(consecutive)'
      BY <3>1, NeverOpenAtZero DEF Agrees
    <3> QED BY <3>1, <3>2, Zenon DEF BreakerAt
  <2> QED BY <1>8, <2>1, <2>2, <2>3
<1>9. CASE UNCHANGED <<pc, circuit_open, failure_count, local, consecutive>>
  BY <1>9 DEF BreakerAt, Agrees
<1>10. CASE ExecuteAsync \/ CloseClients \/ UNCHANGED sdkVars
  BY <1>9, <1>10 DEF ExecuteAsync, CloseClients, breaker, history, sdkVars
<1> QED BY <1>2, <1>3, <1>4, <1>5, <1>6, <1>7, <1>8, <1>10 DEF SdkNext, SdkProceed, Hook

\* With one thread the circuit is open exactly while the last Threshold or more
\* responses of the server were errors, whatever network errors, other responses,
\* streams and Close come in between.
THEOREM BreakerFollowsFailures ==
    ASSUME NEW t, Threads = {t}
    PROVE  SdkSpec => []OpensOnConsecutiveFailures
<1>1. SdkInit => SdkInv(t)
  <2> SUFFICES ASSUME SdkInit PROVE SdkInv(t)
    OBVIOUS
  <2>1. Agrees(consecutive)
    BY NeverOpenAtZero DEF SdkInit, Agrees
  <2> QED BY <2>1, Zenon DEF SdkInit, SdkInv, BreakerAt, Settled
<1>2. SdkInv(t) => OpensOnConsecutiveFailures
  BY DEF SdkInv, BreakerAt, Agrees, Settled, OpensOnConsecutiveFailures
<1> QED BY <1>1, <1>2, SdkInvStep, PTL DEF SdkSpec

-----------------------------------------------------------------------------
(* The IDoc adapter.  A document reaches a step only if the checks before  *)
(* it let it pass, and each attempt to post it adds at most one copy.      *)

IDocTypes ==
    /\ doc \in [signed : BOOLEAN, wellFormed : BOOLEAN, version : {"3.0", "4.0", "other"},
                segments : Seq(Segments), value : {"valid", "invalid", "empty"}]
    /\ step \in {"idle", "parse", "map", "post", "success", "raised"}
    /\ tries \in Nat /\ ingested \in Nat

Passed == doc.signed /\ Parses(doc) /\ Has("HEAD") /\ FieldIsValid

IDocInv ==
    /\ IDocTypes
    /\ step \in {"parse", "map"} => doc.signed
    /\ step = "map" => Parses(doc)
    /\ step = "post" => Passed /\ ingested <= tries /\ tries < MaxPost
    /\ step = "success" => ingested > 0
    /\ step \in {"idle", "parse", "map"} => ingested = 0
    /\ ingested > 0 => Passed
    /\ ingested <= MaxPost

\* The invariant of the IDoc adapter is inductive.
LEMMA IDocInvStep == IDocInv /\ [IDocNext]_idocVars => IDocInv'
<1> SUFFICES ASSUME IDocInv, [IDocNext]_idocVars PROVE IDocInv'
  OBVIOUS
<1> USE IDocAssumption DEF IDocInv, IDocTypes, IDocGoto
<1>1. CASE ProcessIdoc
  BY <1>1, SMTT(30) DEF ProcessIdoc, Documents
<1>2. ASSUME UNCHANGED doc PROVE Passed' = Passed /\ Parses(doc)' = Parses(doc)
  BY <1>2, SMTT(30) DEF Passed, Parses, Duplicate, Has, FieldIsValid
<1>3. CASE ParseIdoc
  BY <1>2, <1>3 DEF ParseIdoc, Retry
<1>4. CASE TransformToEdi
  BY <1>2, <1>4 DEF TransformToEdi, Passed
<1>5. CASE PostFails
  BY <1>2, <1>5 DEF PostFails, Retry
<1>6. CASE PostedButRetried
  BY <1>2, <1>6 DEF PostedButRetried, Retry
<1>7. CASE Posted
  BY <1>2, <1>7 DEF Posted
<1>8. CASE UNCHANGED idocVars
  BY <1>2, <1>8 DEF idocVars
<1> QED BY <1>1, <1>3, <1>4, <1>5, <1>6, <1>7, <1>8, Zenon DEF IDocNext, IDocProceed

\* Segments that differ from each other are as many as there are places.
LEMMA DistinctSegments ==
    ASSUME NEW s \in Seq(Segments), ~Duplicate(s)
    PROVE  Cardinality(Range(s)) = Len(s)
<1>1. Range(s) = Range(s)
  BY DEF Range
<1>2. Len(s) \in Nat /\ DOMAIN s = 1..Len(s)
  OBVIOUS
<1>3. s \in Bijection(1..Len(s), Range(s))
  BY <1>2 DEF Bijection, Injection, Surjection, IsInjective, Range, Duplicate
<1>4. Cardinality(Range(s)) = Len(s)
  BY <1>2, <1>3, FS_CountingElements DEF ExistsBijection
<1>5. Cardinality(Range(s)) = Cardinality(Range(s))
  BY DEF Cardinality
<1> QED BY <1>1, <1>4, <1>5

\* A document that has passed the checks is acceptable.
LEMMA PassedIsAcceptable == IDocTypes /\ Passed => Acceptable(doc)
<1> SUFFICES ASSUME IDocTypes, Passed PROVE Acceptable(doc)
  OBVIOUS
<1>1. doc.segments \in Seq(Segments) /\ ~Duplicate(doc.segments)
  BY DEF IDocTypes, Passed, Parses
<1>2. Cardinality(Range(doc.segments)) = Len(doc.segments)
  BY <1>1, DistinctSegments
<1>3. \E x \in Range(doc.segments) : x.segment = "HEAD"
  BY DEF Passed, Has, Range
<1>4. doc.value = "invalid" => \A x \in Range(doc.segments) : x.segment # "ITEM"
  BY DEF Passed, FieldIsValid, Has, Range
<1>5. doc.signed /\ doc.wellFormed /\ doc.version # "other"
  BY DEF IDocTypes, Passed, Parses
<1> QED BY <1>2, <1>3, <1>4, <1>5 DEF Acceptable

\* Nothing of a refused document is delivered, however its processing is retried,
\* of an accepted one no more copies than attempts, and at least one on success.
THEOREM DeliversOnlyAccepted == IDocSpec => []DeliversWhatItAccepts
<1>1. IDocInit => IDocInv
  BY IDocAssumption DEF IDocInit, IDocInv, IDocTypes
<1>2. IDocInv => DeliversWhatItAccepts
  BY PassedIsAcceptable, SMTT(30) DEF IDocInv, DeliversWhatItAccepts
<1> QED BY <1>1, <1>2, IDocInvStep, PTL DEF IDocSpec

-----------------------------------------------------------------------------
(* The LLM gateway.  While a model is to be called there is one left, and  *)
(* an attempt left for it.                                                 *)

LlmTypes ==
    /\ config \in [strategy : {"quality_first", "cost_optimized"},
                   fallback_order : Seq(Models), max_retries : Nat, clients : SUBSET Models]
    /\ at \in {"idle", "cache", "call", "store", "end"}
    /\ called \in Seq(Models) /\ answered \in BOOLEAN

CalledInOrder ==
    /\ Len(called) <= Len(config.fallback_order)
    /\ \A i \in 1..Len(called) : called[i] = config.fallback_order[i]
    /\ config.max_retries > 0 => Len(called) <= config.max_retries

Exhausted == Len(called) \in {config.max_retries, Len(config.fallback_order)}

LlmInv ==
    /\ LlmTypes /\ CalledInOrder
    /\ at \in {"idle", "cache"} => called = <<>>
    /\ at = "call" =>
        /\ Len(called) < Len(config.fallback_order)
        /\ config.max_retries > 0 => Len(called) < config.max_retries
    /\ at = "store" => answered
    /\ at = "end" /\ called # <<>> /\ ~answered => Exhausted

\* The invariant of the LLM gateway is inductive.
LEMMA LlmInvStep == LlmInv /\ [LlmNext]_llmVars => LlmInv'
<1> SUFFICES ASSUME LlmInv, [LlmNext]_llmVars PROVE LlmInv'
  OBVIOUS
<1> USE LlmAssumption DEF LlmInv, LlmTypes
<1>1. CASE RouteRequest
  <2>1. /\ called = <<>> /\ UNCHANGED <<called, answered>> /\ at' \in {"cache", "end"}
        /\ config' \in [strategy : {"quality_first", "cost_optimized"},
                        fallback_order : Seq(Models), max_retries : Nat, clients : SUBSET Models]
    BY <1>1, Zenon DEF RouteRequest, Configs, ValidatePayloadRaises, Fail
  <2>2. CalledInOrder'
    <3> HIDE DEF LlmInv
    <3>1. LlmTypes' /\ called' = <<>>
      BY <2>1 DEF LlmInv
    <3> QED BY <3>1 DEF CalledInOrder
  <2> QED BY <2>1, <2>2, SMTT(30)
<1>2. CASE CheckCacheAndSelect
  BY <1>2 DEF CheckCacheAndSelect, Fail, CalledInOrder, Exhausted
<1>3. ASSUME at = "call", called' = Append(called, Model), UNCHANGED config
      PROVE  /\ called' \in Seq(Models) /\ Len(called') = Len(called) + 1
             /\ CalledInOrder'
  <2>1. /\ config.fallback_order \in Seq(Models) /\ config.max_retries \in Nat
        /\ called \in Seq(Models)
        /\ Model = config.fallback_order[Len(called) + 1]
        /\ Len(called) + 1 \in 1..Len(config.fallback_order)
    BY <1>3 DEF Model, AttemptNumber
  <2>2. Model \in Models
    BY <2>1
  <2>3. called' \in Seq(Models) /\ Len(called') = Len(called) + 1
    BY <1>3, <2>1, <2>2
  <2>4. \A i \in 1..Len(called') : called'[i] = config.fallback_order[i]
    BY <1>3, <2>1, <2>2, <2>3, SMTT(30) DEF CalledInOrder
  <2> QED BY <1>3, <2>1, <2>3, <2>4 DEF CalledInOrder
<1>4. CASE CallFails
  <2>1. /\ called' \in Seq(Models) /\ Len(called') = Len(called) + 1 /\ CalledInOrder'
        /\ UNCHANGED <<config, answered>> /\ at = "call"
    BY <1>3, <1>4, SMTT(30) DEF CallFails
  <2>2. CASE GiveUp
    BY <2>1, <2>2, <1>4, SMTT(30) DEF CallFails, GiveUp, AttemptNumber, Fail, Exhausted
  <2>3. CASE ~GiveUp
    BY <2>1, <2>3, <1>4, SMTT(30) DEF CallFails, GiveUp, AttemptNumber
  <2> QED BY <2>2, <2>3
<1>5. CASE CallAnswers
  BY <1>3, <1>5, SMTT(30) DEF CallAnswers
<1>6. CASE CacheResponse
  BY <1>6, SMTT(30) DEF CacheResponse, Fail, CalledInOrder
<1>7. CASE UNCHANGED llmVars
  BY <1>7 DEF llmVars, CalledInOrder, Exhausted
<1> QED BY <1>1, <1>2, <1>4, <1>5, <1>6, <1>7, ZenonT(30) DEF LlmNext, LlmProceed

\* The models called are the first ones of fallback_order, and a request that no
\* model answered has used up the models or the attempts.
THEOREM FallbackIsOrdered == LlmSpec => []FallsBackInOrder
<1>1. LlmInit => LlmInv
  <2> SUFFICES ASSUME LlmInit PROVE LlmInv
    BY Zenon DEF LlmInit
  <2>1. /\ config.fallback_order = <<>> /\ config.max_retries = 0
        /\ called = <<>> /\ at = "idle" /\ <<>> \in Seq(Models) /\ Len(called) = 0
    BY DEF LlmInit
  <2>2. LlmTypes
    BY <2>1, Zenon DEF LlmInit, LlmTypes
  <2>3. CalledInOrder
    BY <2>1 DEF CalledInOrder
  <2> QED BY <2>1, <2>2, <2>3, SMTT(30) DEF LlmInv
<1>2. LlmInv => FallsBackInOrder
  <2> SUFFICES ASSUME LlmInv PROVE FallsBackInOrder
    OBVIOUS
  <2>1. called = SubSeq(config.fallback_order, 1, Len(called))
    BY DEF LlmInv, LlmTypes, CalledInOrder
  <2> QED BY <2>1 DEF LlmInv, CalledInOrder, Exhausted, FallsBackInOrder
<1> QED BY <1>1, <1>2, LlmInvStep, PTL DEF LlmSpec

-----------------------------------------------------------------------------
(* The Azure Arc controller: no call takes an assignment back.             *)

\* What a call of enforce_policy has done so far.
Enforcing(r) ==
    /\ r = [at |-> "policies", list |-> r.list, made |-> r.made]
    /\ r.list \in Seq(Policies) /\ r.made \in 0..Len(r.list)
    /\ \A i \in 1..r.made : r.list[i].name \in DOMAIN assigned

Enforced(r) == \A n \in Range(r.policies_applied) : n \in DOMAIN assigned

CallsInv ==
    /\ call = [c \in Deployers |-> call[c]]
    /\ \A c \in Deployers :
        /\ call[c].at = "policies" => Enforcing(call[c])
        /\ call[c].at = "enforced" => Enforced(call[c])

AssignedInv == \A n \in DOMAIN assigned : [name |-> n, id |-> assigned[n]] \in Policies

\* Another step of one call, that takes no assignment back.
LEMMA CallsGoOn ==
    ASSUME CallsInv, DOMAIN assigned \subseteq DOMAIN assigned',
           NEW c \in Deployers, NEW r, Set(c, r),
           r.at = "policies" => Enforcing(r)',
           r.at = "enforced" => Enforced(r)'
    PROVE  CallsInv'
<1>1. /\ call' = [d \in Deployers |-> call'[d]]
      /\ \A d \in Deployers : call'[d] = IF d = c THEN r ELSE call[d]
  BY SMTT(30) DEF CallsInv, Set
<1>2. ASSUME NEW d \in Deployers, d # c
      PROVE  /\ call[d].at = "policies" => Enforcing(call[d])'
             /\ call[d].at = "enforced" => Enforced(call[d])'
  BY <1>1, <1>2 DEF CallsInv, Enforcing, Enforced
<1> QED BY <1>1, <1>2 DEF CallsInv

\* Steps of the calls other than enforce_policy leave the assignments alone.
LEMMA ArcOtherStep ==
    ASSUME CallsInv, UNCHANGED assigned, NEW c \in Deployers,
           \/ Raise(c) \/ GetResource(c) \/ PutResource(c)
           \/ \E t \in TagSets : ConnectCluster(c, t)
           \/ \E s \in SUBSET Settings : DeployExtension(c, s)
           \/ \E list \in Lists : EnforcePolicy(c, list)
           \/ EnforceReturns(c)
    PROVE  CallsInv'
<1>1. CASE EnforceReturns(c)
  <2>1. PICK r : /\ Set(c, r)
                 /\ r = [at |-> "enforced",
                         policies_applied |-> [i \in 1..call[c].made |-> call[c].list[i].name]]
    BY <1>1, Zenon DEF EnforceReturns
  <2>2. Enforcing(call[c])
    BY <1>1, SMTT(30) DEF EnforceReturns, CallsInv
  <2>3. Enforced(r)'
    BY <2>1, <2>2, Zenon DEF Enforced, Enforcing, Range
  <2> QED BY <2>1, <2>3, CallsGoOn, ZenonT(30)
<1>2. ASSUME NEW list \in Lists, EnforcePolicy(c, list) PROVE CallsInv'
  <2>1. PICK r : Set(c, r) /\ r = [at |-> "policies", list |-> list, made |-> 0]
    BY <1>2 DEF EnforcePolicy
  <2>2. Enforcing(r)'
    BY <2>1, ArcAssumption DEF Enforcing
  <2> QED BY <2>1, <2>2, CallsGoOn
<1>3. ASSUME NEW r, Set(c, r), r.at \notin {"policies", "enforced"} PROVE CallsInv'
  BY <1>3, CallsGoOn, SMTT(30)
<1>4. CASE Raise(c)
  BY <1>3, <1>4, ZenonT(30) DEF Raise, AfterFailure
<1>5. CASE GetResource(c)
  BY <1>3, <1>5, ZenonT(30) DEF GetResource
<1>6. CASE PutResource(c)
  BY <1>3, <1>6, ZenonT(30) DEF PutResource
<1>7. ASSUME NEW t \in TagSets, ConnectCluster(c, t) PROVE CallsInv'
  BY <1>3, <1>7, Zenon DEF ConnectCluster
<1>8. ASSUME NEW s \in SUBSET Settings, DeployExtension(c, s) PROVE CallsInv'
  BY <1>3, <1>8 DEF DeployExtension
<1> QED BY <1>1, <1>2, <1>4, <1>5, <1>6, <1>7, <1>8, SMTT(30)

\* The next policy of the list is assigned, whether the answer arrives or not.
LEMMA ArcAssigns ==
    ASSUME CallsInv, AssignedInv, NEW c \in Deployers, CreateAssignment(c)
    PROVE  CallsInv' /\ AssignedInv'
<1> DEFINE policy == call[c].list[call[c].made + 1]
<1>1. Enforcing(call[c]) /\ call[c].made < Len(call[c].list)
  BY SMTT(30) DEF CreateAssignment, CallsInv
<1>2. call[c].made + 1 \in 1..Len(call[c].list) /\ policy \in Policies
  <2> PICK list, made : list = call[c].list /\ made = call[c].made
    BY ZenonT(30)
  <2>1. list \in Seq(Policies) /\ made \in 0..Len(list) /\ made < Len(list)
    BY <1>1, Zenon DEF Enforcing
  <2>2. made + 1 \in 1..Len(list) /\ list[made + 1] \in Policies
    BY <2>1, SMTT(30)
  <2> QED BY <2>2
<1>3. /\ DOMAIN assigned' = DOMAIN assigned \cup {policy.name}
      /\ assigned'[policy.name] = policy.id
      /\ \A n \in DOMAIN assigned : n # policy.name => assigned'[n] = assigned[n]
  BY SMTT(30) DEF CreateAssignment, AssignmentName
<1>4. AssignedInv'
  BY <1>2, <1>3, ArcAssumption, ZenonT(30) DEF AssignedInv
<1>5. CASE Set(c, [call[c] EXCEPT !.made = @ + 1])
  <2>1. PICK r : Set(c, r) /\ r = [call[c] EXCEPT !.made = @ + 1]
    BY <1>5
  <2>2. r = [at |-> "policies", list |-> call[c].list, made |-> call[c].made + 1]
    BY <2>1, <1>1, SMTT(30) DEF Enforcing
  <2>3. Enforcing(r)'
    <3>1. r.list = call[c].list /\ r.made = call[c].made + 1
      BY <2>2, SMTT(30)
    <3>2. r.list \in Seq(Policies) /\ r.made \in 0..Len(r.list)
      <4> PICK list, made : list = call[c].list /\ made = call[c].made
        BY ZenonT(30)
      <4>1. list \in Seq(Policies) /\ made \in 0..Len(list) /\ made + 1 \in 1..Len(list)
        BY <1>1, <1>2, Zenon DEF Enforcing
      <4>2. made + 1 \in 0..Len(list)
        BY <4>1
      <4> QED BY <3>1, <4>1, <4>2, Zenon
    <3>3. ASSUME NEW i \in 1..r.made PROVE r.list[i].name \in DOMAIN assigned'
      <4>1. CASE i = call[c].made + 1
        BY <4>1, <3>1, <1>3, ZenonT(30)
      <4>2. CASE i # call[c].made + 1
        <5>1. call[c].list \in Seq(Policies) /\ call[c].made \in 0..Len(call[c].list)
          BY <1>1, Zenon DEF Enforcing
        <5>2. Len(call[c].list) \in Nat
          BY <5>1
        <5>3. \A n \in Nat : 0..n \subseteq Nat
          OBVIOUS
        <5>4. call[c].made \in Nat
          BY <5>1, <5>2, <5>3, Zenon
        <5>5. \A j \in 1..call[c].made : call[c].list[j].name \in DOMAIN assigned
          BY <1>1 DEF Enforcing
        <5>6. call[c].made \in Nat /\ \A j \in 1..call[c].made :
                call[c].list[j].name \in DOMAIN assigned
          BY <5>4, <5>5, SMTT(30)
        <5>7. i \in 1..call[c].made
          BY <4>2, <3>1, <5>6, SMTT(30)
        <5> QED BY <5>6, <5>7, <3>1, <1>3, ZenonT(30)
      <4> QED BY <4>1, <4>2, SMTT(30)
    <3> QED BY <2>2, <3>1, <3>2, <3>3, SMTT(30) DEF Enforcing
  <2> QED BY <2>1, <2>2, <2>3, <1>3, <1>4, CallsGoOn, Zenon
<1>6. CASE Set(c, AfterFailure(c))
  <2>1. PICK r : Set(c, r) /\ r = [at |-> "raised"]
    BY <1>6 DEF AfterFailure
  <2> QED BY <2>1, <1>3, <1>4, CallsGoOn, Zenon
<1> QED BY <1>5, <1>6 DEF CreateAssignment

\* The invariants of the controller are inductive.
LEMMA ArcInvStep ==
    CallsInv /\ AssignedInv /\ [ArcNext]_arcVars => CallsInv' /\ AssignedInv'
<1> SUFFICES ASSUME CallsInv, AssignedInv, [ArcNext]_arcVars PROVE CallsInv' /\ AssignedInv'
  OBVIOUS
<1>1. ASSUME UNCHANGED assigned PROVE AssignedInv'
  BY <1>1, SMTT(30) DEF AssignedInv
<1>2. ASSUME UNCHANGED <<assigned, call>> PROVE CallsInv'
  BY <1>2 DEF CallsInv, Enforcing, Enforced
<1>3. CASE Agent \/ UNCHANGED arcVars
  BY <1>1, <1>2, <1>3 DEF Agent, arcVars
<1>4. ASSUME NEW c \in Deployers,
             \/ Raise(c) \/ GetResource(c) \/ PutResource(c)
             \/ \E t \in TagSets : ConnectCluster(c, t)
             \/ \E s \in SUBSET Settings : DeployExtension(c, s)
             \/ \E list \in Lists : EnforcePolicy(c, list)
             \/ EnforceReturns(c)
      PROVE  CallsInv' /\ AssignedInv'
  <2>1. UNCHANGED assigned
    BY <1>4, Zenon DEF Raise, GetResource, PutResource, ConnectCluster,
       DeployExtension, EnforcePolicy, EnforceReturns, cluster
  <2> QED BY <1>1, <1>4, <2>1, ArcOtherStep, SMTT(30)
<1> QED BY <1>3, <1>4, ArcAssigns DEF ArcNext

\* Whatever the callers do at the same time and wherever they fail, a policy
\* reported as applied is assigned, and to a definition that goes with its name.
THEOREM AppliedIsAssigned == ArcSpec => []AppliedMeansAssigned
<1>1. ArcInit => CallsInv /\ AssignedInv
  BY DEF ArcInit, Idle, CallsInv, AssignedInv
<1>2. CallsInv /\ AssignedInv => AppliedMeansAssigned
  BY DEF CallsInv, AssignedInv, Enforced, AppliedMeansAssigned
<1> QED BY <1>1, <1>2, ArcInvStep, PTL DEF ArcSpec
=============================================================================
