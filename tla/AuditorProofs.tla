--------------------------- MODULE AuditorProofs ----------------------------
(***************************************************************************)
(* Proofs about the auditor, for any number of events, workers and callers *)
(* of Shutdown and any capacity of the channel.                            *)
(***************************************************************************)
EXTENDS Auditor, SequenceTheorems, TLAPS

-----------------------------------------------------------------------------
(* What sending on and receiving from a channel do to the values on it and *)
(* to its being free of repetitions.                                       *)

\* Sending on a channel adds the value to those on it.
LEMMA RangeAppend ==
    ASSUME NEW S, NEW s \in Seq(S), NEW e \in S
    PROVE  Range(Append(s, e)) = Range(s) \cup {e}
<1> DEFINE t == Append(s, e)
<1>1. /\ Len(s) \in Nat
      /\ DOMAIN s = 1..Len(s)
      /\ DOMAIN t = 1..(Len(s) + 1)
      /\ \A i \in 1..Len(s) : t[i] = s[i]
      /\ t[Len(s) + 1] = e
  OBVIOUS
<1>2. ASSUME NEW x \in Range(t) PROVE x \in Range(s) \cup {e}
  BY <1>1 DEF Range
<1>3. ASSUME NEW x \in Range(s) PROVE x \in Range(t)
  BY <1>1 DEF Range
<1>4. e \in Range(t)
  BY <1>1 DEF Range
<1> QED BY <1>2, <1>3, <1>4

\* Receiving from a channel splits off its head.
LEMMA RangeHeadTail ==
    ASSUME NEW S, NEW s \in Seq(S), s # <<>>
    PROVE  /\ Head(s) \in S
           /\ Tail(s) \in Seq(S)
           /\ Len(Tail(s)) = Len(s) - 1
           /\ Range(s) = {Head(s)} \cup Range(Tail(s))
<1> DEFINE t == Tail(s)
<1>1. /\ Len(s) \in Nat \ {0}
      /\ DOMAIN s = 1..Len(s)
      /\ t \in Seq(S)
      /\ Len(t) = Len(s) - 1
      /\ DOMAIN t = 1..(Len(s) - 1)
      /\ \A i \in 1..(Len(s) - 1) : t[i] = s[i + 1]
      /\ Head(s) = s[1]
      /\ Head(s) \in S
  BY EmptySeq, HeadTailProperties, LenProperties
<1> HIDE DEF t
<1>2. ASSUME NEW x \in Range(s) PROVE x \in {Head(s)} \cup Range(t)
  <2>1. PICK i \in 1..Len(s) : x = s[i]
    BY <1>1 DEF Range
  <2>2. CASE i = 1
    BY <2>1, <2>2, <1>1
  <2>3. CASE i # 1
    <3>1. i - 1 \in 1..(Len(s) - 1) /\ (i - 1) + 1 = i
      BY <2>3, <1>1
    <3>2. t[i - 1] = x
      BY <3>1, <2>1, <1>1
    <3> QED BY <3>1, <3>2, <1>1 DEF Range
  <2> QED BY <2>2, <2>3
<1>3. ASSUME NEW x \in Range(t) PROVE x \in Range(s)
  <2>1. PICK i \in 1..(Len(s) - 1) : x = t[i]
    BY <1>1 DEF Range
  <2>2. i + 1 \in 1..Len(s) /\ x = s[i + 1]
    BY <2>1, <1>1
  <2> QED BY <2>2, <1>1 DEF Range
<1>4. Head(s) \in Range(s)
  BY <1>1 DEF Range
<1>5. Range(s) = {Head(s)} \cup Range(t)
  BY <1>2, <1>3, <1>4
<1> QED BY <1>1, <1>5 DEF t

\* A value that is not on the channel can be sent without a repetition.
LEMMA InjectiveAppend ==
    ASSUME NEW S, NEW s \in Seq(S), NEW e \in S,
           IsInjective(s), e \notin Range(s)
    PROVE  IsInjective(Append(s, e))
<1> DEFINE t == Append(s, e)
<1>1. /\ Len(s) \in Nat
      /\ DOMAIN s = 1..Len(s)
      /\ DOMAIN t = 1..(Len(s) + 1)
      /\ \A i \in 1..Len(s) : t[i] = s[i]
      /\ t[Len(s) + 1] = e
  OBVIOUS
<1>2. \A i \in 1..Len(s) : s[i] # e
  BY <1>1 DEF Range
<1>3. \A i, j \in 1..Len(s) : s[i] = s[j] => i = j
  BY <1>1 DEF IsInjective
<1> HIDE DEF t
<1>4. ASSUME NEW i \in 1..(Len(s) + 1), NEW j \in 1..(Len(s) + 1), t[i] = t[j]
      PROVE  i = j
  BY <1>1, <1>2, <1>3, <1>4
<1> QED BY <1>1, <1>4 DEF t, IsInjective

\* Without repetitions, the received value is not on the channel any more.
LEMMA InjectiveTail ==
    ASSUME NEW S, NEW s \in Seq(S), s # <<>>, IsInjective(s)
    PROVE  IsInjective(Tail(s)) /\ Head(s) \notin Range(Tail(s))
<1> DEFINE t == Tail(s)
<1>1. /\ Len(s) \in Nat \ {0}
      /\ DOMAIN t = 1..(Len(s) - 1)
      /\ \A i \in 1..(Len(s) - 1) : t[i] = s[i + 1]
      /\ Head(s) = s[1]
  BY EmptySeq, HeadTailProperties, LenProperties
<1>2. \A i, j \in 1..Len(s) : s[i] = s[j] => i = j
  BY LenProperties DEF IsInjective
<1> HIDE DEF t
<1>3. ASSUME NEW i \in DOMAIN t, NEW j \in DOMAIN t, t[i] = t[j]
      PROVE  i = j
  <2>1. i + 1 \in 1..Len(s) /\ j + 1 \in 1..Len(s) /\ s[i + 1] = s[j + 1]
    BY <1>1, <1>3
  <2>2. i + 1 = j + 1
    BY <2>1, <1>2
  <2> QED BY <2>2, <1>1
<1>4. ASSUME NEW i \in DOMAIN t PROVE t[i] # Head(s)
  <2>1. i + 1 \in 1..Len(s) /\ 1 \in 1..Len(s) /\ i + 1 # 1 /\ t[i] = s[i + 1]
    BY <1>1
  <2> QED BY <2>1, <1>1, <1>2
<1> QED BY <1>3, <1>4 DEF t, IsInjective, Range

-----------------------------------------------------------------------------
(* Type correctness needs to know that a worker about to persist an event  *)
(* holds one, so it is proved together with DbOpenWhilePersisting.         *)

LEMMA TypeInit == Init => TypeOK /\ DbOpenWhilePersisting
BY AuditorAssumption DEF Init, TypeOK, DbOpenWhilePersisting

LEMMA EndProcessType == TypeOK /\ EndProcess => TypeOK'
<1> SUFFICES ASSUME TypeOK, EndProcess PROVE TypeOK'
  OBVIOUS
<1> USE DEF TypeOK, EndProcess
<1>1. Range(eventQueue) \cup Held \subseteq Events
  BY LenProperties DEF Range, Held
<1>2. stops' \in 0..MaxStops
  BY AuditorAssumption
<1>3. dropped' \subseteq Events
  BY <1>1
<1>4. eventQueue' \in Seq(Events) /\ Len(eventQueue') <= MaxQueueSize
  BY AuditorAssumption
<1> QED BY <1>2, <1>3, <1>4 DEF callerVars, tableVars

LEMMA TypeStep == TypeOK /\ DbOpenWhilePersisting /\ [Next]_vars => TypeOK'
<1> SUFFICES ASSUME TypeOK, DbOpenWhilePersisting, [Next]_vars PROVE TypeOK'
  OBVIOUS
<1> USE AuditorAssumption DEF TypeOK, callerVars, tableVars
<1>1. ASSUME NEW e \in Events, NEW ctxDone \in BOOLEAN, LogEvent(e, ctxDone)
      PROVE  TypeOK'
  <2>1. /\ eventQueue' \in Seq(Events) /\ Len(eventQueue') <= MaxQueueSize
        /\ accepted' \in Seq(Events)
    <3>1. CASE /\ Len(eventQueue) < MaxQueueSize
               /\ eventQueue' = Append(eventQueue, e)
               /\ accepted' = Append(accepted, e)
      BY <3>1
    <3>2. CASE UNCHANGED <<eventQueue, accepted>>
      BY <3>2
    <3> QED BY <1>1, <3>1, <3>2, Zenon DEF LogEvent, QueueHasRoom
  <2>2. refused' \subseteq Events
    BY <1>1 DEF LogEvent
  <2> QED BY <1>1, <2>1, <2>2 DEF LogEvent
<1>2. ASSUME NEW w \in Workers, TakeEvent(w) PROVE TypeOK'
  <2>1. eventQueue' \in Seq(Events) /\ Len(eventQueue') <= MaxQueueSize
    BY <1>2, HeadTailProperties DEF TakeEvent, Receive
  <2> QED BY <1>2, <2>1 DEF TakeEvent
<1>3. ASSUME NEW w \in Workers, PersistEvent(w) PROVE TypeOK'
  <2>1. holding[w] \in Events
    BY <1>3 DEF DbOpenWhilePersisting, PersistEvent
  <2>2. rows' \in Seq(Events) /\ reported' \subseteq Events
    <3>1. CASE rows' = Append(rows, holding[w]) /\ UNCHANGED reported
      BY <3>1, <2>1
    <3>2. CASE Report(holding[w]) /\ UNCHANGED rows
      BY <3>2, <2>1 DEF Report
    <3> QED BY <1>3, <3>1, <3>2 DEF PersistEvent
  <2> QED BY <1>3, <2>2 DEF PersistEvent, NextRound
<1>4. ASSUME NEW w \in Workers, WorkerReturn(w) PROVE TypeOK'
  BY <1>4 DEF WorkerReturn, LeaveLoop
<1>5. ASSUME NEW c \in Closers, Shutdown(c) PROVE TypeOK'
  <2>1. CASE EndProcess
    BY <2>1, EndProcessType
  <2>2. CASE ~EndProcess
    BY <1>5, <2>2 DEF Shutdown
  <2> QED BY <2>1, <2>2
<1>6. ASSUME NEW c \in Closers, ShutdownReturn(c) PROVE TypeOK'
  BY <1>6 DEF ShutdownReturn
<1>7. CASE ProcessEnds
  BY <1>7, EndProcessType DEF ProcessEnds
<1>8. CASE NewEnterpriseAuditor
  BY <1>8 DEF NewEnterpriseAuditor, InitializeDatabase
<1>9. CASE UNCHANGED vars
  BY <1>9 DEF vars
<1> QED BY <1>1, <1>2, <1>3, <1>4, <1>5, <1>6, <1>7, <1>8, <1>9 DEF Next, WorkerStep

LEMMA DbOpenStep ==
    TypeOK /\ DbOpenWhilePersisting /\ [Next]_vars => DbOpenWhilePersisting'
<1> SUFFICES ASSUME TypeOK, DbOpenWhilePersisting, [Next]_vars
             PROVE  DbOpenWhilePersisting'
  OBVIOUS
<1> USE AuditorAssumption DEF TypeOK, DbOpenWhilePersisting
<1>1. ASSUME NEW e \in Events, NEW ctxDone \in BOOLEAN, LogEvent(e, ctxDone)
      PROVE  DbOpenWhilePersisting'
  BY <1>1 DEF LogEvent
<1>2. ASSUME NEW w \in Workers, TakeEvent(w) PROVE DbOpenWhilePersisting'
  BY <1>2 DEF TakeEvent
<1>3. ASSUME NEW w \in Workers, PersistEvent(w) PROVE DbOpenWhilePersisting'
  BY <1>3 DEF PersistEvent, NextRound
<1>4. ASSUME NEW w \in Workers, WorkerReturn(w) PROVE DbOpenWhilePersisting'
  BY <1>4 DEF WorkerReturn, LeaveLoop
<1>5. CASE EndProcess
  BY <1>5 DEF EndProcess
<1>6. ASSUME NEW c \in Closers, Shutdown(c), ~EndProcess
      PROVE  DbOpenWhilePersisting'
  BY <1>6 DEF Shutdown
<1>7. ASSUME NEW c \in Closers, ShutdownReturn(c) PROVE DbOpenWhilePersisting'
  BY <1>7 DEF ShutdownReturn, WaitGroupIsZero
<1>8. CASE NewEnterpriseAuditor
  BY <1>8 DEF NewEnterpriseAuditor
<1>9. CASE UNCHANGED vars
  BY <1>9 DEF vars
<1> QED
  BY <1>1, <1>2, <1>3, <1>4, <1>5, <1>6, <1>7, <1>8, <1>9
     DEF Next, WorkerStep, ProcessEnds

\* Every variable keeps its type; in particular the channel never holds more
\* than MaxQueueSize events.
THEOREM TypeCorrect == Spec => []TypeOK
<1>1. TypeOK /\ DbOpenWhilePersisting /\ [Next]_vars
        => (TypeOK /\ DbOpenWhilePersisting)'
  BY TypeStep, DbOpenStep
<1> QED BY TypeInit, <1>1, PTL DEF Spec

\* wg.Wait() before db.Close() is enough: whatever the number of workers, the
\* database handle outlives every event that was taken off the channel.
THEOREM DbOutlivesWorkers == Spec => []DbOpenWhilePersisting
<1>1. TypeOK /\ DbOpenWhilePersisting /\ [Next]_vars
        => (TypeOK /\ DbOpenWhilePersisting)'
  BY TypeStep, DbOpenStep
<1> QED BY TypeInit, <1>1, PTL DEF Spec

-----------------------------------------------------------------------------
(* Accounting: AcceptedIsAccountedFor and RecordedAtMostOnce are inductive *)
(* together, given the types and who holds an event.                       *)

IInv ==
    TypeOK /\ DbOpenWhilePersisting /\ AcceptedIsAccountedFor /\ RecordedAtMostOnce

\* A worker with empty hands that takes an event adds it to those held.
LEMMA HeldTake ==
    ASSUME TypeOK, NEW w \in Workers, NEW e \in Events, holding[w] = NoEvent,
           holding' = [holding EXCEPT ![w] = e]
    PROVE  Held' = Held \cup {e}
<1> USE AuditorAssumption DEF TypeOK, Held, Range
<1>1. ASSUME NEW x \in Held' PROVE x \in Held \cup {e}
  OBVIOUS
<1>2. ASSUME NEW x \in Held PROVE x \in Held'
  <2>1. PICK v \in Workers : x = holding[v] /\ x # NoEvent
    OBVIOUS
  <2>2. v # w /\ holding'[v] = x
    BY <2>1
  <2> QED BY <2>1, <2>2
<1>3. e \in Held'
  <2>1. holding'[w] = e /\ e # NoEvent
    OBVIOUS
  <2> QED BY <2>1
<1> QED BY <1>1, <1>2, <1>3

\* An event is held once, so a worker that lets go of it removes it.
LEMMA HeldClear ==
    ASSUME TypeOK, RecordedAtMostOnce, NEW w \in Workers, holding[w] # NoEvent,
           holding' = [holding EXCEPT ![w] = NoEvent]
    PROVE  Held' = Held \ {holding[w]} /\ holding[w] \in Held
<1> USE DEF TypeOK, Held, Range
<1>1. ASSUME NEW x \in Held' PROVE x \in Held \ {holding[w]}
  <2>1. PICK v \in Workers : x = holding'[v] /\ x # NoEvent
    OBVIOUS
  <2>2. v # w /\ holding[v] = x
    BY <2>1
  <2>3. holding[v] # holding[w]
    BY <2>1, <2>2 DEF RecordedAtMostOnce
  <2> QED BY <2>1, <2>2, <2>3
<1>2. ASSUME NEW x \in Held, x # holding[w] PROVE x \in Held'
  <2>1. PICK v \in Workers : x = holding[v] /\ x # NoEvent
    OBVIOUS
  <2>2. v # w /\ holding'[v] = x
    BY <2>1, <1>2
  <2> QED BY <2>1, <2>2
<1>3. holding[w] \in Held
  OBVIOUS
<1> QED BY <1>1, <1>2, <1>3

LEMMA RangeEmpty == Range(<<>>) = {} /\ IsInjective(<<>>)
BY DEF Range, IsInjective

LEMMA AccountInit == Init => AcceptedIsAccountedFor /\ RecordedAtMostOnce
<1> SUFFICES ASSUME Init PROVE AcceptedIsAccountedFor /\ RecordedAtMostOnce
  OBVIOUS
<1>1. Held = {}
  BY DEF Init, Held, Range
<1> QED
  BY <1>1, RangeEmpty DEF Init, AcceptedIsAccountedFor, RecordedAtMostOnce

LEMMA AccountLogEvent ==
    ASSUME IInv, NEW e \in Events, NEW ctxDone \in BOOLEAN, LogEvent(e, ctxDone)
    PROVE  (AcceptedIsAccountedFor /\ RecordedAtMostOnce)'
<1> USE DEF IInv
<1>1. /\ e \notin Range(accepted)
      /\ UNCHANGED <<holding, rows, reported, dropped>>
      /\ Held' = Held
  BY DEF LogEvent, tableVars, Held
<1>2. CASE /\ eventQueue' = Append(eventQueue, e)
           /\ accepted' = Append(accepted, e)
           /\ refused' = refused \ {e}
  <2>1. /\ Range(eventQueue') = Range(eventQueue) \cup {e}
        /\ Range(accepted') = Range(accepted) \cup {e}
    BY <1>2, RangeAppend DEF TypeOK
  <2>2. e \notin Range(eventQueue)
    BY <1>1 DEF AcceptedIsAccountedFor
  <2>3. IsInjective(eventQueue')
    BY <1>2, <2>2, InjectiveAppend DEF TypeOK, RecordedAtMostOnce
  <2> QED
    BY <1>1, <1>2, <2>1, <2>3 DEF AcceptedIsAccountedFor, RecordedAtMostOnce
<1>3. CASE refused' = refused \cup {e} /\ UNCHANGED <<eventQueue, accepted>>
  BY <1>1, <1>3 DEF AcceptedIsAccountedFor, RecordedAtMostOnce
<1> QED BY <1>2, <1>3, Zenon DEF LogEvent

LEMMA AccountTakeEvent ==
    ASSUME IInv, NEW w \in Workers, TakeEvent(w)
    PROVE  (AcceptedIsAccountedFor /\ RecordedAtMostOnce)'
<1> USE DEF IInv
<1> DEFINE h == Head(eventQueue)
<1>1. /\ eventQueue # <<>>
      /\ eventQueue' = Tail(eventQueue)
      /\ holding' = [holding EXCEPT ![w] = h]
      /\ holding[w] = NoEvent
      /\ UNCHANGED <<accepted, refused, rows, reported, dropped>>
  BY DEF TakeEvent, Receive, callerVars, tableVars, DbOpenWhilePersisting
<1>2. /\ h \in Events
      /\ Range(eventQueue) = {h} \cup Range(eventQueue')
      /\ IsInjective(eventQueue')
      /\ h \notin Range(eventQueue')
  BY <1>1, RangeHeadTail, InjectiveTail DEF TypeOK, RecordedAtMostOnce
<1>3. Held' = Held \cup {h}
  BY <1>1, <1>2, HeldTake
<1>4. AcceptedIsAccountedFor'
  BY <1>1, <1>2, <1>3 DEF AcceptedIsAccountedFor
<1>5. ASSUME NEW u \in Workers, NEW v \in Workers, holding'[u] = holding'[v], u # v
      PROVE  holding'[u] = NoEvent
  <2>1. h \notin Held
    BY <1>2 DEF RecordedAtMostOnce
  <2>2. \A x \in Workers : holding[x] # h
    BY <1>2, <2>1, AuditorAssumption DEF Held, Range, TypeOK
  <2> QED BY <1>1, <1>5, <2>2 DEF TypeOK, RecordedAtMostOnce
<1>6. RecordedAtMostOnce'
  BY <1>1, <1>2, <1>3, <1>5 DEF RecordedAtMostOnce
<1> QED BY <1>4, <1>6

LEMMA AccountPersistEvent ==
    ASSUME IInv, NEW w \in Workers, PersistEvent(w)
    PROVE  (AcceptedIsAccountedFor /\ RecordedAtMostOnce)'
<1> USE DEF IInv
<1> DEFINE h == holding[w]
<1>1. /\ holding' = [holding EXCEPT ![w] = NoEvent]
      /\ h # NoEvent /\ h \in Events
      /\ UNCHANGED <<accepted, refused, eventQueue, dropped>>
  BY DEF PersistEvent, NextRound, callerVars, DbOpenWhilePersisting, TypeOK
<1>2. Held' = Held \ {h} /\ h \in Held
  BY <1>1, HeldClear
<1>3. \A u, v \in Workers : holding'[u] = holding'[v] /\ u # v => holding'[u] = NoEvent
  BY <1>1 DEF RecordedAtMostOnce, TypeOK
<1>4. CASE rows' = Append(rows, h) /\ UNCHANGED reported
  <2>1. Range(rows') = Range(rows) \cup {h}
    BY <1>1, <1>4, RangeAppend DEF TypeOK
  <2>2. IsInjective(rows')
    BY <1>1, <1>2, <1>4, InjectiveAppend DEF TypeOK, RecordedAtMostOnce
  <2> QED
    BY <1>1, <1>2, <1>3, <1>4, <2>1, <2>2
       DEF AcceptedIsAccountedFor, RecordedAtMostOnce
<1>5. CASE reported' = reported \cup {h} /\ UNCHANGED rows
  BY <1>1, <1>2, <1>3, <1>5 DEF AcceptedIsAccountedFor, RecordedAtMostOnce
<1> QED BY <1>4, <1>5 DEF PersistEvent, Report

LEMMA AccountEndProcess ==
    ASSUME IInv, EndProcess
    PROVE  (AcceptedIsAccountedFor /\ RecordedAtMostOnce)'
<1> USE DEF IInv
<1>1. Held' = {}
  BY DEF EndProcess, Held, Range
<1>2. /\ eventQueue' = <<>>
      /\ dropped' = dropped \cup Range(eventQueue) \cup Held
      /\ holding' = [w \in Workers |-> NoEvent]
      /\ UNCHANGED <<accepted, refused, rows, reported>>
  BY DEF EndProcess, callerVars, tableVars
<1> QED
  BY <1>1, <1>2, RangeEmpty DEF AcceptedIsAccountedFor, RecordedAtMostOnce

LEMMA InvStep == IInv /\ [Next]_vars => IInv'
<1> SUFFICES ASSUME IInv, [Next]_vars
             PROVE  (AcceptedIsAccountedFor /\ RecordedAtMostOnce)'
  BY TypeStep, DbOpenStep DEF IInv
<1> DEFINE accountVars == <<eventQueue, holding, rows, accepted, refused, reported, dropped>>
<1>1. CASE UNCHANGED accountVars
  BY <1>1 DEF IInv, AcceptedIsAccountedFor, RecordedAtMostOnce, Held
<1>2. ASSUME NEW w \in Workers, WorkerReturn(w) PROVE UNCHANGED accountVars
  BY <1>2 DEF WorkerReturn, callerVars, tableVars
<1>3. ASSUME NEW c \in Closers, Shutdown(c), ~EndProcess
      PROVE  UNCHANGED accountVars
  BY <1>3 DEF Shutdown, callerVars, tableVars
<1>4. ASSUME NEW c \in Closers, ShutdownReturn(c) PROVE UNCHANGED accountVars
  BY <1>4 DEF ShutdownReturn, callerVars, tableVars
<1>5. ASSUME NewEnterpriseAuditor PROVE UNCHANGED accountVars
  BY <1>5 DEF NewEnterpriseAuditor, InitializeDatabase, callerVars
<1>6. ASSUME UNCHANGED vars PROVE UNCHANGED accountVars
  BY <1>6 DEF vars
<1> HIDE DEF accountVars
<1> QED
  BY <1>1, <1>2, <1>3, <1>4, <1>5, <1>6, AccountLogEvent, AccountTakeEvent,
     AccountPersistEvent, AccountEndProcess
     DEF Next, WorkerStep, ProcessEnds

LEMMA Invariance == Spec => []IInv
BY TypeInit, AccountInit, InvStep, PTL DEF Spec, IInv

\* No accepted event disappears silently, whatever workers, callers of
\* Shutdown and ends of the process do.
THEOREM NoSilentLoss == Spec => []AcceptedIsAccountedFor
<1>1. IInv => AcceptedIsAccountedFor
  BY DEF IInv
<1> QED BY Invariance, <1>1, PTL

\* No event is recorded twice.
THEOREM AtMostOnce == Spec => []RecordedAtMostOnce
<1>1. IInv => RecordedAtMostOnce
  BY DEF IInv
<1> QED BY Invariance, <1>1, PTL

-----------------------------------------------------------------------------
(* Refinement: the auditor implements the abstract audit trail.            *)

\* Receiving leaves the accepted events that are not recorded as they are.
LEMMA TakeEventMaps ==
    ASSUME IInv, NEW w \in Workers, TakeEvent(w)
    PROVE  UNCHANGED Trail!vars
<1> DEFINE h == Head(eventQueue)
<1>1. /\ eventQueue # <<>>
      /\ eventQueue' = Tail(eventQueue)
      /\ holding' = [holding EXCEPT ![w] = h]
      /\ holding[w] = NoEvent
      /\ rows' = rows
  BY DEF TakeEvent, Receive, tableVars, IInv, DbOpenWhilePersisting
<1>2. h \in Events /\ Range(eventQueue) = {h} \cup Range(eventQueue')
  BY <1>1, RangeHeadTail DEF IInv, TypeOK
<1>3. Held' = Held \cup {h}
  BY <1>1, <1>2, HeldTake DEF IInv
<1> QED BY <1>1, <1>2, <1>3 DEF Trail!vars

\* Persisting an event records it, or gives it up.
LEMMA PersistEventMaps ==
    ASSUME IInv, NEW w \in Workers, PersistEvent(w)
    PROVE  Trail!Next
<1> DEFINE h == holding[w]
<1>1. /\ holding' = [holding EXCEPT ![w] = NoEvent]
      /\ h # NoEvent /\ h \in Events
      /\ eventQueue' = eventQueue
      /\ rows' = Append(rows, h) \/ rows' = rows
  BY DEF PersistEvent, NextRound, IInv, DbOpenWhilePersisting, TypeOK
<1>2. Held' = Held \ {h} /\ h \in Held /\ h \notin Range(eventQueue)
  BY <1>1, HeldClear DEF IInv, RecordedAtMostOnce
<1>3. Range(eventQueue') \cup Held' = (Range(eventQueue) \cup Held) \ {h}
  BY <1>1, <1>2
<1>4. CASE rows' = Append(rows, h)
  BY <1>1, <1>2, <1>3, <1>4 DEF Trail!Next, Trail!Record
<1>5. CASE rows' = rows
  <2>1. Trail!GiveUp({h})
    BY <1>2, <1>3, <1>5 DEF Trail!GiveUp
  <2> QED BY <1>1, <2>1 DEF Trail!Next
<1> QED BY <1>1, <1>4, <1>5

\* A successful LogEvent accepts the event; one that fails changes nothing.
LEMMA LogEventMaps ==
    ASSUME IInv, NEW e \in Events, NEW ctxDone \in BOOLEAN, LogEvent(e, ctxDone)
    PROVE  Trail!Next \/ UNCHANGED Trail!vars
<1>1. /\ e \notin Range(accepted)
      /\ rows' = rows
      /\ Held' = Held
  BY DEF LogEvent, tableVars, Held
<1>2. CASE eventQueue' = Append(eventQueue, e)
  <2>1. Range(eventQueue') = Range(eventQueue) \cup {e}
    BY <1>2, RangeAppend DEF IInv, TypeOK
  <2>2. e \notin Range(eventQueue) \cup Held \cup Range(rows)
    BY <1>1 DEF IInv, AcceptedIsAccountedFor
  <2>3. Trail!Accept(e)
    <3>1. Trail!Range(rows) = Range(rows)
      BY DEF Trail!Range, Range
    <3> QED BY <1>1, <2>1, <2>2, <3>1 DEF Trail!Accept
  <2> QED BY <2>3 DEF Trail!Next
<1>3. CASE eventQueue' = eventQueue
  BY <1>1, <1>3 DEF Trail!vars
<1> QED BY <1>2, <1>3, Zenon DEF LogEvent

\* The end of the process gives up everything that was in memory.
LEMMA EndProcessMaps ==
    ASSUME IInv, EndProcess
    PROVE  Trail!Next
<1>1. Held' = {} /\ eventQueue' = <<>> /\ rows' = rows
  BY DEF EndProcess, Held, Range, tableVars
<1>2. Range(eventQueue) \cup Held \subseteq Events
  BY LenProperties DEF IInv, TypeOK, Range, Held
<1>3. Trail!GiveUp(Range(eventQueue) \cup Held)
  BY <1>1, RangeEmpty DEF Trail!GiveUp
<1> QED BY <1>2, <1>3 DEF Trail!Next

\* The table of every run of the auditor is an append-only ledger of accepted
\* events: queue, workers, failures and restarts only delay or drop them.
THEOREM Refinement == Spec => TrailSpec
<1>1. Init => Trail!Init
  <2> SUFFICES ASSUME Init PROVE Trail!Init
    OBVIOUS
  <2>1. Held = {} /\ Range(eventQueue) = {} /\ rows = <<>>
    BY RangeEmpty DEF Init, Held, Range
  <2> QED BY <2>1 DEF Trail!Init
<1>2. IInv /\ [Next]_vars => [Trail!Next]_(Trail!vars)
  <2> SUFFICES ASSUME IInv, [Next]_vars
               PROVE  Trail!Next \/ UNCHANGED Trail!vars
    OBVIOUS
  <2>1. CASE UNCHANGED <<eventQueue, holding, rows>>
    BY <2>1 DEF Trail!vars, Held
  <2>2. ASSUME NEW w \in Workers, WorkerReturn(w)
        PROVE  UNCHANGED <<eventQueue, holding, rows>>
    BY <2>2 DEF WorkerReturn, tableVars
  <2>3. ASSUME NEW c \in Closers, Shutdown(c), ~EndProcess
        PROVE  UNCHANGED <<eventQueue, holding, rows>>
    BY <2>3 DEF Shutdown, tableVars
  <2>4. ASSUME NEW c \in Closers, ShutdownReturn(c)
        PROVE  UNCHANGED <<eventQueue, holding, rows>>
    BY <2>4 DEF ShutdownReturn, tableVars
  <2>5. ASSUME NewEnterpriseAuditor
        PROVE  UNCHANGED <<eventQueue, holding, rows>>
    BY <2>5 DEF NewEnterpriseAuditor, InitializeDatabase
  <2>6. ASSUME UNCHANGED vars PROVE UNCHANGED <<eventQueue, holding, rows>>
    BY <2>6 DEF vars
  <2> QED
    BY <2>1, <2>2, <2>3, <2>4, <2>5, <2>6, LogEventMaps, TakeEventMaps,
       PersistEventMaps, EndProcessMaps
       DEF Next, WorkerStep, ProcessEnds
<1> QED BY Invariance, <1>1, <1>2, PTL DEF Spec, TrailSpec, Trail!Spec
=============================================================================
