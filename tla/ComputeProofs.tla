--------------------------- MODULE ComputeProofs ----------------------------
(***************************************************************************)
(* What the threads of proof_of_work.c share is safe for every number of   *)
(* threads and every MAX_NONCE, and the two deques of the DQN agent stay   *)
(* aligned for every capacity and batch size.                              *)
(***************************************************************************)
EXTENDS ProofOfWork, ReplayLearner, FiniteSetTheorems, TLAPS

-----------------------------------------------------------------------------
(* The proof of work.                                                      *)

\* range and the ends of the slices are natural numbers within MAX_NONCE.
LEMMA SliceBounds ==
    /\ range \in Nat
    /\ \A th \in Threads : /\ th * range \in Nat
                           /\ (th + 1) * range \in Nat
                           /\ th * range <= (th + 1) * range
                           /\ (th + 1) * range <= MAX_NONCE
<1>0. MAX_NONCE \in Nat /\ threads \in Nat /\ threads >= 1
  BY PoWAssumption
<1>1. range \in Nat /\ threads * range <= MAX_NONCE
  BY <1>0 DEF range
<1>2. ASSUME NEW th \in Threads
      PROVE  /\ th * range \in Nat
             /\ (th + 1) * range \in Nat
             /\ th * range <= (th + 1) * range
             /\ (th + 1) * range <= MAX_NONCE
  <2>1. th \in Nat /\ th + 1 <= threads
    BY <1>0 DEF Threads
  <2>2. \A a, b, c \in Nat : a <= b => a * c <= b * c
    OBVIOUS
  <2>3. \A a, b \in Nat : a * b \in Nat
    OBVIOUS
  <2> QED
    BY <1>0, <1>1, <2>1, <2>2, <2>3
<1> QED
  BY <1>1, <1>2

\* What the threads know of one another: a thread is in its slice or just past
\* it, what is below a thread's nonce was hashed, and a thread stops inside its
\* slice, or a hit is recorded, only when found_nonce says so or nonce 0 was
\* the hit.
SearchInv ==
    /\ \A th \in Threads : nonce[th] \in (th * range)..((th + 1) * range)
    /\ \A th \in Threads : (th * range)..(nonce[th] - 1) \subseteq tried
    /\ \A th \in Threads :
          pc[th] = "done" => \/ nonce[th] > end_nonce(th)
                             \/ found_nonce # 0 \/ 0 \in hits
    /\ hits = {} \/ found_nonce # 0 \/ 0 \in hits
    /\ result # -1 => \A th \in Threads : pc[th] = "done"
    /\ result = 0 => found_nonce = 0

IInv == TypeOK /\ WinnerMetTarget /\ SearchInv

\* The invariant holds before the threads start.
LEMMA InitIInv == Init => IInv
<1> SUFFICES ASSUME Init PROVE IInv
  OBVIOUS
<1> USE SliceBounds DEF Init
<1>1. TypeOK
  <2>1. \A th \in Threads : th * range \in 0..MAX_NONCE
    BY PoWAssumption
  <2>2. nonce \in [Threads -> 0..MAX_NONCE]
    BY <2>1 DEF start_nonce
  <2> QED
    BY <2>2 DEF TypeOK
<1>2. WinnerMetTarget
  BY DEF WinnerMetTarget
<1>3. SearchInv
  BY DEF SearchInv, start_nonce
<1> QED
  BY <1>1, <1>2, <1>3 DEF IInv

\* The invariant is inductive: every step of every thread keeps it.
LEMMA StepIInv == IInv /\ [Next]_vars => IInv'
<1> SUFFICES ASSUME IInv, [Next]_vars PROVE IInv'
  OBVIOUS
<1> USE DEF IInv
<1>1. ASSUME NEW th \in Threads, Miss(th) PROVE IInv'
  <2> USE <1>1, SliceBounds DEF Miss, Hash, end_nonce
  <2>1. nonce[th] \in Nat /\ nonce[th] + 1 <= MAX_NONCE
    BY PoWAssumption DEF TypeOK
  <2>2. TypeOK'
    <3>1. nonce[th] + 1 \in 0..MAX_NONCE
      BY <2>1
    <3>2. nonce' \in [Threads -> 0..MAX_NONCE]
      BY <3>1 DEF TypeOK
    <3>3. tried' \subseteq 0..MAX_NONCE /\ hits' \subseteq tried'
      <4>1. tried \subseteq 0..MAX_NONCE /\ hits \subseteq tried
        BY DEF TypeOK
      <4>2. nonce[th] \in 0..MAX_NONCE
        BY <2>1, PoWAssumption
      <4>3. tried' = tried \cup {nonce[th]}
        OBVIOUS
      <4>4. hits' \subseteq hits \cup {nonce[th]}
        OBVIOUS
      <4> QED
        BY <4>1, <4>2, <4>3, <4>4, Zenon
    <3> QED
      BY <3>2, <3>3 DEF TypeOK
  <2>3. WinnerMetTarget'
    BY DEF WinnerMetTarget
  <2>4. SearchInv'
    BY <2>1 DEF SearchInv, TypeOK
  <2> QED
    BY <2>2, <2>3, <2>4
<1>2. ASSUME NEW th \in Threads, Hit(th) PROVE IInv'
  <2> USE <1>2, SliceBounds DEF Hit, Hash, FoundNonce, end_nonce
  <2>1. nonce[th] \in Nat /\ nonce[th] + 1 <= MAX_NONCE
    BY PoWAssumption DEF TypeOK
  <2>2. TypeOK'
    <3>1. tried' \subseteq 0..MAX_NONCE /\ hits' \subseteq tried'
      <4>1. tried \subseteq 0..MAX_NONCE /\ hits \subseteq tried
        BY DEF TypeOK
      <4>2. nonce[th] \in 0..MAX_NONCE
        BY <2>1, PoWAssumption
      <4>3. tried' = tried \cup {nonce[th]}
        OBVIOUS
      <4>4. hits' \subseteq hits \cup {nonce[th]}
        OBVIOUS
      <4> QED
        BY <4>1, <4>2, <4>3, <4>4, Zenon
    <3> QED
      BY <2>1, <3>1 DEF TypeOK
  <2>3. result = -1
    BY DEF SearchInv, TypeOK
  <2>4. WinnerMetTarget'
    BY <2>3 DEF WinnerMetTarget
  <2>5. found_nonce' # 0 \/ 0 \in hits'
    BY <2>1
  <2>6. SearchInv'
    BY <2>1, <2>3, <2>5 DEF SearchInv, TypeOK
  <2> QED
    BY <2>2, <2>4, <2>6
<1>3. ASSUME NEW th \in Threads, Stop(th) PROVE IInv'
  <2> USE <1>3 DEF Stop, MayStop
  <2>1. TypeOK'
    BY DEF TypeOK
  <2>2. WinnerMetTarget'
    BY DEF WinnerMetTarget
  <2>3. SearchInv'
    BY DEF SearchInv, TypeOK
  <2> QED
    BY <2>1, <2>2, <2>3
<1>4. CASE Return
  BY <1>4 DEF Return, TypeOK, WinnerMetTarget, SearchInv, end_nonce
<1>5. CASE UNCHANGED vars
  BY <1>5 DEF vars, TypeOK, WinnerMetTarget, SearchInv, end_nonce
<1> QED
  BY <1>1, <1>2, <1>3, <1>4, <1>5 DEF Next, Step

LEMMA Invariance == Spec => []IInv
  BY InitIInv, StepIInv, PTL DEF Spec

\* Every thread stays within its slice, whatever the number of threads.
THEOREM TypeCorrect == Spec => []TypeOK
<1>1. IInv => TypeOK
  BY DEF IInv
<1> QED
  BY <1>1, Invariance, PTL

\* A result of 1 rests on a nonce whose hash met the target, whatever the
\* races on found_nonce.
THEOREM WinnerIsSound == Spec => []WinnerMetTarget
<1>1. IInv => WinnerMetTarget
  BY DEF IInv
<1> QED
  BY <1>1, Invariance, PTL

\* proof_of_work gives up only after an exhaustive search of all slices,
\* unless nonce 0, which found_nonce cannot tell from "none", was a hit.
THEOREM GivingUpIsSound == Spec => []GivesUpOnlyWhenExhausted
<1>1. IInv => GivesUpOnlyWhenExhausted
  <2> SUFFICES ASSUME IInv, result = 0, 0 \notin hits
               PROVE  hits = {} /\ \A th \in Threads : Slice(th) \subseteq tried
    BY DEF GivesUpOnlyWhenExhausted
  <2>1. hits = {}
    BY DEF IInv, SearchInv
  <2>2. ASSUME NEW th \in Threads PROVE Slice(th) \subseteq tried
    <3>1. nonce[th] \in Nat /\ nonce[th] > (th + 1) * range - 1
      BY DEF IInv, SearchInv, TypeOK, end_nonce
    <3>2. Slice(th) \subseteq (th * range)..(nonce[th] - 1)
      BY <3>1, SliceBounds DEF Slice
    <3> QED
      BY <3>2 DEF IInv, SearchInv
  <2> QED
    BY <2>1, <2>2
<1> QED
  BY <1>1, Invariance, PTL

-----------------------------------------------------------------------------
(* The DQN agent.                                                          *)

-----------------------------------------------------------------------------
(* The DQN agent.                                                          *)

\* The buffer holds the last experiences in order; errors are known only for
\* experiences in it.
BufferInv ==
    /\ buffer \in Seq(Nat) /\ priorities \in Seq({"new", "error"})
    /\ experience \in Nat
    /\ \A i \in 1..Len(buffer) : buffer[i] + Len(buffer) = experience + i
    /\ \A y \in errors : \E i \in 1..Len(buffer) : y = buffer[i]
    /\ PrioritiesStayAligned

-----------------------------------------------------------------------------
\* What a push makes of a deque that is not full, and of a full one, which drops
\* its first element and moves the others.
Extends(r, q, e, S) ==
    /\ r \in Seq(S) /\ Len(r) = Len(q) + 1 /\ r[Len(q) + 1] = e
    /\ \A i \in 1..Len(q) : r[i] = q[i]

Moves(r, q, e, S) ==
    /\ r \in Seq(S) /\ Len(r) = Len(q) /\ r[Len(q)] = e
    /\ \A i \in 1..(Len(q) - 1) : r[i] = q[i + 1]

\* Push appends to a deque that is not full.
LEMMA PushShort ==
    ASSUME NEW S, NEW q \in Seq(S), NEW e \in S, Len(q) < buffer_size
    PROVE  Extends(Push(q, e), q, e, S)
BY DEF Push, Extends

\* Push drops the oldest entry of a deque that is full.
LEMMA PushFull ==
    ASSUME NEW S, NEW q \in Seq(S), NEW e \in S,
           Len(q) = buffer_size
    PROVE  Moves(Push(q, e), q, e, S)
<1>1. Push(q, e) = Append(Tail(q), e) /\ q # <<>>
  BY LearnerAssumption DEF Push
<1>2. Tail(q) \in Seq(S) /\ Len(Tail(q)) = Len(q) - 1
      /\ \A i \in 1..(Len(q) - 1) : Tail(q)[i] = q[i + 1]
  BY <1>1
<1> QED BY <1>1, <1>2 DEF Moves

\* The buffer holds the latest experiences in the order they came.
LEMMA ExperienceAt ==
    ASSUME BufferInv, NEW i \in 1..Len(buffer)
    PROVE  /\ buffer[i] + Len(buffer) = experience + i
           /\ buffer[i] \in Nat /\ Len(buffer) \in Nat /\ experience \in Nat
BY DEF BufferInv

\* The experience to come has no error yet.
LEMMA NewIsLast ==
    ASSUME BufferInv PROVE experience + 1 \notin errors
<1> SUFFICES ASSUME NEW i \in 1..Len(buffer) PROVE buffer[i] # experience + 1
  BY Zenon DEF BufferInv
<1> QED BY ExperienceAt

\* A priority comes from an error exactly if its experience had one.
LEMMA PriorityAt ==
    ASSUME BufferInv, NEW i \in 1..Len(buffer)
    PROVE  priorities[i] = "error" <=> buffer[i] \in errors
<1>1. DOMAIN buffer = 1..Len(buffer)
  BY DEF BufferInv
<1> QED BY <1>1, Zenon DEF BufferInv, PrioritiesStayAligned

\* What a buffer b and priorities p must satisfy after a push, given the errors E.
Aligned(b, p, E) ==
    /\ b \in Seq(Nat) /\ p \in Seq({"new", "error"})
    /\ Len(b) = Len(p) /\ Len(b) <= buffer_size
    /\ \A i \in 1..Len(b) : b[i] + Len(b) = experience + 1 + i
    /\ \A i \in 1..Len(b) : p[i] = "error" <=> b[i] \in E

\* Appending to both deques keeps them aligned.
LEMMA AlignShort ==
    ASSUME BufferInv, Len(buffer) < buffer_size, NEW b, NEW p,
           Extends(b, buffer, experience + 1, Nat),
           Extends(p, priorities, "new", {"new", "error"})
    PROVE  Aligned(b, p, errors)
<1>1. Len(priorities) = Len(buffer) /\ Len(buffer) \in Nat /\ experience \in Nat
  BY DEF BufferInv, PrioritiesStayAligned
<1>2. Len(b) = Len(buffer) + 1 /\ Len(p) = Len(buffer) + 1
  BY <1>1, Zenon DEF Extends
<1>3. ASSUME NEW i \in 1..Len(b)
      PROVE  b[i] + Len(b) = experience + 1 + i /\ (p[i] = "error" <=> b[i] \in errors)
  <2>1. CASE i = Len(buffer) + 1
    <3>1. b[i] = experience + 1 /\ p[i] = "new"
      BY <2>1, <1>1, Zenon DEF Extends
    <3>2. b[i] + Len(b) = experience + 1 + i
      BY <2>1, <3>1, <1>1, <1>2
    <3>3. p[i] # "error"
      BY <3>1
    <3> QED BY <3>1, <3>2, <3>3, NewIsLast, Zenon
  <2>2. CASE i \in 1..Len(buffer)
    <3>1. b[i] = buffer[i] /\ p[i] = priorities[i]
      BY <2>2, <1>1, Zenon DEF Extends
    <3>2. buffer[i] + Len(buffer) = experience + i /\ buffer[i] \in Nat
      BY <2>2, ExperienceAt, Zenon
    <3>3. i \in Nat
      BY <2>2, <1>1
    <3>4. b[i] + Len(b) = experience + 1 + i
      <4>1. buffer[i] + (Len(buffer) + 1) = experience + 1 + i
        BY <3>2, <3>3, <1>1
      <4> QED BY <4>1, <3>1, <1>2, Zenon
    <3> QED BY <2>2, <3>1, <3>4, PriorityAt, Zenon
  <2> QED BY <2>1, <2>2, <1>1, <1>2
<1>4. b \in Seq(Nat) /\ p \in Seq({"new", "error"})
  BY Zenon DEF Extends
<1>5. Len(b) <= buffer_size
  BY <1>1, <1>2, LearnerAssumption
<1> QED BY <1>2, <1>3, <1>4, <1>5, Zenon DEF Aligned

\* So does dropping the oldest entry of both.
LEMMA AlignFull ==
    ASSUME BufferInv, Len(buffer) = buffer_size, NEW b, NEW p,
           Moves(b, buffer, experience + 1, Nat),
           Moves(p, priorities, "new", {"new", "error"})
    PROVE  Aligned(b, p, errors)
<1>1. Len(priorities) = Len(buffer) /\ Len(buffer) \in Nat /\ experience \in Nat
  BY DEF BufferInv, PrioritiesStayAligned
<1>2. Len(b) = Len(buffer) /\ Len(p) = Len(buffer)
  BY <1>1, Zenon DEF Moves
<1>3. ASSUME NEW i \in 1..Len(b)
      PROVE  b[i] + Len(b) = experience + 1 + i /\ (p[i] = "error" <=> b[i] \in errors)
  <2>1. CASE i = Len(buffer)
    <3>1. b[i] = experience + 1 /\ p[i] = "new"
      BY <2>1, <1>1, Zenon DEF Moves
    <3>2. p[i] # "error"
      BY <3>1
    <3> QED BY <2>1, <3>1, <3>2, <1>2, NewIsLast, Zenon
  <2>2. CASE i \in 1..(Len(buffer) - 1)
    <3>1. i + 1 \in 1..Len(buffer) /\ i \in Nat
      BY <2>2, <1>1
    <3>2. b[i] = buffer[i + 1] /\ p[i] = priorities[i + 1]
      BY <2>2, <1>1, Zenon DEF Moves
    <3>3. buffer[i + 1] + Len(buffer) = experience + (i + 1)
      BY <3>1, ExperienceAt, Zenon
    <3>4. experience + (i + 1) = experience + 1 + i
      BY <3>1, <1>1
    <3> QED BY <3>1, <3>2, <3>3, <3>4, <1>2, PriorityAt, Zenon
  <2> QED BY <2>1, <2>2, <1>1, <1>2
<1>4. b \in Seq(Nat) /\ p \in Seq({"new", "error"})
  BY Zenon DEF Moves
<1>5. Len(b) <= buffer_size
  BY <1>1, <1>2
<1> QED BY <1>2, <1>3, <1>4, <1>5, Zenon DEF Aligned

\* After both pushes the deques are aligned with the errors known so far.
LEMMA PushesAlign ==
    ASSUME BufferInv
    PROVE  Aligned(Push(buffer, experience + 1), PushPriority(priorities, "new"), errors)
<1>1. buffer \in Seq(Nat) /\ experience + 1 \in Nat
  BY DEF BufferInv
<1>2. priorities \in Seq({"new", "error"}) /\ "new" \in {"new", "error"}
  BY DEF BufferInv
<1>3. Len(priorities) = Len(buffer) /\ buffer_size \in Nat
      /\ (Len(buffer) < buffer_size \/ Len(buffer) = buffer_size)
  BY <1>1, LearnerAssumption DEF BufferInv, PrioritiesStayAligned
<1>4. CASE Len(buffer) < buffer_size
  <2>1. Extends(Push(buffer, experience + 1), buffer, experience + 1, Nat)
    BY <1>1, <1>4, PushShort, Zenon
  <2>2. Extends(Push(priorities, "new"), priorities, "new", {"new", "error"})
    BY <1>2, <1>3, <1>4, PushShort, Zenon
  <2> QED BY <1>3, <1>4, <2>1, <2>2, AlignShort, Zenon DEF PushPriority
<1>5. CASE Len(buffer) = buffer_size
  <2>1. Moves(Push(buffer, experience + 1), buffer, experience + 1, Nat)
    BY <1>1, <1>5, PushFull, Zenon
  <2>2. Moves(Push(priorities, "new"), priorities, "new", {"new", "error"})
    BY <1>2, <1>3, <1>5, PushFull, Zenon
  <2> QED BY <1>5, <2>1, <2>2, AlignFull, Zenon DEF PushPriority
<1> QED BY <1>3, <1>4, <1>5

-----------------------------------------------------------------------------
\* The places of a buffer hold different experiences.
LEMMA AlignedIsInjective ==
    ASSUME NEW b, NEW p, NEW E, experience \in Nat, Aligned(b, p, E),
           NEW i \in 1..Len(b), NEW j \in 1..Len(b), b[i] = b[j]
    PROVE  i = j
<1>1. /\ b[i] + Len(b) = experience + 1 + i /\ b[j] + Len(b) = experience + 1 + j
      /\ b \in Seq(Nat)
  BY DEF Aligned
<1>2. Len(b) \in Nat /\ b[i] \in Nat /\ i \in Nat /\ j \in Nat
  BY <1>1
<1> QED BY <1>1, <1>2

\* Setting the priorities of the sampled experiences keeps them aligned.
LEMMA AlignedAfter ==
    ASSUME BufferInv, NEW b, NEW p, NEW R \in SUBSET (1..Len(b)),
           Aligned(b, p, errors), experience' = experience + 1, buffer' = b,
           priorities' = [i \in DOMAIN p |-> IF i \in R THEN "error" ELSE p[i]],
           errors' = (errors \cup {b[i] : i \in R}) \cap Range(b)
    PROVE  BufferInv'
<1>1. /\ b \in Seq(Nat) /\ p \in Seq({"new", "error"}) /\ Len(b) = Len(p)
      /\ Len(b) <= buffer_size
  BY Zenon DEF Aligned
<1>2. DOMAIN b = 1..Len(b) /\ DOMAIN p = 1..Len(b) /\ Len(b) \in Nat
  BY <1>1
<1>3. priorities' \in Seq({"new", "error"}) /\ Len(priorities') = Len(b)
  <2>1. priorities' \in [1..Len(b) -> {"new", "error"}]
    BY <1>1, <1>2
  <2> QED BY <2>1, <1>2
<1>4. experience \in Nat /\ experience' \in Nat
  BY DEF BufferInv
<1>5. \A i \in 1..Len(b) : b[i] + Len(b) = experience' + i
  BY Zenon DEF Aligned
<1>6. \A y \in errors' : \E i \in 1..Len(b) : y = b[i]
  BY <1>2 DEF Range
<1>7. ASSUME NEW i \in 1..Len(b) PROVE priorities'[i] = "error" <=> b[i] \in errors'
  <2>1. priorities'[i] = IF i \in R THEN "error" ELSE p[i]
    BY <1>2
  <2>2. b[i] \in Range(b)
    BY <1>2 DEF Range
  <2>3. CASE i \in R
    BY <2>1, <2>2, <2>3
  <2>4. CASE i \notin R
    <3>1. \A j \in R : b[j] # b[i]
      BY <1>4, <2>4, AlignedIsInjective, Zenon
    <3>2. p[i] = "error" <=> b[i] \in errors
      BY Zenon DEF Aligned
    <3>3. b[i] \in errors' <=> b[i] \in errors
      BY <3>1, <2>2
    <3>4. priorities'[i] = p[i]
      BY <2>1, <2>4
    <3> QED BY <3>2, <3>3, <3>4, Zenon
  <2> QED BY <2>3, <2>4
<1>8. PrioritiesStayAligned'
  <2>1. Len(buffer') = Len(priorities') /\ Len(buffer') <= buffer_size
    BY <1>1, <1>3
  <2> QED BY <2>1, <1>2, <1>7, Zenon DEF PrioritiesStayAligned
<1> QED BY <1>1, <1>3, <1>4, <1>5, <1>6, <1>8, Zenon DEF BufferInv

\* A step of the agent keeps its deques aligned.
LEMMA AgentStepAligns ==
    ASSUME BufferInv, AgentStep
    PROVE  BufferInv'
<1> DEFINE b == Push(buffer, experience + 1)
           p == PushPriority(priorities, "new")
<1>1. Aligned(b, p, errors)
  BY PushesAlign
<1>2. /\ experience' = experience + 1
      /\ \/ \E indices \in Batches(Len(b)) : Learn(b, p, indices)
         \/ buffer' = b /\ priorities' = p /\ errors' = errors \cap Range(b)
  BY DEF AgentStep
<1>3. p \in Seq({"new", "error"}) /\ b \in Seq(Nat)
  BY <1>1, Zenon DEF Aligned
<1> HIDE DEF b, p
<1>4. ASSUME NEW indices \in Batches(Len(b)), Learn(b, p, indices) PROVE BufferInv'
  <2>1. Range(indices) \in SUBSET (1..Len(b))
    BY DEF Range, Batches
  <2>2. /\ buffer' = b
        /\ priorities' = [i \in DOMAIN p |-> IF i \in Range(indices) THEN "error" ELSE p[i]]
        /\ errors' = (errors \cup {b[i] : i \in Range(indices)}) \cap Range(b)
    BY <1>4, Zenon DEF Learn, UpdatePriorities
  <2> QED BY <1>1, <1>2, <2>1, <2>2, AlignedAfter, Zenon
<1>5. CASE buffer' = b /\ priorities' = p /\ errors' = errors \cap Range(b)
  <2>1. /\ priorities' = [i \in DOMAIN p |-> IF i \in {} THEN "error" ELSE p[i]]
        /\ errors' = (errors \cup {b[i] : i \in {}}) \cap Range(b)
    BY <1>3, <1>5
  <2>2. {} \in SUBSET (1..Len(b))
    OBVIOUS
  <2> QED BY <1>1, <1>2, <1>5, <2>1, <2>2, AlignedAfter, Zenon
<1> QED BY <1>2, <1>4, <1>5

\* Two empty deques are aligned.
LEMMA EmptyAligns ==
    ASSUME buffer = <<>>, priorities = <<>>, experience = 0, errors = {}
    PROVE  BufferInv
<1>1. Len(buffer) = 0 /\ Len(priorities) = 0 /\ DOMAIN buffer = {} /\ 1..Len(buffer) = {}
  OBVIOUS
<1>2. PrioritiesStayAligned
  BY <1>1, LearnerAssumption DEF PrioritiesStayAligned
<1> QED BY <1>1, <1>2 DEF BufferInv

\* An agent starts with empty deques, whatever checkpoint it loads.
LEMMA NewAligns ==
    ASSUME NEW l, NEW m, NEW e, NewAgent(l, m, e)
    PROVE  BufferInv'
<1>1. buffer' = <<>> /\ priorities' = <<>> /\ experience' = 0 /\ errors' = {}
  BY DEF NewAgent
<1>2. Len(buffer') = 0 /\ Len(priorities') = 0 /\ DOMAIN buffer' = {} /\ 1..Len(buffer') = {}
  BY <1>1
<1>3. PrioritiesStayAligned'
  BY <1>2, LearnerAssumption DEF PrioritiesStayAligned
<1> QED BY <1>1, <1>2, <1>3 DEF BufferInv

\* The invariant of the buffer is inductive.
LEMMA BufferStep == BufferInv /\ [LearnerNext]_learnerVars => BufferInv'
<1> SUFFICES ASSUME BufferInv, [LearnerNext]_learnerVars PROVE BufferInv'
  OBVIOUS
<1>1. ASSUME NEW done \in BOOLEAN, TrainStep(done) PROVE BufferInv'
  BY <1>1, AgentStepAligns, Zenon DEF TrainStep
<1>2. ASSUME NEW name, Crash \/ Serve(name) PROVE BufferInv'
  BY <1>2, NewAligns, Zenon DEF Crash, Serve
<1>3. CASE Train \/ EndSave \/ UNCHANGED learnerVars
  <2>1. UNCHANGED <<buffer, priorities, experience, errors>>
    BY <1>3 DEF learnerVars, Train, EndSave, memory
  <2> QED BY <2>1 DEF BufferInv, PrioritiesStayAligned
<1> QED BY <1>1, <1>2, <1>3 DEF LearnerNext

\* A priority always belongs to the experience at its place in the other deque,
\* for every size of the buffer and of a batch.
THEOREM PrioritiesAlign == LearnerSpec => []PrioritiesStayAligned
<1>1. LearnerInit => BufferInv
  BY EmptyAligns DEF LearnerInit
<1>2. BufferInv => PrioritiesStayAligned
  BY DEF BufferInv
<1> QED BY <1>1, <1>2, BufferStep, PTL DEF LearnerSpec
=============================================================================
