----------------------------- MODULE ProofOfWork ----------------------------
(***************************************************************************)
(* proof_of_work (platform/market_mechanism/                               *)
(* reputation_system/proof_of_work.c): threads search slices of the nonces *)
(* for one whose hash meets the target and share the variable found_nonce  *)
(* without a lock.                                                         *)
(*                                                                         *)
(* A hash is taken of 64 bytes of which the code sets 36; the other 28 are *)
(* what the stack happens to hold.  So whether a nonce meets the target is *)
(* not a function of the nonce: it is chosen each time one is hashed.      *)
(* The plain reads of found_nonce race with its writes: a read gives its   *)
(* value or, when the compiler keeps the first one in a register, zero.    *)
(***************************************************************************)
EXTENDS Integers

CONSTANTS
    MAX_NONCE,
    threads

ASSUME PoWAssumption ==
    MAX_NONCE \in Nat /\ threads \in 1..MAX_NONCE

VARIABLES
    pc, nonce,       \* of each thread
    found_nonce,
    attempts,        \* of this call
    result,          \* what proof_of_work returned, -1 before it did
    tried, hits      \* history: nonces hashed, nonces whose hash met the target

vars == <<pc, nonce, found_nonce, attempts, result, tried, hits>>

Threads == 0..(threads - 1)

range == MAX_NONCE \div threads
start_nonce(t) == t * range

end_nonce_WithRest(t) ==
    IF t = threads - 1 THEN MAX_NONCE ELSE (t + 1) * range - 1
end_nonce(t) == (t + 1) * range - 1

Init ==
    /\ pc = [t \in Threads |-> "search"]
    /\ nonce = [t \in Threads |-> start_nonce(t)]
    /\ found_nonce = 0
    /\ attempts = 0
    /\ result = -1
    /\ tried = {} /\ hits = {}

-----------------------------------------------------------------------------
(* compute_range.  The condition of the loop may have read a stale zero in *)
(* found_nonce, so that a thread may always go on within its slice.        *)

Hash(t) ==
    /\ pc[t] = "search"
    /\ nonce[t] <= end_nonce(t)
    /\ attempts' = attempts + 1
    /\ tried' = tried \cup {nonce[t]}
    /\ UNCHANGED result

Miss(t) ==
    /\ Hash(t)
    /\ nonce' = [nonce EXCEPT ![t] = @ + 1]
    /\ UNCHANGED <<pc, found_nonce, hits>>

FoundNonce_Next(t) == nonce[t] + 1
FoundNonce(t) == nonce[t]

Hit(t) ==
    /\ Hash(t)
    /\ hits' = hits \cup {nonce[t]}
    /\ found_nonce' = FoundNonce(t)
    /\ pc' = [pc EXCEPT ![t] = "done"]
    /\ UNCHANGED nonce

MayStop_AtEnd(t) == nonce[t] >= end_nonce(t) \/ found_nonce # 0
MayStop(t) == nonce[t] > end_nonce(t) \/ found_nonce # 0

Stop(t) ==
    /\ pc[t] = "search"
    /\ MayStop(t)
    /\ pc' = [pc EXCEPT ![t] = "done"]
    /\ UNCHANGED <<nonce, found_nonce, attempts, result, tried, hits>>

Step(t) == Miss(t) \/ Hit(t) \/ Stop(t)

-----------------------------------------------------------------------------
\* proof_of_work after it joined the threads.
Return ==
    /\ result = -1
    /\ \A t \in Threads : pc[t] = "done"
    /\ result' = IF found_nonce # 0 THEN 1 ELSE 0
    /\ UNCHANGED <<pc, nonce, found_nonce, attempts, tried, hits>>

Next == (\E t \in Threads : Step(t)) \/ Return

Spec == Init /\ [][Next]_vars

\* The operating system runs every thread that has not returned.
FairSpec == Spec /\ (\A t \in Threads : WF_vars(Step(t))) /\ WF_vars(Return)

-----------------------------------------------------------------------------
\* The nonces thread t is to try.
Slice(t) == (t * range)..((t + 1) * range - 1)

\* In particular the loop variable does not wrap round past MAX_NONCE.
TypeOK ==
    /\ pc \in [Threads -> {"search", "done"}]
    /\ nonce \in [Threads -> 0..MAX_NONCE]
    /\ found_nonce \in Nat
    /\ attempts \in Nat
    /\ result \in {-1, 0, 1}
    /\ tried \subseteq 0..MAX_NONCE
    /\ hits \subseteq tried

\* found_nonce, however its unlocked writes race, holds zero or a nonce whose
\* hash met the target in some thread, so that a result of 1 is never a claim
\* about a nonce nobody found.
WinnerMetTarget ==
    /\ found_nonce # 0 => found_nonce \in hits
    /\ result = 1 => found_nonce # 0

\* When proof_of_work gives up and the hash of nonce 0 did not meet the
\* target, every nonce of every slice was hashed and none met it: a thread
\* stops early only because another one found a nonce, and what that one wrote
\* is not lost to a later write.
GivesUpOnlyWhenExhausted ==
    result = 0 /\ 0 \notin hits
        => hits = {} /\ \A t \in Threads : Slice(t) \subseteq tried

\* "No solution found in range", as main prints when the result is 0.
NoSolutionInRange == result = 0 => hits = {}

\* Every thread reaches the end of its loop and proof_of_work returns.
Returns == <>(result # -1)
=============================================================================
