------------------------------ MODULE SdkClient -----------------------------
(***************************************************************************)
(* NuzonClient (developer_experience/sdk/python/nuzon/client.py): threads  *)
(* that share one client call execute, which retries network errors,       *)
(* stream, execute_async and close.  A response hook keeps the circuit     *)
(* breaker in two plain attributes; each of its attribute reads and writes *)
(* is a step of its own, since the interpreter may switch threads between  *)
(* them.                                                                   *)
(***************************************************************************)
EXTENDS Naturals

CONSTANTS
    Threads,
    Threshold,       \* circuit_breaker_threshold
    MaxAttempts,     \* stop_after_attempt
    MaxResponses     \* bound on the number of responses

\* The threshold is positive, as the default in the code is.
ASSUME SdkAssumption == Threshold \in Nat \ {0}

VARIABLES
    circuit_open, failure_count,
    client,          \* the httpx.Client: "open" or "closed"
    async_client,    \* the httpx.AsyncClient: "new" or "closed"
    pc,              \* where each thread is
    kind,            \* "execute" or "stream"
    attempts,        \* attempts begun by its execute call
    got,             \* the class of the status of the response it has got
    ended,           \* how its last call ended: "response", "NuzonError" or "error",
                     \* and "none" until it has
    local,           \* the value += has read
    consecutive,     \* 5xx responses since the last success, in arrival order
    responses

breaker == <<circuit_open, failure_count>>
clients == <<client, async_client>>
callVars == <<kind, attempts, got, ended>>
history == <<consecutive, responses>>
sdkVars == <<circuit_open, failure_count, client, async_client, pc, kind, attempts, got, ended,
             local, consecutive, responses>>

SdkInit ==
    /\ circuit_open = FALSE /\ failure_count = 0
    /\ client = "open" /\ async_client = "new"
    /\ pc = [t \in Threads |-> "idle"]
    /\ kind = [t \in Threads |-> "execute"]
    /\ attempts = [t \in Threads |-> 0]
    /\ got = [t \in Threads |-> "none"]
    /\ ended = [t \in Threads |-> "none"]
    /\ local = [t \in Threads |-> 0]
    /\ consecutive = 0 /\ responses = 0

SdkGoto(t, place) == pc' = [pc EXCEPT ![t] = place]

End(t, how) ==
    /\ SdkGoto(t, "idle")
    /\ got' = [got EXCEPT ![t] = "none"]
    /\ ended' = [ended EXCEPT ![t] = how]

-----------------------------------------------------------------------------
(* The calls.                                                              *)

Begin(t, method) ==
    /\ pc[t] = "idle"
    /\ kind' = [kind EXCEPT ![t] = method]
    /\ ended' = [ended EXCEPT ![t] = "none"]
    /\ UNCHANGED <<breaker, clients, got, local, history>>

Execute(t) ==
    /\ Begin(t, "execute")
    /\ SdkGoto(t, "attempt")
    /\ attempts' = [attempts EXCEPT ![t] = 0]

CountAttempt(t) == attempts' = [attempts EXCEPT ![t] = @ + 1]

\* Each attempt looks at the breaker first; an open one raises NuzonError,
\* which is not retried.  Nor is the RuntimeError of a closed client.
Attempt(t) ==
    /\ pc[t] = "attempt"
    /\ CountAttempt(t)
    /\ \/ circuit_open /\ End(t, "NuzonError")
       \/ ~circuit_open /\ client = "closed" /\ End(t, "error")
       \/ ~circuit_open /\ client = "open" /\ SdkGoto(t, "sent") /\ UNCHANGED <<got, ended>>
    /\ UNCHANGED <<breaker, clients, kind, local, history>>

\* stream does not look at the breaker.
Stream(t) ==
    /\ client = "open"
    /\ Begin(t, "stream")
    /\ SdkGoto(t, "sent")
    /\ UNCHANGED attempts

MayRetry(t) == kind[t] = "execute" /\ attempts[t] < MaxAttempts

\* The request fails, or the body of a response that the hook has seen cannot be
\* read.  A NetworkError or a TimeoutException is retried; after the last attempt
\* tenacity raises an error of its own.  Other errors are not retried.
TransportError(t) ==
    /\ pc[t] \in {"sent", "handle"}
    /\ \/ /\ MayRetry(t)
          /\ SdkGoto(t, "attempt")
          /\ got' = [got EXCEPT ![t] = "none"] /\ UNCHANGED ended
       \/ End(t, "error")
    /\ UNCHANGED <<breaker, clients, kind, attempts, local, history>>

\* `async with` opens the client and closes it again, so only the first call
\* gets as far as a request, whose hook cannot be awaited.
ExecuteAsync ==
    /\ ~circuit_open
    /\ async_client = "new"
    /\ async_client' = "closed"
    /\ UNCHANGED <<breaker, client, pc, callVars, local, history>>

CloseClients ==
    /\ client = "open"
    /\ client' = "closed"
    /\ UNCHANGED <<breaker, async_client, pc, callVars, local, history>>

-----------------------------------------------------------------------------
(* _validate_response.                                                     *)

AfterClientError_Resets == "reset"

\* Neither branch of the hook is for a 4xx response.
AfterClientError == "handle"

Response(t) ==
    /\ pc[t] = "sent"
    /\ responses < MaxResponses
    /\ responses' = responses + 1
    /\ \E class \in {"2xx", "4xx", "5xx"} :
        /\ got' = [got EXCEPT ![t] = class]
        /\ \/ class = "5xx" /\ consecutive' = consecutive + 1 /\ SdkGoto(t, "load")
           \/ class = "2xx" /\ consecutive' = 0 /\ SdkGoto(t, "reset")
           \/ class = "4xx" /\ UNCHANGED consecutive /\ SdkGoto(t, AfterClientError)
    /\ UNCHANGED <<breaker, clients, kind, attempts, ended, local>>

LoadCount(t) ==
    /\ pc[t] = "load"
    /\ local' = [local EXCEPT ![t] = failure_count]
    /\ SdkGoto(t, "store")
    /\ UNCHANGED <<breaker, clients, callVars, history>>

StoreCount(t) ==
    /\ pc[t] = "store"
    /\ failure_count' = local[t] + 1
    /\ SdkGoto(t, "compare")
    /\ UNCHANGED <<circuit_open, clients, callVars, local, history>>

ThresholdReached == failure_count >= Threshold

Compare(t) ==
    /\ pc[t] = "compare"
    /\ SdkGoto(t, IF ThresholdReached THEN "trip" ELSE "handle")
    /\ UNCHANGED <<breaker, clients, callVars, local, history>>

Trip(t) ==
    /\ pc[t] = "trip"
    /\ circuit_open' = TRUE
    /\ SdkGoto(t, "handle")
    /\ UNCHANGED <<failure_count, clients, callVars, local, history>>

ResetCount(t) ==
    /\ pc[t] = "reset"
    /\ failure_count' = 0
    /\ SdkGoto(t, "reclose")
    /\ UNCHANGED <<circuit_open, clients, callVars, local, history>>

Reclose(t) ==
    /\ pc[t] = "reclose"
    /\ circuit_open' = FALSE
    /\ SdkGoto(t, "handle")
    /\ UNCHANGED <<failure_count, clients, callVars, local, history>>

-----------------------------------------------------------------------------
(* What the call makes of the response once the hook has seen it.          *)

\* The json of the error's body is read first, and may raise.
HandleHttpError == {"NuzonError", "error"}

HandleValidationError == {"NuzonError"}

\* A body that is not the JSON of an object raises neither of the two errors
\* that execute handles; stream handles none, and does not look at the status.
Endings(t) ==
    CASE kind[t] = "stream" -> {"response", "error"}
      [] kind[t] = "execute" /\ got[t] = "2xx" ->
            {"response", "error"} \cup HandleValidationError
      [] kind[t] = "execute" /\ got[t] # "2xx" -> HandleHttpError

HandleOutcome(t) ==
    /\ pc[t] = "handle"
    /\ \E how \in Endings(t) : End(t, how)
    /\ UNCHANGED <<breaker, clients, kind, attempts, local, history>>

-----------------------------------------------------------------------------
Hook(t) ==
    LoadCount(t) \/ StoreCount(t) \/ Compare(t) \/ Trip(t) \/ ResetCount(t) \/ Reclose(t)

SdkProceed(t) == Attempt(t) \/ TransportError(t) \/ Response(t) \/ Hook(t) \/ HandleOutcome(t)

SdkNext ==
    \/ \E t \in Threads : Execute(t) \/ Stream(t) \/ SdkProceed(t)
    \/ ExecuteAsync
    \/ CloseClients

\* A request is answered or fails, at the latest by its timeout.
SdkSpec ==
    SdkInit /\ [][SdkNext]_sdkVars /\ \A t \in Threads : WF_sdkVars(SdkProceed(t))

-----------------------------------------------------------------------------
\* client.py:49, "Consecutive failures before circuit opens": whenever no
\* response is being looked at, the circuit is open exactly if as many 5xx
\* responses as the threshold have come in since the last success.  True of
\* one thread, whatever it calls; not of two.
OpensOnConsecutiveFailures ==
    (\A t \in Threads : pc[t] \in {"idle", "attempt", "sent", "handle"})
        => (circuit_open <=> consecutive >= Threshold)

\* With a response or an exception: execute would return None if a handler of an
\* error did not raise.
SdkReturned(t) == pc[t] = "idle" /\ ended[t] # "none"
=============================================================================
