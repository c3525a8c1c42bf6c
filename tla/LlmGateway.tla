----------------------------- MODULE LlmGateway -----------------------------
(***************************************************************************)
(* MistralOrchestrator (core/cognition_engine/llm_orchestrator/            *)
(* mistral_integration.py): route_request checks the prompt, looks in the  *)
(* cache, and calls the models of fallback_order one after the other until *)
(* one answers.  Nothing sets a circuit breaker and the health check       *)
(* always succeeds, so every model counts as available.  The configuration *)
(* that _load_config builds has no cache_ttl.                              *)
(***************************************************************************)
EXTENDS Naturals, Sequences

CONSTANTS
    Models,
    Orders,          \* values of fallback_order, sequences of models,
    Retries          \* and of max_retries

ASSUME LlmAssumption == Orders \subseteq Seq(Models) /\ Retries \subseteq Nat

VARIABLES
    config,          \* strategy, fallback_order, max_retries and the clients made
    at,              \* where route_request is: "idle", "cache", "call", "store" or "end"
    called,          \* the models called for this request, in order
    answered,        \* whether the last of them answered
    status           \* of the response: 0 before there is one

llmVars == <<config, at, called, answered, status>>

Configs ==
    [strategy : {"quality_first", "cost_optimized"},
     fallback_order : Orders, max_retries : Retries, clients : SUBSET Models]

LlmInit ==
    /\ config = [strategy |-> "quality_first", fallback_order |-> <<>>,
                 max_retries |-> 0, clients |-> {}]
    /\ at = "idle"
    /\ called = <<>> /\ answered = FALSE
    /\ status = 0

\* The two handlers of route_request: 422 for a ValidationError, 500 for any
\* other Exception.
Fail(code) == at' = "end" /\ status' = code

\* _validate_payload finds the prompt too long.  Its HTTPException 413 is not a
\* ValidationError, and becomes a 500.
ValidatePayloadRaises == Fail(500)

\* route_request up to the cache.
RouteRequest ==
    /\ at = "idle"
    /\ config' \in Configs
    /\ \/ ValidatePayloadRaises
       \/ at' = "cache" /\ UNCHANGED status
    /\ UNCHANGED <<called, answered>>

\* Nothing is ever cached.  The selectors of the other strategies do not exist,
\* and quality_first takes the first model, if there is one.
CheckCacheAndSelect ==
    /\ at = "cache"
    /\ \/ Fail(500)                               \* redis.get raises
       \/ IF config.strategy = "quality_first" /\ config.fallback_order # <<>>
          THEN at' = "call" /\ UNCHANGED status
          ELSE Fail(500)
    /\ UNCHANGED <<config, called, answered>>

-----------------------------------------------------------------------------
(* _execute_with_fallback.                                                 *)

AttemptNumber == Len(called) + 1

GiveUp_AfterOneMore ==
    AttemptNumber = config.max_retries + 1 \/ AttemptNumber = Len(config.fallback_order)

\* The exception of this attempt is raised, or the models are exhausted.
GiveUp == AttemptNumber = config.max_retries \/ AttemptNumber = Len(config.fallback_order)

Model == config.fallback_order[AttemptNumber]

\* A model without a client raises a KeyError, which counts as a failure.  The
\* error of the last attempt that max_retries allows is raised as it is, and a
\* client's may be a ValidationError.
CallFails ==
    /\ at = "call"
    /\ called' = Append(called, Model)
    /\ \/ GiveUp /\ Fail(500)
       \/ AttemptNumber = config.max_retries /\ Model \in config.clients /\ Fail(422)
       \/ ~GiveUp /\ UNCHANGED <<at, status>>
    /\ UNCHANGED <<config, answered>>

CallAnswers ==
    /\ at = "call"
    /\ Model \in config.clients
    /\ called' = Append(called, Model)
    /\ answered' = TRUE
    /\ at' = "store"
    /\ UNCHANGED <<config, status>>

\* _cache_response evaluates config["cache_ttl"] before it stores anything.
CacheResponse == at = "store" /\ Fail(500) /\ UNCHANGED <<config, called, answered>>

-----------------------------------------------------------------------------
LlmProceed == CheckCacheAndSelect \/ CallFails \/ CallAnswers \/ CacheResponse

LlmNext == RouteRequest \/ LlmProceed

\* Every await completes: the clients and redis have timeouts.
LlmSpec == LlmInit /\ [][LlmNext]_llmVars /\ WF_llmVars(LlmProceed)

-----------------------------------------------------------------------------
\* The models called are the first of fallback_order, no more than max_retries
\* of them when that is positive, and no further one after an answer; a request
\* ends without an answer only when they are exhausted or none was to be called.
FallsBackInOrder ==
    /\ called = SubSeq(config.fallback_order, 1, Len(called))
    /\ config.max_retries > 0 => Len(called) <= config.max_retries
    /\ at = "end" /\ called # <<>> /\ ~answered
        => Len(called) \in {config.max_retries, Len(config.fallback_order)}
=============================================================================
