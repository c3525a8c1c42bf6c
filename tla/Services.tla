------------------------------ MODULE Services ------------------------------
(***************************************************************************)
(* The components that serve calls and talk to other systems: the memory   *)
(* store, the messaging layer, the SDK client, the IDoc adapter, the LLM   *)
(* gateway, the Azure Arc controller and the vector store.  They share no  *)
(* state, so a behaviour exercises one of them, its focus, and leaves the  *)
(* others as they start.                                                   *)
(***************************************************************************)
EXTENDS MemoryStore, Messaging, SdkClient, IDocAdapter, LlmGateway, AzureArc, VectorStore

VARIABLE focus

SuiteInit ==
    /\ focus \in {"memory", "nats", "sdk", "idoc", "llm", "arc", "vectors"}
    /\ Init
    /\ NatsInit /\ SdkInit /\ IDocInit /\ LlmInit /\ ArcInit /\ VectorInit

Only(component) == focus = component /\ UNCHANGED focus

SuiteNext ==
    \/ Only("memory") /\ Next
        /\ UNCHANGED <<natsVars, sdkVars, idocVars, llmVars, arcVars, vectorVars>>
    \/ Only("nats") /\ NatsNext
        /\ UNCHANGED <<vars, sdkVars, idocVars, llmVars, arcVars, vectorVars>>
    \/ Only("sdk") /\ SdkNext
        /\ UNCHANGED <<vars, natsVars, idocVars, llmVars, arcVars, vectorVars>>
    \/ Only("idoc") /\ IDocNext
        /\ UNCHANGED <<vars, natsVars, sdkVars, llmVars, arcVars, vectorVars>>
    \/ Only("llm") /\ LlmNext
        /\ UNCHANGED <<vars, natsVars, sdkVars, idocVars, arcVars, vectorVars>>
    \/ Only("arc") /\ ArcNext
        /\ UNCHANGED <<vars, natsVars, sdkVars, idocVars, llmVars, vectorVars>>
    \/ Only("vectors") /\ VectorNext
        /\ UNCHANGED <<vars, natsVars, sdkVars, idocVars, llmVars, arcVars>>

suiteVars == <<focus, vars, natsVars, sdkVars, idocVars, llmVars, arcVars, vectorVars>>

\* The broker delivers what it may deliver, handlers return, timeouts fire: a
\* request that was sent is answered or fails.
SuiteSpec ==
    /\ SuiteInit /\ [][SuiteNext]_suiteVars
    /\ \A m \in Messages : WF_natsVars(Progress(m))
    /\ \A thread \in Threads : WF_sdkVars(SdkProceed(thread))
    /\ WF_idocVars(IDocProceed)
    /\ WF_llmVars(LlmProceed)
    /\ \A c \in Inserters : WF_vectorVars(VectorProceed(c))

-----------------------------------------------------------------------------
Running ==
    \/ \E thread \in Threads : pc[thread] = "attempt"
    \/ step \in {"parse", "map", "post"}
    \/ at \in {"cache", "call", "store"}
    \/ \E c \in Inserters : caller[c] = "insert"

Returned ==
    \/ focus = "sdk" /\ \A thread \in Threads : SdkReturned(thread)
    \/ focus = "idoc" /\ step \in {"success", "raised"}
    \/ focus = "llm" /\ at = "end"
    \/ focus = "vectors" /\ \A c \in Inserters : caller[c] # "insert"

\* Everything that retries or waits for others comes to an end: execute of the
\* SDK, process_idoc, route_request, and InsertVectors, none of whose goroutines
\* is stuck on the error channel.
CallsReturn == Running ~> Returned
=============================================================================
