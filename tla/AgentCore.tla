----------------------------- MODULE AgentCore ------------------------------
(***************************************************************************)
(* The two components of agent/core: the lifecycle manager and the         *)
(* capability registry.  They share no state, so a behaviour exercises one *)
(* of them, its focus, and leaves the other as it starts.                  *)
(***************************************************************************)
EXTENDS Lifecycle, CapabilityRegistry

VARIABLE focus

CoreInit == focus \in {"lifecycle", "registry"} /\ Init /\ RegistryInit

CoreNext ==
    /\ UNCHANGED focus
    /\ \/ focus = "lifecycle" /\ Next /\ UNCHANGED registryVars
       \/ focus = "registry" /\ RegistryNext /\ UNCHANGED vars

CoreSpec ==
    /\ CoreInit /\ [][CoreNext]_<<focus, vars, registryVars>>
    /\ Fairness /\ RegistryFairness
=============================================================================
