------------------------------ MODULE Services ------------------------------
(***************************************************************************)
(* The in-memory services: the agent registry, the message mesh, the replay  *)
(* guard, the access registries, the knowledge bus with its reindexer and    *)
(* the versioned graph.  They share no state: `part` says which one a        *)
(* behaviour exercises.                                                      *)
(***************************************************************************)
EXTENDS Agents, Messaging, Security, Access, KnowledgeBus, GraphRepo

VARIABLE part

serviceVars == <<agentVars, meshVars, guardVars, accessVars>>
vars == <<part, serviceVars, busVars, repoVars>>

Init ==
    /\ part \in {"agents", "mesh", "guard", "access", "bus", "repo"}
    /\ AgentsInit /\ MeshInit /\ GuardInit /\ AccessInit /\ BusInit /\ RepoInit

AgentsStep == part = "agents" /\ AgentsNext /\ UNCHANGED <<meshVars, guardVars, accessVars, busVars, repoVars>>
MeshStep == part = "mesh" /\ MeshNext /\ UNCHANGED <<agentVars, guardVars, accessVars, busVars, repoVars>>
GuardStep == part = "guard" /\ GuardNext /\ UNCHANGED <<agentVars, meshVars, accessVars, busVars, repoVars>>
AccessStep == part = "access" /\ AccessNext /\ UNCHANGED <<agentVars, meshVars, guardVars, busVars, repoVars>>
BusStep == part = "bus" /\ BusNext /\ UNCHANGED <<serviceVars, repoVars>>
RepoStep == part = "repo" /\ RepoNext /\ UNCHANGED <<serviceVars, busVars>>

Next == (AgentsStep \/ MeshStep \/ GuardStep \/ AccessStep \/ BusStep \/ RepoStep) /\ UNCHANGED part

Spec == Init /\ [][Next]_vars

-----------------------------------------------------------------------------
\* What a registry hands out is what was registered, and is in service: agents
\* by capability, in order (sdk/src/agent.rs), and runtimes, each once and the
\* most local first (runtime/src/lib.rs).
LookupsAreExact == (part = "agents" => AgentsAreFound) /\ (part = "access" => RuntimesAreFound)
=============================================================================
