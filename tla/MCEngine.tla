------------------------------ MODULE MCEngine ------------------------------
(***************************************************************************)
(* Instances of the engine: capabilities with a runtime, without one, and   *)
(* denied by policy; tasks and agents of different priorities.              *)
(***************************************************************************)
EXTENDS Engine

CONSTANTS w1, w2, t1, t2, t3, cpu, gpu

MCCapability == {"reason", "search", "robotics", "medical"}

\* In w1, t2 runs on another runtime and has a Critical agent, and t3 is Low.
\* In w2, t1 has no runtime and the policy denies t2.
MCCapabilityOf ==
    [w \in Workflow |-> [t \in Task |-> IF w = w1 THEN IF t = t2 THEN "search" ELSE "reason"
                                        ELSE CASE t = t1 -> "robotics" [] t = t2 -> "medical" [] OTHER -> "reason"]]
MCPriorityOf == [w \in Workflow |-> [t \in Task |-> IF t = t3 THEN "Low" ELSE "Normal"]]

MCAgentPriority ==
    [c \in MCCapability |-> CASE c = "search" -> "Critical"
                              [] c = "reason" -> "Normal"
                              [] OTHER        -> None]
MCRuntime ==
    [c \in MCCapability |-> CASE c = "search"   -> gpu
                              [] c = "robotics" -> None
                              [] OTHER          -> cpu]

\* Every dependency function, cyclic ones included.
AllDags == [Task -> SUBSET Task]

\* The others after one.
After(first) == [t \in Task |-> IF t = first THEN {} ELSE {first}]

Chain == [t \in Task |-> CASE t = t1 -> {} [] t = t2 -> {t1} [] OTHER -> {t1, t2}]

\* One call over every dependency function while another is rejected; or two
\* calls, the second of which has no runtime or is denied.
MCInit ==
    /\ Init
    /\ \/ deps[w2] = [t \in Task |-> {t}]
       \/ deps[w1] = Chain /\ deps[w2] \in {After(t1), After(t2)}

MCSpec == MCInit /\ [][Next]_vars /\ Fairness
==============================================================================
