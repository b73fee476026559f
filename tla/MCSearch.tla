------------------------------ MODULE MCSearch ------------------------------
(***************************************************************************)
(* Search end to end: the gateway's handlers on their shared state, the      *)
(* server in front of them, and the algorithms they call, which keep none.   *)
(* `part` says which of the three a behaviour is about.  A handler is any    *)
(* that returns or panics to the server, and a thread of its own to the      *)
(* handlers.                                                                *)
(***************************************************************************)
EXTENDS SearchGateway, WebServer, MCAlgorithms

VARIABLE part      \* "handlers", "server" or "algorithms"

gatewayVars == <<vars, serverVars>>

\* No client is left.
Quiet == (\A c \in Client : Is(c, {"closed"})) /\ UNCHANGED serverVars

\* A case that has been looked at.
Looked == case.kind \notin {"start", "store"} /\ UNCHANGED case

SearchInit == Init /\ ServerInit /\ CasesInit /\ part \in {"handlers", "server", "algorithms"}
SearchNext ==
    /\ \/ part = "handlers" /\ Next /\ UNCHANGED <<serverVars, case>>
       \/ part = "server" /\ (ServerNext \/ Quiet) /\ UNCHANGED <<vars, case>>
       \/ part = "algorithms" /\ (CasesNext \/ Looked) /\ UNCHANGED gatewayVars
    /\ UNCHANGED part

SearchSpec ==
    /\ SearchInit /\ [][SearchNext]_<<gatewayVars, case, part>>
    /\ (part = "server" => ServerFairness)
=============================================================================
