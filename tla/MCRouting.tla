----------------------------- MODULE MCRouting -----------------------------
(* How a question finds a candidate: the breaker every instance shares       *)
(* (CircuitBreaker) and the failover loop that asks it (Router).  The loop   *)
(* takes the breaker's verdicts as they come, so the two share no variable,  *)
(* and an instance follows one of them, chosen at the start.                 *)
(*                                                                           *)
(* The breaker's requests are not permuted, since its liveness is checked.   *)
EXTENDS CircuitBreaker, Router

VARIABLE followed

routingVars == <<breakerVars, routerVars, followed>>

(* Where the breaker is followed, one loop stands for all. *)
RoutingInit ==
    /\ BreakerInit /\ RouterInit
    /\ \/ followed = "breaker" /\ mode = "stream" /\ chain = 1
       \/ followed = "router"

RoutingNext ==
    \/ followed = "breaker" /\ BreakerNext /\ UNCHANGED <<routerVars, followed>>
    \/ followed = "router" /\ RouterNext /\ UNCHANGED <<breakerVars, followed>>

(* BreakerFairness, where the breaker is followed. *)
RoutingFairness ==
    /\ WF_breakerVars(followed = "breaker" /\ Tick)
    /\ \A r \in Requests :
          WF_breakerVars(/\ followed = "breaker"
                         /\ Ask(r) \/ Attempt(r) \/ RecordOutcome(r))

RoutingSpec == RoutingInit /\ [][RoutingNext]_routingVars /\ RoutingFairness
=============================================================================
