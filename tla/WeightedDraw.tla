---------------------------- MODULE WeightedDraw ----------------------------
(***************************************************************************)
(* get_next_dbserver_index in core/se_service.c: the smooth weighted       *)
(* round-robin that picks the next database connection of a cluster.       *)
(* Connections are numbers and a cluster is a set of them, so the          *)
(* connection with the smallest number is the one at index 0.              *)
(***************************************************************************)
EXTENDS Integers, Functions

Total(weight, cluster) == SumFunctionOnSet(weight, cluster)

\* Every connection of the cluster earns its weight ...
Earn(credit, weight, cluster) ==
    [c \in DOMAIN credit |-> credit[c] + (IF c \in cluster THEN weight[c] ELSE 0)]

\* ... and the first one with the most credit is picked ...
Richest(credit, cluster) ==
    CHOOSE c \in cluster : \A d \in cluster : \/ credit[d] < credit[c]
                                              \/ credit[d] = credit[c] /\ c <= d

PickFirst(credit, weight, cluster) ==   \* mutant: the credits are not compared
    CHOOSE c \in cluster : \A d \in cluster : c <= d

PickPast(credit, weight, cluster) ==    \* mutant: one past the richest
    Richest(Earn(credit, weight, cluster), cluster) + 1

Pick(credit, weight, cluster) == Richest(Earn(credit, weight, cluster), cluster)

PayOwn(credit, weight, cluster, c) ==   \* mutant: its own weight is paid back
    [Earn(credit, weight, cluster) EXCEPT ![c] = @ - weight[c]]

\* ... and pays for what all of them earned.
Pay(credit, weight, cluster, c) ==
    [Earn(credit, weight, cluster) EXCEPT ![c] = @ - Total(weight, cluster)]
=============================================================================
