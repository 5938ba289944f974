------------------------------ MODULE Clusters ------------------------------
(***************************************************************************)
(* The database clusters of core/se_service.c: how the databases node of   *)
(* conf.json is read (core/se_conf.c), how SE_connect_pgcluster turns it   *)
(* into a cluster of connections to the writable servers and one to the    *)
(* read-only servers, what it leaves behind when a server cannot be        *)
(* reached, and how get_dbserver then draws from a cluster. (DbPool has    *)
(* what happens to a connection once drawn.)                               *)
(***************************************************************************)
EXTENDS WeightedDraw, Sequences, FiniteSets

CONSTANTS MaxServers,      \* bound: databases in conf.json
          MaxConnection,   \* the largest max_connection, 1024
          MaxWeight,       \* the largest weight, 100
          Numbers,         \* the integers conf.json may have for one of them
          Width            \* the values of an int32_t, 2^32

ASSUME ClustersAssumption ==
    /\ MaxServers \in Nat \ {0} /\ MaxConnection \in Nat \ {0}
    /\ MaxWeight \in Nat \ {0} /\ Numbers \subseteq Int /\ Width \in Nat \ {0}

VARIABLES json,            \* the databases node, as it is in conf.json
          servers,         \* conf->dbs->item
          stage,           \* how far SE_conf_create, SE_connect_pgcluster are
          items,           \* items[iswriter]: the server of each connection made
          current,         \* current[iswriter]: current_weight of each of them
          published,       \* shared->wcluster and shared->rcluster are set
          drawn,           \* drawn[iswriter]: picks of each connection, this round
          draws            \* draws[iswriter]: all the picks of this round

drawVars == <<drawn, draws>>
vars == <<json, servers, stage, items, current, published, drawVars>>

Stages == {"parse", "copy", "writers", "readers", "done", "failed"}
Server == [iswrite : BOOLEAN, max : 1 .. MaxConnection, weight : 1 .. MaxWeight]
Node   == [iswrite : BOOLEAN, max : Numbers, weight : Numbers]
Nothing == [iswriter \in BOOLEAN |-> <<>>]

\* The servers of one kind, by their index in conf.json (serverid), and in its order.
Own(iswriter) == {i \in DOMAIN servers : servers[i].iswrite = iswriter}
CurrentServers(iswriter) ==
    CHOOSE ids \in [1 .. Cardinality(Own(iswriter)) -> Own(iswriter)] :
        \A i, j \in DOMAIN ids : i < j => ids[i] < ids[j]

\* How many connections the cluster of one kind gets: all_conn.
AllConn(iswriter) ==
    LET own == [i \in DOMAIN servers |->
                  IF servers[i].iswrite = iswriter THEN servers[i].max ELSE 0]
    IN  SumFunction(own)

\* The server that connection i (from 0) of a cluster goes to.
Dealt(iswriter, i) ==
    LET ids == CurrentServers(iswriter) IN ids[(i % Len(ids)) + 1]

Complete(iswriter) == Len(items[iswriter]) = AllConn(iswriter)

\* items[i]->weight, for the connections of a cluster.
Weights(iswriter) == [i \in DOMAIN items[iswriter] |-> servers[items[iswriter][i]].weight]
Members(iswriter) == DOMAIN items[iswriter]
WeightSum(iswriter) == Total(Weights(iswriter), Members(iswriter))

\* The connections of the cluster iswriter that go to server s.
Load(iswriter, s) == Cardinality({i \in Members(iswriter) : items[iswriter][i] = s})

-----------------------------------------------------------------------------
(* SE_conf_create and SE_connect_pgcluster: a single thread. *)

\* The integers of conf.json have 64 bits, and are cut down to 32.
Int32(n) == ((n + Width \div 2) % Width) - Width \div 2

Read(node) == [node EXCEPT !.max = Int32(@), !.weight = Int32(@)]

Init ==
    /\ \E n \in 0 .. MaxServers : json \in [1 .. n -> Node]
    /\ servers = <<>> /\ stage = "parse" /\ published = FALSE
    /\ items = Nothing /\ current = Nothing
    /\ drawn = Nothing /\ draws = [iswriter \in BOOLEAN |-> 0]

\* SE_parse_databases: the ranges are looked at after the conversion.
Parse ==
    /\ stage = "parse" /\ json # <<>>
    /\ \A i \in DOMAIN json : Read(json[i]) \in Server
    /\ servers' = [i \in DOMAIN json |-> Read(json[i])]
    /\ stage' = "copy" /\ json' = <<>>
    /\ UNCHANGED <<items, current, published, drawVars>>

\* A value is out of range, or another one of the node is missing or of no use, or
\* there is no memory: what was read is released, and the program ends.
ParseFails ==
    /\ stage = "parse"
    /\ stage' = "failed" /\ json' = <<>>
    /\ UNCHANGED <<servers, items, current, published, drawVars>>

\* Without a writable server, or without memory, nothing is opened.
CopyFails ==
    /\ stage = "copy"
    /\ stage' = "failed"
    /\ UNCHANGED <<json, servers, items, current, published, drawVars>>

Copy ==
    /\ stage = "copy" /\ AllConn(TRUE) >= 1
    /\ stage' = "writers"
    /\ UNCHANGED <<json, servers, items, current, published, drawVars>>

\* One round of the loop of SE_pgcluster_make: connect, set statement_timeout,
\* ask for the time zone. The credit starts as the weight, not as zero.
Connect(iswriter) ==
    LET s == Dealt(iswriter, Len(items[iswriter]))
    IN  /\ stage = (IF iswriter THEN "writers" ELSE "readers")
        /\ ~Complete(iswriter)
        /\ items' = [items EXCEPT ![iswriter] = Append(@, s)]
        /\ current' = [current EXCEPT ![iswriter] = Append(@, servers[s].weight)]
        /\ drawn' = [drawn EXCEPT ![iswriter] = Append(@, 0)]
        /\ UNCHANGED <<json, servers, stage, published, draws>>

\* The readers follow the writers.
WritersMade ==
    /\ stage = "writers" /\ Complete(TRUE)
    /\ stage' = "readers"
    /\ UNCHANGED <<json, servers, items, current, published, drawVars>>

\* With no read-only server rcluster stays NULL.
Publish ==
    /\ stage = "readers" /\ Complete(FALSE)
    /\ stage' = "done" /\ published' = TRUE
    /\ UNCHANGED <<json, servers, items, current, drawVars>>

FreesOwnClusterOnly ==   \* mutant: SE_pgcluster_make cleans up, its caller does not
    /\ stage \in {"writers", "readers"} /\ ~Complete(stage = "writers")
    /\ stage' = "failed"
    /\ items' = [items EXCEPT ![stage = "writers"] = <<>>]
    /\ UNCHANGED <<json, servers, current, published, drawVars>>

\* The connection, the timeout or the time zone fails: SE_pgcluster_make closes
\* the connections of its own cluster, SE_connect_pgcluster those of both.
ConnectFails ==
    /\ stage \in {"writers", "readers"} /\ ~Complete(stage = "writers")
    /\ stage' = "failed"
    /\ items' = Nothing /\ current' = Nothing /\ drawn' = Nothing
    /\ UNCHANGED <<json, servers, published, draws>>

-----------------------------------------------------------------------------
(* get_next_dbserver_index, under the mutex. drawn and draws are a history  *)
(* of one round: as many picks as the weights sum up to.                    *)

Draw(iswriter) ==
    LET i   == Pick(current[iswriter], Weights(iswriter), Members(iswriter))
        new == draws[iswriter] = WeightSum(iswriter)
        old == IF new THEN [j \in Members(iswriter) |-> 0] ELSE drawn[iswriter]
    IN  /\ published /\ items[iswriter] # <<>>
        /\ current' = [current EXCEPT ![iswriter] =
                         Pay(@, Weights(iswriter), Members(iswriter), i)]
        /\ drawn' = [drawn EXCEPT ![iswriter] = [old EXCEPT ![i] = @ + 1]]
        /\ draws' = [draws EXCEPT ![iswriter] = (IF new THEN 0 ELSE @) + 1]
        /\ UNCHANGED <<json, servers, stage, items, published>>

Next == \/ Parse \/ ParseFails \/ CopyFails \/ Copy \/ WritersMade \/ Publish \/ ConnectFails
        \/ \E iswriter \in BOOLEAN : Connect(iswriter) \/ Draw(iswriter)

Spec == Init /\ [][Next]_vars

-----------------------------------------------------------------------------
\* The variables keep their shape: a server has limits in range, no cluster outgrows the connections its
\* dbconfs array has room for, and every pick falls on one of its connections.
TypeOK ==
    /\ json \in Seq(Node) /\ servers \in Seq(Server)
    /\ stage \in Stages /\ published \in BOOLEAN
    /\ \A iswriter \in BOOLEAN :
         /\ items[iswriter] \in Seq({s \in DOMAIN servers : servers[s].iswrite = iswriter})
         /\ Len(items[iswriter]) <= AllConn(iswriter)
         /\ current[iswriter] \in [Members(iswriter) -> Int]
         /\ drawn[iswriter] \in [Members(iswriter) -> Nat]
         /\ draws[iswriter] = Total(drawn[iswriter], Members(iswriter))

\* SE_start gets two complete clusters or none, and when it gets none no
\* connection to any server is left open.
AllOrNothing ==
    /\ published => Complete(TRUE) /\ Complete(FALSE) /\ items[TRUE] # <<>>
    /\ stage = "failed" => items = Nothing

\* No server gets more connections than its own max_connection allows (doc/conf.md:54).
OwnLimits == \A s \in DOMAIN servers : Load(servers[s].iswrite, s) <= servers[s].max

\* A round is fair: after as many picks as the weights sum up to, every
\* connection was picked exactly as often as its weight says, and the credits
\* are back where they started, so the next round is the same.
RoundIsFair ==
    \A iswriter \in BOOLEAN :
        draws[iswriter] = WeightSum(iswriter) /\ published =>
            drawn[iswriter] = Weights(iswriter) /\ current[iswriter] = Weights(iswriter)

\* The credits never drift: they stay within twice the sum of the weights, which
\* is in the range of int32_t for up to ten thousand servers of 1024 * 100 each.
CreditBounded ==
    \A iswriter \in BOOLEAN : \A i \in Members(iswriter) :
        LET sum == WeightSum(iswriter)
        IN  -sum < current[iswriter][i] /\ current[iswriter][i] <= 2 * sum
=============================================================================
