--------------------------- MODULE ClustersProofs ---------------------------
(***************************************************************************)
(* SE_connect_pgcluster makes both clusters whole or leaves nothing open,  *)
(* deals the connections of a cluster to its servers in turn, and the      *)
(* draws from a cluster are fair, for any number of servers, connections   *)
(* and weights.                                                            *)
(***************************************************************************)
EXTENDS Clusters, SharedFacts

\* How far the clusters are at each stage.
Staged ==
    /\ stage \in Stages /\ DOMAIN items = BOOLEAN
    /\ stage \in {"writers", "readers", "done"} => AllConn(TRUE) >= 1
    /\ stage \in {"readers", "done"} => Complete(TRUE)
    /\ stage = "done" => Complete(FALSE)
    /\ stage \in {"parse", "copy", "failed"} => items = Nothing
    /\ published => stage = "done"

\* The servers of conf.json stay what they are, and with them the size a cluster
\* is to have.
LEMMA SameLimits ==
    ASSUME NEW iswriter \in BOOLEAN, servers' = servers
    PROVE  AllConn(iswriter)' = AllConn(iswriter)
BY DEF AllConn

\* A cluster nobody touches stays as complete as it was.
LEMMA SameCluster ==
    ASSUME NEW iswriter \in BOOLEAN, servers' = servers, items'[iswriter] = items[iswriter]
    PROVE  Complete(iswriter)' = Complete(iswriter)
BY SameLimits DEF Complete

LEMMA Initially == Init => Staged
BY DEF Init, Staged, Stages, Nothing

LEMMA ConnectKeeps ==
    ASSUME Staged, NEW iswriter \in BOOLEAN, Connect(iswriter)
    PROVE  Staged'
<1>1. /\ servers' = servers /\ stage' = stage /\ published' = published
      /\ stage = (IF iswriter THEN "writers" ELSE "readers")
      /\ \E s : items' = [items EXCEPT ![iswriter] = s]
  BY DEF Connect
<1>2. CASE iswriter
  BY <1>1, <1>2, SameLimits DEF Staged
<1>3. CASE ~iswriter
  <2>1. items'[TRUE] = items[TRUE]
    BY <1>1, <1>3 DEF Staged
  <2> QED BY <1>1, <1>3, <2>1, SameLimits, SameCluster DEF Staged
<1> QED BY <1>2, <1>3

LEMMA NextKeeps == Staged /\ [Next]_vars => Staged'
<1> SUFFICES ASSUME Staged, [Next]_vars PROVE Staged'
  OBVIOUS
<1>1. CASE \E iswriter \in BOOLEAN : Connect(iswriter)
  BY <1>1, ConnectKeeps
<1>2. CASE ConnectFails \/ CopyFails \/ ParseFails
  <2>1. stage' = "failed" /\ published' = published /\ stage # "done"
    BY <1>2 DEF ConnectFails, CopyFails, ParseFails, Staged
  <2>2. items' = Nothing
    BY <1>2 DEF ConnectFails, CopyFails, ParseFails, Staged
  <2> QED BY <2>1, <2>2 DEF Staged, Stages, Nothing
<1>3. CASE Copy \/ WritersMade \/ Publish \/ UNCHANGED vars
           \/ \E iswriter \in BOOLEAN : Draw(iswriter)
  <2>1. servers' = servers /\ items' = items
    BY <1>3 DEF Copy, WritersMade, Publish, vars, Draw
  <2>2. \A iswriter \in BOOLEAN : /\ AllConn(iswriter)' = AllConn(iswriter)
                                  /\ Complete(iswriter)' = Complete(iswriter)
    BY <2>1, SameLimits, SameCluster
  <2>3. CASE Copy \/ WritersMade \/ Publish
    <3>1. DOMAIN items' = BOOLEAN
      BY <2>1 DEF Staged
    <3>2. CASE Copy
      <4>1. stage' = "writers" /\ AllConn(TRUE)' >= 1 /\ ~published'
        BY <2>2, <3>2 DEF Copy, Staged
      <4> QED BY <3>1, <4>1 DEF Staged, Stages
    <3>3. CASE WritersMade
      <4>1. stage' = "readers" /\ AllConn(TRUE)' >= 1 /\ ~published'
        BY <2>2, <3>3 DEF WritersMade, Staged
      <4>2. Complete(TRUE)'
        BY <2>2, <3>3 DEF WritersMade
      <4> QED BY <3>1, <4>1, <4>2 DEF Staged, Stages
    <3>4. CASE Publish
      <4>1. stage' = "done" /\ AllConn(TRUE)' >= 1
        BY <2>2, <3>4 DEF Publish, Staged
      <4>2. Complete(TRUE)' /\ Complete(FALSE)'
        BY <2>2, <3>4 DEF Publish, Staged
      <4> QED BY <3>1, <4>1, <4>2 DEF Staged, Stages
    <3> QED BY <2>3, <3>2, <3>3, <3>4
  <2>4. CASE UNCHANGED vars \/ \E iswriter \in BOOLEAN : Draw(iswriter)
    <3>1. stage' = stage /\ published' = published
      BY <2>4 DEF vars, Draw
    <3> QED BY <2>1, <2>2, <3>1 DEF Staged
  <2> QED BY <1>3, <2>3, <2>4
<1>4. CASE Parse
  BY <1>4 DEF Parse, Staged, Stages, Nothing
<1> QED BY <1>1, <1>2, <1>3, <1>4 DEF Next

\* SE_start gets two complete clusters, the writable one with a connection, or
\* none; and when it gets none, no connection to any server is left open.
THEOREM ClustersWholeOrGone == Spec => []AllOrNothing
<1>1. Staged => AllOrNothing
  <2>1. Complete(TRUE) /\ AllConn(TRUE) >= 1 => items[TRUE] # <<>>
    <3>1. items[TRUE] = <<>> => Len(items[TRUE]) = Len(<<>>)
      BY Zenon
    <3>2. Len(<<>>) = 0
      OBVIOUS
    <3>3. ~(0 >= 1)
      OBVIOUS
    <3> QED BY <3>1, <3>2, <3>3, Zenon DEF Complete
  <2> QED BY <2>1, Zenon DEF Staged, AllOrNothing
<1> QED BY <1>1, Initially, NextKeeps, PTL DEF Spec

-----------------------------------------------------------------------------
(* The servers of a kind, and how the connections are dealt to them.        *)

ServersTyped == servers \in Seq(Server)

LEMMA ServerFacts ==
    ASSUME ServersTyped, NEW i \in DOMAIN servers
    PROVE  /\ servers[i].iswrite \in BOOLEAN
           /\ servers[i].max \in Nat \ {0} /\ servers[i].weight \in Nat \ {0}
<1>1. servers[i] \in Server
  BY DEF ServersTyped
<1>2. /\ servers[i].iswrite \in BOOLEAN
      /\ servers[i].max \in 1 .. MaxConnection /\ servers[i].weight \in 1 .. MaxWeight
  BY <1>1 DEF Server
<1> QED BY <1>2, ClustersAssumption

LEMMA OwnFacts ==
    ASSUME ServersTyped, NEW iswriter \in BOOLEAN
    PROVE  /\ Own(iswriter) \subseteq DOMAIN servers /\ IsFiniteSet(Own(iswriter))
           /\ \A s \in Own(iswriter) : s \in Nat
           /\ Cardinality(Own(iswriter)) \in Nat
           /\ Ascending(CurrentServers(iswriter), Cardinality(Own(iswriter)), Own(iswriter))
<1> DEFINE S == Own(iswriter)
           n == Cardinality(S)
<1>1. DOMAIN servers = 1 .. Len(servers) /\ Len(servers) \in Nat
  BY DEF ServersTyped
<1>2. IsFiniteSet(1 .. Len(servers))
  BY <1>1, FS_Interval
<1>3. S \subseteq DOMAIN servers /\ \A s \in S : s \in Nat
  BY <1>1 DEF Own
<1>4. IsFiniteSet(S)
  BY <1>1, <1>2, <1>3, FS_Subset
<1> HIDE DEF S
<1>5. n \in Nat
  BY <1>4, FS_CardinalityType
<1>6. \E ids : Ascending(ids, n, S)
  BY <1>3, <1>4, ListInOrder
<1>7. CurrentServers(iswriter) =
        CHOOSE ids \in [1 .. n -> S] : \A i, j \in DOMAIN ids : i < j => ids[i] < ids[j]
  BY DEF CurrentServers, S
<1> HIDE DEF n
<1>8. PICK ids \in [1 .. n -> S] : \A i, j \in DOMAIN ids : i < j => ids[i] < ids[j]
  BY <1>6 DEF Ascending
<1>9. /\ CurrentServers(iswriter) \in [1 .. n -> S]
      /\ \A i, j \in DOMAIN CurrentServers(iswriter) :
            i < j => CurrentServers(iswriter)[i] < CurrentServers(iswriter)[j]
  BY <1>7, <1>8
<1>10. Ascending(CurrentServers(iswriter), n, S)
  BY <1>9 DEF Ascending
<1> QED BY <1>3, <1>4, <1>5, <1>10 DEF S, n

LEMMA AllConnFacts ==
    ASSUME ServersTyped, NEW iswriter \in BOOLEAN
    PROVE  AllConn(iswriter) \in Nat /\ (AllConn(iswriter) > 0 => Own(iswriter) # {})
<1> DEFINE own == [i \in DOMAIN servers |->
                     IF servers[i].iswrite = iswriter THEN servers[i].max ELSE 0]
           D == DOMAIN servers
<1>1. IsFiniteSet(D)
  BY FS_Interval DEF ServersTyped
<1>2. AllConn(iswriter) = SumFunctionOnSet(own, D)
  BY DEF AllConn, SumFunction
<1>3. \A i \in D : own[i] \in Nat /\ own[i] \in Int
  <2>1. \A i \in DOMAIN servers : servers[i].max \in Nat
    BY ServerFacts
  <2> QED BY <2>1
<1>4. ASSUME NEW i \in D, own[i] > 0
      PROVE  i \in Own(iswriter)
  BY <1>4 DEF Own
<1> HIDE DEF own, D
<1>5. SumFunctionOnSet(own, D) \in Nat
  BY <1>1, <1>3, SumOfNaturals
<1>6. SumFunctionOnSet(own, D) > 0 => \E i \in D : own[i] > 0
  BY <1>1, <1>3, SumPositive
<1> QED BY <1>2, <1>4, <1>5, <1>6

\* The servers of a cluster's connections, in the order they were opened.
DealtInTurn(iswriter) ==
    /\ items[iswriter] \in Seq(Own(iswriter)) /\ Len(items[iswriter]) <= AllConn(iswriter)
    /\ \A i \in Members(iswriter) : items[iswriter][i] = Dealt(iswriter, i - 1)

LEMMA DealtIsOwn ==
    ASSUME ServersTyped, NEW iswriter \in BOOLEAN, Own(iswriter) # {}, NEW i \in Nat
    PROVE  Dealt(iswriter, i) \in Own(iswriter)
<1> DEFINE ids == CurrentServers(iswriter)
           n == Cardinality(Own(iswriter))
<1>1. n \in Nat /\ Ascending(ids, n, Own(iswriter))
  BY OwnFacts
<1>2. n # 0
  BY OwnFacts, FS_EmptySet
<1> HIDE DEF n, ids
<1>3. ids \in [1 .. n -> Own(iswriter)]
  BY <1>1 DEF Ascending
<1>4. Len(ids) = n
  BY <1>1, <1>3
<1>5. i % n \in 0 .. n - 1
  BY <1>1, <1>2
<1>6. (i % n) + 1 \in 1 .. n
  BY <1>1, <1>5
<1>7. Dealt(iswriter, i) = ids[(i % n) + 1]
  BY <1>4 DEF Dealt, ids
<1> QED BY <1>3, <1>6, <1>7

\* A server gets the connections whose number leaves its remainder.
LEMMA LoadByRemainder ==
    ASSUME ServersTyped, NEW iswriter \in BOOLEAN, DealtInTurn(iswriter),
           NEW s \in Own(iswriter)
    PROVE  \E r \in 0 .. Cardinality(Own(iswriter)) - 1 :
              Load(iswriter, s) = Cardinality(
                 WithRemainder(Len(items[iswriter]), Cardinality(Own(iswriter)), r))
<1> DEFINE ids == CurrentServers(iswriter)
           S == Own(iswriter)
           n == Cardinality(S)
           c == Len(items[iswriter])
<1>1. /\ n \in Nat /\ Ascending(ids, n, S)
      /\ \A x \in S : \E i \in 1 .. n : ids[i] = x
      /\ \A i, j \in 1 .. n : ids[i] = ids[j] => i = j
  BY OwnFacts, ListHasAll
<1>2. c \in Nat /\ Members(iswriter) = 1 .. c
  BY DEF DealtInTurn, Members
<1> HIDE DEF n, ids, S
<1>3. ids \in [1 .. n -> S] /\ Len(ids) = n
  BY <1>1 DEF Ascending
<1>4. PICK k \in 1 .. n : ids[k] = s
  BY <1>1 DEF S
<1>5. ASSUME NEW i \in 1 .. c
      PROVE  items[iswriter][i] = s <=> (i - 1) % n = k - 1
  <2>1. items[iswriter][i] = ids[((i - 1) % n) + 1]
    BY <1>2, <1>3 DEF DealtInTurn, Dealt, ids
  <2>2. n > 0 /\ i - 1 \in Nat
    BY <1>1, <1>2
  <2> DEFINE m == (i - 1) % n
  <2>3. m \in 0 .. n - 1
    BY <1>1, <2>2
  <2> HIDE DEF m
  <2>4. m + 1 \in 1 .. n /\ (ids[m + 1] = s <=> m + 1 = k)
    BY <1>1, <1>4, <2>2, <2>3
  <2>5. items[iswriter][i] = s <=> m = k - 1
    BY <2>1, <2>3, <2>4 DEF m
  <2> QED BY <2>5 DEF m
<1>6. {i \in Members(iswriter) : items[iswriter][i] = s} = WithRemainder(c, n, k - 1)
  BY <1>2, <1>5 DEF WithRemainder
<1>7. k - 1 \in 0 .. n - 1
  BY <1>1
<1> QED BY <1>6, <1>7 DEF Load, n, S

\* The servers of a kind all have the same limit.
EqualLimits ==
    \A a, b \in DOMAIN servers :
        servers[a].iswrite = servers[b].iswrite => servers[a].max = servers[b].max

LEMMA DealtWithin ==
    ASSUME ServersTyped, \A iswriter \in BOOLEAN : DealtInTurn(iswriter), EqualLimits
    PROVE  OwnLimits
<1> SUFFICES ASSUME NEW s \in DOMAIN servers
             PROVE  Load(servers[s].iswrite, s) <= servers[s].max
  BY DEF OwnLimits
<1> DEFINE w == servers[s].iswrite
           m == servers[s].max
           S == Own(w)
           n == Cardinality(S)
           c == Len(items[w])
           D == DOMAIN servers
           own == [i \in DOMAIN servers |-> IF servers[i].iswrite = w THEN servers[i].max ELSE 0]
<1>1. w \in BOOLEAN /\ m \in Nat /\ s \in S
  <2>1. w \in BOOLEAN /\ m \in Nat
    BY ServerFacts
  <2>2. s \in S
    BY Zenon DEF Own
  <2> QED BY <2>1, <2>2
<1>2. IsFiniteSet(D) /\ S \in SUBSET D
  BY FS_Interval DEF ServersTyped, Own
<1>3. \A x \in D : own[x] = IF x \in S THEN m ELSE 0
  BY DEF Own, EqualLimits
<1>4. AllConn(w) = SumFunctionOnSet(own, D)
  BY DEF AllConn, SumFunction
<1> HIDE DEF w, own, D, m
<1>5. PICK r \in 0 .. n - 1 : Load(w, s) = Cardinality(WithRemainder(c, n, r))
  BY <1>1, LoadByRemainder
<1>6. n \in Nat \ {0} /\ c \in Nat /\ c <= AllConn(w)
  BY <1>1, <1>5, OwnFacts DEF DealtInTurn
<1> HIDE DEF S
<1>7. AllConn(w) = n * m
  BY <1>1, <1>2, <1>3, <1>4, SumOfEqual
<1> HIDE DEF n, c
<1>8. c <= n * m
  BY <1>6, <1>7
<1>9. Load(w, s) <= m
  BY <1>1, <1>5, <1>6, <1>8, RemaindersFew
<1> QED BY <1>9 DEF w, m

-----------------------------------------------------------------------------
(* The credits: the weights until the clusters are published, then what the *)
(* draws of a round made of them.                                           *)

Fresh(iswriter) ==
    /\ current[iswriter] = Weights(iswriter)
    /\ drawn[iswriter] = [i \in Members(iswriter) |-> 0] /\ draws[iswriter] = 0

Credited(iswriter) ==
    IF published /\ items[iswriter] # <<>>
    THEN InRound(current[iswriter], Weights(iswriter), Members(iswriter),
                 drawn[iswriter], draws[iswriter])
    ELSE Fresh(iswriter)

Typed ==
    /\ json \in Seq(Node) /\ ServersTyped /\ published \in BOOLEAN
    /\ DOMAIN current = BOOLEAN /\ DOMAIN drawn = BOOLEAN /\ DOMAIN draws = BOOLEAN

IndInv == Staged /\ Typed /\ \A iswriter \in BOOLEAN : DealtInTurn(iswriter) /\ Credited(iswriter)

LEMMA WeightsFacts ==
    ASSUME ServersTyped, NEW iswriter \in BOOLEAN, DealtInTurn(iswriter)
    PROVE  /\ Members(iswriter) = 1 .. Len(items[iswriter]) /\ Len(items[iswriter]) \in Nat
           /\ Weights(iswriter) \in [Members(iswriter) -> Int]
           /\ items[iswriter] # <<>> => IsCluster(Members(iswriter), Weights(iswriter))
<1> DEFINE c == Len(items[iswriter])
<1>1. c \in Nat /\ Members(iswriter) = 1 .. c /\ items[iswriter] \in [1 .. c -> Own(iswriter)]
  BY DEF DealtInTurn, Members
<1>2. \A i \in Members(iswriter) : servers[items[iswriter][i]].weight \in Nat \ {0}
  <2> SUFFICES ASSUME NEW i \in Members(iswriter)
               PROVE  servers[items[iswriter][i]].weight \in Nat \ {0}
    OBVIOUS
  <2>1. items[iswriter][i] \in DOMAIN servers
    BY <1>1, OwnFacts
  <2> QED BY <2>1, ServerFacts
<1>3. /\ Weights(iswriter) \in [Members(iswriter) -> Int]
      /\ \A i \in Members(iswriter) : Weights(iswriter)[i] \in Nat \ {0}
  BY <1>2 DEF Weights, Members
<1>4. c \in Nat /\ (items[iswriter] # <<>> => c # 0)
  BY DEF DealtInTurn
<1> HIDE DEF c
<1>5. IsFiniteSet(1 .. c)
  BY <1>1, FS_Interval
<1>6. (c # 0 => 1 \in 1 .. c) /\ \A i \in 1 .. c : i \in Nat
  BY <1>4
<1> QED BY <1>1, <1>3, <1>4, <1>5, <1>6 DEF IsCluster, c

LEMMA InvTypes == IndInv => TypeOK
<1> SUFFICES ASSUME IndInv PROVE TypeOK
  OBVIOUS
<1>1. Staged /\ Typed
  BY DEF IndInv
<1>2. ASSUME NEW iswriter \in BOOLEAN
      PROVE  /\ items[iswriter] \in Seq(Own(iswriter))
             /\ Len(items[iswriter]) <= AllConn(iswriter)
             /\ current[iswriter] \in [Members(iswriter) -> Int]
             /\ drawn[iswriter] \in [Members(iswriter) -> Nat]
             /\ draws[iswriter] = Total(drawn[iswriter], Members(iswriter))
  <2>1. DealtInTurn(iswriter) /\ Credited(iswriter)
    BY DEF IndInv
  <2>2. /\ Weights(iswriter) \in [Members(iswriter) -> Int]
        /\ IsFiniteSet(Members(iswriter))
    <3>1. /\ Weights(iswriter) \in [Members(iswriter) -> Int]
          /\ Members(iswriter) = 1 .. Len(items[iswriter]) /\ Len(items[iswriter]) \in Nat
      BY <1>1, <2>1, WeightsFacts DEF Typed
    <3>2. IsFiniteSet(1 .. Len(items[iswriter]))
      BY <3>1, FS_Interval
    <3> QED BY <3>1, <3>2
  <2>3. CASE published /\ items[iswriter] # <<>>
    BY <2>1, <2>3 DEF Credited, InRound, DealtInTurn
  <2>4. CASE Fresh(iswriter)
    <3>1. \A i \in Members(iswriter) : drawn[iswriter][i] = 0
      BY <2>4 DEF Fresh
    <3>2. Total(drawn[iswriter], Members(iswriter)) = 0
      BY <2>2, <3>1, SumZero DEF Total
    <3> QED BY <2>1, <2>2, <2>4, <3>2 DEF Fresh, DealtInTurn
  <2> QED BY <2>1, <2>3, <2>4 DEF Credited
<1> QED BY <1>1, <1>2 DEF TypeOK, Staged, Typed, ServersTyped, Own

LEMMA InvFair == IndInv => RoundIsFair
<1> SUFFICES ASSUME IndInv, NEW iswriter \in BOOLEAN,
                    draws[iswriter] = WeightSum(iswriter), published
             PROVE  drawn[iswriter] = Weights(iswriter) /\ current[iswriter] = Weights(iswriter)
  BY DEF RoundIsFair
<1>1. ServersTyped /\ DealtInTurn(iswriter) /\ Credited(iswriter)
  BY DEF IndInv, Typed
<1>2. CASE items[iswriter] # <<>>
  <2> DEFINE M == Members(iswriter)
             W == Weights(iswriter)
  <2>1. InRound(current[iswriter], W, M, drawn[iswriter], Total(W, M)) /\ IsCluster(M, W)
    BY <1>1, <1>2, WeightsFacts DEF Credited, WeightSum
  <2>2. \A i \in M : drawn[iswriter][i] = W[i] /\ current[iswriter][i] = W[i]
    BY <2>1, RoundEnds
  <2>3. /\ drawn[iswriter] \in [M -> Nat] /\ current[iswriter] \in [M -> Int]
        /\ W \in [M -> Int]
    BY <1>1, <2>1, WeightsFacts DEF InRound
  <2> HIDE DEF W, M
  <2>4. drawn[iswriter] = W /\ current[iswriter] = W
    BY <2>2, <2>3
  <2> QED BY <2>4 DEF W
<1>3. CASE items[iswriter] = <<>>
  <2>1. Fresh(iswriter) /\ Members(iswriter) = {}
    BY <1>1, <1>3 DEF Credited, Members
  <2> QED BY <2>1 DEF Fresh, Weights, Members
<1> QED BY <1>2, <1>3

-----------------------------------------------------------------------------
(* Every step keeps all of it.                                             *)

LEMMA AllConnNatural ==
    ServersTyped => \A iswriter \in BOOLEAN : AllConn(iswriter) \in Nat
BY AllConnFacts

\* Without connections there is nothing to deal or to count.
Empty(iswriter) ==
    /\ items[iswriter] = <<>> /\ current[iswriter] = <<>> /\ drawn[iswriter] = <<>>
    /\ draws[iswriter] = 0

LEMMA NothingOpen ==
    \A iswriter \in BOOLEAN :
        Empty(iswriter) /\ AllConn(iswriter) \in Nat
            => DealtInTurn(iswriter) /\ Credited(iswriter)
BY DEF Empty, DealtInTurn, Credited, Fresh, Members, Weights

\* A cluster nobody touches is dealt and credited as before.
LEMMA SameDealt ==
    ASSUME NEW iswriter \in BOOLEAN, servers' = servers, items'[iswriter] = items[iswriter],
           DealtInTurn(iswriter)
    PROVE  DealtInTurn(iswriter)'
<1>1. Own(iswriter)' = Own(iswriter) /\ Members(iswriter)' = Members(iswriter)
  BY DEF Own, Members
<1>2. CurrentServers(iswriter)' = CurrentServers(iswriter)
  BY <1>1 DEF CurrentServers
<1>3. \A i : Dealt(iswriter, i)' = Dealt(iswriter, i)
  BY <1>2 DEF Dealt
<1> QED BY <1>1, <1>3, SameLimits DEF DealtInTurn

LEMMA SameWeights ==
    ASSUME NEW iswriter \in BOOLEAN, servers' = servers, items'[iswriter] = items[iswriter]
    PROVE  Members(iswriter)' = Members(iswriter) /\ Weights(iswriter)' = Weights(iswriter)
BY DEF Members, Weights

LEMMA SameCredited ==
    ASSUME NEW iswriter \in BOOLEAN, servers' = servers, items'[iswriter] = items[iswriter],
           current'[iswriter] = current[iswriter], drawn'[iswriter] = drawn[iswriter],
           draws'[iswriter] = draws[iswriter], published' = published, Credited(iswriter)
    PROVE  Credited(iswriter)'
BY SameWeights DEF Credited, Fresh

LEMMA AppendIs ==
    ASSUME NEW n \in Nat, NEW f, f = [i \in 1 .. n |-> f[i]], NEW x
    PROVE  Append(f, x) = [i \in 1 .. n + 1 |-> IF i <= n THEN f[i] ELSE x]
<1>1. DOMAIN f = 1 .. n
  OBVIOUS
<1>2. Len(f) = n
  BY <1>1
<1> QED BY <1>2

LEMMA ConnectDeals ==
    ASSUME IndInv, NEW iswriter \in BOOLEAN, Connect(iswriter)
    PROVE  DealtInTurn(iswriter)' /\ Credited(iswriter)'
<1> DEFINE s == Dealt(iswriter, Len(items[iswriter]))
           n == Len(items[iswriter])
           x == servers[s].weight
<1>1. /\ servers' = servers /\ published' = published /\ draws' = draws /\ ~published
      /\ items'[iswriter] = Append(items[iswriter], s)
      /\ current'[iswriter] = Append(current[iswriter], x)
      /\ drawn'[iswriter] = Append(drawn[iswriter], 0) /\ n # AllConn(iswriter)
  BY DEF Connect, IndInv, Staged, Typed, Complete
<1>2. /\ ServersTyped /\ DealtInTurn(iswriter) /\ Fresh(iswriter)
      /\ items[iswriter] \in Seq(Own(iswriter)) /\ n <= AllConn(iswriter) /\ n \in Nat
      /\ Members(iswriter) = 1 .. n
  BY <1>1 DEF IndInv, Typed, Credited, DealtInTurn, Members
<1>3. AllConn(iswriter) \in Nat /\ n + 1 <= AllConn(iswriter) /\ Own(iswriter) # {}
  BY <1>1, <1>2, AllConnFacts
<1>4. s \in Own(iswriter)
  BY <1>2, <1>3, DealtIsOwn
<1> HIDE DEF s, x
<1>5. /\ items'[iswriter] \in Seq(Own(iswriter)) /\ Len(items'[iswriter]) = n + 1
      /\ Members(iswriter)' = 1 .. n + 1
      /\ \A i \in 1 .. n + 1 :
            items'[iswriter][i] = IF i <= n THEN items[iswriter][i] ELSE s
  BY <1>1, <1>2, <1>4 DEF Members
<1>6. DealtInTurn(iswriter)'
  <2>1. Own(iswriter)' = Own(iswriter) /\ AllConn(iswriter)' = AllConn(iswriter)
    BY <1>1, SameLimits DEF Own
  <2>2. CurrentServers(iswriter)' = CurrentServers(iswriter)
    BY <2>1 DEF CurrentServers
  <2>3. \A i : Dealt(iswriter, i)' = Dealt(iswriter, i)
    BY <2>2 DEF Dealt
  <2>4. ASSUME NEW i \in 1 .. n + 1
        PROVE  items'[iswriter][i] = Dealt(iswriter, i - 1)
    <3>1. CASE i <= n
      BY <1>2, <1>5, <3>1 DEF DealtInTurn
    <3>2. CASE ~(i <= n)
      <4>1. i - 1 = n
        BY <1>2, <3>2
      <4> QED BY <1>5, <3>2, <4>1 DEF s
    <3> QED BY <3>1, <3>2
  <2> QED BY <1>3, <1>5, <2>1, <2>3, <2>4 DEF DealtInTurn
<1>7. Fresh(iswriter)'
  <2>1. current'[iswriter] = [i \in 1 .. n + 1 |-> IF i <= n THEN current[iswriter][i] ELSE x]
    <3>1. current[iswriter] = [i \in 1 .. n |-> current[iswriter][i]]
      BY <1>2 DEF Fresh, Weights, Members
    <3> HIDE DEF n
    <3> QED BY <1>1, <1>2, <3>1, AppendIs
  <2>2. drawn'[iswriter] = [i \in 1 .. n + 1 |-> 0]
    <3>1. drawn[iswriter] = [i \in 1 .. n |-> drawn[iswriter][i]]
      BY <1>2 DEF Fresh
    <3>2. \A i \in 1 .. n : drawn[iswriter][i] = 0
      BY <1>2 DEF Fresh
    <3>3. drawn'[iswriter] = [i \in 1 .. n + 1 |-> IF i <= n THEN drawn[iswriter][i] ELSE 0]
      <4> HIDE DEF n
      <4> QED BY <1>1, <1>2, <3>1, AppendIs
    <3> QED BY <1>2, <3>2, <3>3
  <2>3. Weights(iswriter)' =
          [i \in 1 .. n + 1 |-> servers[IF i <= n THEN items[iswriter][i] ELSE s].weight]
    BY <1>1, <1>5 DEF Weights, Members
  <2>4. \A i \in 1 .. n : current[iswriter][i] = servers[items[iswriter][i]].weight
    BY <1>2 DEF Fresh, Weights, Members
  <2>5. current'[iswriter] = Weights(iswriter)'
    BY <1>2, <2>1, <2>3, <2>4 DEF x
  <2> QED BY <1>1, <1>2, <1>5, <2>2, <2>5 DEF Fresh
<1> QED BY <1>1, <1>6, <1>7 DEF Credited

LEMMA DrawDeals ==
    ASSUME IndInv, NEW iswriter \in BOOLEAN, Draw(iswriter)
    PROVE  Credited(iswriter)'
<1> DEFINE M == Members(iswriter)
           W == Weights(iswriter)
           sum == Total(W, M)
           p == Pick(current[iswriter], W, M)
           new == draws[iswriter] = sum
           old == IF new THEN [j \in M |-> 0] ELSE drawn[iswriter]
           k == IF new THEN 0 ELSE draws[iswriter]
<1>1. /\ published /\ items[iswriter] # <<>> /\ published' = published
      /\ items' = items /\ servers' = servers
      /\ current'[iswriter] = Pay(current[iswriter], W, M, p)
      /\ drawn'[iswriter] = [old EXCEPT ![p] = @ + 1]
      /\ draws'[iswriter] = k + 1
  BY DEF Draw, IndInv, Typed, WeightSum
<1>2. ServersTyped /\ DealtInTurn(iswriter) /\ Credited(iswriter)
  BY DEF IndInv, Typed
<1>3. IsCluster(M, W) /\ W \in [M -> Int]
  BY <1>1, <1>2, WeightsFacts
<1>4. InRound(current[iswriter], W, M, drawn[iswriter], draws[iswriter])
  BY <1>1, <1>2 DEF Credited
<1> HIDE DEF M, W
<1>5. InRound(current[iswriter], W, M, old, k) /\ k # sum
  <2>1. CASE new
    <3>1. \A c \in M : current[iswriter][c] = W[c]
      BY <1>3, <1>4, <2>1, RoundEnds
    <3>2. current[iswriter] \in [M -> Int]
      BY <1>4 DEF InRound
    <3>3. old \in [M -> Nat] /\ (\A c \in M : old[c] = 0) /\ k = 0
      BY <2>1
    <3>4. sum # 0
      BY <1>3, SumOfWeights
    <3> HIDE DEF old, k
    <3>5. InRound(current[iswriter], W, M, old, 0)
      BY <1>3, <3>1, <3>2, <3>3, RoundStarts
    <3> QED BY <3>3, <3>4, <3>5
  <2>2. CASE ~new
    BY <1>4, <2>2
  <2> QED BY <2>1, <2>2
<1> HIDE DEF old, k
<1>6. InRound(Pay(current[iswriter], W, M, p), W, M, [old EXCEPT ![p] = @ + 1], k + 1)
  BY <1>3, <1>5, RoundAdvances
<1>7. Members(iswriter)' = M /\ Weights(iswriter)' = W
  BY <1>1, SameWeights DEF M, W
<1> QED BY <1>1, <1>6, <1>7 DEF Credited

\* Reading conf.json leaves a sequence of servers in range.
LEMMA ParseReads ==
    ASSUME Typed, Parse
    PROVE  ServersTyped'
<1>1. json \in Seq(Node) /\ servers' = [i \in DOMAIN json |-> Read(json[i])]
      /\ \A i \in DOMAIN json : Read(json[i]) \in Server
  BY DEF Typed, Parse
<1>2. DOMAIN json = 1 .. Len(json) /\ Len(json) \in Nat
  BY <1>1
<1>3. servers' \in [1 .. Len(json) -> Server]
  BY <1>1, <1>2
<1> QED BY <1>2, <1>3 DEF ServersTyped

LEMMA InitInv == Init => IndInv
<1> SUFFICES ASSUME Init PROVE IndInv
  OBVIOUS
<1>1. Typed
  <2>1. json \in Seq(Node)
    BY ClustersAssumption DEF Init
  <2>2. servers = <<>> /\ published = FALSE
        /\ DOMAIN current = BOOLEAN /\ DOMAIN drawn = BOOLEAN /\ DOMAIN draws = BOOLEAN
    BY DEF Init, Nothing
  <2>3. ServersTyped
    <3>1. <<>> \in Seq(Server)
      OBVIOUS
    <3> QED BY <2>2, <3>1, Zenon DEF ServersTyped
  <2> QED BY <2>1, <2>2, <2>3, Zenon DEF Typed
<1>2. ASSUME NEW iswriter \in BOOLEAN
      PROVE  DealtInTurn(iswriter) /\ Credited(iswriter)
  <2>1. AllConn(iswriter) \in Nat
    BY <1>1, AllConnFacts DEF Typed
  <2>2. Empty(iswriter)
    BY DEF Init, Nothing, Empty
  <2> QED BY <2>1, <2>2, NothingOpen
<1> QED BY <1>1, <1>2, Initially DEF IndInv

LEMMA TypedKept ==
    ASSUME IndInv, [Next]_vars
    PROVE  Typed'
<1>1. Typed
  BY DEF IndInv
<1>2. CASE Parse
  <2>1. ServersTyped' /\ json' = <<>> /\ UNCHANGED <<current, published, drawn, draws>>
    BY <1>1, <1>2, ParseReads DEF Parse, drawVars
  <2> QED BY <1>1, <2>1 DEF Typed
<1>3. CASE ParseFails \/ CopyFails \/ ConnectFails
  <2>1. /\ servers' = servers /\ json' \in {json, <<>>} /\ published' = published
        /\ current' \in {current, Nothing} /\ drawn' \in {drawn, Nothing} /\ draws' = draws
    BY <1>3 DEF ParseFails, CopyFails, ConnectFails, drawVars
  <2>2. json' \in Seq(Node) /\ ServersTyped'
    <3> DEFINE nodes == Seq(Node)
    <3>1. json \in nodes /\ ServersTyped /\ <<>> \in nodes
      BY <1>1 DEF Typed
    <3> HIDE DEF nodes
    <3>2. json' \in nodes
      BY <2>1, <3>1
    <3> QED BY <2>1, <3>1, <3>2 DEF ServersTyped, nodes
  <2>3. DOMAIN Nothing = BOOLEAN
    BY DEF Nothing
  <2> HIDE DEF Nothing
  <2>4. DOMAIN current' = BOOLEAN /\ DOMAIN drawn' = BOOLEAN /\ DOMAIN draws' = BOOLEAN
    BY <1>1, <2>1, <2>3 DEF Typed
  <2>5. published' \in BOOLEAN
    BY <1>1, <2>1 DEF Typed
  <2> QED BY <2>2, <2>4, <2>5 DEF Typed
<1>4. CASE Copy \/ WritersMade \/ Publish \/ UNCHANGED vars
  BY <1>1, <1>4 DEF Copy, WritersMade, Publish, vars, drawVars, Typed, ServersTyped
<1>5. CASE \E iswriter \in BOOLEAN : Connect(iswriter) \/ Draw(iswriter)
  <2>1. PICK iswriter \in BOOLEAN : Connect(iswriter) \/ Draw(iswriter)
    BY <1>5
  <2>2. /\ servers' = servers /\ json' = json /\ published' = published
        /\ DOMAIN current' = DOMAIN current /\ DOMAIN drawn' = DOMAIN drawn
        /\ DOMAIN draws' = DOMAIN draws
    BY <2>1 DEF Connect, Draw
  <2> QED BY <1>1, <2>2 DEF Typed, ServersTyped
<1> QED BY <1>2, <1>3, <1>4, <1>5 DEF Next

LEMMA DealsKept ==
    ASSUME IndInv, [Next]_vars, NEW w \in BOOLEAN
    PROVE  DealtInTurn(w)' /\ Credited(w)'
<1>1. Staged /\ Typed /\ DealtInTurn(w) /\ Credited(w)
  BY DEF IndInv
<1>2. AllConn(w)' \in Nat
  <2>1. ServersTyped'
    BY TypedKept DEF Typed
  <2>2. ServersTyped' => (\A iswriter \in BOOLEAN : AllConn(iswriter) \in Nat)'
    BY AllConnNatural, PTL
  <2> QED BY <2>1, <2>2
<1>3. Empty(w)' => DealtInTurn(w)' /\ Credited(w)'
  <2>1. (\A iswriter \in BOOLEAN : Empty(iswriter) /\ AllConn(iswriter) \in Nat
            => DealtInTurn(iswriter) /\ Credited(iswriter))'
    BY NothingOpen, PTL
  <2> QED BY <1>2, <2>1
<1>4. CASE Parse \/ ParseFails \/ CopyFails
  <2>1. /\ stage \in {"parse", "copy"}
        /\ UNCHANGED <<items, current, published, drawn, draws>>
    BY <1>4 DEF Parse, ParseFails, CopyFails, drawVars
  <2>2. items[w] = <<>>
    BY <1>1, <2>1 DEF Staged, Nothing
  <2>3. Empty(w)
    BY <1>1, <2>2 DEF Credited, Fresh, Members, Weights, Empty
  <2> QED BY <1>3, <2>1, <2>3 DEF Empty
<1>5. CASE ConnectFails
  <2>1. items' = Nothing /\ current' = Nothing /\ drawn' = Nothing /\ draws' = draws
    BY <1>5 DEF ConnectFails
  <2>2. ~published
    BY <1>1, <1>5 DEF ConnectFails, Staged
  <2>3. draws[w] = 0
    BY <1>1, <2>2 DEF Credited, Fresh
  <2> QED BY <1>3, <2>1, <2>3 DEF Empty, Nothing
<1>6. CASE Copy \/ WritersMade \/ Publish \/ UNCHANGED vars
  <2>1. UNCHANGED <<servers, items, current, drawn, draws>>
    BY <1>6 DEF Copy, WritersMade, Publish, vars, drawVars
  <2>2. DealtInTurn(w)'
    BY <1>1, <2>1, SameDealt
  <2>3. CASE published' = published
    BY <1>1, <2>1, <2>2, <2>3, SameCredited
  <2>4. CASE published' # published
    <3>1. Fresh(w) /\ published'
      BY <1>1, <1>6, <2>4 DEF Copy, WritersMade, Publish, vars, Staged, Typed, Credited
    <3>2. CASE items[w] = <<>>
      BY <2>1, <2>2, <3>1, <3>2, SameWeights DEF Credited, Fresh
    <3>3. CASE items[w] # <<>>
      <4> DEFINE M == Members(w)
                 W == Weights(w)
                 c == current[w]
                 d == drawn[w]
      <4>1. IsCluster(M, W) /\ W \in [M -> Int]
        BY <1>1, <3>3, WeightsFacts DEF Typed
      <4>2. c = W /\ d = [i \in M |-> 0] /\ draws[w] = 0
        BY <3>1 DEF Fresh
      <4> HIDE DEF M, W, c, d
      <4>3. /\ c \in [M -> Int] /\ (\A i \in M : c[i] = W[i])
            /\ d \in [M -> Nat] /\ (\A i \in M : d[i] = 0)
        BY <4>1, <4>2
      <4>4. InRound(c, W, M, d, 0)
        BY <4>1, <4>3, RoundStarts
      <4>5. M' = M /\ W' = W /\ c' = c /\ d' = d /\ draws'[w] = 0
        BY <2>1, <4>2, SameWeights DEF M, W, c, d
      <4> QED BY <2>1, <2>2, <3>1, <3>3, <4>4, <4>5 DEF Credited, M, W, c, d
    <3> QED BY <3>2, <3>3
  <2> QED BY <2>3, <2>4
<1>7. CASE \E iswriter \in BOOLEAN : Connect(iswriter) \/ Draw(iswriter)
  <2>1. PICK iswriter \in BOOLEAN : Connect(iswriter) \/ Draw(iswriter)
    BY <1>7
  <2>2. CASE iswriter # w
    <3>1. /\ servers' = servers /\ items'[w] = items[w] /\ current'[w] = current[w]
          /\ drawn'[w] = drawn[w] /\ draws'[w] = draws[w] /\ published' = published
      BY <1>1, <2>1, <2>2 DEF Connect, Draw, Staged, Typed
    <3> QED BY <1>1, <3>1, SameDealt, SameCredited
  <2>3. CASE iswriter = w /\ Connect(iswriter)
    BY <2>3, ConnectDeals
  <2>4. CASE iswriter = w /\ Draw(iswriter)
    <3>1. servers' = servers /\ items' = items
      BY <2>4 DEF Draw
    <3> QED BY <1>1, <2>4, <3>1, SameDealt, DrawDeals
  <2> QED BY <2>1, <2>2, <2>3, <2>4
<1> QED BY <1>4, <1>5, <1>6, <1>7 DEF Next

LEMMA InvKept == IndInv /\ [Next]_vars => IndInv'
<1> SUFFICES ASSUME IndInv, [Next]_vars PROVE IndInv'
  OBVIOUS
<1>1. Staged'
  BY NextKeeps DEF IndInv
<1> QED BY <1>1, TypedKept, DealsKept DEF IndInv

LEMMA InvHolds == Spec => []IndInv
BY InitInv, InvKept, PTL DEF Spec

\* The variables keep their shape: no cluster outgrows the connections its dbconfs array
\* has room for, each of them goes to a server of the right kind, and the loop of
\* get_next_dbserver_index always ends on a connection of the cluster.
THEOREM ClustersTyped == Spec => []TypeOK
BY InvTypes, InvHolds, PTL

\* Dealing the connections of a cluster in turn keeps every server within its own
\* max_connection as long as all servers of its kind have the same one. (With different
\* ones it does not: OwnLimits alone is violated.)
THEOREM ClustersKeepEqualLimits == Spec => [](EqualLimits => OwnLimits)
<1>1. IndInv => (EqualLimits => OwnLimits)
  BY DealtWithin DEF IndInv, Typed
<1> QED BY <1>1, InvHolds, PTL

\* After as many draws as the weights of a cluster sum up to, every connection was drawn
\* as often as its weight says and the credits are the weights again.
THEOREM ClustersDrawnFairly == Spec => []RoundIsFair
BY InvFair, InvHolds, PTL

\* The credit of a connection never falls to the negative of the sum of the weights: the
\* lower half of CreditBounded.
CreditsAbove ==
    \A iswriter \in BOOLEAN : \A i \in Members(iswriter) :
        current[iswriter][i] > -WeightSum(iswriter)

THEOREM CreditsStayAbove == Spec => []CreditsAbove
<1>1. ASSUME IndInv, NEW iswriter \in BOOLEAN, NEW i \in Members(iswriter)
      PROVE  current[iswriter][i] > -WeightSum(iswriter)
  <2> DEFINE M == Members(iswriter)
             W == Weights(iswriter)
  <2>1. ServersTyped /\ DealtInTurn(iswriter) /\ Credited(iswriter)
    BY <1>1 DEF IndInv, Typed
  <2>2. items[iswriter] # <<>>
    BY <1>1 DEF Members
  <2>3. IsCluster(M, W)
    BY <2>1, <2>2, WeightsFacts
  <2>4. CASE published
    BY <2>1, <2>2, <2>4 DEF Credited, InRound, WeightSum
  <2>5. CASE ~published
    <3>1. current[iswriter] = W
      BY <2>1, <2>5 DEF Credited, Fresh
    <3>2. W[i] \in Nat \ {0} /\ Total(W, M) \in Nat
      BY <2>3, SumOfWeights DEF IsCluster
    <3> HIDE DEF W, M
    <3>3. W[i] > -Total(W, M)
      BY <3>2
    <3> QED BY <3>1, <3>3 DEF WeightSum, W, M
  <2> QED BY <2>4, <2>5
<1>2. IndInv => CreditsAbove
  BY <1>1 DEF CreditsAbove
<1> QED BY <1>2, InvHolds, PTL

\* Within a round a connection earns no more than the largest weight times the sum,
\* of which the first weight is what it started with.
LEMMA EarnedBelow ==
    ASSUME NEW w \in Nat, NEW max \in Nat, w <= max, NEW sum \in Nat, NEW k \in Nat, k < sum,
           NEW p \in Nat, NEW credit, credit = (k + 1) * w - sum * p
    PROVE  credit <= max * sum
<1>1. (k + 1) * w <= sum * w
  OBVIOUS
<1>2. sum * w <= max * sum
  OBVIOUS
<1>3. sum * p >= 0
  OBVIOUS
<1> DEFINE a == (k + 1) * w
           b == sum * w
           c == max * sum
           d == sum * p
<1>4. a \in Int /\ b \in Int /\ c \in Int /\ d \in Int
  OBVIOUS
<1>5. a <= b /\ b <= c /\ d >= 0 /\ credit = a - d
  BY <1>1, <1>2, <1>3
<1> HIDE DEF a, b, c, d
<1>6. credit <= c
  BY <1>4, <1>5
<1> QED BY <1>6 DEF c

\* ... nor does one ever climb above the largest weight times that sum: what a
\* connection earns in a round.
CreditsBelow ==
    \A iswriter \in BOOLEAN : \A i \in Members(iswriter) :
        current[iswriter][i] <= MaxWeight * WeightSum(iswriter)

THEOREM CreditsStayBelow == Spec => []CreditsBelow
<1>1. ASSUME IndInv, NEW iswriter \in BOOLEAN, NEW i \in Members(iswriter)
      PROVE  current[iswriter][i] <= MaxWeight * WeightSum(iswriter)
  <2> DEFINE M == Members(iswriter)
             W == Weights(iswriter)
             sum == WeightSum(iswriter)
             c == current[iswriter][i]
             w == W[i]
  <2>1. ServersTyped /\ DealtInTurn(iswriter) /\ Credited(iswriter)
    BY <1>1 DEF IndInv, Typed
  <2>2. items[iswriter] # <<>>
    BY <1>1 DEF Members
  <2>3. IsCluster(M, W)
    BY <2>1, <2>2, WeightsFacts
  <2>4. sum \in Nat \ {0} /\ w \in Nat \ {0} /\ MaxWeight \in Nat /\ w <= MaxWeight
    <3>1. sum \in Nat \ {0} /\ w \in Nat \ {0} /\ MaxWeight \in Nat
      BY <1>1, <2>3, SumOfWeights, ClustersAssumption DEF WeightSum, IsCluster
    <3>2. items[iswriter] \in [M -> Own(iswriter)]
      BY <2>1 DEF DealtInTurn, Members
    <3>3. items[iswriter][i] \in DOMAIN servers
      BY <1>1, <2>1, <3>2, OwnFacts
    <3>4. servers[items[iswriter][i]].weight <= MaxWeight
      <4> DEFINE j == items[iswriter][i]
      <4>1. servers \in Seq(Server) /\ j \in DOMAIN servers
        BY <2>1, <3>3 DEF ServersTyped
      <4> HIDE DEF j
      <4>2. servers[j] \in Server
        BY <4>1
      <4>3. servers[j].weight \in 1 .. MaxWeight
        BY <4>2 DEF Server
      <4> QED BY <3>1, <4>3 DEF j
    <3>5. w = servers[items[iswriter][i]].weight
      BY <1>1, <3>2 DEF Weights
    <3> QED BY <3>1, <3>4, <3>5
  <2>5. CASE c = w
    <3>1. 1 <= sum /\ MaxWeight >= 0
      BY <2>4
    <3> HIDE DEF sum, w, c
    <3>2. MaxWeight <= MaxWeight * sum
      BY <2>4
    <3>3. MaxWeight * sum \in Int
      BY <2>4
    <3> QED BY <2>4, <2>5, <3>2, <3>3 DEF c, sum
  <2>6. CASE published
    <3>1. InRound(current[iswriter], W, M, drawn[iswriter], draws[iswriter])
      BY <2>1, <2>2, <2>6 DEF Credited
    <3> DEFINE k == draws[iswriter]
               p == drawn[iswriter][i]
    <3>2. k = Total(drawn[iswriter], M) /\ k <= sum /\ p \in Nat /\ c = (k + 1) * w - sum * p
          /\ drawn[iswriter] \in [M -> Nat]
      BY <1>1, <3>1 DEF InRound, WeightSum
    <3>3. k \in Nat
      BY <2>3, <3>2, SumOfNaturals DEF IsCluster, Total
    <3>4. CASE k = sum
      <4>1. InRound(current[iswriter], W, M, drawn[iswriter], Total(W, M))
        BY <3>1, <3>4 DEF WeightSum
      <4>2. c = w
        BY <1>1, <2>3, <4>1, RoundEnds
      <4> QED BY <2>5, <4>2
    <3>5. CASE k # sum
      <4> HIDE DEF k, p, sum, w, c, M, W
      <4>1. k < sum /\ sum \in Nat /\ w \in Nat
        BY <2>4, <3>2, <3>3, <3>5
      <4>2. c <= MaxWeight * sum
        BY <2>4, <3>2, <3>3, <4>1, EarnedBelow
      <4> QED BY <4>2 DEF c, sum
    <3> QED BY <3>4, <3>5
  <2>7. CASE ~published
    <3>1. current[iswriter] = W
      BY <2>1, <2>7 DEF Credited, Fresh
    <3> QED BY <2>5, <3>1
  <2> QED BY <2>6, <2>7
<1>2. IndInv => CreditsBelow
  BY <1>1 DEF CreditsBelow
<1> QED BY <1>2, InvHolds, PTL
=============================================================================
