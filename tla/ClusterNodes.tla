---------------------------- MODULE ClusterNodes ----------------------------
(***************************************************************************)
(* How a Cluster keeps its nodes and the promises of connections           *)
(* (src/rediscluster/cluster.go, mapping.go, slotrange.go).                *)
(*                                                                         *)
(* The map of nodes is replaced as a whole, under c.m, by reloads and by   *)
(* the goroutines that add a node for a redirect.  A node (a handle with   *)
(* its connections) may be in the current map, in prevNodes and in maps a  *)
(* delayed function still has to release; it is closed when its count of   *)
(* these reaches 0.                                                        *)
(*                                                                         *)
(* A node is named by its address and a number: i is the i-th node made    *)
(* for the address, 0 means that a map has no node for it.                 *)
(***************************************************************************)
EXTENDS Integers, Sequences, FiniteSets

CONSTANTS
    Addrs,      \* addresses of redis instances
    InitAddrs,  \* the (resolved) addresses passed to NewCluster
    Reports,    \* the sets of addresses CLUSTER SLOTS may list
    Callbacks,  \* calls of ensureConnForAddress
    None,       \* not a callback
    MaxNodes,   \* bound: nodes made for one address
    MaxReloads  \* bound: successful reloads

ASSUME NodesAssumption ==
    /\ InitAddrs \in Seq(Addrs) /\ Len(InitAddrs) \in 1 .. MaxNodes
    /\ Reports \subseteq SUBSET Addrs
    /\ MaxNodes \in Nat /\ MaxReloads \in Nat
    /\ None \notin Callbacks

-----------------------------------------------------------------------------
Nodes == 1 .. MaxNodes
NodeMaps == [Addrs -> 0 .. MaxNodes]
NoNodes == [a \in Addrs |-> 0]

VARIABLES
    nodes,     \* c.config.nodes
    prevNodes, \* c.prevNodes
    drops,     \* drops[n]: what the AfterFunc of reload n still has to release
    made,      \* made[a]: how many nodes were created for a
    refcnt,    \* refcnt[a][i]: node.refcnt
    closed,    \* nodes <<a, i>> whose connections were closed
    reloads,   \* successful reloads so far; the first is NewCluster's own
    cpc,       \* cpc[f]: progress of the ensureConnForAddress call f
    caddr,     \* its address
    promises,  \* c.nodeWait.promises: the call that started the goroutine
    queue,     \* queue[f]: *future of the goroutine started by call f
    gpc,       \* gpc[f]: progress of that goroutine
    called     \* history: how often callback f was run

mapVars == <<nodes, prevNodes, drops, made, refcnt, closed, reloads>>
waitVars == <<cpc, caddr, promises, queue, gpc, called>>
vars == <<mapVars, waitVars>>

TypeOK ==
    /\ nodes \in NodeMaps
    /\ prevNodes \in NodeMaps
    /\ drops \in [1 .. MaxReloads -> NodeMaps]
    /\ made \in [Addrs -> 0 .. MaxNodes]
    /\ refcnt \in [Addrs -> [Nodes -> Nat]]
    /\ closed \subseteq Addrs \X Nodes
    /\ reloads \in 0 .. MaxReloads
    /\ cpc \in [Callbacks -> {"idle", "missed", "passed"}]
    /\ caddr \in [Callbacks -> Addrs]
    /\ promises \in [Addrs -> Callbacks \cup {None}]
    /\ queue \in [Callbacks -> Seq(Callbacks)]
    /\ gpc \in [Callbacks -> {"idle", "add", "delete", "run", "done"}]
    /\ called \in [Callbacks -> Nat]

Occurrences(a) == Cardinality({j \in DOMAIN InitAddrs : InitAddrs[j] = a})

\* NewCluster up to its first reload.  The loop asks config.masters, which is
\* still empty, whether an address is known, so every occurrence of an address
\* gets a node; the map keeps the last one.
Init ==
    /\ made = [a \in Addrs |-> Occurrences(a)]
    /\ nodes = made
    /\ prevNodes = NoNodes
    /\ drops = [n \in 1 .. MaxReloads |-> NoNodes]
    /\ refcnt = [a \in Addrs |-> [i \in Nodes |-> IF i <= made[a] THEN 1 ELSE 0]]
    /\ closed = {} /\ reloads = 0
    /\ cpc = [f \in Callbacks |-> "idle"] /\ caddr \in [Callbacks -> Addrs]
    /\ promises = [a \in Addrs |-> None]
    /\ queue = [f \in Callbacks |-> <<>>]
    /\ gpc = [f \in Callbacks |-> "idle"]
    /\ called = [f \in Callbacks |-> 0]

-----------------------------------------------------------------------------
(* Reloading the mapping *)

\* The node of a that a reload uses again, if any.
Kept(a) == IF nodes[a] # 0 THEN nodes[a] ELSE prevNodes[a]

\* newConfig.nodes for the reported addresses.
NodesFor(addrs) ==
    [a \in Addrs |-> IF a \notin addrs THEN 0
                     ELSE IF Kept(a) # 0 THEN Kept(a) ELSE made[a] + 1]

\* Fault: a node that is used again is not counted again.
AddRefsNewOnly(map) ==
    [a \in Addrs |-> [i \in Nodes |-> IF i = map[a] /\ i > made[a] THEN 1 ELSE refcnt[a][i]]]

\* newNode starts with one reference; a node that is used again gets one more.
AddRefs(map) ==
    [a \in Addrs |-> [i \in Nodes |-> IF i = map[a] THEN refcnt[a][i] + 1 ELSE refcnt[a][i]]]

AddMade(map) == [a \in Addrs |-> IF map[a] > made[a] THEN map[a] ELSE made[a]]

\* Fault: the release of the oldest generation is forgotten.
DropLaterNothing == NoNodes

\* oldNodes, captured by the AfterFunc.
DropLater == prevNodes

\* updateMappings, which also starts a new map of promises.
UpdateMappings(addrs) ==
    /\ reloads < MaxReloads /\ reloads' = reloads + 1
    /\ \A a \in Addrs : NodesFor(addrs)[a] <= MaxNodes
    /\ nodes' = NodesFor(addrs)
    /\ prevNodes' = nodes
    /\ drops' = [drops EXCEPT ![reloads + 1] = DropLater]
    /\ made' = AddMade(NodesFor(addrs))
    /\ refcnt' = AddRefs(NodesFor(addrs))
    /\ promises' = [a \in Addrs |-> None]
    /\ UNCHANGED <<closed, cpc, caddr, queue, gpc, called>>

\* Fault: a node is closed as soon as one map is released.
ReleasedEarly(a, i) == closed \cup {<<a, i>>}

\* Fault: nobody closes a node without references.
ReleasedNever(a, i) == closed

\* refcnt reached zero: the connections are closed.
Released(a, i) == IF refcnt[a][i] = 1 THEN closed \cup {<<a, i>>} ELSE closed

\* One iteration of the AfterFunc of reload n.
DropNode(n, a) ==
    LET i == drops[n][a] IN
    /\ i # 0
    /\ drops' = [drops EXCEPT ![n][a] = 0]
    /\ refcnt' = [refcnt EXCEPT ![a][i] = @ - 1]
    /\ closed' = Released(a, i)
    /\ UNCHANGED <<nodes, prevNodes, made, reloads, waitVars>>

-----------------------------------------------------------------------------
(* ensureConnForAddress *)

Run(f) == called' = [called EXCEPT ![f] = @ + 1]

\* The address has a node: the callback is run at once, with a connection or
\* with ErrNoAliveConnection.  Requests exist once NewCluster has returned.
EnsureConn(f) ==
    /\ reloads > 0 /\ cpc[f] = "idle"
    /\ IF nodes[caddr[f]] # 0
       THEN cpc' = [cpc EXCEPT ![f] = "passed"] /\ Run(f)
       ELSE cpc' = [cpc EXCEPT ![f] = "missed"] /\ UNCHANGED called
    /\ UNCHANGED <<mapVars, caddr, promises, queue, gpc>>

\* Under nodeWait's lock: queue up behind a running goroutine, or start one.
Wait(f) ==
    LET a == caddr[f]
        g == IF promises[a] # None THEN promises[a] ELSE f
    IN
    /\ cpc[f] = "missed" /\ cpc' = [cpc EXCEPT ![f] = "passed"]
    /\ queue' = [queue EXCEPT ![g] = Append(@, f)]
    /\ promises' = [promises EXCEPT ![a] = g]
    /\ gpc' = [gpc EXCEPT ![f] = IF g = f THEN "add" ELSE @]
    /\ UNCHANGED <<mapVars, caddr, called>>

\* The map addNode would store the new entry of.
NodeToAdd(a) ==
    [b \in Addrs |-> IF b # a THEN 0
                     ELSE IF prevNodes[a] # 0 THEN prevNodes[a] ELSE made[a] + 1]

\* The goroutine started by call f calls addNode: someone else may have made
\* the node, or prevNodes may have it.
AddNode(f) ==
    LET a == caddr[f] IN
    /\ gpc[f] = "add" /\ gpc' = [gpc EXCEPT ![f] = "delete"]
    /\ IF nodes[a] # 0 THEN UNCHANGED <<nodes, made, refcnt>>
       ELSE /\ NodeToAdd(a)[a] <= MaxNodes
            /\ nodes' = [nodes EXCEPT ![a] = NodeToAdd(a)[a]]
            /\ made' = AddMade(NodeToAdd(a))
            /\ refcnt' = AddRefs(NodeToAdd(a))
    /\ UNCHANGED <<prevNodes, drops, closed, reloads, cpc, caddr, promises, queue, called>>

\* Fault: the promise is not removed, so that later calls still queue up.
PromisesKept(f) == promises

\* delete(promises, addr), in the map the goroutine was started with: if the
\* map was replaced since, the current one is not touched.
PromisesWithout(f) == [a \in Addrs |-> IF promises[a] = f THEN None ELSE promises[a]]

DeletePromise(f) ==
    /\ gpc[f] = "delete" /\ gpc' = [gpc EXCEPT ![f] = "run"]
    /\ promises' = PromisesWithout(f)
    /\ UNCHANGED <<mapVars, cpc, caddr, queue, called>>

\* Fault: a callback that was run stays in the list.
RemainingAll(fs) == fs

\* The callbacks left to run, of the range loop over *future.
Remaining(fs) == Tail(fs)

RunCallback(f) ==
    /\ gpc[f] = "run"
    /\ IF queue[f] = <<>> THEN gpc' = [gpc EXCEPT ![f] = "done"] /\ UNCHANGED <<queue, called>>
       ELSE /\ Run(Head(queue[f])) /\ queue' = [queue EXCEPT ![f] = Remaining(@)]
            /\ UNCHANGED gpc
    /\ UNCHANGED <<mapVars, cpc, caddr, promises>>

-----------------------------------------------------------------------------
\* The bounded behaviour is over: nothing is under way.
Stopped ==
    /\ reloads = MaxReloads /\ \A n \in 1 .. MaxReloads : drops[n] = NoNodes
    /\ \A f \in Callbacks : cpc[f] = "passed" /\ gpc[f] \in {"idle", "done"}
    /\ UNCHANGED vars

Next ==
    \/ \E addrs \in Reports : UpdateMappings(addrs)
    \/ \E n \in 1 .. MaxReloads, a \in Addrs : DropNode(n, a)
    \/ \E f \in Callbacks : \/ EnsureConn(f) \/ Wait(f) \/ AddNode(f) \/ DeletePromise(f)
                            \/ RunCallback(f)
    \/ Stopped

Spec == Init /\ [][Next]_vars

\* Started goroutines and timers run.  Nobody has to call or to reload.
Fairness ==
    /\ \A n \in 1 .. MaxReloads, a \in Addrs : WF_vars(DropNode(n, a))
    /\ \A f \in Callbacks : /\ WF_vars(Wait(f)) /\ WF_vars(AddNode(f))
                            /\ WF_vars(DeletePromise(f)) /\ WF_vars(RunCallback(f))

FairSpec == Spec /\ Fairness

-----------------------------------------------------------------------------
(* Properties *)

Dropping(a, i) == {n \in 1 .. MaxReloads : drops[n][a] = i}

\* How many maps hold node i of address a.
Holders(a, i) ==
    (IF nodes[a] = i THEN 1 ELSE 0) + (IF prevNodes[a] = i THEN 1 ELSE 0)
        + Cardinality(Dropping(a, i))

\* node.refcnt counts the maps that hold a node, across reloads, nodes added
\* by redirects or taken over from the previous generation, and delayed drops.
RefcountExact == \A a \in Addrs, i \in Nodes : refcnt[a][i] = Holders(a, i)

\* The node requests are sent through is not closed behind their back: the
\* delayed drop of updateMappings never closes one the current map took over.
CurrentNodesOpen == \A a \in Addrs : <<a, nodes[a]>> \notin closed

\* A node leaves all maps only by being closed (cluster.go:225: superfluous
\* connections "will be established and closed shortly").
NoLeakedNode ==
    \A a \in Addrs, i \in Nodes : i <= made[a] /\ <<a, i>> \notin closed => Holders(a, i) > 0

\* Where callback f is queued, by goroutine and position.
Queued(f) == UNION {{<<g, i>> : i \in {j \in DOMAIN queue[g] : queue[g][j] = f}} : g \in Callbacks}

\* A callback given to ensureConnForAddress is queued once or was run once,
\* although a reload replaces the map of promises under running goroutines.
CallbackOnce == \A f \in Callbacks :
    called[f] + Cardinality(Queued(f)) = (IF cpc[f] = "passed" THEN 1 ELSE 0)

\* Every callback given to ensureConnForAddress is run in the end.
CallbackRuns == \A f \in Callbacks : (cpc[f] = "missed") ~> (called[f] > 0)

\* A node that no reload wants any more is closed in the end (the 3 ms timer
\* of updateMappings), unless the cluster still keeps it as prevNodes.
OldNodesClosed == \A a \in Addrs, i \in Nodes :
    (\E n \in 1 .. MaxReloads : drops[n][a] = i)
        ~> (<<a, i>> \in closed \/ nodes[a] = i \/ prevNodes[a] = i)

=============================================================================
