------------------------------ MODULE Replicas ------------------------------
(***************************************************************************)
(* Health of the replicas of a shard: the bit mask shard.good, which the   *)
(* goroutine setConnRoles of each reload and the answers it asks for keep  *)
(* up to date (src/rediscluster/slotrange.go).                             *)
(*                                                                         *)
(* Several of these goroutines may be under way, for the current shard or  *)
(* for one that a failover has replaced, and setReplicaInfo runs in the    *)
(* reader of every connection at once.  Connections keep the promises of   *)
(* Sender: requests are answered in order, or fail together.               *)
(***************************************************************************)
EXTENDS Integers, Sequences, FiniteSets, SequencesExt

CONSTANTS
    Addrs,     \* addresses of the shard, sorted; the first is the master at the start
    Conns,     \* connections
    HostOf,    \* the host of each connection
    MaxRoles,  \* bound: setConnRoles goroutines under way
    MaxQueued, \* bound: a reload waits while a connection has more to answer
    MaxFaults  \* bound: failovers, broken connections, replicas that fall behind

Hosts == ToSet(Addrs)

\* The mask has 32 bits: a host beyond them has none (slotrange.go:119).
ASSUME ReplicasAssumption ==
    /\ Addrs \in Seq(Hosts) \ {<<>>} /\ Len(Addrs) = Cardinality(Hosts)
    /\ Len(Addrs) <= 32
    /\ IsFiniteSet(Conns)
    /\ HostOf \in [Conns -> Hosts]
    /\ MaxRoles \in Nat \ {0} /\ MaxQueued \in Nat /\ MaxFaults \in Nat

VARIABLES
    topo,    \* what CLUSTER SLOTS answers: the master's address first
    state,   \* of the servers: "well", "behind" (link to the master down), "loading"
    up,      \* established connections
    mode,    \* the mode the server keeps for a connection, "rw" or "ro"
    shards,  \* shard objects ever made, [addr, good]
    cfg,     \* the shard of the stored configuration
    roles,   \* setConnRoles goroutines: their shard and the connections to do
    flight,  \* requests of setConnRoles that a connection has accepted
    answers, \* calls of setReplicaInfo that a goroutine has to make
    loaded,  \* the state a goroutine read in the loop of setReplicaInfo
    last,    \* history: whether the last answer for a bit was good
    faults

vars == <<topo, state, up, mode, shards, cfg, roles, flight, answers, loaded,
          last, faults>>

\* setReplicaInfo runs in the reader of a connection, or in setConnRoles itself
\* when SendBatch refuses its requests.
Workers == 1 .. MaxRoles
Goroutines == Conns \cup Workers

Bits == 0 .. Cardinality(Hosts) - 1
NotLoaded == {-1}
NoWork == [shard |-> 0, todo |-> <<>>]
Work(s, todo) == IF todo = <<>> THEN NoWork ELSE [shard |-> s, todo |-> todo]

ServerStates == {"well", "behind", "loading"}
AddrLists == [DOMAIN Addrs -> Hosts]

\* The numbers requests are sent with: 0 for READWRITE, for others i * 2 and
\* i * 2 + 1, where i is the position of a replica.
Offsets == {0} \cup 2 .. 2 * Cardinality(Hosts) - 1

TypeOK ==
    /\ topo \in AddrLists /\ state \in [Hosts -> ServerStates]
    /\ up \subseteq Conns /\ mode \in [Conns -> {"rw", "ro"}]
    /\ shards \in Seq([addr: AddrLists, good: SUBSET Bits])
    /\ cfg \in DOMAIN shards
    /\ roles \in [Workers -> [shard: 0 .. Len(shards), todo: Seq(Conns)]]
    /\ flight \in [Conns -> Seq([shard: DOMAIN shards, n: Offsets])]
    /\ answers \in [Goroutines -> Seq([shard: DOMAIN shards, n: Offsets,
                                       res: ServerStates \cup {"OK", "error"}])]
    /\ loaded \in [Goroutines -> (SUBSET Bits) \cup {NotLoaded}]
    /\ last \in Seq([Bits -> BOOLEAN]) /\ Len(last) = Len(shards)
    /\ faults \in 0 .. MaxFaults

\* ParseSlotsInfo: the master, then the replicas, sorted.
TopologyOf(master) ==
    LET p == CHOOSE i \in DOMAIN Addrs : Addrs[i] = master IN
    [i \in DOMAIN Addrs |-> IF i = 1 THEN master ELSE IF i <= p THEN Addrs[i - 1] ELSE Addrs[i]]

\* A new shard starts with all bits set.
NewShard(addr) == [addr |-> addr, good |-> 0 .. Len(addr) - 1]

Init ==
    /\ topo = Addrs /\ state = [h \in Hosts |-> "well"]
    /\ up = Conns /\ mode = [c \in Conns |-> "rw"]
    /\ shards = <<NewShard(topo)>> /\ cfg = 1
    /\ roles = [w \in Workers |-> NoWork]
    /\ flight = [c \in Conns |-> <<>>]
    /\ answers = [g \in Goroutines |-> <<>>]
    /\ loaded = [g \in Goroutines |-> NotLoaded]
    /\ last = <<[b \in Bits |-> TRUE]>>
    /\ faults = 0

Index(s, c) == (CHOOSE i \in DOMAIN shards[s].addr : shards[s].addr[i] = HostOf[c]) - 1

-----------------------------------------------------------------------------
(* A reload *)

\* The connections in the order of the loops of setConnRoles.
InOrder(addr) ==
    {q \in SetToSeqs(Conns) : \A i, j \in DOMAIN addr, k, l \in DOMAIN q :
        (k < l /\ HostOf[q[k]] = addr[i] /\ HostOf[q[l]] = addr[j]) => i <= j}

\* Fault: roles are set only when a shard is new.
RolesForNew(addr, known) == IF known THEN {<<>>} ELSE InOrder(addr)

\* go newConfig.setConnRoles()
RolesFor(addr, known) == InOrder(addr)

\* updateMappings: a shard with the same addresses in the same order is kept.
Reload(w) ==
    LET known == shards[cfg].addr = topo
        new == IF known THEN cfg ELSE Len(shards) + 1
    IN
    /\ roles[w] = NoWork /\ answers[w] = <<>>
    /\ \A c \in Conns : Len(flight[c]) + Len(answers[c]) <= MaxQueued
    /\ shards' = IF known THEN shards ELSE Append(shards, NewShard(topo))
    /\ last' = IF known THEN last ELSE Append(last, [b \in Bits |-> TRUE])
    /\ cfg' = new
    /\ \E q \in RolesFor(topo, known) :
        roles' = [roles EXCEPT ![w] = Work(new, q)]
    /\ UNCHANGED <<topo, state, up, mode, flight, answers, loaded, faults>>

Offset(i) == i * 2

\* Send READWRITE, without a callback; or SendBatch READONLY and INFO.  What is
\* refused is resolved at once.
SetConnRole(w) ==
    LET s == roles[w].shard
        c == Head(roles[w].todo)
        i == Index(s, c)
        batch == <<[shard |-> s, n |-> Offset(i)], [shard |-> s, n |-> Offset(i) + 1]>>
        failed == [j \in 1 .. 2 |-> [shard |-> s, n |-> batch[j].n, res |-> "error"]]
    IN
    /\ roles[w].todo # <<>> /\ answers[w] = <<>>
    /\ roles' = [roles EXCEPT ![w] = Work(s, Tail(@.todo))]
    /\ IF c \in up
       THEN /\ flight' = [flight EXCEPT ![c] =
                IF i = 0 THEN Append(@, [shard |-> s, n |-> 0]) ELSE @ \o batch]
            /\ UNCHANGED answers
       ELSE /\ answers' = [answers EXCEPT ![w] = IF i = 0 THEN <<>> ELSE failed]
            /\ UNCHANGED flight
    /\ UNCHANGED <<topo, state, up, mode, shards, cfg, loaded, last, faults>>

-----------------------------------------------------------------------------
(* The server *)

\* The request at the head of a connection is executed and answered.  A server
\* that is loading answers INFO only.  Nobody hears of the answer to READWRITE.
Serve(c) ==
    LET req == Head(flight[c])
        kind == IF req.n = 0 THEN "READWRITE" ELSE IF req.n % 2 = 0 THEN "READONLY" ELSE "INFO"
        now == state[HostOf[c]]
        res == IF kind = "INFO" THEN now ELSE IF now = "loading" THEN "error" ELSE "OK"
    IN
    /\ flight[c] # <<>>
    /\ flight' = [flight EXCEPT ![c] = Tail(@)]
    /\ mode' = IF res # "OK" THEN mode
               ELSE [mode EXCEPT ![c] = IF kind = "READONLY" THEN "ro" ELSE "rw"]
    /\ answers' = IF kind = "READWRITE" THEN answers
                  ELSE [answers EXCEPT ![c] =
                        Append(@, [shard |-> req.shard, n |-> req.n, res |-> res])]
    /\ UNCHANGED <<topo, state, up, shards, cfg, roles, loaded, last, faults>>

\* A connection breaks: all it has accepted is revoked, READWRITE too.
Break(c) ==
    LET asked == flight[c] IN
    /\ faults < MaxFaults /\ c \in up
    /\ up' = up \ {c} /\ faults' = faults + 1
    /\ flight' = [flight EXCEPT ![c] = <<>>]
    /\ answers' = [answers EXCEPT ![c] = @ \o
        [j \in DOMAIN asked |-> [shard |-> asked[j].shard, n |-> asked[j].n, res |-> "error"]]]
    /\ UNCHANGED <<topo, state, mode, shards, cfg, roles, loaded, last>>

\* It is established anew; READONLY is not part of the handshake.
Reconnect(c) ==
    /\ c \notin up /\ up' = up \cup {c}
    /\ mode' = [mode EXCEPT ![c] = "rw"]
    /\ UNCHANGED <<topo, state, shards, cfg, roles, flight, answers, loaded, last, faults>>

Failover ==
    /\ faults < MaxFaults /\ faults' = faults + 1
    /\ \E h \in Hosts \ {topo[1]} : topo' = TopologyOf(h)
    /\ UNCHANGED <<state, up, mode, shards, cfg, roles, flight, answers, loaded, last>>

\* The replicas lose their links to the master, or load its data; each of them
\* catches up on its own.
FallBehind(how) ==
    /\ faults < MaxFaults /\ faults' = faults + 1
    /\ state' = [h \in Hosts |-> IF h = topo[1] THEN "well" ELSE how]
    /\ UNCHANGED <<topo, up, mode, shards, cfg, roles, flight, answers, loaded, last>>

CatchUp(h) ==
    /\ state[h] # "well" /\ state' = [state EXCEPT ![h] = "well"]
    /\ UNCHANGED <<topo, up, mode, shards, cfg, roles, flight, answers, loaded, last, faults>>

-----------------------------------------------------------------------------
(* setReplicaInfo *)

\* Fault: the tests of READONLY's and of INFO's answer are swapped.
HasErrSwapped(a) == IF a.n % 2 = 1 THEN a.res # "OK" ELSE a.res # "well"

\* haserr: READONLY must be answered with OK, INFO with text that is well.
HasErr(a) == IF a.n % 2 = 0 THEN a.res # "OK" ELSE a.res # "well"

Marked(bits, a) ==
    IF HasErr(a) THEN bits \ {a.n \div 2} ELSE bits \cup {a.n \div 2}

Done(g, a) ==
    /\ answers' = [answers EXCEPT ![g] = Tail(@)]
    /\ last' = [last EXCEPT ![a.shard][a.n \div 2] = ~HasErr(a)]

\* dumbcb.Resolve, which stands in for the missing callback of READWRITE.
Ignore(g) ==
    /\ answers[g] # <<>> /\ Head(answers[g]).n = 0
    /\ answers' = [answers EXCEPT ![g] = Tail(@)]
    /\ UNCHANGED <<topo, state, up, mode, shards, cfg, roles, flight, loaded, last, faults>>

\* LoadUint32; nothing is stored if the state is right already.
Load(g) ==
    LET a == Head(answers[g])
        old == shards[a.shard].good
    IN
    /\ answers[g] # <<>> /\ a.n # 0 /\ loaded[g] = NotLoaded
    /\ IF Marked(old, a) = old
       THEN Done(g, a) /\ UNCHANGED loaded
       ELSE loaded' = [loaded EXCEPT ![g] = old] /\ UNCHANGED <<answers, last>>
    /\ UNCHANGED <<topo, state, up, mode, shards, cfg, roles, flight, faults>>

\* Fault: the new state is stored whatever happened since the load.
SwapsAlways(g) == TRUE

\* CompareAndSwapUint32
Swaps(g) == shards[Head(answers[g]).shard].good = loaded[g]

Store(g) ==
    LET a == Head(answers[g]) IN
    /\ loaded[g] # NotLoaded /\ Swaps(g)
    /\ shards' = [shards EXCEPT ![a.shard].good = Marked(loaded[g], a)]
    /\ loaded' = [loaded EXCEPT ![g] = NotLoaded]
    /\ Done(g, a)
    /\ UNCHANGED <<topo, state, up, mode, cfg, roles, flight, faults>>

LoadAgain(g) ==
    /\ loaded[g] # NotLoaded /\ ~Swaps(g)
    /\ loaded' = [loaded EXCEPT ![g] = NotLoaded]
    /\ UNCHANGED <<topo, state, up, mode, shards, cfg, roles, flight, answers, last, faults>>

-----------------------------------------------------------------------------

Next ==
    \/ \E w \in Workers : Reload(w) \/ SetConnRole(w)
    \/ \E c \in Conns : Serve(c) \/ Break(c) \/ Reconnect(c)
    \/ \E g \in Goroutines : Ignore(g) \/ Load(g) \/ Store(g) \/ LoadAgain(g)
    \/ \E h \in Hosts : CatchUp(h)
    \/ \E how \in {"behind", "loading"} : FallBehind(how)
    \/ Failover

Spec == Init /\ [][Next]_vars

\* Goroutines go on, connections answer what they accepted, the cluster reloads
\* its mapping time and again.
FairSpec ==
    /\ Spec
    /\ WF_vars(\E w \in Workers : Reload(w))
    /\ \A w \in Workers : WF_vars(SetConnRole(w))
    /\ \A c \in Conns : WF_vars(Serve(c))
    /\ \A g \in Goroutines : WF_vars(Ignore(g) \/ Load(g) \/ Store(g) \/ LoadAgain(g))

-----------------------------------------------------------------------------
(* Properties *)

\* However the loops of setReplicaInfo interleave, every bit says what the last
\* answer for it said: a bit is not lost to an answer about another replica.
NoLostUpdate == \A s \in DOMAIN shards : shards[s].good = {b \in Bits : last[s][b]}

\* Answers never touch the master's bit: with all replicas sick, a request that
\* may go to any of them still finds the master.
MasterBitKept == \A s \in DOMAIN shards : 0 \in shards[s].good

\* What connForSlot may rely on when it loads shard.good.
MaskInv == TypeOK /\ NoLostUpdate /\ MasterBitKept

IsReplica(h) == shards[cfg].addr = topo /\ topo[1] # h
Fine(h) == state[h] = "well" /\ \A c \in Conns : HostOf[c] = h => c \in up
InMask(h) == \E b \in shards[cfg].good : shards[cfg].addr[b + 1] = h

\* A replica that stays well is used again in the end, whatever was learned
\* about it before.
HealthLearned ==
    \A h \in Hosts : <>[](IsReplica(h) /\ Fine(h)) => <>[]InMask(h)

\* A replica that stays sick, or cannot be reached, is taken out time and again
\* (READONLY's answer puts it back until INFO's answer comes).
SicknessNoticed ==
    \A h \in Hosts : <>[](IsReplica(h) /\ ~Fine(h)) => []<>~InMask(h)

\* The mask follows the health of the replicas, in both directions.
HealthFollowed == HealthLearned /\ SicknessNoticed

\* Connections to replicas end up in READONLY mode, although goroutines of an
\* older configuration give them older roles and a reconnect forgets the role.
RolesSettle ==
    \A c \in Conns : <>[](IsReplica(HostOf[c]) /\ Fine(HostOf[c])) => <>[](mode[c] = "ro")

=============================================================================
