--------------------------- MODULE ReplicasProofs ---------------------------
(***************************************************************************)
(* Proofs about Replicas: the mask of a shard is what the last answers     *)
(* said, however many goroutines run setReplicaInfo at once, for any       *)
(* number of connections and reloads under way and as many hosts as the    *)
(* mask has bits for; and about ConnChoice: the search for a connection    *)
(* that reads the mask ends and finds the right one, for every width of    *)
(* its generator.                                                          *)
(***************************************************************************)
EXTENDS ReplicaChoice, FiniteSetTheorems, WellFoundedInduction, TLAPS

\* A list of addresses has every host, so that setConnRoles finds the position
\* of each connection.
HasAll(addr) == \A h \in Hosts : \E i \in DOMAIN addr : addr[i] = h

ListsComplete == HasAll(topo) /\ \A s \in DOMAIN shards : HasAll(shards[s].addr)

\* What was loaded belongs to the answer at hand, which is not a master's.
LoadsBacked ==
    \A g \in Goroutines : loaded[g] # NotLoaded => answers[g] # <<>> /\ answers[g][1].n # 0

RolesBacked == \A w \in Workers : roles[w].todo # <<>> => roles[w].shard # 0

Inv == TypeOK /\ ListsComplete /\ LoadsBacked /\ RolesBacked /\ NoLostUpdate /\ MasterBitKept

\* For reference by name.
ShardType == [addr: AddrLists, good: SUBSET Bits]
FlightType(D) == [shard: D, n: Offsets]
AnswerType(D) == [shard: D, n: Offsets, res: ServerStates \cup {"OK", "error"}]

-----------------------------------------------------------------------------
(* Sizes and sequences *)

LEMMA Sizes ==
    /\ Cardinality(Hosts) \in Nat \ {0} /\ Len(Addrs) = Cardinality(Hosts)
    /\ DOMAIN Addrs = 1 .. Cardinality(Hosts)
    /\ 0 \in Bits /\ -1 \notin Bits
<1>1. Addrs \in Seq(Hosts) /\ Addrs # <<>> /\ Len(Addrs) = Cardinality(Hosts)
  BY ReplicasAssumption
<1>2. Len(Addrs) \in Nat /\ Len(Addrs) # 0 /\ DOMAIN Addrs = 1 .. Len(Addrs)
  BY <1>1
<1> QED BY <1>1, <1>2 DEF Bits

\* A larger set of elements makes a larger set of sequences.
LEMMA SeqLarger ==
    ASSUME NEW S, NEW T, S \subseteq T, NEW q \in Seq(S)
    PROVE  q \in Seq(T)
OBVIOUS

LEMMA HeadTail ==
    ASSUME NEW S, NEW q \in Seq(S), q # <<>>
    PROVE  Head(q) \in S /\ Head(q) = q[1] /\ Tail(q) \in Seq(S)
OBVIOUS

LEMMA Appended ==
    ASSUME NEW S, NEW q \in Seq(S), NEW x \in S
    PROVE  /\ Append(q, x) \in Seq(S) /\ Len(Append(q, x)) = Len(q) + 1
           /\ DOMAIN Append(q, x) = DOMAIN q \cup {Len(q) + 1}
           /\ \A i \in DOMAIN q : Append(q, x)[i] = q[i]
           /\ Append(q, x)[Len(q) + 1] = x
OBVIOUS

LEMMA Replaced ==
    ASSUME NEW S, NEW q \in Seq(S), NEW x \in S, NEW k \in DOMAIN q
    PROVE  /\ [q EXCEPT ![k] = x] \in Seq(S) /\ Len([q EXCEPT ![k] = x]) = Len(q)
           /\ DOMAIN [q EXCEPT ![k] = x] = DOMAIN q
           /\ [q EXCEPT ![k] = x][k] = x
           /\ \A i \in DOMAIN q : i # k => [q EXCEPT ![k] = x][i] = q[i]
OBVIOUS

\* A list of addresses is as long as Addrs; a new shard has all its bits set.
LEMMA NewShardFacts ==
    ASSUME NEW addr \in AddrLists
    PROVE  NewShard(addr) \in ShardType /\ NewShard(addr).addr = addr /\ NewShard(addr).good = Bits
<1>1. Len(addr) = Cardinality(Hosts)
  BY Sizes DEF AddrLists
<1> QED BY <1>1 DEF NewShard, ShardType, Bits

\* After a failover the list starts with the new master and has every host.
LEMMA TopologyFacts ==
    ASSUME NEW master \in Hosts
    PROVE  TopologyOf(master) \in AddrLists /\ HasAll(TopologyOf(master))
<1> DEFINE p == CHOOSE i \in DOMAIN Addrs : Addrs[i] = master
           T == TopologyOf(master)
<1>1. \A h \in Hosts : \E i \in DOMAIN Addrs : Addrs[i] = h
  BY DEF Hosts, ToSet
<1>2. p \in DOMAIN Addrs /\ Addrs[p] = master
  BY <1>1
<1>3. T = [i \in DOMAIN Addrs |->
             IF i = 1 THEN master ELSE IF i <= p THEN Addrs[i - 1] ELSE Addrs[i]]
  BY DEF TopologyOf
<1> HIDE DEF p, T
<1>4. \A i \in DOMAIN Addrs : Addrs[i] \in Hosts
  BY DEF Hosts, ToSet
<1>5. T \in AddrLists
  BY <1>2, <1>3, <1>4, Sizes DEF AddrLists
<1>6. HasAll(T)
  <2> SUFFICES ASSUME NEW h \in Hosts PROVE \E i \in DOMAIN T : T[i] = h
    BY DEF HasAll
  <2>1. PICK k \in DOMAIN Addrs : Addrs[k] = h
    BY <1>1
  <2>2. CASE k = p
    <3>1. 1 \in DOMAIN Addrs
      BY Sizes
    <3>2. T[1] = h
      BY <1>2, <1>3, <2>1, <2>2, <3>1
    <3> QED BY <1>3, <3>1, <3>2
  <2>3. CASE k < p
    <3>1. PICK m : m = k + 1
      OBVIOUS
    <3>2. m \in DOMAIN Addrs /\ m <= p /\ m # 1 /\ m - 1 = k
      BY <1>2, <2>1, <2>3, <3>1, Sizes
    <3>3. T[m] = Addrs[m - 1]
      BY <1>3, <3>2
    <3> QED BY <1>3, <2>1, <3>2, <3>3
  <2>4. CASE k > p
    <3>1. k # 1 /\ ~(k <= p)
      BY <1>2, <2>1, <2>4, Sizes
    <3>2. T[k] = h
      BY <1>3, <2>1, <3>1
    <3> QED BY <1>3, <2>1, <3>2
  <2> QED BY <1>2, <2>1, <2>2, <2>3, <2>4, Sizes
<1> QED BY <1>5, <1>6 DEF T

LEMMA ShardAt ==
    ASSUME TypeOK, NEW s \in DOMAIN shards
    PROVE  shards[s] \in ShardType
<1>1. shards \in Seq(ShardType)
  BY DEF TypeOK, ShardType
<1> QED BY <1>1

\* The position of a connection in a shard, and the numbers made from it.
LEMMA IndexFacts ==
    ASSUME NEW s \in DOMAIN shards, NEW c \in Conns, TypeOK, ListsComplete
    PROVE  /\ Index(s, c) \in Bits
           /\ Index(s, c) # 0 => Offset(Index(s, c)) \in Offsets /\ Offset(Index(s, c)) + 1 \in Offsets
<1>1. HostOf[c] \in Hosts
  BY ReplicasAssumption
<1>2. shards[s].addr \in AddrLists /\ HasAll(shards[s].addr)
  <2>1. shards[s] \in ShardType
    BY ShardAt
  <2> QED BY <2>1 DEF ShardType, ListsComplete
<1> DEFINE i == CHOOSE k \in DOMAIN shards[s].addr : shards[s].addr[k] = HostOf[c]
<1>3. i \in DOMAIN shards[s].addr
  BY <1>1, <1>2 DEF HasAll
<1>4. i \in 1 .. Cardinality(Hosts)
  BY <1>2, <1>3, Sizes DEF AddrLists
<1>5. Index(s, c) = i - 1
  BY DEF Index
<1> HIDE DEF i
<1> QED BY <1>4, <1>5, Sizes DEF Bits, Offset, Offsets

\* The bit of an answer that is not about a master.
LEMMA BitFacts ==
    ASSUME NEW n \in Offsets, n # 0
    PROVE  n \div 2 \in Bits /\ n \div 2 # 0
BY Sizes DEF Offsets, Bits

-----------------------------------------------------------------------------
(* The invariant *)

LEMMA InitInv == Init => Inv
<1> SUFFICES ASSUME Init PROVE Inv
  OBVIOUS
<1>1. topo \in AddrLists /\ HasAll(topo) /\ topo = Addrs
  BY ReplicasAssumption, Sizes DEF Init, AddrLists, HasAll, Hosts, ToSet
<1>2. shards = <<NewShard(topo)>> /\ NewShard(topo) \in ShardType /\ NewShard(topo).addr = topo
      /\ NewShard(topo).good = Bits
  BY <1>1, NewShardFacts DEF Init
<1>3. /\ shards \in Seq(ShardType) /\ DOMAIN shards = {1} /\ Len(shards) = 1
      /\ shards[1].addr = topo /\ shards[1].good = Bits
  BY <1>2
<1>4. TypeOK
  <2>1. last \in Seq([Bits -> BOOLEAN]) /\ Len(last) = Len(shards)
    BY <1>3 DEF Init
  <2>2. roles \in [Workers -> [shard: 0 .. Len(shards), todo: Seq(Conns)]]
    BY <1>3 DEF Init, NoWork
  <2>3. loaded \in [Goroutines -> (SUBSET Bits) \cup {NotLoaded}]
    BY DEF Init
  <2>4. flight \in [Conns -> Seq([shard: DOMAIN shards, n: Offsets])]
    BY DEF Init
  <2>5. answers \in [Goroutines -> Seq([shard: DOMAIN shards, n: Offsets,
                                        res: ServerStates \cup {"OK", "error"}])]
    BY DEF Init
  <2>6. faults \in 0 .. MaxFaults /\ cfg \in DOMAIN shards
    BY <1>3, ReplicasAssumption DEF Init
  <2> QED BY <1>1, <1>3, <2>1, <2>2, <2>3, <2>4, <2>5, <2>6 DEF Init, TypeOK, ServerStates, ShardType
<1>5. ListsComplete /\ LoadsBacked /\ RolesBacked
  BY <1>1, <1>3 DEF ListsComplete, LoadsBacked, RolesBacked, Init, NoWork
<1>6. NoLostUpdate /\ MasterBitKept
  BY <1>3, Sizes DEF NoLostUpdate, MasterBitKept, Init
<1> QED BY <1>4, <1>5, <1>6 DEF Inv

\* A reload makes another shard object or keeps the one there is.
LEMMA ReloadStep == ASSUME Inv, NEW w \in Workers, Reload(w) PROVE Inv'
<1> DEFINE known == shards[cfg].addr = topo
           new == IF known THEN cfg ELSE Len(shards) + 1
           allTrue == [b \in Bits |-> TRUE]
<1>1. TypeOK /\ UNCHANGED <<topo, state, up, mode, flight, answers, loaded, faults>>
  BY DEF Reload, Inv
<1>2. shards \in Seq(ShardType) /\ Len(shards) \in Nat /\ last \in Seq([Bits -> BOOLEAN])
      /\ Len(last) = Len(shards) /\ cfg \in DOMAIN shards /\ topo \in AddrLists
  BY <1>1 DEF TypeOK, ShardType
<1>3. NewShard(topo) \in ShardType /\ NewShard(topo).addr = topo /\ NewShard(topo).good = Bits
  BY <1>2, NewShardFacts
<1>4. allTrue \in [Bits -> BOOLEAN] /\ Bits = {b \in Bits : allTrue[b]}
  OBVIOUS
<1>5. \/ shards' = shards /\ last' = last /\ cfg' = cfg
      \/ shards' = Append(shards, NewShard(topo)) /\ last' = Append(last, allTrue)
         /\ cfg' = Len(shards) + 1
  BY DEF Reload
<1> HIDE DEF allTrue
<1>6. /\ shards' \in Seq(ShardType) /\ last' \in Seq([Bits -> BOOLEAN])
      /\ Len(shards') = Len(last') /\ cfg' \in DOMAIN shards'
      /\ DOMAIN shards \subseteq DOMAIN shards' /\ 0 .. Len(shards) \subseteq 0 .. Len(shards')
      /\ \A s \in DOMAIN shards' : \/ s \in DOMAIN shards /\ shards'[s] = shards[s] /\ last'[s] = last[s]
                                   \/ shards'[s] = NewShard(topo) /\ last'[s] = allTrue
  <2>1. CASE shards' = shards /\ last' = last /\ cfg' = cfg
    BY <1>2, <2>1
  <2>2. CASE shards' = Append(shards, NewShard(topo)) /\ last' = Append(last, allTrue)
             /\ cfg' = Len(shards) + 1
    <3>1. /\ shards' \in Seq(ShardType) /\ Len(shards') = Len(shards) + 1
          /\ DOMAIN shards' = DOMAIN shards \cup {Len(shards) + 1}
          /\ \A i \in DOMAIN shards : shards'[i] = shards[i]
          /\ shards'[Len(shards) + 1] = NewShard(topo)
      BY <1>2, <1>3, <2>2, Appended
    <3>2. /\ last' \in Seq([Bits -> BOOLEAN]) /\ Len(last') = Len(shards) + 1
          /\ \A i \in DOMAIN last : last'[i] = last[i]
          /\ last'[Len(shards) + 1] = allTrue
      BY <1>2, <1>4, <2>2, Appended
    <3>3. DOMAIN last = DOMAIN shards
      BY <1>2
    <3>4. 0 .. Len(shards) \subseteq 0 .. Len(shards')
      BY <1>2, <3>1
    <3> QED BY <2>2, <3>1, <3>2, <3>3, <3>4
  <2> QED BY <1>5, <2>1, <2>2
<1>7. roles' \in [Workers -> [shard: 0 .. Len(shards'), todo: Seq(Conns)]] /\ RolesBacked'
  <2>1. PICK q \in SetToSeqs(Conns) : roles' = [roles EXCEPT ![w] = Work(cfg', q)]
    BY DEF Reload, RolesFor, InOrder
  <2>2. q \in Seq(Conns)
    <3>1. Cardinality(Conns) \in Nat
      BY ReplicasAssumption, FS_CardinalityType
    <3> QED BY <2>1, <3>1 DEF SetToSeqs
  <2>3. cfg' \in 0 .. Len(shards') /\ cfg' # 0
    BY <1>6
  <2>4. Work(cfg', q) \in [shard: 0 .. Len(shards'), todo: Seq(Conns)]
        /\ (Work(cfg', q).todo # <<>> => Work(cfg', q).shard # 0)
    BY <1>6, <2>2, <2>3 DEF Work, NoWork
  <2>5. roles \in [Workers -> [shard: 0 .. Len(shards'), todo: Seq(Conns)]]
    BY <1>1, <1>6 DEF TypeOK
  <2> QED BY <2>1, <2>4, <2>5 DEF Inv, RolesBacked
<1>8. flight' \in [Conns -> Seq([shard: DOMAIN shards', n: Offsets])]
  <2>1. [shard: DOMAIN shards, n: Offsets] \subseteq [shard: DOMAIN shards', n: Offsets]
    BY <1>6
  <2>2. \A c \in Conns : flight[c] \in Seq([shard: DOMAIN shards', n: Offsets])
    <3> SUFFICES ASSUME NEW c \in Conns
                 PROVE  flight[c] \in Seq([shard: DOMAIN shards', n: Offsets])
      OBVIOUS
    <3>1. flight[c] \in Seq([shard: DOMAIN shards, n: Offsets])
      BY <1>1 DEF TypeOK
    <3> QED BY <2>1, <3>1, SeqLarger
  <2> QED BY <1>1, <2>2 DEF TypeOK
<1>9. answers' \in [Goroutines -> Seq([shard: DOMAIN shards', n: Offsets,
                                       res: ServerStates \cup {"OK", "error"}])]
  <2>1. [shard: DOMAIN shards, n: Offsets, res: ServerStates \cup {"OK", "error"}]
          \subseteq [shard: DOMAIN shards', n: Offsets, res: ServerStates \cup {"OK", "error"}]
    BY <1>6
  <2>2. \A g \in Goroutines :
          answers[g] \in Seq([shard: DOMAIN shards', n: Offsets, res: ServerStates \cup {"OK", "error"}])
    <3> SUFFICES ASSUME NEW g \in Goroutines
                 PROVE  answers[g] \in Seq([shard: DOMAIN shards', n: Offsets,
                                           res: ServerStates \cup {"OK", "error"}])
      OBVIOUS
    <3>1. answers[g] \in Seq([shard: DOMAIN shards, n: Offsets, res: ServerStates \cup {"OK", "error"}])
      BY <1>1 DEF TypeOK
    <3> QED BY <2>1, <3>1, SeqLarger
  <2> QED BY <1>1, <2>2 DEF TypeOK
<1>10. TypeOK'
  BY <1>1, <1>6, <1>7, <1>8, <1>9 DEF TypeOK, ShardType
<1>11. ListsComplete' /\ LoadsBacked'
  BY <1>1, <1>3, <1>6 DEF Inv, ListsComplete, LoadsBacked
<1>12. NoLostUpdate' /\ MasterBitKept'
  <2> SUFFICES ASSUME NEW s \in DOMAIN shards'
               PROVE  shards'[s].good = {b \in Bits : last'[s][b]} /\ 0 \in shards'[s].good
    BY DEF NoLostUpdate, MasterBitKept
  <2>1. CASE s \in DOMAIN shards /\ shards'[s] = shards[s] /\ last'[s] = last[s]
    BY <2>1 DEF Inv, NoLostUpdate, MasterBitKept
  <2>2. CASE shards'[s] = NewShard(topo) /\ last'[s] = allTrue
    BY <1>3, <1>4, <2>2, Sizes
  <2> QED BY <1>6, <2>1, <2>2
<1> QED BY <1>7, <1>10, <1>11, <1>12 DEF Inv

\* Steps that leave the shards, what was loaded and the list of hosts alone.
LEMMA ShardsKept ==
    ASSUME Inv, UNCHANGED <<topo, shards, cfg, loaded, last>>, TypeOK', LoadsBacked', RolesBacked'
    PROVE  Inv'
BY DEF Inv, ListsComplete, NoLostUpdate, MasterBitKept

LEMMA SetConnRoleStep == ASSUME Inv, NEW w \in Workers, SetConnRole(w) PROVE Inv'
<1> DEFINE s == roles[w].shard
           c == Head(roles[w].todo)
           i == Index(s, c)
           req(n) == [shard |-> s, n |-> n]
           answer(n) == [shard |-> s, n |-> n, res |-> "error"]
<1> USE DEF SetConnRole
<1>1. TypeOK /\ ListsComplete /\ UNCHANGED <<topo, state, up, mode, shards, cfg, loaded, last, faults>>
  BY DEF Inv
<1>2. roles[w].todo \in Seq(Conns) /\ roles[w].todo # <<>> /\ s \in 0 .. Len(shards) /\ s # 0
  BY <1>1 DEF TypeOK, Inv, RolesBacked
<1>3. c \in Conns /\ Tail(roles[w].todo) \in Seq(Conns)
  BY <1>2
<1>4. s \in DOMAIN shards
  BY <1>1, <1>2 DEF TypeOK
<1>5. i \in Bits /\ (i # 0 => Offset(i) \in Offsets /\ Offset(i) + 1 \in Offsets) /\ 0 \in Offsets
  BY <1>1, <1>3, <1>4, IndexFacts DEF Offsets
<1>6. w \in Goroutines
  BY DEF Goroutines
<1>7. roles' \in [Workers -> [shard: 0 .. Len(shards), todo: Seq(Conns)]] /\ RolesBacked'
  <2>1. roles' = [roles EXCEPT ![w] = Work(s, Tail(roles[w].todo))]
    OBVIOUS
  <2>2. Work(s, Tail(roles[w].todo)) \in [shard: 0 .. Len(shards), todo: Seq(Conns)]
        /\ (Work(s, Tail(roles[w].todo)).todo # <<>> => Work(s, Tail(roles[w].todo)).shard # 0)
    BY <1>1, <1>2, <1>3 DEF Work, NoWork, TypeOK
  <2> HIDE DEF s
  <2> QED BY <1>1, <2>1, <2>2 DEF Inv, TypeOK, RolesBacked
<1> DEFINE F == [shard: DOMAIN shards, n: Offsets]
           A == [shard: DOMAIN shards, n: Offsets, res: ServerStates \cup {"OK", "error"}]
<1>8. flight \in [Conns -> Seq(F)] /\ answers \in [Goroutines -> Seq(A)]
  BY <1>1 DEF TypeOK
<1>9. \A n \in Offsets : req(n) \in F /\ answer(n) \in A
  BY <1>4
<1> DEFINE batch == <<req(Offset(i)), req(Offset(i) + 1)>>
           failed == [j \in 1 .. 2 |-> [shard |-> s, n |-> batch[j].n, res |-> "error"]]
<1>10. i # 0 => batch \in Seq(F)
  BY <1>5, <1>9
<1>11. i # 0 => failed \in Seq(A)
  <2>1. failed = <<answer(Offset(i)), answer(Offset(i) + 1)>>
    OBVIOUS
  <2> HIDE DEF failed, answer, batch, i, A
  <2> QED BY <1>5, <1>9, <2>1
<1>12. flight' = flight \/ flight' = [flight EXCEPT ![c] = Append(flight[c], req(0))]
       \/ (i # 0 /\ flight' = [flight EXCEPT ![c] = flight[c] \o batch])
  OBVIOUS
<1>13. answers' = answers \/ answers' = [answers EXCEPT ![w] = <<>>]
       \/ (i # 0 /\ answers' = [answers EXCEPT ![w] = failed])
  OBVIOUS
<1>14. req(0) \in F
  BY <1>5, <1>9
<1> HIDE DEF F, A, batch, failed, req, c, i, s
<1>15. flight' \in [Conns -> Seq(F)]
  <2>1. flight[c] \in Seq(F)
    BY <1>3, <1>8
  <2>2. Append(flight[c], req(0)) \in Seq(F)
    BY <1>14, <2>1, Appended
  <2>3. i # 0 => flight[c] \o batch \in Seq(F)
    BY <1>10, <2>1
  <2> QED BY <1>3, <1>8, <1>12, <2>2, <2>3
<1>16. answers' \in [Goroutines -> Seq(A)]
  BY <1>6, <1>8, <1>11, <1>13
<1>17. TypeOK'
  BY <1>1, <1>7, <1>15, <1>16 DEF TypeOK, F, A
<1>18. LoadsBacked'
  <2>1. answers[w] = <<>> /\ \A g \in Goroutines : g # w => answers'[g] = answers[g]
    BY <1>8, <1>13
  <2>2. loaded[w] = NotLoaded
    BY <1>6, <2>1 DEF Inv, LoadsBacked
  <2> QED BY <1>1, <2>1, <2>2 DEF Inv, LoadsBacked
<1> QED BY <1>1, <1>7, <1>17, <1>18, ShardsKept

\* What a connection answers or revokes is appended to what its reader has to
\* pass on.
LEMMA AppendedKeeps ==
    ASSUME Inv, NEW c \in Conns, NEW more \in Seq(AnswerType(DOMAIN shards)),
           answers' = [answers EXCEPT ![c] = answers[c] \o more], loaded' = loaded
    PROVE  /\ answers' \in [Goroutines -> Seq(AnswerType(DOMAIN shards))]
           /\ LoadsBacked'
<1>1. answers \in [Goroutines -> Seq(AnswerType(DOMAIN shards))] /\ c \in Goroutines
  BY DEF Inv, TypeOK, AnswerType, Goroutines
<1>2. answers[c] \o more \in Seq(AnswerType(DOMAIN shards))
      /\ (answers[c] # <<>> => answers[c] \o more # <<>> /\ (answers[c] \o more)[1] = answers[c][1])
  BY <1>1
<1>3. \A g \in Goroutines : g # c => answers'[g] = answers[g]
  BY <1>1
<1>4. answers'[c] = answers[c] \o more
  BY <1>1
<1> QED BY <1>1, <1>2, <1>3, <1>4 DEF Inv, LoadsBacked

LEMMA ServeStep == ASSUME Inv, NEW c \in Conns, Serve(c) PROVE Inv'
<1> DEFINE q == Head(flight[c])
<1>1. TypeOK /\ UNCHANGED <<topo, state, up, shards, cfg, roles, loaded, last, faults>>
  BY DEF Serve, Inv
<1>2. flight[c] \in Seq(FlightType(DOMAIN shards)) /\ flight[c] # <<>>
  BY <1>1 DEF Serve, TypeOK, FlightType
<1>3. q \in FlightType(DOMAIN shards) /\ Tail(flight[c]) \in Seq(FlightType(DOMAIN shards))
  BY <1>2, HeadTail
<1>4. flight' \in [Conns -> Seq(FlightType(DOMAIN shards))]
  BY <1>1, <1>3 DEF Serve, TypeOK, FlightType
<1>5. mode' \in [Conns -> {"rw", "ro"}]
  BY <1>1 DEF Serve, TypeOK
<1>6. state[HostOf[c]] \in ServerStates
  BY <1>1, ReplicasAssumption DEF TypeOK
<1>7. \/ answers' = answers
      \/ \E res \in ServerStates \cup {"OK", "error"} :
            answers' = [answers EXCEPT ![c] = Append(answers[c],
                                        [shard |-> q.shard, n |-> q.n, res |-> res])]
  BY <1>6 DEF Serve
<1>8. answers' \in [Goroutines -> Seq(AnswerType(DOMAIN shards))] /\ LoadsBacked'
  <2>1. CASE answers' = answers
    BY <1>1, <2>1 DEF TypeOK, AnswerType, Inv, LoadsBacked
  <2>2. ASSUME NEW res \in ServerStates \cup {"OK", "error"},
               answers' = [answers EXCEPT ![c] = Append(answers[c],
                                        [shard |-> q.shard, n |-> q.n, res |-> res])]
        PROVE  answers' \in [Goroutines -> Seq(AnswerType(DOMAIN shards))] /\ LoadsBacked'
    <3> DEFINE a == [shard |-> q.shard, n |-> q.n, res |-> res]
    <3>1. a \in AnswerType(DOMAIN shards)
      BY <1>3 DEF FlightType, AnswerType
    <3>2. answers[c] \in Seq(AnswerType(DOMAIN shards))
      BY <1>1 DEF TypeOK, AnswerType, Goroutines
    <3>3. answers' = [answers EXCEPT ![c] = Append(answers[c], a)]
      BY <2>2
    <3> HIDE DEF a
    <3>4. Append(answers[c], a) = answers[c] \o <<a>> /\ <<a>> \in Seq(AnswerType(DOMAIN shards))
      BY <3>1, <3>2
    <3> QED BY <1>1, <3>3, <3>4, AppendedKeeps
  <2> QED BY <1>7, <2>1, <2>2
<1>9. TypeOK'
  BY <1>1, <1>4, <1>5, <1>8 DEF TypeOK, FlightType, AnswerType
<1> QED BY <1>1, <1>8, <1>9, ShardsKept DEF Inv, RolesBacked

LEMMA BreakStep == ASSUME Inv, NEW c \in Conns, Break(c) PROVE Inv'
<1> DEFINE f == flight[c]
           more == [j \in DOMAIN f |-> [shard |-> f[j].shard, n |-> f[j].n, res |-> "error"]]
<1>1. TypeOK /\ UNCHANGED <<topo, state, mode, shards, cfg, roles, loaded, last>>
      /\ answers' = [answers EXCEPT ![c] = answers[c] \o more]
  BY DEF Break, Inv
<1>2. f \in Seq(FlightType(DOMAIN shards))
  BY <1>1 DEF TypeOK, FlightType
<1>3. more \in Seq(AnswerType(DOMAIN shards))
  <2> HIDE DEF f
  <2>1. \A j \in DOMAIN f : f[j] \in FlightType(DOMAIN shards)
    BY <1>2
  <2>2. \A j \in DOMAIN f : [shard |-> f[j].shard, n |-> f[j].n, res |-> "error"] \in AnswerType(DOMAIN shards)
    BY <2>1 DEF FlightType, AnswerType
  <2>3. DOMAIN f = 1 .. Len(f) /\ Len(f) \in Nat
    BY <1>2
  <2> QED BY <2>2, <2>3
<1> HIDE DEF more
<1>4. answers' \in [Goroutines -> Seq(AnswerType(DOMAIN shards))] /\ LoadsBacked'
  BY <1>1, <1>3, AppendedKeeps
<1>5. flight' \in [Conns -> Seq(FlightType(DOMAIN shards))]
  <2>1. flight \in [Conns -> Seq(FlightType(DOMAIN shards))] /\ flight' = [flight EXCEPT ![c] = <<>>]
    BY <1>1 DEF Break, TypeOK, FlightType
  <2>2. <<>> \in Seq(FlightType(DOMAIN shards))
    OBVIOUS
  <2> QED BY <2>1, <2>2
<1>6. faults' \in 0 .. MaxFaults /\ up' \in SUBSET Conns
  BY <1>1, ReplicasAssumption DEF Break, TypeOK
<1>7. TypeOK'
  BY <1>1, <1>4, <1>5, <1>6 DEF TypeOK, FlightType, AnswerType
<1> QED BY <1>1, <1>4, <1>7, ShardsKept DEF Inv, RolesBacked

\* The servers and the network change.
LEMMA EnvironmentStep ==
    ASSUME Inv, \/ \E c \in Conns : Reconnect(c)
                \/ \E h \in Hosts : CatchUp(h)
                \/ \E how \in {"behind", "loading"} : FallBehind(how)
                \/ Failover
    PROVE  Inv'
<1>1. TypeOK /\ UNCHANGED <<shards, cfg, roles, flight, answers, loaded, last>>
  BY DEF Inv, Reconnect, CatchUp, FallBehind, Failover
<1>2. topo' \in AddrLists /\ HasAll(topo')
  <2>1. CASE Failover
    BY <2>1, TopologyFacts DEF Failover
  <2>2. CASE topo' = topo
    BY <1>1, <2>2 DEF TypeOK, Inv, ListsComplete
  <2> QED BY <2>1, <2>2 DEF Reconnect, CatchUp, FallBehind
<1>3. state' \in [Hosts -> ServerStates] /\ up' \in SUBSET Conns /\ mode' \in [Conns -> {"rw", "ro"}]
  BY <1>1 DEF TypeOK, ServerStates, Reconnect, CatchUp, FallBehind, Failover
<1>4. faults' \in 0 .. MaxFaults
  BY <1>1, ReplicasAssumption DEF TypeOK, Reconnect, CatchUp, FallBehind, Failover
<1>5. TypeOK'
  BY <1>1, <1>2, <1>3, <1>4 DEF TypeOK
<1> QED BY <1>1, <1>2, <1>5
        DEF Inv, ListsComplete, LoadsBacked, RolesBacked, NoLostUpdate, MasterBitKept

-----------------------------------------------------------------------------
(* setReplicaInfo *)

LEMMA HeadFacts ==
    ASSUME TypeOK, NEW g \in Goroutines, answers[g] # <<>>
    PROVE  /\ Head(answers[g]) \in AnswerType(DOMAIN shards) /\ Head(answers[g]) = answers[g][1]
           /\ [answers EXCEPT ![g] = Tail(@)] \in [Goroutines -> Seq(AnswerType(DOMAIN shards))]
<1>1. answers[g] \in Seq(AnswerType(DOMAIN shards))
  BY DEF TypeOK, AnswerType
<1>2. Tail(answers[g]) \in Seq(AnswerType(DOMAIN shards))
      /\ Head(answers[g]) \in AnswerType(DOMAIN shards) /\ Head(answers[g]) = answers[g][1]
  BY <1>1, HeadTail
<1>3. answers \in [Goroutines -> Seq(AnswerType(DOMAIN shards))]
  BY DEF TypeOK, AnswerType
<1> QED BY <1>1, <1>2, <1>3

LEMMA IgnoreStep == ASSUME Inv, NEW g \in Goroutines, Ignore(g) PROVE Inv'
<1>1. TypeOK /\ answers[g] # <<>> /\ Head(answers[g]).n = 0
      /\ answers' = [answers EXCEPT ![g] = Tail(@)]
      /\ UNCHANGED <<topo, state, up, mode, shards, cfg, roles, flight, loaded, last, faults>>
  BY DEF Ignore, Inv
<1>2. answers' \in [Goroutines -> Seq(AnswerType(DOMAIN shards))] /\ Head(answers[g]) = answers[g][1]
  BY <1>1, HeadFacts
<1>3. TypeOK'
  BY <1>1, <1>2 DEF TypeOK, AnswerType
<1>4. LoadsBacked'
  <2>1. loaded[g] = NotLoaded
    BY <1>1, <1>2 DEF Inv, LoadsBacked
  <2>2. \A h \in Goroutines : h # g => answers'[h] = answers[h]
    BY <1>1 DEF TypeOK
  <2> QED BY <1>1, <2>1, <2>2 DEF Inv, LoadsBacked
<1> QED BY <1>1, <1>3, <1>4, ShardsKept DEF Inv, RolesBacked

\* An answer that is done with changes one bit of the history and, at the same
\* moment, the same bit of the mask.
LEMMA DoneKeeps ==
    ASSUME Inv, NEW g \in Goroutines, answers[g] # <<>>, Head(answers[g]).n # 0,
           Done(g, Head(answers[g])),
           loaded' \in [Goroutines -> (SUBSET Bits) \cup {NotLoaded}], loaded'[g] = NotLoaded,
           \A h \in Goroutines : loaded'[h] # NotLoaded => loaded[h] # NotLoaded,
           shards' = [shards EXCEPT ![Head(answers[g]).shard].good =
                        Marked(shards[Head(answers[g]).shard].good, Head(answers[g]))],
           UNCHANGED <<topo, state, up, mode, cfg, roles, flight, faults>>
    PROVE  Inv'
<1>1. PICK a : a = Head(answers[g])
  OBVIOUS
<1>2. PICK k : k = a.shard
  OBVIOUS
<1>3. PICK b : b = a.n \div 2
  OBVIOUS
<1>4. TypeOK /\ a \in AnswerType(DOMAIN shards)
  BY <1>1, HeadFacts DEF Inv
<1>5. k \in DOMAIN shards /\ b \in Bits /\ b # 0
  BY <1>1, <1>2, <1>3, <1>4, BitFacts DEF AnswerType
<1>6. shards \in Seq(ShardType) /\ last \in Seq([Bits -> BOOLEAN]) /\ Len(last) = Len(shards)
  BY <1>4 DEF TypeOK, ShardType
<1>7. DOMAIN last = DOMAIN shards
  BY <1>6
<1>8. PICK good : good = shards[k].good
  OBVIOUS
<1>9. shards[k] \in ShardType /\ last[k] \in [Bits -> BOOLEAN] /\ good \in SUBSET Bits
  <2>1. shards[k] \in ShardType
    BY <1>5, <1>6
  <2>2. last[k] \in [Bits -> BOOLEAN]
    BY <1>5, <1>6, <1>7
  <2> QED BY <1>8, <2>1, <2>2 DEF ShardType
<1>10. PICK mk : mk = Marked(good, a)
  OBVIOUS
<1>11. mk = (IF HasErr(a) THEN good \ {b} ELSE good \cup {b}) /\ mk \in SUBSET Bits
  BY <1>3, <1>5, <1>9, <1>10 DEF Marked
<1>12. shards' = [shards EXCEPT ![k].good = mk]
  BY <1>1, <1>2, <1>8, <1>10
<1>13. last' = [last EXCEPT ![k][b] = ~HasErr(a)]
  BY <1>1, <1>2, <1>3 DEF Done
<1>14. /\ shards' \in Seq(ShardType) /\ DOMAIN shards' = DOMAIN shards /\ Len(shards') = Len(shards)
       /\ shards'[k].good = mk /\ shards'[k].addr = shards[k].addr
       /\ \A s \in DOMAIN shards : s # k => shards'[s] = shards[s]
  <2>1. [shards[k] EXCEPT !.good = mk] \in ShardType
    BY <1>9, <1>11 DEF ShardType
  <2>2. [shards[k] EXCEPT !.good = mk].good = mk /\ [shards[k] EXCEPT !.good = mk].addr = shards[k].addr
    BY <1>9 DEF ShardType
  <2>3. shards' = [shards EXCEPT ![k] = [shards[k] EXCEPT !.good = mk]]
    BY <1>12
  <2>4. PICK new : new = [shards[k] EXCEPT !.good = mk]
    OBVIOUS
  <2>5. shards' = [shards EXCEPT ![k] = new] /\ new \in ShardType /\ new.good = mk
        /\ new.addr = shards[k].addr
    BY <2>1, <2>2, <2>3, <2>4
  <2>6. /\ shards' \in Seq(ShardType) /\ Len(shards') = Len(shards)
        /\ DOMAIN shards' = DOMAIN shards /\ shards'[k] = new
        /\ \A s \in DOMAIN shards : s # k => shards'[s] = shards[s]
    <3>1. k \in DOMAIN shards /\ new \in ShardType /\ shards \in Seq(ShardType)
      BY <1>5, <1>6, <2>5
    <3>2. PICK sh : sh = [shards EXCEPT ![k] = new]
      OBVIOUS
    <3>3. /\ sh \in Seq(ShardType) /\ Len(sh) = Len(shards)
          /\ DOMAIN sh = DOMAIN shards /\ sh[k] = new
          /\ \A s \in DOMAIN shards : s # k => sh[s] = shards[s]
      BY <3>1, <3>2, Replaced
    <3> QED BY <2>5, <3>2, <3>3
  <2> QED BY <2>5, <2>6
<1>15. /\ last' \in Seq([Bits -> BOOLEAN]) /\ Len(last') = Len(last)
       /\ last'[k] = [last[k] EXCEPT ![b] = ~HasErr(a)]
       /\ \A s \in DOMAIN shards : s # k => last'[s] = last[s]
  <2>1. PICK new : new = [last[k] EXCEPT ![b] = ~HasErr(a)]
    OBVIOUS
  <2>2. new \in [Bits -> BOOLEAN]
    <3>1. (~HasErr(a)) \in BOOLEAN
      BY DEF HasErr
    <3> QED BY <1>5, <1>9, <2>1, <3>1
  <2>3. last' = [last EXCEPT ![k] = new]
    BY <1>13, <2>1
  <2> QED BY <1>5, <1>6, <1>7, <2>1, <2>2, <2>3, Replaced
<1>16. answers' \in [Goroutines -> Seq(AnswerType(DOMAIN shards))]
       /\ \A h \in Goroutines : h # g => answers'[h] = answers[h]
  BY <1>4, HeadFacts DEF Done, TypeOK
<1>17. TypeOK'
  BY <1>4, <1>6, <1>14, <1>15, <1>16 DEF TypeOK, AnswerType, ShardType
<1>18. ListsComplete' /\ RolesBacked'
  BY <1>14 DEF Inv, ListsComplete, RolesBacked
<1>19. LoadsBacked'
  BY <1>16 DEF Inv, LoadsBacked
<1>20. MasterBitKept'
  BY <1>5, <1>8, <1>11, <1>14 DEF Inv, MasterBitKept
<1>21. NoLostUpdate'
  <2>1. \A s \in DOMAIN shards : s # k => shards'[s].good = {x \in Bits : last'[s][x]}
    <3> SUFFICES ASSUME NEW s \in DOMAIN shards, s # k
                 PROVE  shards'[s].good = {x \in Bits : last'[s][x]}
      OBVIOUS
    <3>1. shards'[s] = shards[s] /\ last'[s] = last[s]
      BY <1>14, <1>15
    <3>2. shards[s].good = {x \in Bits : last[s][x]}
      BY DEF Inv, NoLostUpdate
    <3> QED BY <3>1, <3>2
  <2>2. good = {x \in Bits : last[k][x]}
    BY <1>5, <1>8 DEF Inv, NoLostUpdate
  <2>3. last'[k][b] = ~HasErr(a) /\ \A x \in Bits : x # b => last'[k][x] = last[k][x]
    BY <1>5, <1>9, <1>15
  <2>4. mk = {x \in Bits : last'[k][x]}
    BY <1>5, <1>11, <2>2, <2>3, Zenon
  <2> QED BY <1>14, <2>1, <2>4 DEF NoLostUpdate
<1> QED BY <1>17, <1>18, <1>19, <1>20, <1>21 DEF Inv

LEMMA LoadStep == ASSUME Inv, NEW g \in Goroutines, Load(g) PROVE Inv'
<1> DEFINE a == Head(answers[g])
           old == shards[a.shard].good
<1>1. /\ answers[g] # <<>> /\ a.n # 0 /\ loaded[g] = NotLoaded /\ TypeOK
      /\ UNCHANGED <<topo, state, up, mode, shards, cfg, roles, flight, faults>>
  BY DEF Load, Inv
<1>2. a \in AnswerType(DOMAIN shards) /\ a = answers[g][1]
  BY <1>1, HeadFacts
<1>3. a.shard \in DOMAIN shards
  BY <1>2 DEF AnswerType
<1>4. old \in SUBSET Bits
  <2>1. shards[a.shard] \in ShardType
    BY <1>1, <1>3, ShardAt
  <2> QED BY <2>1 DEF ShardType
<1>5. CASE Marked(old, a) = old
  <2>1. Done(g, a) /\ UNCHANGED loaded
    BY <1>5 DEF Load
  <2>2. shards' = [shards EXCEPT ![a.shard].good = Marked(old, a)]
    <3>1. shards \in Seq(ShardType)
      BY <1>1 DEF TypeOK, ShardType
    <3>2. shards[a.shard] \in ShardType
      BY <1>3, <3>1
    <3>3. [shards[a.shard] EXCEPT !.good = old] = shards[a.shard]
      BY <3>2 DEF ShardType
    <3>4. [shards EXCEPT ![a.shard].good = old] = [shards EXCEPT ![a.shard] = [shards[a.shard] EXCEPT !.good = old]]
      OBVIOUS
    <3> HIDE DEF a, old
    <3>5. [shards EXCEPT ![a.shard] = shards[a.shard]] = shards
      BY <1>3, <3>1
    <3> QED BY <1>1, <1>5, <3>3, <3>4, <3>5
  <2>3. loaded' \in [Goroutines -> (SUBSET Bits) \cup {NotLoaded}] /\ loaded'[g] = NotLoaded
        /\ \A h \in Goroutines : loaded'[h] # NotLoaded => loaded[h] # NotLoaded
    BY <1>1, <2>1 DEF TypeOK
  <2> QED BY <1>1, <2>1, <2>2, <2>3, DoneKeeps
<1>6. CASE Marked(old, a) # old
  <2>1. loaded' = [loaded EXCEPT ![g] = old] /\ UNCHANGED <<answers, last>>
    BY <1>6 DEF Load
  <2>2. TypeOK'
    BY <1>1, <1>4, <2>1 DEF TypeOK
  <2>3. LoadsBacked'
    BY <1>1, <1>2, <2>1 DEF Inv, LoadsBacked, TypeOK
  <2> QED BY <1>1, <2>1, <2>2, <2>3
          DEF Inv, ListsComplete, RolesBacked, NoLostUpdate, MasterBitKept
<1> QED BY <1>5, <1>6

LEMMA StoreStep == ASSUME Inv, NEW g \in Goroutines, Store(g) \/ LoadAgain(g) PROVE Inv'
<1>1. /\ loaded[g] # NotLoaded /\ loaded' = [loaded EXCEPT ![g] = NotLoaded] /\ TypeOK
      /\ UNCHANGED <<topo, state, up, mode, cfg, roles, flight, faults>>
  BY DEF Store, LoadAgain, Inv
<1>2. loaded' \in [Goroutines -> (SUBSET Bits) \cup {NotLoaded}] /\ loaded'[g] = NotLoaded
      /\ \A h \in Goroutines : loaded'[h] # NotLoaded => loaded[h] # NotLoaded
  BY <1>1 DEF TypeOK
<1>3. CASE Store(g)
  <2>1. answers[g] # <<>> /\ answers[g][1].n # 0
    BY <1>1 DEF Inv, LoadsBacked
  <2>2. Head(answers[g]) = answers[g][1]
    BY <1>1, <2>1, HeadFacts
  <2>3. Done(g, Head(answers[g])) /\ shards[Head(answers[g]).shard].good = loaded[g]
        /\ shards' = [shards EXCEPT ![Head(answers[g]).shard].good = Marked(loaded[g], Head(answers[g]))]
    BY <1>3 DEF Store, Swaps
  <2> QED BY <1>1, <1>2, <2>1, <2>2, <2>3, DoneKeeps
<1>4. CASE LoadAgain(g)
  <2>1. UNCHANGED <<shards, answers, last>>
    BY <1>4 DEF LoadAgain
  <2>2. TypeOK'
    BY <1>1, <1>2, <2>1 DEF TypeOK
  <2> QED BY <1>1, <1>2, <2>1, <2>2
          DEF Inv, ListsComplete, LoadsBacked, RolesBacked, NoLostUpdate, MasterBitKept
<1> QED BY <1>3, <1>4

LEMMA NextInv == Inv /\ [Next]_vars => Inv'
<1> SUFFICES ASSUME Inv, [Next]_vars PROVE Inv'
  OBVIOUS
<1>1. CASE \E w \in Workers : Reload(w) \/ SetConnRole(w)
  BY <1>1, ReloadStep, SetConnRoleStep
<1>2. CASE \E c \in Conns : Serve(c) \/ Break(c)
  BY <1>2, ServeStep, BreakStep
<1>3. CASE \E g \in Goroutines : Ignore(g) \/ Load(g) \/ Store(g) \/ LoadAgain(g)
  BY <1>3, IgnoreStep, LoadStep, StoreStep
<1>4. CASE \/ \E c \in Conns : Reconnect(c)
           \/ \E h \in Hosts : CatchUp(h)
           \/ \E how \in {"behind", "loading"} : FallBehind(how)
           \/ Failover
  BY <1>4, EnvironmentStep
<1>5. CASE UNCHANGED vars
  BY <1>5 DEF vars, Inv, TypeOK, ListsComplete, LoadsBacked, RolesBacked, NoLostUpdate,
              MasterBitKept
<1> QED BY <1>1, <1>2, <1>3, <1>4, <1>5 DEF Next

\* shard.good is at every moment what the last completed setReplicaInfo of each
\* replica said, although the loops with LoadUint32 and CompareAndSwapUint32 of
\* many readers and of several setConnRoles interleave; the bit of the master is
\* never cleared.
THEOREM MaskIsRight == Spec => []MaskInv
<1>1. Inv => MaskInv
  BY DEF Inv, MaskInv
<1> QED BY InitInv, NextInv, <1>1, PTL DEF Spec

-----------------------------------------------------------------------------
(* Remainders *)

LEMMA DivMod ==
    ASSUME NEW a \in Int, NEW m \in Nat \ {0}
    PROVE  a % m \in 0 .. m - 1 /\ a \div m \in Int /\ a = m * (a \div m) + (a % m)
OBVIOUS

LEMMA Grows ==
    ASSUME NEW m \in Nat \ {0}, NEW d \in Int, d >= 1
    PROVE  m * d >= m
OBVIOUS

LEMMA UniqueMod ==
    ASSUME NEW a \in Int, NEW m \in Nat \ {0}, NEW k \in Int, NEW b \in 0 .. m - 1,
           a = m * k + b
    PROVE  a % m = b /\ a \div m = k
<1>1. PICK d \in Int : d = a \div m
  BY DivMod
<1>2. PICK r \in 0 .. m - 1 : r = a % m
  BY DivMod
<1>3. a = m * d + r
  BY <1>1, <1>2, DivMod
<1>4. m * (d - k) = b - r
  BY <1>3
<1>5. CASE d >= k + 1
  <2>1. m * (d - k) >= m
    BY <1>5, Grows
  <2> QED BY <1>4, <2>1
<1>6. CASE k >= d + 1
  <2>1. m * (k - d) >= m
    BY <1>6, Grows
  <2>2. m * (k - d) = r - b
    BY <1>3
  <2> QED BY <2>1, <2>2
<1>7. CASE d = k
  BY <1>1, <1>2, <1>3, <1>7
<1> QED BY <1>5, <1>6, <1>7

LEMMA DoubledJump ==
    ASSUME NEW P \in Nat, NEW p \in Nat, NEW q \in Nat, NEW y0 \in Nat, NEW y1 \in Nat, NEW y2 \in Nat,
           y1 = (1 + 4 * (P * p)) * y0 + P * (2 * q + 1),
           y2 = (1 + 4 * (P * p)) * y1 + P * (2 * q + 1)
    PROVE  y2 = (1 + 4 * ((2 * P) * (p + 2 * (P * (p * p))))) * y0
                + (2 * P) * (2 * (q + (P * p) * (2 * q + 1)) + 1)
OBVIOUS

LEMMA OddJump ==
    ASSUME NEW P \in Nat, NEW p \in Nat, NEW q \in Nat, NEW y0 \in Nat, NEW y1 \in Nat, NEW v \in Nat,
           NEW m \in Int,
           y1 = (1 + 4 * (P * p)) * y0 + P * (2 * q + 1),
           y0 = v + P * (2 * m + 1)
    PROVE  y1 = v + (2 * P) * (m + 1 + 2 * (p * y0) + q)
OBVIOUS

LEMMA ModStep ==
    ASSUME NEW y \in Nat, NEW m \in Nat \ {0}, NEW a \in Nat
    PROVE  ((y % m) * a + 1) % m = (y * a + 1) % m
<1>1. PICK d \in Int : d = y \div m
  BY DivMod
<1>2. PICK r \in 0 .. m - 1 : r = y % m
  BY DivMod
<1>3. y = m * d + r
  BY <1>1, <1>2, DivMod
<1>4. PICK x \in Nat : x = r * a + 1
  OBVIOUS
<1>5. PICK e \in Int : e = x \div m
  BY DivMod
<1>6. PICK b \in 0 .. m - 1 : b = x % m
  BY DivMod
<1>7. x = m * e + b
  BY <1>5, <1>6, DivMod
<1>8. y * a + 1 = m * (d * a + e) + b
  BY <1>3, <1>4, <1>7
<1>9. (y * a + 1) % m = b
  <2>1. y * a + 1 \in Int /\ d * a + e \in Int
    OBVIOUS
  <2> QED BY <1>8, <2>1, UniqueMod
<1> QED BY <1>2, <1>4, <1>6, <1>9

-----------------------------------------------------------------------------
(* Counting, and the powers of two *)

\* A non-empty set of natural numbers has a least member.
LEMMA LeastNumber ==
    ASSUME NEW S \in SUBSET Nat, S # {}
    PROVE  \E x \in S : \A y \in S : x <= y
<1> DEFINE R == OpToRel(<, Nat)
<1>1. IsWellFoundedOn(R, Nat)
  BY NatLessThanWellFounded
<1>2. PICK x \in S : \A y \in S : ~ (<<y, x>> \in R)
  <2> HIDE DEF R
  <2> QED BY <1>1, WFMin
<1>3. \A y \in S : ~ (y < x)
  BY <1>2 DEF OpToRel
<1> QED BY <1>3

\* Induction up to N, for a set in place of a predicate.
LEMMA UpTo ==
    ASSUME NEW N \in Nat, NEW S, 0 \in S, \A i \in 1 .. N : i - 1 \in S => i \in S
    PROVE  \A i \in 0 .. N : i \in S
<1> DEFINE T == {i \in 0 .. N : i \notin S}
<1> SUFFICES ASSUME T # {} PROVE FALSE
  OBVIOUS
<1>1. T \in SUBSET Nat
  OBVIOUS
<1>2. PICK x \in T : \A y \in T : x <= y
  <2> HIDE DEF T
  <2> QED BY <1>1, LeastNumber
<1>3. x \in 1 .. N /\ x - 1 \in 0 .. N /\ ~ (x <= x - 1)
  OBVIOUS
<1>4. x - 1 \in S
  BY <1>2, <1>3
<1> QED BY <1>3, <1>4

\* A loop of N iterations, its body a function of the number of the iteration
\* and of the variables' values before it, has a run.
RunOf(f, V, v0, N, body) ==
    /\ f \in [0 .. N -> V]
    /\ f[0] = v0 /\ \A i \in 1 .. N : f[i] = body[<<i, f[i - 1]>>]

LEMMA LoopRuns ==
    ASSUME NEW V, NEW v0 \in V, NEW N \in Nat, NEW body \in [(1 .. N) \X V -> V]
    PROVE  \E f : RunOf(f, V, v0, N, body)
<1> DEFINE P(n, f) == f[0] = v0 /\ \A i \in 1 .. n : f[i] = body[<<i, f[i - 1]>>]
           S == {n \in 0 .. N : \E f \in [0 .. n -> V] : P(n, f)}
<1>1. 0 \in S
  <2> DEFINE f == [i \in 0 .. 0 |-> v0]
  <2>1. f \in [0 .. 0 -> V] /\ P(0, f)
    OBVIOUS
  <2> HIDE DEF f, P
  <2> QED BY <2>1
<1>2. ASSUME NEW n \in 1 .. N, n - 1 \in S PROVE n \in S
  <2>1. PICK f \in [0 .. n - 1 -> V] : P(n - 1, f)
    BY <1>2
  <2> DEFINE g == [i \in 0 .. n |-> IF i = n THEN body[<<n, f[n - 1]>>] ELSE f[i]]
  <2>2. f[n - 1] \in V
    OBVIOUS
  <2>3. body[<<n, f[n - 1]>>] \in V
    BY <2>2
  <2>4. g \in [0 .. n -> V]
    BY <2>3
  <2>5. g[0] = v0
    BY <2>1
  <2>6. ASSUME NEW i \in 1 .. n PROVE g[i] = body[<<i, g[i - 1]>>]
    <3>1. CASE i = n
      <4>1. g[i] = body[<<n, f[n - 1]>>] /\ g[i - 1] = f[n - 1]
        BY <3>1
      <4> HIDE DEF g
      <4> QED BY <3>1, <4>1
    <3>2. CASE i # n
      <4>1. i \in 1 .. n - 1 /\ i - 1 \in 0 .. n - 1 /\ i - 1 # n
        BY <3>2
      <4>2. g[i] = f[i] /\ g[i - 1] = f[i - 1]
        BY <3>2, <4>1
      <4> HIDE DEF g
      <4> QED BY <2>1, <4>1, <4>2
    <3> QED BY <3>1, <3>2
  <2> HIDE DEF g
  <2> QED BY <2>4, <2>5, <2>6
<1>3. N \in S
  <2> HIDE DEF S
  <2> QED BY <1>1, <1>2, UpTo
<1>4. PICK f \in [0 .. N -> V] : P(N, f)
  BY <1>3
<1>5. RunOf(f, V, v0, N, body)
  BY <1>4 DEF RunOf
<1> QED BY <1>5

-----------------------------------------------------------------------------
(* Powers of two *)

LEMMA PowersRun == Powers[0] = 1 /\ \A i \in 1 .. Width : Powers[i] = 2 * Powers[i - 1]
<1> DEFINE body == [x \in (1 .. Width) \X Nat |-> 2 * x[2]]
           Is(g) == g = [i \in 0 .. Width |-> IF i = 0 THEN 1 ELSE 2 * g[i - 1]]
<1>1. Width \in Nat
  BY WidthAssumption
<1>2. body \in [(1 .. Width) \X Nat -> Nat]
  OBVIOUS
<1>3. PICK f : RunOf(f, Nat, 1, Width, body)
  <2> HIDE DEF body, Is
  <2> QED BY <1>1, <1>2, LoopRuns
<1>4. f \in [0 .. Width -> Nat] /\ f[0] = 1 /\ \A i \in 1 .. Width : f[i] = body[<<i, f[i - 1]>>]
  <2> HIDE DEF body, Is
  <2> QED BY <1>3 DEF RunOf
<1>5. Is(f)
  <2>1. ASSUME NEW i \in 0 .. Width, i # 0 PROVE f[i] = 2 * f[i - 1]
    <3>1. i \in 1 .. Width /\ i - 1 \in 0 .. Width
      BY <1>1, <2>1
    <3>2. f[i - 1] \in Nat
      BY <1>4, <3>1
    <3> QED BY <1>4, <3>1, <3>2
  <2>2. f = [i \in 0 .. Width |-> f[i]]
    BY <1>4
  <2>3. \A i \in 0 .. Width : f[i] = IF i = 0 THEN 1 ELSE 2 * f[i - 1]
    BY <1>4, <2>1
  <2> HIDE DEF body
  <2> QED BY <2>2, <2>3
<1>6. Powers = CHOOSE g : Is(g)
  BY Zenon DEF Powers
<1>7. Is(Powers)
  <2> HIDE DEF Is
  <2> QED BY <1>5, <1>6, Zenon
<1> QED BY <1>1, <1>7

LEMMA PowersType == Width \in Nat /\ \A i \in 0 .. Width : Powers[i] \in Nat \ {0}
<1>1. Width \in Nat
  BY WidthAssumption
<1> DEFINE S == {i \in 0 .. Width : Powers[i] \in Nat \ {0}}
<1>2. 0 \in S
  BY <1>1, PowersRun
<1>3. ASSUME NEW i \in 1 .. Width, i - 1 \in S PROVE i \in S
  <2>1. Powers[i] = 2 * Powers[i - 1] /\ Powers[i - 1] \in Nat \ {0}
    BY <1>3, PowersRun
  <2> QED BY <1>1, <2>1
<1>4. ASSUME NEW i \in 0 .. Width PROVE i \in S
  <2>1. i \in Nat /\ \A j \in 1 .. i : j - 1 \in S => j \in S
    BY <1>1, <1>3
  <2> HIDE DEF S
  <2> QED BY <1>2, <2>1, UpTo
<1> QED BY <1>1, <1>4

LEMMA PowersAdd ==
    ASSUME NEW i \in 0 .. Width, NEW n \in 0 .. Width, i + n <= Width
    PROVE  Powers[i + n] = Powers[i] * Powers[n]
<1>1. Width \in Nat /\ \A j \in 0 .. Width : Powers[j] \in Nat \ {0}
  BY PowersType
<1> DEFINE S == {j \in 0 .. n : Powers[i + j] = Powers[i] * Powers[j]}
<1>2. 0 \in S
  BY <1>1, PowersRun
<1>3. ASSUME NEW j \in 1 .. n, j - 1 \in S PROVE j \in S
  <2>1. j \in 1 .. Width /\ i + j \in 1 .. Width /\ (i + j) - 1 = i + (j - 1) /\ j - 1 \in 0 .. Width
    BY <1>1
  <2>2. Powers[j] = 2 * Powers[j - 1] /\ Powers[i + j] = 2 * Powers[i + (j - 1)]
    <3>1. Powers[i + j] = 2 * Powers[(i + j) - 1]
      BY <2>1, PowersRun
    <3> QED BY <2>1, <3>1, PowersRun
  <2>3. Powers[i + (j - 1)] = Powers[i] * Powers[j - 1]
    BY <1>3
  <2>4. PICK a \in Nat, b \in Nat : a = Powers[i] /\ b = Powers[j - 1]
    BY <1>1, <2>1
  <2>5. 2 * (a * b) = a * (2 * b)
    OBVIOUS
  <2> QED BY <2>2, <2>3, <2>4, <2>5
<1>4. n \in S
  <2> HIDE DEF S
  <2> QED BY <1>2, <1>3, UpTo
<1> QED BY <1>4

LEMMA PeriodFacts == Period \in Nat \ {0} /\ Upper \in Nat \ {0} /\ Period = Upper * Upper
<1>1. Width \in Nat /\ Width \div 2 \in 0 .. Width /\ Width \div 2 + Width \div 2 = Width
  BY WidthAssumption
<1> QED BY <1>1, PowersType, PowersAdd DEF Period, Upper

LEMMA PowersBound ==
    ASSUME NEW i \in 0 .. Width
    PROVE  Powers[i] <= Period
<1>1. Width \in Nat /\ \A j \in 0 .. Width : Powers[j] \in Nat \ {0}
  BY PowersType
<1>2. Width - i \in 0 .. Width /\ i + (Width - i) = Width
  BY <1>1
<1>3. Period = Powers[i] * Powers[Width - i]
  BY <1>2, PowersAdd DEF Period
<1>4. PICK a \in Nat \ {0}, b \in Nat \ {0} : a = Powers[i] /\ b = Powers[Width - i]
  BY <1>1, <1>2
<1>5. a * b >= a
  BY Grows
<1> QED BY <1>3, <1>4, <1>5

-----------------------------------------------------------------------------
(* The generator reaches every state *)

Factor == 74565

\* The states of the generator, without the wrap around.
Unwrapped(y, off) ==
    /\ y \in [0 .. Period -> Nat]
    /\ y[0] = off /\ \A t \in 1 .. Period : y[t] = y[t - 1] * Factor + 1

LEMMA UnwrappedExists ==
    ASSUME NEW off \in States
    PROVE  \E y : Unwrapped(y, off)
<1> DEFINE body == [x \in (1 .. Period) \X Nat |-> x[2] * Factor + 1]
<1>1. Period \in Nat /\ off \in Nat
  BY PeriodFacts DEF States
<1>2. body \in [(1 .. Period) \X Nat -> Nat]
  BY DEF Factor
<1>3. PICK y : RunOf(y, Nat, off, Period, body)
  <2> HIDE DEF body
  <2> QED BY <1>1, <1>2, LoopRuns
<1>4. y \in [0 .. Period -> Nat] /\ y[0] = off /\ \A t \in 1 .. Period : y[t] = body[<<t, y[t - 1]>>]
  <2> HIDE DEF body
  <2> QED BY <1>3 DEF RunOf
<1>5. ASSUME NEW t \in 1 .. Period PROVE y[t] = y[t - 1] * Factor + 1
  <2>1. y[t - 1] \in Nat
    BY <1>1, <1>4
  <2> QED BY <1>4, <2>1
<1>6. Unwrapped(y, off)
  BY <1>4, <1>5 DEF Unwrapped
<1> QED BY <1>6

\* P steps at once: the map is still v |-> a * v + c, where a - 1 is divisible by 4 * P
\* and c is an odd multiple of P.
Jumps(y, P, p, q) ==
    \A t \in 0 .. Period - P : y[t + P] = (1 + 4 * (P * p)) * y[t] + P * (2 * q + 1)

LEMMA DoubleJumps ==
    ASSUME NEW off, NEW y, Unwrapped(y, off), NEW P \in Nat, 2 * P <= Period,
           NEW p \in Nat, NEW q \in Nat, Jumps(y, P, p, q)
    PROVE  Jumps(y, 2 * P, p + 2 * (P * (p * p)), q + (P * p) * (2 * q + 1))
<1>1. Period \in Nat /\ y \in [0 .. Period -> Nat]
  BY PeriodFacts DEF Unwrapped
<1>2. ASSUME NEW t \in 0 .. Period - 2 * P
      PROVE  y[t + 2 * P] = (1 + 4 * ((2 * P) * (p + 2 * (P * (p * p))))) * y[t]
                            + (2 * P) * (2 * (q + (P * p) * (2 * q + 1)) + 1)
  <2>1. /\ t \in 0 .. Period - P /\ t + P \in 0 .. Period - P /\ (t + P) + P = t + 2 * P
        /\ t \in 0 .. Period /\ t + P \in 0 .. Period /\ t + 2 * P \in 0 .. Period
    BY <1>1
  <2>2. PICK y0 \in Nat : y0 = y[t]
    BY <1>1, <2>1
  <2>3. PICK y1 \in Nat : y1 = y[t + P]
    BY <1>1, <2>1
  <2>4. PICK y2 \in Nat : y2 = y[t + 2 * P]
    BY <1>1, <2>1
  <2>5. y1 = (1 + 4 * (P * p)) * y0 + P * (2 * q + 1)
    BY <2>1, <2>2, <2>3 DEF Jumps
  <2>6. y[(t + P) + P] = (1 + 4 * (P * p)) * y[t + P] + P * (2 * q + 1)
    BY <2>1 DEF Jumps
  <2>7. y2 = (1 + 4 * (P * p)) * y1 + P * (2 * q + 1)
    BY <2>1, <2>3, <2>4, <2>6
  <2> QED BY <2>2, <2>4, <2>5, <2>7, DoubledJump
<1> QED BY <1>2 DEF Jumps

LEMMA AllJumps ==
    ASSUME NEW off, NEW y, Unwrapped(y, off), NEW w \in 0 .. Width
    PROVE  \E p, q \in Nat : Jumps(y, Powers[w], p, q)
<1> DEFINE S == {i \in 0 .. w : \E p, q \in Nat : Jumps(y, Powers[i], p, q)}
<1>1. Width \in Nat /\ Period \in Nat /\ y \in [0 .. Period -> Nat]
  BY PeriodFacts, PowersType DEF Unwrapped
<1>2. 0 \in S
  <2>1. ASSUME NEW t \in 0 .. Period - 1 PROVE y[t + 1] = (1 + 4 * (1 * 18641)) * y[t] + 1 * (2 * 0 + 1)
    <3>1. t + 1 \in 1 .. Period /\ (t + 1) - 1 = t /\ t \in 0 .. Period
      BY <1>1
    <3>2. PICK k \in 1 .. Period : k = t + 1 /\ k - 1 = t
      BY <3>1
    <3>3. y[k] = y[k - 1] * Factor + 1
      BY DEF Unwrapped
    <3>4. y[t] \in Nat
      BY <1>1, <3>1
    <3> QED BY <3>2, <3>3, <3>4 DEF Factor
  <2>2. Jumps(y, Powers[0], 18641, 0)
    BY <2>1, PowersRun DEF Jumps
  <2> QED BY <1>1, <2>2
<1>3. ASSUME NEW i \in 1 .. w, i - 1 \in S PROVE i \in S
  <2>1. i \in 1 .. Width /\ i - 1 \in 0 .. Width /\ i \in 0 .. Width
    BY <1>1
  <2>2. PICK P \in Nat : P = Powers[i - 1]
    BY <2>1, PowersType
  <2>3. Powers[i] = 2 * P /\ 2 * P <= Period
    <3>1. Powers[i] = 2 * Powers[i - 1] /\ Powers[i] <= Period
      BY <2>1, PowersRun, PowersBound
    <3> QED BY <2>2, <3>1
  <2>4. PICK p \in Nat, q \in Nat : Jumps(y, P, p, q)
    BY <1>3, <2>2
  <2>5. PICK p2 : p2 = p + 2 * (P * (p * p))
    OBVIOUS
  <2>6. PICK q2 : q2 = q + (P * p) * (2 * q + 1)
    OBVIOUS
  <2>7. Jumps(y, 2 * P, p2, q2)
    BY <2>3, <2>4, <2>5, <2>6, DoubleJumps
  <2>8. p2 \in Nat /\ q2 \in Nat
    BY <2>5, <2>6
  <2> QED BY <2>3, <2>7, <2>8
<1>4. w \in S
  <2> HIDE DEF S
  <2> QED BY <1>2, <1>3, UpTo
<1> QED BY <1>4

\* The first P states differ modulo P from each other, as every number is reached.
Reaches(y, P, v) == \E t \in 0 .. P - 1 : \E k \in Int : y[t] = v + P * k

LEMMA ReachesMore ==
    ASSUME NEW off, NEW y, Unwrapped(y, off), NEW P \in Nat, 2 * P <= Period,
           NEW p \in Nat, NEW q \in Nat, Jumps(y, P, p, q), NEW v \in Nat, Reaches(y, P, v)
    PROVE  Reaches(y, 2 * P, v)
<1>1. Period \in Nat /\ y \in [0 .. Period -> Nat]
  BY PeriodFacts DEF Unwrapped
<1>2. PICK t \in 0 .. P - 1, k \in Int : y[t] = v + P * k
  BY DEF Reaches
<1>3. t \in 0 .. (2 * P) - 1 /\ t + P \in 0 .. (2 * P) - 1 /\ t \in 0 .. Period - P
      /\ t \in 0 .. Period /\ t + P \in 0 .. Period
  BY <1>1
<1>4. PICK m \in Int : k = 2 * m \/ k = 2 * m + 1
  <2>1. k \div 2 \in Int /\ (k = 2 * (k \div 2) \/ k = 2 * (k \div 2) + 1)
    OBVIOUS
  <2> QED BY <2>1
<1>5. CASE k = 2 * m
  <2>1. P * k = (2 * P) * m
    BY <1>5
  <2>2. y[t] = v + (2 * P) * m
    BY <1>2, <2>1
  <2> QED BY <1>3, <2>2 DEF Reaches
<1>6. CASE k = 2 * m + 1
  <2>1. PICK y0 \in Nat : y0 = y[t]
    BY <1>1, <1>3
  <2>2. PICK y1 \in Nat : y1 = y[t + P]
    BY <1>1, <1>3
  <2>3. y1 = (1 + 4 * (P * p)) * y0 + P * (2 * q + 1)
    BY <1>3, <2>1, <2>2 DEF Jumps
  <2>4. y0 = v + P * (2 * m + 1)
    BY <1>2, <1>6, <2>1
  <2>5. PICK n \in Int : n = m + 1 + 2 * (p * y0) + q
    OBVIOUS
  <2>6. y1 = v + (2 * P) * n
    BY <2>3, <2>4, <2>5, OddJump
  <2> QED BY <1>3, <2>2, <2>6 DEF Reaches
<1> QED BY <1>4, <1>5, <1>6

LEMMA ReachesAll ==
    ASSUME NEW off, NEW y, Unwrapped(y, off), NEW v \in Nat
    PROVE  Reaches(y, Period, v)
<1> DEFINE S == {i \in 0 .. Width : Reaches(y, Powers[i], v)}
<1>1. Width \in Nat /\ Period \in Nat \ {0} /\ y \in [0 .. Period -> Nat]
  BY PeriodFacts, PowersType DEF Unwrapped
<1>2. 0 \in S
  <2>1. 0 \in 0 .. 1 - 1 /\ y[0] \in Int /\ y[0] - v \in Int /\ y[0] = v + 1 * (y[0] - v)
    BY <1>1
  <2>2. Reaches(y, 1, v)
    BY <2>1 DEF Reaches
  <2> QED BY <1>1, <2>2, PowersRun
<1>3. ASSUME NEW i \in 1 .. Width, i - 1 \in S PROVE i \in S
  <2>1. i - 1 \in 0 .. Width /\ i \in 0 .. Width
    BY <1>1
  <2>2. PICK P \in Nat : P = Powers[i - 1]
    BY <2>1, PowersType
  <2>3. Powers[i] = 2 * P /\ 2 * P <= Period
    <3>1. Powers[i] = 2 * Powers[i - 1] /\ Powers[i] <= Period
      BY <2>1, PowersRun, PowersBound
    <3> QED BY <2>2, <3>1
  <2>4. PICK p \in Nat, q \in Nat : Jumps(y, P, p, q)
    BY <2>1, <2>2, AllJumps
  <2>5. Reaches(y, P, v)
    BY <1>3, <2>2
  <2>6. Reaches(y, 2 * P, v)
    BY <2>3, <2>4, <2>5, ReachesMore
  <2> QED BY <2>1, <2>3, <2>6
<1>4. Width \in S
  <2>1. Width \in Nat
    BY <1>1
  <2> HIDE DEF S
  <2> QED BY <2>1, <1>2, <1>3, UpTo
<1> QED BY <1>4 DEF Period

\* x is the walk of the generator from off.
Orbit(x, off) ==
    /\ x \in [0 .. Period -> States]
    /\ x[0] = off /\ \A t \in 1 .. Period : x[t] = Step(x[t - 1])

\* The generator of nextRng has its full period: from every seed, v*0x12345 + 1
\* runs through every value before it comes back, 2^32 of them in the code.
THEOREM FullPeriod ==
    ASSUME NEW off \in States
    PROVE  \E x : Orbit(x, off) /\ \A v \in States : \E t \in 0 .. Period - 1 : x[t] = v
<1>1. Period \in Nat \ {0} /\ off \in Nat /\ off < Period
  BY PeriodFacts DEF States
<1>2. PICK y : Unwrapped(y, off)
  BY UnwrappedExists
<1>3. y \in [0 .. Period -> Nat] /\ y[0] = off
  BY <1>2 DEF Unwrapped
<1> DEFINE x == [t \in 0 .. Period |-> y[t] % Period]
<1>4. x \in [0 .. Period -> States]
  <2>1. ASSUME NEW t \in 0 .. Period PROVE y[t] % Period \in States
    <3>1. PICK a \in Int : a = y[t]
      BY <1>3
    <3>2. a % Period \in 0 .. Period - 1
      BY <1>1, DivMod
    <3> QED BY <3>1, <3>2 DEF States
  <2> QED BY <2>1
<1>5. x[0] = off
  <2>1. off = Period * 0 + off /\ 0 \in 0 .. Period /\ off \in 0 .. Period - 1
    BY <1>1
  <2>2. off % Period = off
    BY <1>1, <2>1, UniqueMod
  <2> QED BY <1>3, <2>1, <2>2
<1>6. ASSUME NEW t \in 1 .. Period PROVE x[t] = Step(x[t - 1])
  <2>1. t \in 0 .. Period /\ t - 1 \in 0 .. Period
    BY <1>1
  <2>2. PICK a \in Nat : a = y[t - 1]
    BY <1>3, <2>1
  <2>3. y[t] = a * 74565 + 1
    BY <1>2, <2>2 DEF Unwrapped, Factor
  <2>4. ((a % Period) * 74565 + 1) % Period = (a * 74565 + 1) % Period
    BY <1>1, ModStep
  <2>5. x[t] = (a * 74565 + 1) % Period /\ x[t - 1] = a % Period
    BY <2>1, <2>2, <2>3
  <2> HIDE DEF x
  <2> QED BY <2>4, <2>5 DEF Step
<1>7. ASSUME NEW v \in States PROVE \E t \in 0 .. Period - 1 : x[t] = v
  <2>1. v \in Nat /\ v \in 0 .. Period - 1
    BY <1>1 DEF States
  <2>2. Reaches(y, Period, v)
    BY <1>2, <2>1, ReachesAll
  <2>3. PICK t \in 0 .. Period - 1, k \in Int : y[t] = v + Period * k
    BY <2>2 DEF Reaches
  <2>4. t \in 0 .. Period
    BY <1>1
  <2>5. PICK a \in Int : a = y[t]
    BY <1>3, <2>4
  <2>6. a = Period * k + v
    BY <1>1, <2>1, <2>3, <2>5
  <2>7. a % Period = v
    BY <1>1, <2>1, <2>6, UniqueMod
  <2>8. x[t] = v
    BY <2>4, <2>5, <2>7
  <2> QED BY <2>8
<1>8. Orbit(x, off)
  BY <1>4, <1>5, <1>6 DEF Orbit
<1> HIDE DEF x
<1> QED BY <1>7, <1>8

\* v ^ v>>16 takes every value.
LEMMA MixedOnto ==
    ASSUME NEW u \in States
    PROVE  \E v \in States : Mixed(v) = u
<1>1. Period \in Nat \ {0} /\ Upper \in Nat \ {0} /\ Period = Upper * Upper /\ u \in Nat /\ u < Period
  BY PeriodFacts DEF States
<1>a. u % Upper \in 0 .. Upper - 1 /\ u \div Upper \in Int /\ u = Upper * (u \div Upper) + (u % Upper)
  <2>1. u \in Int /\ Upper \in Nat \ {0}
    BY <1>1
  <2> QED BY <2>1, DivMod
<1>2. PICK h \in Int : h = u \div Upper
  BY <1>a
<1>3. PICK r \in 0 .. Upper - 1 : r = u % Upper
  BY <1>a
<1>4. u = Upper * h + r
  BY <1>a, <1>2, <1>3
<1>5. h < Upper
  <2> SUFFICES ASSUME h >= Upper PROVE FALSE
    BY <1>1
  <2>1. Upper * h >= Upper * Upper
    BY <1>1
  <2> QED BY <1>1, <1>4, <2>1
<1>6. h >= 0
  <2> SUFFICES ASSUME h <= -1 PROVE FALSE
    OBVIOUS
  <2>1. Upper * (- h) >= Upper
    BY <1>1, Grows
  <2> QED BY <1>1, <1>4, <2>1
<1>7. h \in States
  <2>1. Upper * Upper >= Upper
    BY <1>1, Grows
  <2> QED BY <1>1, <1>5, <1>6, <2>1 DEF States
<1>8. PICK v \in States : v = XorTable[<<u, h>>]
  BY <1>7, XorAssumption
<1>9. v \div Upper = h /\ XorTable[<<v, h>>] = u
  BY <1>2, <1>5, <1>7, <1>8, XorAssumption
<1> QED BY <1>9 DEF Mixed

-----------------------------------------------------------------------------
(* The loops *)

WalkVars(mask, try) == [off: States, mask: SUBSET mask, conn: {try[k] : k \in mask} \cup {NoConn}]

WalkStart(off, mask) == [off |-> off, mask |-> mask, conn |-> NoConn]

LEMMA StepType == ASSUME NEW v \in States PROVE Step(v) \in States
<1>1. v * 74565 + 1 \in Int /\ Period \in Nat \ {0}
  BY PeriodFacts DEF States
<1>2. PICK a \in Int : a = v * 74565 + 1
  BY <1>1
<1>3. a % Period \in 0 .. Period - 1
  <2>1. Period \in Nat \ {0}
    BY PeriodFacts
  <2> QED BY <2>1, DivMod
<1> QED BY <1>2, <1>3 DEF Step, States

LEMMA TurnCases ==
    ASSUME NEW mask, NEW hit, NEW try, NEW walk \in WalkVars(mask, try),
           NEW new, new = Turn(walk, hit, try), NEW k, k = hit[walk.off]
    PROVE  /\ Ended(walk) => new = walk
           /\ ~ Ended(walk) => new.off = Step(walk.off)
           /\ ~ Ended(walk) /\ k \notin walk.mask => new.mask = walk.mask /\ new.conn = walk.conn
           /\ ~ Ended(walk) /\ k \in walk.mask => new.mask = walk.mask \ {k} /\ new.conn = try[k]
           /\ new \in WalkVars(mask, try)
<1>1. /\ walk.off \in States /\ walk.mask \subseteq mask
      /\ walk.conn \in {try[j] : j \in mask} \cup {NoConn}
      /\ walk = [off |-> walk.off, mask |-> walk.mask, conn |-> walk.conn]
  BY DEF WalkVars
<1>2. PICK s \in States : s = Step(walk.off)
  BY <1>1, StepType
<1>3. CASE Ended(walk)
  BY <1>3 DEF Turn
<1>4. CASE ~ Ended(walk) /\ k \notin walk.mask
  <2>1. new = [walk EXCEPT !.off = s]
    BY <1>2, <1>4 DEF Turn
  <2>2. new = [off |-> s, mask |-> walk.mask, conn |-> walk.conn]
    BY <1>1, <2>1
  <2> QED BY <1>1, <1>2, <1>4, <2>2 DEF WalkVars
<1>5. CASE ~ Ended(walk) /\ k \in walk.mask
  <2>1. new = [off |-> s, mask |-> walk.mask \ {k}, conn |-> try[k]]
    BY <1>2, <1>5 DEF Turn
  <2>2. try[k] \in {try[j] : j \in mask} \cup {NoConn} /\ walk.mask \ {k} \in SUBSET mask
    BY <1>1, <1>5
  <2> QED BY <1>2, <1>5, <2>1, <2>2 DEF WalkVars
<1> QED BY <1>3, <1>4, <1>5

TurnsRun(turns, off, mask, hit, try) ==
    /\ turns[0] = WalkStart(off, mask)
    /\ \A i \in 1 .. Period : turns[i] = Turn(turns[i - 1], hit, try)
    /\ \A i \in 0 .. Period : turns[i] \in WalkVars(mask, try)

LEMMA TurnsRuns ==
    ASSUME NEW off \in States, NEW mask, NEW hit, NEW try,
           NEW turns, turns = Turns(off, mask, hit, try)
    PROVE  TurnsRun(turns, off, mask, hit, try)
<1> DEFINE V == WalkVars(mask, try)
           v0 == WalkStart(off, mask)
           body == [x \in (1 .. Period) \X V |-> Turn(x[2], hit, try)]
           Is(g) == g = [i \in 0 .. Period |-> IF i = 0 THEN v0 ELSE Turn(g[i - 1], hit, try)]
<1>0. Period \in Nat
  BY PeriodFacts
<1>1. v0 \in V
  BY DEF WalkStart, WalkVars
<1>2. body \in [(1 .. Period) \X V -> V]
  <2> HIDE DEF V
  <2>1. ASSUME NEW x \in (1 .. Period) \X V PROVE Turn(x[2], hit, try) \in V
    <3>1. x[2] \in V
      OBVIOUS
    <3>2. PICK new : new = Turn(x[2], hit, try)
      OBVIOUS
    <3>3. PICK k : k = hit[x[2].off]
      OBVIOUS
    <3>4. new \in WalkVars(mask, try)
      BY <3>1, <3>2, <3>3, TurnCases DEF V
    <3> QED BY <3>2, <3>4 DEF V
  <2> QED BY <2>1
<1>3. PICK f : RunOf(f, V, v0, Period, body)
  <2> HIDE DEF V, v0, body, Is
  <2> QED BY <1>0, <1>1, <1>2, LoopRuns
<1>4. f \in [0 .. Period -> V] /\ f[0] = v0 /\ \A i \in 1 .. Period : f[i] = body[<<i, f[i - 1]>>]
  <2> HIDE DEF V, v0, body, Is
  <2> QED BY <1>3 DEF RunOf
<1>5. ASSUME NEW i \in 1 .. Period PROVE f[i] = Turn(f[i - 1], hit, try)
  <2> HIDE DEF V, v0
  <2>1. i - 1 \in 0 .. Period
    BY <1>0
  <2>2. f[i - 1] \in V
    BY <1>4, <2>1
  <2> QED BY <1>4, <2>2
<1>6. Is(f)
  <2> HIDE DEF V, v0, body
  <2>1. f = [i \in 0 .. Period |-> f[i]]
    BY <1>4
  <2>2. \A i \in 0 .. Period : i # 0 => i \in 1 .. Period
    BY <1>0
  <2>3. \A i \in 0 .. Period : f[i] = IF i = 0 THEN v0 ELSE Turn(f[i - 1], hit, try)
    BY <1>4, <1>5, <2>2
  <2> QED BY <2>1, <2>3
<1>7. turns = CHOOSE g : Is(g)
  BY Zenon DEF Turns, WalkStart
<1>8. Is(turns)
  <2> HIDE DEF Is
  <2> QED BY <1>6, <1>7, Zenon
<1>9. turns[0] = v0 /\ \A i \in 1 .. Period : turns[i] = Turn(turns[i - 1], hit, try)
  <2> HIDE DEF v0
  <2> QED BY SMTT(30), <1>0, <1>8
<1> DEFINE S == {i \in 0 .. Period : turns[i] = f[i]}
<1> HIDE DEF V, v0, body, Is
<1>10. 0 \in S
  BY <1>0, <1>4, <1>9
<1>11. ASSUME NEW i \in 1 .. Period, i - 1 \in S PROVE i \in S
  BY <1>5, <1>9, <1>11
<1>12. ASSUME NEW i \in 0 .. Period PROVE i \in S
  <2>1. i \in Nat /\ \A j \in 1 .. i : j - 1 \in S => j \in S
    BY <1>0, <1>11
  <2> HIDE DEF S
  <2> QED BY <1>10, <2>1, UpTo
<1>13. \A i \in 0 .. Period : turns[i] \in V
  BY <1>4, <1>12
<1> QED BY <1>9, <1>13 DEF TurnsRun, V, v0

\* What a walk leaves behind: tried indices gave nothing, except the one the connection
\* is from; x[i] is the next index as long as it goes on.
WalkInv(walk, i, x, mask, hit, try) ==
    /\ \A k \in mask \ walk.mask : try[k] = NoConn \/ (walk.conn # NoConn /\ try[k] = walk.conn)
    /\ walk.conn # NoConn => \E k \in mask : try[k] = walk.conn
    /\ ~ Ended(walk) => walk.off = x[i] /\ \A t \in 0 .. i - 1 : hit[x[t]] \notin walk.mask

LEMMA WalkStep ==
    ASSUME NEW off, NEW x, Orbit(x, off), NEW mask, NEW hit, NEW try,
           NEW walk \in WalkVars(mask, try), NEW i \in 1 .. Period,
           WalkInv(walk, i - 1, x, mask, hit, try), NEW new, new = Turn(walk, hit, try)
    PROVE  WalkInv(new, i, x, mask, hit, try)
<1>0. Period \in Nat /\ walk.mask \subseteq mask
  BY PeriodFacts DEF WalkVars
<1>1. PICK k : k = hit[walk.off]
  OBVIOUS
<1>2. /\ Ended(walk) => new = walk
      /\ ~ Ended(walk) => new.off = Step(walk.off)
      /\ ~ Ended(walk) /\ k \notin walk.mask => new.mask = walk.mask /\ new.conn = walk.conn
      /\ ~ Ended(walk) /\ k \in walk.mask => new.mask = walk.mask \ {k} /\ new.conn = try[k]
  BY <1>1, TurnCases
<1>3. CASE Ended(walk)
  BY <1>2, <1>3 DEF WalkInv
<1>4. CASE ~ Ended(walk)
  <2>1. walk.conn = NoConn /\ walk.off = x[i - 1] /\ \A t \in 0 .. (i - 1) - 1 : hit[x[t]] \notin walk.mask
    BY <1>4 DEF Ended, WalkInv
  <2>2. \A j \in mask \ walk.mask : try[j] = NoConn
    BY <2>1 DEF WalkInv
  <2>3. new.off = x[i]
    BY <1>2, <1>4, <2>1 DEF Orbit
  <2>4. k \notin new.mask /\ new.mask \subseteq walk.mask
    BY <1>2, <1>4
  <2>5. ASSUME NEW t \in 0 .. i - 1 PROVE hit[x[t]] \notin new.mask
    <3>1. t = i - 1 \/ t \in 0 .. (i - 1) - 1
      BY <1>0
    <3> QED BY <1>1, <2>1, <2>4, <3>1
  <2>6. \A j \in mask \ new.mask : try[j] = NoConn \/ (new.conn # NoConn /\ try[j] = new.conn)
    BY <1>2, <1>4, <2>1, <2>2
  <2>7. new.conn # NoConn => \E j \in mask : try[j] = new.conn
    BY <1>0, <1>2, <1>4, <2>1
  <2> QED BY <2>3, <2>5, <2>6, <2>7 DEF WalkInv
<1> QED BY <1>3, <1>4

\* Every index is hit from some state.
Onto(hit, mask) == \A k \in mask : \E v \in States : hit[v] = k

\* The walk finds a connection exactly if one of the indices has one.
Finds(walk, mask, try) ==
    /\ walk.off \in States
    /\ walk.conn # NoConn => \E k \in mask : try[k] = walk.conn
    /\ walk.conn = NoConn => \A k \in mask : try[k] = NoConn

LEMMA WalkFinds ==
    ASSUME NEW off \in States, NEW mask, NEW hit, NEW try, Onto(hit, mask)
    PROVE  Finds(Walk(off, mask, hit, try), mask, try)
<1>0. Period \in Nat
  BY PeriodFacts
<1>1. PICK turns : turns = Turns(off, mask, hit, try)
  OBVIOUS
<1>2. TurnsRun(turns, off, mask, hit, try)
  BY <1>1, TurnsRuns
<1>3. PICK x : Orbit(x, off) /\ \A v \in States : \E t \in 0 .. Period - 1 : x[t] = v
  BY FullPeriod
<1> DEFINE S == {i \in 0 .. Period : WalkInv(turns[i], i, x, mask, hit, try)}
<1>4. 0 \in S
  <2>1. turns[0] = WalkStart(off, mask)
    BY <1>2 DEF TurnsRun
  <2>2. turns[0].off = off /\ turns[0].mask = mask /\ turns[0].conn = NoConn
    BY <2>1 DEF WalkStart
  <2>3. x[0] = off
    BY <1>3 DEF Orbit
  <2>4. \A t \in 0 .. 0 - 1 : FALSE
    OBVIOUS
  <2>5. WalkInv(turns[0], 0, x, mask, hit, try)
    BY <2>2, <2>3, <2>4 DEF WalkInv
  <2> QED BY <1>0, <2>5
<1>5. ASSUME NEW i \in 1 .. Period, i - 1 \in S PROVE i \in S
  <2>1. i - 1 \in 0 .. Period /\ i \in 0 .. Period
    BY <1>0
  <2>2. turns[i - 1] \in WalkVars(mask, try) /\ turns[i] = Turn(turns[i - 1], hit, try)
    BY <1>2, <2>1 DEF TurnsRun
  <2>3. WalkInv(turns[i - 1], i - 1, x, mask, hit, try)
    BY <1>5
  <2>4. WalkInv(turns[i], i, x, mask, hit, try)
    BY <1>3, <2>2, <2>3, WalkStep
  <2> QED BY <2>1, <2>4
<1>6. Period \in S
  <2> HIDE DEF S
  <2> QED BY <1>0, <1>4, <1>5, UpTo
<1>7. PICK end : end = turns[Period]
  OBVIOUS
<1>8. WalkInv(end, Period, x, mask, hit, try) /\ end \in WalkVars(mask, try)
  BY <1>0, <1>2, <1>6, <1>7 DEF TurnsRun
<1>9. end.off \in States /\ end.mask \subseteq mask
  BY <1>8 DEF WalkVars
<1>10. Ended(end)
  <2> SUFFICES ASSUME ~ Ended(end) PROVE FALSE
    OBVIOUS
  <2>1. PICK k \in mask : k \in end.mask
    BY <1>9 DEF Ended
  <2>2. PICK v \in States : hit[v] = k
    BY DEF Onto
  <2>3. PICK t \in 0 .. Period - 1 : x[t] = v
    BY <1>3
  <2>4. hit[x[t]] \notin end.mask
    BY <1>8 DEF WalkInv
  <2> QED BY <2>1, <2>2, <2>3, <2>4
<1>11. Walk(off, mask, hit, try) = end
  BY <1>1, <1>7, <1>10 DEF Walk
<1>12. end.conn # NoConn => \E k \in mask : try[k] = end.conn
  BY <1>8 DEF WalkInv
<1>13. end.conn = NoConn => \A k \in mask : try[k] = NoConn
  <2> SUFFICES ASSUME end.conn = NoConn, NEW k \in mask PROVE try[k] = NoConn
    OBVIOUS
  <2>1. end.mask = {}
    BY <1>10 DEF Ended
  <2> QED BY <1>8, <2>1 DEF WalkInv
<1> QED BY <1>9, <1>11, <1>12, <1>13 DEF Finds

-----------------------------------------------------------------------------
(* The choice *)

\* conn is one of C, and none only if C is empty.
Picks(conn, C) == (conn # NoConn => conn \in C) /\ (conn = NoConn => C = {})

\* The connections of a host that getConn may return.
Ready(view, h, n, need) ==
    {c \in {<<h, j>> : j \in 0 .. n - 1} : h \in view.nodes /\ Usable(view, c, need)}

LEMMA RealConn == ASSUME NEW h, NEW j PROVE <<h, j>> # NoConn
BY DEF NoConn

LEMMA SmallMod == ASSUME NEW n \in Nat \ {0}, NEW k \in 0 .. n - 1 PROVE k % n = k
<1>1. k \in Int /\ 0 \in Int /\ k = n * 0 + k
  OBVIOUS
<1> QED BY <1>1, UniqueMod

\* nextRng(&off, n) gives every number below n.
LEMMA RngOnto ==
    ASSUME NEW n \in 1 .. Period, NEW hit, hit = [v \in States |-> Mixed(v) % n]
    PROVE  Onto(hit, 0 .. n - 1)
<1>1. Period \in Nat
  BY PeriodFacts
<1>2. ASSUME NEW k \in 0 .. n - 1 PROVE \E v \in States : hit[v] = k
  <2>1. k \in States /\ n \in Nat \ {0}
    BY <1>1 DEF States
  <2>2. PICK v \in States : Mixed(v) = k
    BY <2>1, MixedOnto
  <2>3. k % n = k
    BY <2>1, SmallMod
  <2>4. hit[v] = k
    BY <2>2, <2>3
  <2> QED BY <2>4
<1> QED BY <1>2 DEF Onto

\* Each host has its three places, or at least one for the master.
LEMMA PlacesOnto ==
    ASSUME NEW hosts \in Nat \ {0}, hosts * 3 <= Period, NEW policy, NEW good \in SUBSET (0 .. hosts - 1)
    PROVE  Onto(Places(hosts, policy), good)
<1>1. Period \in Nat
  BY PeriodFacts
<1>2. PICK a \in {0, 2} : a = IF policy = "PreferSlaves" THEN 2 ELSE 0
  OBVIOUS
<1>3. PICK hit : hit = Places(hosts, policy)
  OBVIOUS
<1>4. hit = [v \in States |-> ((Mixed(v) % (hosts * 3 - a)) + a) \div 3]
  BY <1>2, <1>3 DEF Places
<1>5. ASSUME NEW k \in good PROVE \E v \in States : hit[v] = k
  <2>1. k \in 0 .. hosts - 1
    OBVIOUS
  <2>0. hosts \in Nat /\ hosts >= 1
    OBVIOUS
  <2>m. hosts * 3 - a \in Nat \ {0}
    <3>1. CASE a = 0
      BY <2>0, <3>1
    <3>2. CASE a = 2
      BY <2>0, <3>2
    <3> QED BY <1>2, <3>1, <3>2
  <2>2. PICK m \in Nat \ {0} : m = hosts * 3 - a
    BY <2>m
  <2>3. PICK u \in 0 .. m - 1 : u = 3 * k
    BY <1>2, <2>1, <2>2
  <2>4. u \in States
    BY <1>1, <1>2, <2>2, <2>3 DEF States
  <2>5. PICK v \in States : Mixed(v) = u
    BY <2>4, MixedOnto
  <2>6. u % m = u
    BY SmallMod
  <2>7. (u + a) \div 3 = k
    BY <1>2, <2>1, <2>3
  <2>8. hit[v] = ((Mixed(v) % m) + a) \div 3
    BY <1>4, <2>2
  <2>9. hit[v] = k
    BY <2>5, <2>6, <2>7, <2>8
  <2> QED BY <2>9
<1> QED BY <1>3, <1>5 DEF Onto

\* What the connections of a host offer.
Offers(try, view, h, n, need) ==
    try = [j \in 0 .. n - 1 |-> IF Usable(view, <<h, j>>, need) THEN <<h, j>> ELSE NoConn]

LEMMA FirstFinds ==
    ASSUME NEW n \in Nat, NEW try, NEW conn, conn = FirstOf(try, n)
    PROVE  /\ conn # NoConn => \E j \in 0 .. n - 1 : try[j] = conn
           /\ conn = NoConn => \A j \in 0 .. n - 1 : try[j] = NoConn
<1> DEFINE found == {j \in 0 .. n - 1 : try[j] # NoConn}
<1>1. CASE found = {}
  BY <1>1 DEF FirstOf
<1>2. CASE found # {}
  <2>1. found \in SUBSET Nat
    OBVIOUS
  <2>2. \E j \in found : \A l \in found : j <= l
    <3> HIDE DEF found
    <3> QED BY <1>2, <2>1, LeastNumber
  <2>3. PICK j : j = CHOOSE i \in found : \A l \in found : i <= l
    OBVIOUS
  <2>4. j \in found
    <3> HIDE DEF found
    <3> QED BY <2>2, <2>3
  <2>5. conn = try[j]
    BY <1>2, <2>3 DEF FirstOf
  <2> QED BY <2>4, <2>5
<1> QED BY <1>1, <1>2

LEMMA ConcreteNeedFinds ==
    ASSUME NEW view, NEW h, NEW n \in 1 .. Period, NEW policy, NEW need, NEW rr \in States,
           NEW try, Offers(try, view, h, n, need),
           NEW conn, conn = ConcreteNeed(view, h, n, policy, need, rr)
    PROVE  /\ conn # NoConn => \E j \in 0 .. n - 1 : try[j] = conn
           /\ conn = NoConn => \A j \in 0 .. n - 1 : try[j] = NoConn
<1>0. n \in Nat
  BY PeriodFacts
<1>1. CASE policy = "PreferFirst"
  <2>1. conn = FirstOf(try, n)
    BY <1>1 DEF ConcreteNeed, Offers
  <2> QED BY <1>0, <2>1, FirstFinds
<1>2. CASE policy # "PreferFirst"
  <2>1. PICK hit : hit = [v \in States |-> Mixed(v) % n]
    OBVIOUS
  <2>2. PICK walk : walk = Walk(rr, 0 .. n - 1, hit, try)
    OBVIOUS
  <2>3. conn = walk.conn
    BY <1>2, <2>1, <2>2 DEF ConcreteNeed, Offers
  <2>4. Onto(hit, 0 .. n - 1)
    BY <2>1, RngOnto
  <2>5. Finds(walk, 0 .. n - 1, try)
    BY <2>2, <2>4, WalkFinds
  <2> QED BY <2>3, <2>5 DEF Finds
<1> QED BY <1>1, <1>2

LEMMA GetConnPicks ==
    ASSUME NEW view, NEW h, NEW n \in 1 .. Period, NEW policy, NEW need, view.rr \in States,
           NEW conn, conn = GetConn(view, h, n, policy, need)
    PROVE  Picks(conn, Ready(view, h, n, need))
<1>1. CASE h \notin view.nodes
  BY <1>1 DEF GetConn, Picks, Ready
<1>2. CASE h \in view.nodes
  <2>1. conn = ConcreteNeed(view, h, n, policy, need, view.rr)
    BY <1>2 DEF GetConn
  <2>2. PICK try : Offers(try, view, h, n, need)
    BY DEF Offers
  <2>3. /\ conn # NoConn => \E j \in 0 .. n - 1 : try[j] = conn
        /\ conn = NoConn => \A j \in 0 .. n - 1 : try[j] = NoConn
    BY <2>1, <2>2, ConcreteNeedFinds
  <2>4. \A j \in 0 .. n - 1 : /\ Usable(view, <<h, j>>, need) => try[j] = <<h, j>>
                              /\ ~ Usable(view, <<h, j>>, need) => try[j] = NoConn
    BY <2>2 DEF Offers
  <2>5. ASSUME conn # NoConn PROVE conn \in Ready(view, h, n, need)
    <3>1. PICK j \in 0 .. n - 1 : try[j] = conn
      BY <2>3, <2>5
    <3>2. Usable(view, <<h, j>>, need) /\ conn = <<h, j>>
      BY <2>4, <2>5, <3>1
    <3> QED BY <1>2, <3>2 DEF Ready
  <2>6. ASSUME conn = NoConn, NEW c \in Ready(view, h, n, need) PROVE FALSE
    <3>1. PICK j \in 0 .. n - 1 : c = <<h, j>> /\ Usable(view, <<h, j>>, need)
      BY <2>6 DEF Ready
    <3>2. try[j] = NoConn /\ try[j] = <<h, j>>
      BY <2>3, <2>4, <2>6, <3>1
    <3> QED BY <3>2, RealConn
  <2> QED BY <2>5, <2>6 DEF Picks
<1> QED BY <1>1, <1>2

\* All that connForSlot may be called with.
AnyView(shape) ==
    LET hosts == 0 .. shape[1] - 1
        conns == hosts \X (0 .. shape[2] - 1)
    IN [off: States, rr: States, good: Masks(shape[1]), nodes: SUBSET hosts,
        status: [conns -> {"connected", "connecting", "down"}], seen: SUBSET conns,
        hostpolicy: {"PreferFirst", "RoundRobin"}]

LEMMA ViewFacts ==
    ASSUME NEW shape \in Shapes, NEW view \in AnyView(shape)
    PROVE  /\ shape[1] \in Nat \ {0} /\ shape[1] * 3 <= Period /\ shape[2] \in 1 .. Period
           /\ view.off \in States /\ view.rr \in States
           /\ view.good \in SUBSET (0 .. shape[1] - 1) /\ 0 \in view.good
           /\ DOMAIN view.status = (0 .. shape[1] - 1) \X (0 .. shape[2] - 1)
BY ShapesAssumption DEF AnyView, Masks

\* The view of the second round.
LEMMA NextView ==
    ASSUME NEW shape \in Shapes, NEW view \in AnyView(shape),
           NEW next, next = [view EXCEPT !.rr = (@ + 1) % Period]
    PROVE  /\ next.rr \in States
           /\ \A h, n, need : Ready(next, h, n, need) = Ready(view, h, n, need)
<1>1. view.rr \in States
  BY ViewFacts
<1>2. PICK a \in Int : a = view.rr + 1
  BY <1>1 DEF States
<1>3. Period \in Nat \ {0}
  BY PeriodFacts
<1>4. a % Period \in 0 .. Period - 1
  BY <1>3, DivMod
<1>5. next.rr = a % Period /\ next.status = view.status /\ next.seen = view.seen /\ next.nodes = view.nodes
  BY <1>2 DEF AnyView
<1> QED BY <1>4, <1>5 DEF States, Ready, Usable

\* The connections that the policy allows, host by host.
Allowed(view, policy) == IF policy = "MasterOnly" THEN {0} ELSE view.good

LEMMA CandidatesReady ==
    ASSUME NEW shape \in Shapes, NEW view \in AnyView(shape), NEW policy, NEW need, NEW c
    PROVE  c \in Candidates(view, policy, need)
             <=> \E h \in Allowed(view, policy) : c \in Ready(view, h, shape[2], need)
<1>1. /\ view.good \in SUBSET (0 .. shape[1] - 1) /\ 0 \in view.good
      /\ DOMAIN view.status = (0 .. shape[1] - 1) \X (0 .. shape[2] - 1)
  BY ViewFacts
<1>2. ASSUME c \in Candidates(view, policy, need)
      PROVE  \E h \in Allowed(view, policy) : c \in Ready(view, h, shape[2], need)
  <2>1. /\ c \in (0 .. shape[1] - 1) \X (0 .. shape[2] - 1)
        /\ c[1] \in view.nodes /\ c \notin view.seen /\ view.status[c] \in need
        /\ c[1] \in Allowed(view, policy)
    BY <1>1, <1>2 DEF Candidates, Allowed
  <2>2. PICK h \in 0 .. shape[1] - 1, j \in 0 .. shape[2] - 1 : c = <<h, j>>
    BY <2>1
  <2>3. h \in Allowed(view, policy) /\ h \in view.nodes /\ Usable(view, c, need)
    BY <2>1, <2>2 DEF Usable
  <2>4. c \in Ready(view, h, shape[2], need)
    BY <2>2, <2>3 DEF Ready
  <2> QED BY <2>3, <2>4
<1>3. ASSUME NEW h \in Allowed(view, policy), c \in Ready(view, h, shape[2], need)
      PROVE  c \in Candidates(view, policy, need)
  <2>1. PICK j \in 0 .. shape[2] - 1 : c = <<h, j>> /\ h \in view.nodes /\ Usable(view, c, need)
    BY <1>3 DEF Ready
  <2>2. h \in 0 .. shape[1] - 1
    BY <1>1, <1>3 DEF Allowed
  <2>3. c \in DOMAIN view.status /\ c[1] = h
    BY <1>1, <2>1, <2>2
  <2> QED BY <1>3, <2>1, <2>3 DEF Candidates, Allowed, Usable
<1> QED BY <1>2, <1>3

\* One round over the hosts.
LEMMA RoundPicks ==
    ASSUME NEW shape \in Shapes, NEW view \in AnyView(shape), NEW policy, policy # "MasterOnly",
           NEW need, NEW off \in States,
           NEW now, now.rr \in States, now.hostpolicy = view.hostpolicy,
           \A h, n, nd : Ready(now, h, n, nd) = Ready(view, h, n, nd),
           NEW walk, walk = Walk(off, view.good, Places(shape[1], policy), ConnsOf(now, shape, need))
    PROVE  walk.off \in States /\ Picks(walk.conn, Candidates(view, policy, need))
<1>1. /\ shape[1] \in Nat \ {0} /\ shape[1] * 3 <= Period /\ shape[2] \in 1 .. Period
      /\ view.good \in SUBSET (0 .. shape[1] - 1)
  BY ViewFacts
<1>2. PICK try : try = ConnsOf(now, shape, need)
  OBVIOUS
<1>3. Onto(Places(shape[1], policy), view.good)
  BY <1>1, PlacesOnto
<1>4. Finds(walk, view.good, try)
  BY <1>2, <1>3, WalkFinds
<1>5. ASSUME NEW h \in view.good PROVE Picks(try[h], Ready(view, h, shape[2], need))
  <2>1. try[h] = GetConn(now, h, shape[2], now.hostpolicy, need)
    BY <1>1, <1>2 DEF ConnsOf
  <2>2. Picks(try[h], Ready(now, h, shape[2], need))
    BY <1>1, <2>1, GetConnPicks
  <2> QED BY <2>2
<1>6. ASSUME walk.conn # NoConn PROVE walk.conn \in Candidates(view, policy, need)
  <2>1. PICK h \in view.good : try[h] = walk.conn
    BY <1>4, <1>6 DEF Finds
  <2>2. walk.conn \in Ready(view, h, shape[2], need)
    BY <1>5, <1>6, <2>1 DEF Picks
  <2>3. h \in Allowed(view, policy)
    BY DEF Allowed
  <2> QED BY <2>2, <2>3, CandidatesReady
<1>7. ASSUME walk.conn = NoConn, NEW c \in Candidates(view, policy, need) PROVE FALSE
  <2>1. PICK h \in Allowed(view, policy) : c \in Ready(view, h, shape[2], need)
    BY CandidatesReady
  <2>2. h \in view.good
    BY DEF Allowed
  <2>3. try[h] = NoConn
    BY <1>4, <1>7, <2>2 DEF Finds
  <2> QED BY <1>5, <2>1, <2>2, <2>3 DEF Picks
<1>8. walk.off \in States
  BY <1>4 DEF Finds
<1> QED BY <1>6, <1>7, <1>8 DEF Picks

\* Established connections first, then those that may be connected.
LEMMA TwoRounds ==
    ASSUME NEW first, NEW second, NEW E, NEW M, Picks(first, E), first = NoConn => Picks(second, M),
           NEW conn, conn = IF first # NoConn THEN first ELSE second
    PROVE  IF E # {} THEN conn \in E ELSE IF M # {} THEN conn \in M ELSE conn = NoConn
BY DEF Picks

\* connForSlot and getConn choose rightly with any seeds, mask, table of nodes,
\* states of the connections and set of connections seen: the loops end, an
\* established connection is found if one is allowed, else one that may be
\* connected, and none only if there is none.
THEOREM EveryViewChoosesRight ==
    ASSUME NEW shape \in Shapes, NEW view \in AnyView(shape), NEW policy \in Policies
    PROVE  ChoiceRightFor(view, shape, policy)
<1>1. /\ shape[1] \in Nat \ {0} /\ shape[2] \in 1 .. Period
      /\ view.off \in States /\ view.rr \in States
  BY ViewFacts
<1>2. PICK next : next = [view EXCEPT !.rr = (@ + 1) % Period]
  OBVIOUS
<1>3. next.rr \in States /\ next.hostpolicy = view.hostpolicy
      /\ \A h, n, need : Ready(next, h, n, need) = Ready(view, h, n, need)
  BY <1>2, NextView DEF AnyView
<1>4. PICK E : E = Candidates(view, policy, NeedConnected)
  OBVIOUS
<1>5. PICK M : M = Candidates(view, policy, MayBeConnected)
  OBVIOUS
<1>6. PICK conn : conn = ConnForSlot(view, shape, policy)
  OBVIOUS
<1>7. IF E # {} THEN conn \in E ELSE IF M # {} THEN conn \in M ELSE conn = NoConn
  <2>1. CASE policy = "MasterOnly"
    <3>1. PICK first : first = GetConn(view, 0, shape[2], view.hostpolicy, NeedConnected)
      OBVIOUS
    <3>2. PICK second : second = GetConn(next, 0, shape[2], view.hostpolicy, MayBeConnected)
      OBVIOUS
    <3>3. conn = IF first # NoConn THEN first ELSE second
      BY <1>2, <1>6, <2>1, <3>1, <3>2 DEF ConnForSlot, GetPreferred
    <3>4. E = Ready(view, 0, shape[2], NeedConnected) /\ M = Ready(view, 0, shape[2], MayBeConnected)
      <4>1. Allowed(view, policy) = {0}
        BY <2>1 DEF Allowed
      <4>2. ASSUME NEW need PROVE Candidates(view, policy, need) = Ready(view, 0, shape[2], need)
        <5>1. ASSUME NEW c
              PROVE  c \in Candidates(view, policy, need) <=> c \in Ready(view, 0, shape[2], need)
          <6>1. c \in Candidates(view, policy, need)
                  <=> \E h \in Allowed(view, policy) : c \in Ready(view, h, shape[2], need)
            BY CandidatesReady
          <6> QED BY <4>1, <6>1
        <5> QED BY <5>1
      <4> QED BY <1>4, <1>5, <4>2
    <3>5. Picks(first, E)
      BY <1>1, <3>1, <3>4, GetConnPicks
    <3>6. Picks(second, M)
      <4>1. Picks(second, Ready(next, 0, shape[2], MayBeConnected))
        BY <1>1, <1>3, <3>2, GetConnPicks
      <4> QED BY <1>3, <3>4, <4>1
    <3> QED BY <3>3, <3>5, <3>6, TwoRounds
  <2>2. CASE policy # "MasterOnly"
    <3>1. PICK places : places = Places(shape[1], policy)
      OBVIOUS
    <3>2. PICK first : first = Walk(view.off, view.good, places, ConnsOf(view, shape, NeedConnected))
      OBVIOUS
    <3>3. PICK second : second = Walk(first.off, view.good, places, ConnsOf(next, shape, MayBeConnected))
      OBVIOUS
    <3>4. conn = IF first.conn # NoConn THEN first.conn ELSE second.conn
      BY <1>2, <1>6, <2>2, <3>1, <3>2, <3>3 DEF ConnForSlot, ForNeeds
    <3>5. first.off \in States /\ Picks(first.conn, E)
      <4>1. \A h, n, nd : Ready(view, h, n, nd) = Ready(view, h, n, nd)
        OBVIOUS
      <4> QED BY <1>1, <1>4, <2>2, <3>1, <3>2, <4>1, RoundPicks
    <3>6. Picks(second.conn, M)
      BY <1>3, <1>5, <2>2, <3>1, <3>3, <3>5, RoundPicks
    <3> QED BY <3>4, <3>5, <3>6, TwoRounds
  <2> QED BY <2>1, <2>2
<1> QED BY <1>4, <1>5, <1>6, <1>7 DEF ChoiceRightFor

-----------------------------------------------------------------------------
(* The mask that answers leave, and the views of the run *)

LEMMA FourStates == 0 .. 3 \subseteq States
<1>1. PICK n \in Nat : n = Width \div 2 /\ n >= 1 /\ n <= Width
  BY WidthAssumption
<1>2. Powers[n] = 2 * Powers[n - 1] /\ Powers[n - 1] \in Nat \ {0}
  BY <1>1, PowersRun, PowersType
<1>3. PICK u \in Nat : u = Upper /\ u >= 2
  BY <1>1, <1>2 DEF Upper
<1>4. u * u >= 4
  BY <1>3
<1>5. Period = u * u
  BY <1>3, PeriodFacts
<1> QED BY <1>3, <1>4, <1>5 DEF States

LEMMA ViewsAreViews == ASSUME NEW shape \in Shapes PROVE Views(shape) \subseteq AnyView(shape)
<1>1. 0 .. 3 \subseteq States /\ 0 \in States
  BY FourStates
<1> SUFFICES ASSUME NEW view \in Views(shape) PROVE view \in AnyView(shape)
  OBVIOUS
<1> DEFINE hosts == 0 .. shape[1] - 1
           conns == hosts \X (0 .. shape[2] - 1)
           rrs == IF shape[2] = 1 THEN {0} ELSE 0 .. 3
           tables == IF shape[2] = 1 THEN {hosts} \cup {hosts \ {h} : h \in hosts} ELSE {hosts}
           sights == {{}} \cup {{c} : c \in conns}
           ways == IF shape[2] = 1 THEN {"PreferFirst"} ELSE {"PreferFirst", "RoundRobin"}
<1>2. rrs \subseteq States /\ ways \subseteq {"PreferFirst", "RoundRobin"}
  BY <1>1
<1>3. tables \subseteq SUBSET hosts
  BY DEF tables
<1>4. sights \subseteq SUBSET conns
  OBVIOUS
<1>5. view \in [off: States, rr: rrs, good: Masks(shape[1]), nodes: tables,
               status: [conns -> {"connected", "connecting", "down"}], seen: sights,
               hostpolicy: ways]
  BY DEF Views
<1> HIDE DEF hosts, conns, rrs, tables, sights, ways
<1>6. view \in [off: States, rr: States, good: Masks(shape[1]), nodes: SUBSET hosts,
               status: [conns -> {"connected", "connecting", "down"}], seen: SUBSET conns,
               hostpolicy: {"PreferFirst", "RoundRobin"}]
  BY <1>2, <1>3, <1>4, <1>5
<1> QED BY <1>6 DEF AnyView, hosts, conns

LEMMA MasksKept ==
    ASSUME Inv, NEW s \in DOMAIN shards
    PROVE  shards[s].good \in Masks(Len(shards[s].addr))
<1>1. shards[s] \in ShardType
  BY ShardAt DEF Inv
<1>2. shards[s].good \in SUBSET Bits /\ shards[s].addr \in [DOMAIN Addrs -> Hosts]
  BY <1>1 DEF ShardType, AddrLists
<1>3. Len(shards[s].addr) = Cardinality(Hosts)
  <2>1. DOMAIN Addrs = 1 .. Cardinality(Hosts) /\ Cardinality(Hosts) \in Nat
    BY Sizes
  <2> QED BY <1>2, <2>1
<1>4. 0 \in shards[s].good
  BY DEF Inv, MasterBitKept
<1> QED BY <1>2, <1>3, <1>4 DEF Masks, Bits

\* Whatever mask the answers of INFO and READONLY leave, the search of
\* connForSlot ends and finds the connection it should, for every width of the
\* generator and all numbers of hosts and connections that its masks have bits for.
THEOREM ChoiceIsRight == Spec => []ChoiceRight
<1>1. EveryChoiceRight
  BY EveryViewChoosesRight, ViewsAreViews DEF EveryChoiceRight
<1>2. Inv => ChoiceRight
  BY <1>1, MasksKept DEF ChoiceRight
<1> QED BY InitInv, NextInv, <1>2, PTL DEF Spec

=============================================================================
