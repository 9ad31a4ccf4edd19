------------------------------ MODULE SlotWords ------------------------------
(***************************************************************************)
(* The slot table as it is stored: two slots in a word of 32 bits, each    *)
(* with the number of its shard and the flag masterOnlyFlag.  It is filled *)
(* from the sorted ranges of CLUSTER SLOTS (updateMappings of              *)
(* src/rediscluster/slotrange.go) and changed one slot at a time           *)
(* (mapping.go).  Module ClusterSlots uses the table these functions are   *)
(* compared with here, one entry per slot.                                 *)
(*                                                                         *)
(* SlotsRanges of redisclusterutil derives the same ranges from the lines  *)
(* of CLUSTER NODES.                                                       *)
(*                                                                         *)
(* Shifts and masks are written as the division and the remainder they     *)
(* are, "|" of numbers without a common bit as their sum.                  *)
(***************************************************************************)
EXTENDS Integers, Sequences, FiniteSets, SequencesExt

CONSTANTS
    NumSlots,    \* 16384 in the code
    MasterAddrs, \* addresses are numbers, as they get sorted
    ReplicaOf    \* [replica |-> its master]

ReplicaAddrs == DOMAIN ReplicaOf
Instances == MasterAddrs \cup ReplicaAddrs

ASSUME WordsAssumption ==
    /\ NumSlots \in 1 .. 16384 /\ NumSlots % 2 = 0
    /\ Instances \subseteq Nat /\ IsFiniteSet(Instances)
    /\ ReplicaOf \in [ReplicaAddrs -> MasterAddrs] /\ MasterAddrs \cap ReplicaAddrs = {}

AllSlots == 0 .. NumSlots - 1
WordNos == 0 .. NumSlots \div 2 - 1
NoMaster == -1

masterOnlyFlag == 16384 \* 0x4000
HalfSize == 65536       \* 1 << 16

-----------------------------------------------------------------------------
(* Ranges *)

\* What a cluster may answer, before it is sorted: every way to cut a slot
\* assignment into ranges.
From(owner, cuts) ==
    {i \in AllSlots : /\ owner[i] # NoMaster
                      /\ i = 0 \/ i \in cuts \/ owner[i - 1] # owner[i]}

EndsAt(owner, cuts, i, j) ==
    /\ \A l \in i .. j : owner[l] = owner[i] /\ (l \in From(owner, cuts) => l = i)
    /\ j + 1 \in AllSlots => owner[j + 1] # owner[i] \/ j + 1 \in From(owner, cuts)

RangesOf(owner, cuts) ==
    {[from |-> i, master |-> owner[i],
      to |-> CHOOSE j \in i .. NumSlots - 1 : EndsAt(owner, cuts, i, j)] : i \in From(owner, cuts)}

\* External, package sort: the members of S in the order of their keys, which differ.
SortedBy(S, key) ==
    CHOOSE q \in [1 .. Cardinality(S) -> S] :
        \A i, j \in 1 .. Cardinality(S) : i < j => key[q[i]] < key[q[j]]

ByFrom(ranges) == SortedBy(ranges, [x \in ranges |-> x.from])

ReplicasOf(m) == {x \in ReplicaAddrs : ReplicaOf[x] = m}

\* ParseSlotsInfo
ParseSlotsInfo(raw) ==
    LET addrs(m) == <<m>> \o SortedBy(ReplicasOf(m), [x \in ReplicasOf(m) |-> x])
    IN ByFrom({[from |-> x.from, to |-> x.to, addrs |-> addrs(x.master)] : x \in raw})

MasterFirst(addr, known) == <<addr>> \o known

AddLine(known, x) ==
    IF x \in ReplicaAddrs THEN [known EXCEPT ![ReplicaOf[x]] = Append(@, x)]
    ELSE [known EXCEPT ![x] = MasterFirst(x, @)]

\* uuid2addrs after each of the lines, which are the instances in the order of
\* their uuids.
Uuid2addrs(lines) ==
    LET known[i \in 0 .. Len(lines)] ==
            IF i = 0 THEN [m \in MasterAddrs |-> <<>>] ELSE AddLine(known[i - 1], lines[i])
    IN known

SlotsRanges(lines, raw) ==
    ByFrom({[from |-> x.from, to |-> x.to,
             addrs |-> Uuid2addrs(lines)[Len(lines)][x.master]] : x \in raw})

-----------------------------------------------------------------------------
(* Words *)

\* slot&1 == 0
Low(s) == s % 2 = 0

Shift(s) == IF Low(s) THEN 1 ELSE HalfSize
Half(word, s) == (word \div Shift(s)) % HalfSize

Flagged(half) == (half \div masterOnlyFlag) % 2 = 1
WithFlag(half) == IF Flagged(half) THEN half ELSE half + masterOnlyFlag

slot2shardno(words, s) == Half(words[s \div 2], s) % masterOnlyFlag
slotIsAsking(words, s) == Flagged(Half(words[s \div 2], s))

\* Fault: the last slot of a range is left out.
PassedEarly(i, range) == i >= range.to

\* i > slotRanges[0].To
Passed(i, range) == i > range.to

\* slotRanges = slotRanges[1:]; next is the range slotRanges starts with by now.
Advanced(next, i, slotRanges) ==
    IF next <= Len(slotRanges) /\ Passed(i, slotRanges[next]) THEN next + 1 ELSE next

\* masters numbers the shards, "random" is the last one.
Current(next, i, slotRanges, masters, random) ==
    IF next > Len(slotRanges) \/ i < slotRanges[next].from THEN random
    ELSE masters[slotRanges[next].addrs[1]]

\* One iteration of the loop of updateMappings.
FillSlot(acc, i, slotRanges, masters, random, marked) ==
    LET next == Advanced(acc.next, i, slotRanges)
        shard == Current(next, i, slotRanges, masters, random)
        cur == IF i \in marked THEN WithFlag(shard) ELSE shard
        sh == IF Low(i) THEN cur ELSE acc.sh + cur * HalfSize
    IN [next |-> next, sh |-> sh,
        words |-> IF Low(i) THEN acc.words ELSE [acc.words EXCEPT ![i \div 2] = sh]]

\* The variables of the loop after each of the slots.
Filling(slotRanges, masters, random, marked) ==
    LET fill[i \in 0 .. NumSlots] ==
            IF i = 0 THEN [next |-> 1, sh |-> 0, words |-> [w \in WordNos |-> 0]]
            ELSE FillSlot(fill[i - 1], i - 1, slotRanges, masters, random, marked)
    IN fill

FillSlots(slotRanges, masters, random, marked) ==
    Filling(slotRanges, masters, random, marked)[NumSlots].words

\* sh32 &^= 0xffff << off
Cleared(word, s) == IF Low(s) THEN (word \div HalfSize) * HalfSize ELSE word % HalfSize

\* sh32 |= uint32(shard) << off
Stored(word, s, shard) == Cleared(word, s) + shard * Shift(s)

slotSetShard(words, s, shard) ==
    IF slot2shardno(words, s) = shard THEN words
    ELSE [words EXCEPT ![s \div 2] = Stored(@, s, shard)]

slotMarkAsking(words, s) ==
    IF slotIsAsking(words, s) THEN words
    ELSE [words EXCEPT ![s \div 2] = @ + masterOnlyFlag * Shift(s)]

-----------------------------------------------------------------------------
(* What is expected *)

Table(words) ==
    [s \in AllSlots |-> [shard |-> slot2shardno(words, s), asking |-> slotIsAsking(words, s)]]

Owners == [AllSlots -> MasterAddrs \cup {NoMaster}]
Answers == {RangesOf(x[1], x[2]) : x \in Owners \X SUBSET AllSlots} \ {{}}
MastersIn(raw) == {x.master : x \in raw}

\* updateMappings ranges over a map: shards are numbered in any order.
Numberings(raw) ==
    {f \in [MastersIn(raw) -> 0 .. Cardinality(MastersIn(raw)) - 1] :
        \A m1, m2 \in MastersIn(raw) : f[m1] = f[m2] => m1 = m2}

Covering(raw, s) == {x \in raw : s \in x.from .. x.to}

EveryTableRight ==
    \A raw \in Answers : \A masters \in Numberings(raw), marked \in SUBSET AllSlots :
        LET random == Cardinality(MastersIn(raw)) - 1
        IN Table(FillSlots(ParseSlotsInfo(raw), masters, random, marked)) =
            [s \in AllSlots |->
                [shard |-> IF Covering(raw, s) = {} THEN random
                           ELSE masters[(CHOOSE x \in Covering(raw, s) : TRUE).master],
                 asking |-> s \in marked]]

ChangeRight(words, s, shard) ==
    LET table == Table(words)
    IN /\ Table(slotMarkAsking(words, s)) = [table EXCEPT ![s].asking = TRUE]
       /\ Table(slotSetShard(words, s, shard)) =
            IF table[s].shard = shard THEN table
            ELSE [table EXCEPT ![s] = [shard |-> shard, asking |-> FALSE]]

\* Shards at both ends of what a word has room for, with and without the flag.
EveryChangeRight ==
    LET shardNos == {0, 1, masterOnlyFlag - 1}
        halves == shardNos \cup {x + masterOnlyFlag : x \in shardNos}
        contents == {x[1] + x[2] * HalfSize : x \in halves \X halves}
    IN \A words \in [WordNos -> contents], s \in AllSlots, shard \in shardNos :
            ChangeRight(words, s, shard)

\* The ranges of CLUSTER NODES and of CLUSTER SLOTS have the same masters and
\* replicas; replicas may come in another order.
SameRanges(xs, ys) ==
    /\ Len(xs) = Len(ys)
    /\ \A i \in DOMAIN xs : /\ xs[i].from = ys[i].from /\ xs[i].to = ys[i].to
                            /\ xs[i].addrs[1] = ys[i].addrs[1]
                            /\ ToSet(xs[i].addrs) = ToSet(ys[i].addrs)

Listings ==
    {q \in [1 .. Cardinality(Instances) -> Instances] :
        \A i, j \in DOMAIN q : q[i] = q[j] => i = j}

EveryListRight ==
    \A owner \in Owners, lines \in Listings :
        LET raw == RangesOf(owner, {}) IN SameRanges(ParseSlotsInfo(raw), SlotsRanges(lines, raw))

=============================================================================
