----------------------- MODULE ConnectionFutureProofs -----------------------
(***************************************************************************)
(* Where the requests of a Connection are, for all calls, any number of    *)
(* sockets and all options: none is lost, doubled, mispaired with a reply  *)
(* or reported as unsent after it was written.                             *)
(***************************************************************************)
EXTENDS ConnectionProofs, ConnectionSender

-----------------------------------------------------------------------------
(* What a chunk consists of *)

\* How many commands precede the requests of a chunk.
PrefixLen(k) == (IF k.asking THEN 1 ELSE 0) + (IF k.kind = "trans" THEN 1 ELSE 0)

\* A chunk that may be handed over.
ChunkAt(k, from) == from \in Nat /\ from < k.n /\ (k.kind # "many" => from = 0)

\* The index of the i-th command of a chunk.
IndexAt(k, from, i) ==
    IF i > PrefixLen(k) THEN from + i - PrefixLen(k) - 1
    ELSE IF k.asking /\ i = 1 THEN -2 ELSE -1

\* Length of a chunk, EXEC included.
ChunkLen(k, from) ==
    PrefixLen(k) + (ChunkEnd(k, from) - from) + (IF k.kind = "trans" THEN 1 ELSE 0)

\* The end of a chunk lies behind its start.
LEMMA ChunkEndFacts ==
    ASSUME NEW k \in AllCalls, NEW from, ChunkAt(k, from)
    PROVE  /\ k \in CallType /\ k.n \in Nat /\ from \in Nat /\ ChunkSize \in Nat \ {0}
           /\ ChunkEnd(k, from) \in Nat /\ from < ChunkEnd(k, from) /\ ChunkEnd(k, from) <= k.n
           /\ k.kind # "many" => from = 0 /\ ChunkEnd(k, from) = k.n
           /\ k.kind = "many" => ~k.asking
           /\ k.asking \in BOOLEAN
BY CallsAssumption, BoundsAssumption DEF ChunkAt, CallType, ChunkEnd

\* The commands of a chunk, by position.
LEMMA ChunkItems ==
    ASSUME NEW k \in AllCalls, NEW from, ChunkAt(k, from)
    PROVE  /\ Len(ChunkSeq(k, from)) = ChunkLen(k, from)
           /\ \A i \in 1 .. ChunkLen(k, from) : ChunkSeq(k, from)[i] = Fut(k, IndexAt(k, from, i))
<1>. DEFINE E == ChunkEnd(k, from)
            p == PrefixSeq(k)
            q == RequestSeq(k, from)
            x == IF k.kind = "trans" THEN <<Fut(k, k.n)>> ELSE <<>>
<1>1. /\ k.n \in Nat /\ from \in Nat /\ E \in Nat /\ from < E /\ E <= k.n
      /\ k.kind # "many" => from = 0 /\ E = k.n
  BY ChunkEndFacts
<1>2. \A i \in -2 .. k.n : Fut(k, i) \in Futs
  BY DEF Futs
<1>3. /\ p \in Seq(Futs) /\ Len(p) = PrefixLen(k) /\ PrefixLen(k) \in 0 .. 2
      /\ \A i \in 1 .. PrefixLen(k) : p[i] = Fut(k, IF k.asking /\ i = 1 THEN -2 ELSE -1)
  <2>1. Fut(k, -2) \in Futs /\ Fut(k, -1) \in Futs
    BY <1>1, <1>2
  <2>2. CASE k.asking /\ k.kind = "trans"
    <3>. DEFINE a == <<Fut(k, -2)>>
                b == <<Fut(k, -1)>>
    <3>1. p = a \o b /\ PrefixLen(k) = 2
      BY <2>2 DEF PrefixSeq, PrefixLen
    <3>2. /\ a \in Seq(Futs) /\ Len(a) = 1 /\ a[1] = Fut(k, -2)
          /\ b \in Seq(Futs) /\ Len(b) = 1 /\ b[1] = Fut(k, -1)
      BY <2>1
    <3>. HIDE DEF p, a, b
    <3>3. /\ a \o b \in Seq(Futs) /\ Len(a \o b) = Len(a) + Len(b)
          /\ \A i \in 1 .. Len(a) + Len(b) :
               (a \o b)[i] = IF i <= Len(a) THEN a[i] ELSE b[i - Len(a)]
      BY <3>2, ConcatProperties
    <3>4. \A i \in 1 .. 2 : p[i] = Fut(k, IF i = 1 THEN -2 ELSE -1)
      BY <3>1, <3>2, <3>3
    <3>. QED  BY <2>2, <3>1, <3>2, <3>3, <3>4
  <2>3. CASE k.asking /\ k.kind # "trans"
    <3>1. p = <<Fut(k, -2)>> /\ PrefixLen(k) = 1
      BY <2>3 DEF PrefixSeq, PrefixLen
    <3>. QED  BY <2>1, <2>3, <3>1
  <2>4. CASE ~k.asking /\ k.kind = "trans"
    <3>1. p = <<Fut(k, -1)>> /\ PrefixLen(k) = 1
      BY <2>4 DEF PrefixSeq, PrefixLen
    <3>. QED  BY <2>1, <2>4, <3>1
  <2>5. CASE ~k.asking /\ k.kind # "trans"
    <3>1. p = <<>> /\ PrefixLen(k) = 0
      BY <2>5 DEF PrefixSeq, PrefixLen
    <3>. QED  BY <3>1
  <2>. QED  BY <2>2, <2>3, <2>4, <2>5
<1>4. q \in Seq(Futs) /\ Len(q) = E - from /\ \A i \in 1 .. E - from : q[i] = Fut(k, from + i - 1)
  <2>1. E - from \in Nat /\ \A i \in 1 .. E - from : Fut(k, from + i - 1) \in Futs
    BY <1>1, <1>2
  <2>. QED  BY <2>1 DEF RequestSeq
<1>5. /\ x \in Seq(Futs) /\ Len(x) = (IF k.kind = "trans" THEN 1 ELSE 0)
      /\ k.kind = "trans" => x[1] = Fut(k, k.n)
  BY <1>1, <1>2
<1>6. ChunkSeq(k, from) = p \o q \o x
  BY DEF ChunkSeq
<1>. HIDE DEF E, p, q, x
<1>7. /\ p \o q \in Seq(Futs) /\ Len(p \o q) = PrefixLen(k) + (E - from)
      /\ \A i \in 1 .. PrefixLen(k) + (E - from) : (p \o q)[i] = Fut(k, IndexAt(k, from, i))
  <2>1. /\ p \o q \in Seq(Futs) /\ Len(p \o q) = Len(p) + Len(q)
        /\ \A i \in 1 .. Len(p) + Len(q) :
             (p \o q)[i] = IF i <= Len(p) THEN p[i] ELSE q[i - Len(p)]
    BY <1>3, <1>4, ConcatProperties
  <2>2. ASSUME NEW i \in 1 .. PrefixLen(k) + (E - from)
        PROVE  (p \o q)[i] = Fut(k, IndexAt(k, from, i))
    <3>1. CASE i <= PrefixLen(k)
      BY <1>3, <1>4, <2>1, <3>1 DEF IndexAt
    <3>2. CASE ~(i <= PrefixLen(k))
      <4>1. i - PrefixLen(k) \in 1 .. E - from /\ i \in Int
        BY <1>1, <1>3, <3>2
      <4>2. (p \o q)[i] = q[i - PrefixLen(k)]
        BY <1>1, <1>3, <1>4, <2>1, <3>2
      <4>3. q[i - PrefixLen(k)] = Fut(k, from + (i - PrefixLen(k)) - 1)
        BY <1>4, <4>1
      <4>4. from + (i - PrefixLen(k)) - 1 = IndexAt(k, from, i)
        BY <1>1, <1>3, <3>2, <4>1 DEF IndexAt
      <4>. QED  BY <4>2, <4>3, <4>4
    <3>. QED  BY <3>1, <3>2
  <2>. QED  BY <1>1, <1>3, <1>4, <2>1, <2>2
<1>8. /\ Len((p \o q) \o x) = Len(p \o q) + Len(x)
      /\ \A i \in 1 .. Len(p \o q) + Len(x) :
           ((p \o q) \o x)[i] = IF i <= Len(p \o q) THEN (p \o q)[i] ELSE x[i - Len(p \o q)]
  BY ZenonT(40), <1>5, <1>7, ConcatProperties
<1>9. Len(ChunkSeq(k, from)) = ChunkLen(k, from)
  BY <1>5, <1>6, <1>7, <1>8 DEF ChunkLen, E
<1>10. ASSUME NEW i \in 1 .. ChunkLen(k, from)
       PROVE  ChunkSeq(k, from)[i] = Fut(k, IndexAt(k, from, i))
  <2>1. CASE i <= PrefixLen(k) + (E - from)
    BY <1>1, <1>3, <1>5, <1>6, <1>7, <1>8, <2>1 DEF ChunkLen, E
  <2>2. CASE ~(i <= PrefixLen(k) + (E - from))
    <3>1. k.kind = "trans" /\ i = PrefixLen(k) + (E - from) + 1
      BY <1>1, <1>3, <2>2 DEF ChunkLen, E
    <3>2. ChunkSeq(k, from)[i] = Fut(k, k.n)
      BY <1>1, <1>3, <1>5, <1>6, <1>7, <1>8, <3>1
    <3>3. IndexAt(k, from, i) = k.n
      BY <1>1, <1>3, <3>1 DEF IndexAt
    <3>. QED  BY <3>2, <3>3
  <2>. QED  BY <2>1, <2>2
<1>. QED  BY <1>9, <1>10

\* Indices of a chunk grow, and are those that were not handed over before.
LEMMA IndexFacts ==
    ASSUME NEW k \in AllCalls, NEW from, ChunkAt(k, from)
    PROVE  /\ ChunkLen(k, from) \in Nat \ {0}
           /\ \A i \in 1 .. ChunkLen(k, from) :
                /\ IndexAt(k, from, i) \in -2 .. k.n
                /\ IndexAt(k, from, i) < 0 \/ IndexAt(k, from, i) >= from
           /\ \A i, j \in 1 .. ChunkLen(k, from) :
                IndexAt(k, from, i) = IndexAt(k, from, j) => i = j
BY ChunkEndFacts DEF ChunkLen, IndexAt, PrefixLen

\* The same of the futures themselves; every callback of the chunk is among them.
LEMMA ChunkFacts ==
    ASSUME NEW k \in AllCalls, NEW from, ChunkAt(k, from)
    PROVE  /\ ChunkSeq(k, from) \in Seq(Futs) /\ Len(ChunkSeq(k, from)) > 0
           /\ \A i \in 1 .. Len(ChunkSeq(k, from)) :
                /\ ChunkSeq(k, from)[i].call = k
                /\ ChunkSeq(k, from)[i].n < 0 \/ ChunkSeq(k, from)[i].n >= from
           /\ \A i, j \in 1 .. Len(ChunkSeq(k, from)) :
                ChunkSeq(k, from)[i] = ChunkSeq(k, from)[j] => i = j
           /\ \A f \in ChunkFuts(k, from) :
                \E i \in 1 .. Len(ChunkSeq(k, from)) : ChunkSeq(k, from)[i] = f
<1>1. ChunkSeq(k, from) \in Seq(Futs)
  BY ChunkSeqType DEF ChunkAt
<1>2. \A i : Fut(k, i).call = k /\ Fut(k, i).n = i
  BY DEF Fut
<1>3. ASSUME NEW f \in ChunkFuts(k, from)
      PROVE  \E i \in 1 .. ChunkLen(k, from) : ChunkSeq(k, from)[i] = f
  <2>1. PICK n \in from .. k.n : f = Fut(k, n) /\ (n < ChunkEnd(k, from) \/ k.kind = "trans")
    BY ChunkEndFacts DEF ChunkFuts
  <2>. DEFINE i == n - from + PrefixLen(k) + 1
  <2>2. i \in 1 .. ChunkLen(k, from) /\ IndexAt(k, from, i) = n
    BY <2>1, ChunkEndFacts DEF ChunkLen, IndexAt, PrefixLen
  <2>. QED  BY <2>1, <2>2, ChunkItems
<1>. QED  BY <1>1, <1>2, <1>3, ChunkItems, IndexFacts

\* A command that has to stand directly behind another one.
MustFollow(f) == HasPrev(f) /\ ~(f.call.kind = "many" /\ f.n % ChunkSize = 0)
Contiguous(s) == \A i \in 2 .. Len(s) : MustFollow(s[i]) => s[i - 1] = Prev(s[i])
Whole(s) == Contiguous(s) /\ (Len(s) > 0 => ~MustFollow(s[1]))

\* A chunk keeps together what belongs together and starts with nothing that
\* belongs to what precedes it.
LEMMA ChunkWhole ==
    ASSUME NEW k \in AllCalls, NEW from, ChunkAt(k, from),
           k.kind = "many" => from % ChunkSize = 0
    PROVE  Whole(ChunkSeq(k, from))
<1>. DEFINE s == ChunkSeq(k, from)
            x(i) == IndexAt(k, from, i)
<1>1. /\ Len(s) = ChunkLen(k, from) /\ Len(s) \in Nat
      /\ \A i \in 1 .. Len(s) : s[i] = Fut(k, x(i)) /\ s[i].call = k /\ s[i].n = x(i)
  BY ChunkItems, IndexFacts DEF Fut
<1>2. ASSUME NEW i \in 2 .. Len(s), MustFollow(s[i]) PROVE s[i - 1] = Prev(s[i])
  <2>1. i \in 1 .. Len(s) /\ i - 1 \in 1 .. Len(s)
    BY <1>1
  <2>2. x(i - 1) = IF x(i) = 0 /\ k.kind # "trans" THEN -2 ELSE x(i) - 1
    <3>1. s[i].call = k /\ s[i].n = x(i) /\ MustFollow(s[i])
      BY <1>1, <1>2, <2>1
    <3>2. HasPrev(s[i]) /\ ~(k.kind = "many" /\ x(i) % ChunkSize = 0)
      BY <3>1 DEF MustFollow
    <3>3. x(i) > 0 \/ (x(i) = 0 /\ (k.asking \/ k.kind = "trans")) \/ (x(i) = -1 /\ k.asking)
      BY <3>1, <3>2 DEF HasPrev
    <3>4. ~(k.kind = "many" /\ x(i) = from)
      BY <3>2
    <3>5. k.kind # "many" => from = 0
      BY DEF ChunkAt
    <3>6. i \in Int /\ i >= 2 /\ from \in Nat /\ PrefixLen(k) \in 0 .. 2
      BY DEF ChunkAt, PrefixLen
    <3>7. CASE i > PrefixLen(k) + 1
      <4>1. x(i) = from + i - PrefixLen(k) - 1 /\ x(i - 1) = from + (i - 1) - PrefixLen(k) - 1
        BY <3>6, <3>7 DEF IndexAt
      <4>. QED  BY <3>6, <3>7, <4>1
    <3>8. CASE i = PrefixLen(k) + 1
      <4>1. x(i) = from
        BY <3>6, <3>8 DEF IndexAt
      <4>2. x(i - 1) = IF k.kind = "trans" THEN -1 ELSE -2
        BY <3>6, <3>8 DEF IndexAt, PrefixLen
      <4>. QED  BY <3>4, <3>5, <4>1, <4>2
    <3>9. CASE ~(i > PrefixLen(k))
      <4>1. i = 2 /\ PrefixLen(k) = 2 /\ k.asking /\ k.kind = "trans"
        BY <3>6, <3>9 DEF PrefixLen
      <4>2. x(i) = -1 /\ x(i - 1) = -2
        BY <4>1 DEF IndexAt
      <4>. QED  BY <4>2
    <3>. QED  BY <3>6, <3>7, <3>8, <3>9
  <2>. QED  BY <1>1, <2>1, <2>2 DEF Prev
<1>3. ~MustFollow(s[1])
  <2>1. 1 \in 1 .. Len(s)
    BY <1>1, IndexFacts
  <2>2. s[1].call = k /\ s[1].n = x(1)
    BY <1>1, <2>1
  <2>3. \/ k.kind = "many" /\ x(1) = from
        \/ ~(x(1) > 0 \/ (x(1) = 0 /\ (k.asking \/ k.kind = "trans")) \/ (x(1) = -1 /\ k.asking))
    BY ChunkEndFacts DEF IndexAt, PrefixLen
  <2>. QED  BY <2>2, <2>3 DEF MustFollow, HasPrev
<1>. QED  BY <1>2, <1>3 DEF Whole, Contiguous

-----------------------------------------------------------------------------
(* Where a command waits *)

InQueue(q, l) == \E i \in DOMAIN q : l = <<"queue", 0, 0, i>>
InWriter(w, l) == \E e \in Epochs : \E i \in DOMAIN w[e] : l = <<"writer", e, 0, i>>
InReader(r, l) == \E e \in Epochs : \E i \in DOMAIN r[e] : l = <<"reader", e, 0, i>>
InChan(h, l) ==
    \E e \in Epochs : \E b \in DOMAIN h[e] : \E i \in DOMAIN h[e][b] : l = <<"chan", e, b, i>>

\* The four kinds of places, before and after a step.
LEMMA PlaceKinds ==
    /\ \A l : l \in Places <=> InQueue(futures, l) \/ InWriter(wfut, l) \/ InReader(rfut, l)
                                   \/ InChan(chan, l)
    /\ \A l : l \in Places' <=> InQueue(futures', l) \/ InWriter(wfut', l) \/ InReader(rfut', l)
                                    \/ InChan(chan', l)
<1>1. \A l : /\ l \in QueuePlaces <=> InQueue(futures, l)
             /\ l \in QueuePlaces' <=> InQueue(futures', l)
  BY DEF QueuePlaces, InQueue
<1>2. \A l : /\ l \in WriterPlaces <=> InWriter(wfut, l)
             /\ l \in WriterPlaces' <=> InWriter(wfut', l)
  BY DEF WriterPlaces, InWriter
<1>3. \A l : /\ l \in ReaderPlaces <=> InReader(rfut, l)
             /\ l \in ReaderPlaces' <=> InReader(rfut', l)
  BY DEF ReaderPlaces, InReader
<1>4. \A l : /\ l \in ChanPlaces <=> InChan(chan, l)
             /\ l \in ChanPlaces' <=> InChan(chan', l)
  BY DEF ChanPlaces, InChan
<1>. QED  BY <1>1, <1>2, <1>3, <1>4 DEF Places

\* What waits there.
LEMMA PlaceItems ==
    \A e, b, i :
        /\ Waiting(<<"queue", 0, 0, i>>) = futures[i]
        /\ Waiting(<<"writer", e, 0, i>>) = wfut[e][i]
        /\ Waiting(<<"reader", e, 0, i>>) = rfut[e][i]
        /\ Waiting(<<"chan", e, b, i>>) = chan[e][b][i]
        /\ Waiting(<<"queue", 0, 0, i>>)' = futures'[i]
        /\ Waiting(<<"writer", e, 0, i>>)' = wfut'[e][i]
        /\ Waiting(<<"reader", e, 0, i>>)' = rfut'[e][i]
        /\ Waiting(<<"chan", e, b, i>>)' = chan'[e][b][i]
BY DEF Waiting

\* Only futures wait.
LEMMA WaitingType == TypeOK => \A l \in Places : Waiting(l) \in Futs
<1>. SUFFICES ASSUME TypeOK, NEW l \in Places PROVE Waiting(l) \in Futs
  OBVIOUS
<1>1. CASE InQueue(futures, l)
  BY <1>1, PlaceItems DEF InQueue, TypeOK
<1>2. CASE InWriter(wfut, l)
  <2>1. PICK e \in Epochs : \E i \in DOMAIN wfut[e] : l = <<"writer", e, 0, i>>
    BY <1>2 DEF InWriter
  <2>2. wfut[e] \in Seq(Futs)
    BY DEF TypeOK
  <2>. QED  BY <2>1, <2>2, PlaceItems
<1>3. CASE InReader(rfut, l)
  <2>1. PICK e \in Epochs : \E i \in DOMAIN rfut[e] : l = <<"reader", e, 0, i>>
    BY <1>3 DEF InReader
  <2>2. rfut[e] \in Seq(Futs)
    BY DEF TypeOK
  <2>. QED  BY <2>1, <2>2, PlaceItems
<1>4. CASE InChan(chan, l)
  <2>1. PICK e \in Epochs : \E b \in DOMAIN chan[e] : \E i \in DOMAIN chan[e][b] :
               l = <<"chan", e, b, i>>
    BY <1>4 DEF InChan
  <2>2. PICK b \in DOMAIN chan[e] : \E i \in DOMAIN chan[e][b] : l = <<"chan", e, b, i>>
    BY <2>1
  <2>3. chan[e] \in Seq(Seq(Futs))
    BY DEF TypeOK
  <2>4. chan[e][b] \in Seq(Futs)
    BY <2>2, <2>3
  <2>. QED  BY <2>2, <2>4, PlaceItems
<1>. QED  BY <1>1, <1>2, <1>3, <1>4, PlaceKinds

-----------------------------------------------------------------------------
(* The inductive invariant *)

\* A command not yet handed over.
NotYet(f) == f.call \in todo /\ (f.n >= at[f.call] \/ f.n < 0)

\* Where a call under way stands: in front of a chunk.
CallsInv ==
    \A k \in todo : /\ at[k] < k.n \/ (at[k] = 0 /\ k.n = 0)
                    /\ IF k.kind = "many" THEN at[k] % ChunkSize = 0 ELSE at[k] = 0

\* No command waits twice, and none that waits is resolved.
InOnePlace == \A l, m \in Places : Waiting(l) = Waiting(m) => l = m
Unresolved == \A l \in Places : res[Waiting(l)] = <<>>
ResolvedOnce == \A f \in Futs : Len(res[f]) <= 1

\* A callback handed over is resolved or waits.
NotLost == \A f \in HandedOver : res[f] # <<>> \/ \E l \in Places : Waiting(l) = f

\* Nothing has happened to a command not yet handed over.
Fresh == \A f \in Futs : NotYet(f) => /\ res[f] = <<>>
                                      /\ \A l \in Places : Waiting(l) # f

\* Buffers that are empty between two rounds of a writer and of a reader.
BuffersInv ==
    \A e \in Epochs : /\ wpc[e] \in {"none", "wait", "swap", "done"} => wfut[e] = <<>>
                      /\ rpc[e] = "fetch" => rfut[e] = <<>>
                      /\ e > conns => wpc[e] = "none" /\ rpc[e] = "none"

PlaceInv == InOnePlace /\ Unresolved /\ ResolvedOnce /\ NotLost /\ Fresh

\* Commands move between places along m, which loses only those in R, and
\* those are resolved.
Moves(m, R) ==
    /\ R \subseteq Futs
    /\ \A l \in Places' : m[l] \in Places /\ Waiting(l)' = Waiting(m[l])
    /\ \A x, y \in Places' : m[x] = m[y] => x = y
    /\ \A f \in R : \E l \in Places : Waiting(l) = f /\ \A x \in Places' : m[x] # l
    /\ \A l \in Places : Waiting(l) \in R \/ \E x \in Places' : m[x] = l
    /\ \A f \in Futs \ R : res'[f] = res[f]
    /\ \A f \in R : Len(res'[f]) = Len(res[f]) + 1 /\ res'[f] # <<>>
    /\ UNCHANGED <<todo, at>>

\* Such a move keeps every command in one place.
LEMMA MoveStep ==
    ASSUME PlaceInv, TypeOK, NEW m, NEW R, Moves(m, R)
    PROVE  PlaceInv'
<1>. USE DEF Moves
<1>1. \A l \in Places : Waiting(l) \in Futs
  BY WaitingType
<1>2. InOnePlace'
  BY DEF PlaceInv, InOnePlace
<1>3. \A l \in Places' : Waiting(l)' \in Futs \ R
  BY <1>1 DEF PlaceInv, InOnePlace
<1>4. Unresolved'
  BY <1>3 DEF PlaceInv, Unresolved
<1>5. ResolvedOnce'
  <2>1. \A f \in R : res[f] = <<>>
    BY DEF PlaceInv, Unresolved
  <2>. QED  BY <2>1 DEF PlaceInv, ResolvedOnce
<1>6. NotLost'
  <2>1. HandedOver' = HandedOver
    BY DEF HandedOver
  <2>2. HandedOver \subseteq Futs
    BY DEF HandedOver
  <2>. QED  BY <2>1, <2>2 DEF PlaceInv, NotLost
<1>7. Fresh'
  <2>1. \A f : NotYet(f)' <=> NotYet(f)
    BY DEF NotYet
  <2>. QED  BY <2>1 DEF PlaceInv, Fresh
<1>. QED  BY <1>2, <1>4, <1>5, <1>6, <1>7 DEF PlaceInv

\* What resolving a set of futures, or one future, does to the results.
LEMMA ErrorsFacts ==
    ASSUME TypeOK, NEW fs \in SUBSET Futs, NEW kind, res' = Errors(fs, kind)
    PROVE  /\ \A f \in Futs \ fs : res'[f] = res[f]
           /\ \A f \in fs : /\ res'[f] = Append(res[f], [kind |-> kind, of |-> f])
                            /\ Len(res'[f]) = Len(res[f]) + 1 /\ res'[f] # <<>>
<1>1. ASSUME NEW f \in fs
      PROVE  /\ res'[f] = Append(res[f], [kind |-> kind, of |-> f])
             /\ Len(res'[f]) = Len(res[f]) + 1 /\ res'[f] # <<>>
  <2>1. res[f] \in Seq(Results) /\ res'[f] = Append(res[f], [kind |-> kind, of |-> f])
    BY DEF TypeOK, Errors
  <2>2. Len(Append(res[f], [kind |-> kind, of |-> f])) = Len(res[f]) + 1 /\ Len(res[f]) \in Nat
    BY <2>1
  <2>. QED  BY <2>1, <2>2
<1>. QED  BY <1>1 DEF TypeOK, Errors

LEMMA ReplyFacts ==
    ASSUME TypeOK, NEW f \in Futs, NEW from, NEW kind, res' = Reply(f, from, kind)
    PROVE  /\ \A g \in Futs \ {f} : res'[g] = res[g]
           /\ res'[f] = Append(res[f], [kind |-> kind, of |-> from])
           /\ Len(res'[f]) = Len(res[f]) + 1 /\ res'[f] # <<>>
<1>1. res[f] \in Seq(Results) /\ res'[f] = Append(res[f], [kind |-> kind, of |-> from])
  BY DEF TypeOK, Reply
<1>2. Len(Append(res[f], [kind |-> kind, of |-> from])) = Len(res[f]) + 1 /\ Len(res[f]) \in Nat
  BY <1>1
<1>3. \A g \in Futs \ {f} : res'[g] = res[g]
  BY DEF TypeOK, Reply
<1>4. res'[f] # <<>>
  BY <1>1, <1>2
<1>. QED  BY <1>1, <1>2, <1>3, <1>4

\* The members of a sequence of futures.
LEMMA RangeFacts ==
    ASSUME NEW s \in Seq(Futs)
    PROVE  Range(s) \subseteq Futs /\ \A f : f \in Range(s) <=> \E i \in DOMAIN s : s[i] = f
BY DEF Range

\* No command moves and none is resolved.
LEMMA PlaceFrame ==
    ASSUME PlaceInv, UNCHANGED <<futures, wfut, rfut, chan, res, todo, at>>
    PROVE  PlaceInv'
BY DEF PlaceInv, InOnePlace, Unresolved, ResolvedOnce, NotLost, Fresh, NotYet, HandedOver, Waiting,
       Places, QueuePlaces, WriterPlaces, ReaderPlaces, ChanPlaces

\* dropFutures resolves the queue.
LEMMA MoveDrop ==
    ASSUME PlaceInv, TypeOK, NEW kind, DropFutures(kind), UNCHANGED <<wfut, rfut, chan, todo, at>>
    PROVE  PlaceInv'
<1>. DEFINE m == [l \in Places' |-> l]
            R == Range(futures)
<1>1. futures' = <<>> /\ res' = Errors(R, kind) /\ futures \in Seq(Futs)
  BY DEF DropFutures, TypeOK
<1>2. R \in SUBSET Futs /\ \A f : f \in R <=> \E i \in DOMAIN futures : futures[i] = f
  BY <1>1, RangeFacts
<1>3. /\ \A l : ~InQueue(futures', l) 
      /\ \A l : InWriter(wfut', l) <=> InWriter(wfut, l)
      /\ \A l : InReader(rfut', l) <=> InReader(rfut, l)
      /\ \A l : InChan(chan', l) <=> InChan(chan, l)
  BY <1>1 DEF InQueue, InWriter, InReader, InChan
<1>4. ASSUME NEW l \in Places' PROVE l \in Places /\ ~InQueue(futures, l) /\ Waiting(l)' = Waiting(l)
  <2>1. InWriter(wfut, l) \/ InReader(rfut, l) \/ InChan(chan, l)
    BY <1>3, PlaceKinds
  <2>2. l \in Places
    BY <2>1, PlaceKinds
  <2>3. l[1] \in {"writer", "reader", "chan"} /\ ~InQueue(futures, l)
    BY <2>1 DEF InWriter, InReader, InChan, InQueue
  <2>. QED  BY <2>2, <2>3 DEF Waiting
<1>5. ASSUME NEW l \in Places PROVE Waiting(l) \in R \/ l \in Places'
  <2>1. CASE InQueue(futures, l)
    BY <1>2, <2>1, PlaceItems DEF InQueue
  <2>2. CASE ~InQueue(futures, l)
    BY <1>3, <2>2, PlaceKinds
  <2>. QED  BY <2>1, <2>2
<1>6. ASSUME NEW f \in R PROVE \E l \in Places : Waiting(l) = f /\ \A x \in Places' : m[x] # l
  <2>1. PICK i \in DOMAIN futures : futures[i] = f
    BY <1>2
  <2>2. InQueue(futures, <<"queue", 0, 0, i>>)
    BY DEF InQueue
  <2>. QED  BY <1>4, <2>1, <2>2, PlaceKinds, PlaceItems
<1>. HIDE DEF R
<1>7. \A x \in Places' : m[x] = x
  OBVIOUS
<1>8. Moves(m, R)
  <2>. HIDE DEF m
  <2>1. /\ \A f \in Futs \ R : res'[f] = res[f]
        /\ \A f \in R : Len(res'[f]) = Len(res[f]) + 1 /\ res'[f] # <<>>
    BY <1>1, <1>2, ErrorsFacts
  <2>. QED  BY <1>2, <1>4, <1>5, <1>6, <1>7, <2>1 DEF Moves
<1>. QED  BY <1>8, MoveStep

\* The writer takes the whole queue.
LEMMA MoveSwap ==
    ASSUME PlaceInv, TypeOK, BuffersInv, NEW e \in Epochs, WriterSwap(e)
    PROVE  PlaceInv'
<1>. DEFINE m == [l \in Places' |-> IF l[1] = "writer" /\ l[2] = e THEN <<"queue", 0, 0, l[4]>> ELSE l]
<1>1. /\ wfut[e] = <<>> /\ futures' = <<>> /\ wfut' = [wfut EXCEPT ![e] = futures]
      /\ UNCHANGED <<rfut, chan, res, todo, at>>
  BY DEF WriterSwap, SwapIn, BuffersInv, readerVars, callVars
<1>2. wfut'[e] = futures /\ \A d \in Epochs \ {e} : wfut'[d] = wfut[d]
  BY <1>1 DEF TypeOK
<1>3. ASSUME NEW l \in Places'
      PROVE  /\ m[l] \in Places /\ Waiting(l)' = Waiting(m[l])
             /\ \/ m[l] = l /\ ~InQueue(futures, l)
                \/ \E i \in DOMAIN futures : l = <<"writer", e, 0, i>> /\ m[l] = <<"queue", 0, 0, i>>
  <2>1. ~InQueue(futures', l)
    BY <1>1 DEF InQueue
  <2>2. CASE InWriter(wfut', l)
    <3>1. PICK d, i : d \in Epochs /\ i \in DOMAIN wfut'[d] /\ l = <<"writer", d, 0, i>>
      BY <2>2 DEF InWriter
    <3>2. CASE d = e
      <4>1. m[l] = <<"queue", 0, 0, i>> /\ i \in DOMAIN futures
        BY <1>2, <3>1, <3>2
      <4>2. InQueue(futures, m[l])
        BY <4>1 DEF InQueue
      <4>. QED  BY <1>2, <3>1, <3>2, <4>1, <4>2, PlaceKinds, PlaceItems
    <3>3. CASE d # e
      <4>1. m[l] = l /\ i \in DOMAIN wfut[d]
        BY <1>2, <3>1, <3>3
      <4>2. InWriter(wfut, l) /\ ~InQueue(futures, l)
        BY <3>1, <4>1 DEF InWriter, InQueue
      <4>. QED  BY <1>2, <3>1, <3>3, <4>1, <4>2, PlaceKinds, PlaceItems
    <3>. QED  BY <3>2, <3>3
  <2>3. CASE InReader(rfut', l) \/ InChan(chan', l)
    <3>1. l[1] \in {"reader", "chan"} /\ ~InQueue(futures, l)
      BY <2>3 DEF InReader, InChan, InQueue
    <3>2. l \in Places
      BY <1>1, <2>3, PlaceKinds
    <3>. QED  BY <1>1, <3>1, <3>2 DEF Waiting
  <2>. QED  BY <2>1, <2>2, <2>3, PlaceKinds
<1>4. ASSUME NEW l \in Places PROVE \E x \in Places' : m[x] = l
  <2>1. CASE InQueue(futures, l)
    <3>1. PICK i \in DOMAIN futures : l = <<"queue", 0, 0, i>>
      BY <2>1 DEF InQueue
    <3>2. InWriter(wfut', <<"writer", e, 0, i>>)
      BY <1>2 DEF InWriter
    <3>. QED  BY <3>1, <3>2, PlaceKinds
  <2>2. CASE InWriter(wfut, l)
    <3>1. PICK d, i : d \in Epochs /\ i \in DOMAIN wfut[d] /\ l = <<"writer", d, 0, i>>
      BY <2>2 DEF InWriter
    <3>2. d # e
      BY <1>1, <3>1
    <3>3. InWriter(wfut', l)
      BY <1>2, <3>1, <3>2 DEF InWriter
    <3>. QED  BY <3>1, <3>2, <3>3, PlaceKinds
  <2>3. CASE InReader(rfut, l) \/ InChan(chan, l)
    <3>1. l[1] \in {"reader", "chan"}
      BY <2>3 DEF InReader, InChan
    <3>. QED  BY <1>1, <2>3, <3>1, PlaceKinds
  <2>. QED  BY <2>1, <2>2, <2>3, PlaceKinds
<1>. HIDE DEF m
<1>5. \A x, y \in Places' : m[x] = m[y] => x = y
  BY <1>3 DEF InQueue
<1>6. Moves(m, {})
  BY <1>1, <1>3, <1>4, <1>5 DEF Moves
<1>. QED  BY <1>6, MoveStep

\* The writer hands its buffer over as the last batch of the channel.
LEMMA MovePush ==
    ASSUME PlaceInv, TypeOK, NEW e \in Epochs, WriterPush(e)
    PROVE  PlaceInv'
<1>. DEFINE n == Len(chan[e]) + 1
            m == [l \in Places' |-> IF l[1] = "chan" /\ l[2] = e /\ l[3] = n
                                    THEN <<"writer", e, 0, l[4]>> ELSE l]
<1>1. /\ wfut' = [wfut EXCEPT ![e] = <<>>] /\ chan' = [chan EXCEPT ![e] = Append(chan[e], wfut[e])]
      /\ UNCHANGED <<futures, rfut, res, todo, at>>
  BY DEF WriterPush, Pushed, queueVars, readerVars, callVars
<1>2. /\ wfut'[e] = <<>> /\ \A d \in Epochs \ {e} : wfut'[d] = wfut[d] /\ chan'[d] = chan[d]
      /\ chan'[e] = Append(chan[e], wfut[e])
  BY <1>1 DEF TypeOK
<1>3. /\ n \in Nat /\ n >= 1 /\ DOMAIN chan[e] = 1 .. n - 1 /\ DOMAIN chan'[e] = 1 .. n
      /\ chan'[e][n] = wfut[e] /\ \A b \in 1 .. n - 1 : chan'[e][b] = chan[e][b]
  <2>1. chan[e] \in Seq(Seq(Futs)) /\ wfut[e] \in Seq(Futs)
    BY DEF TypeOK
  <2>. QED  BY <1>2, <2>1, AppendProperties
<1>. HIDE DEF n
<1>4. ASSUME NEW l \in Places'
      PROVE  /\ m[l] \in Places /\ Waiting(l)' = Waiting(m[l])
             /\ \/ m[l] = l /\ \A i : l # <<"writer", e, 0, i>>
                \/ \E i : l = <<"chan", e, n, i>> /\ m[l] = <<"writer", e, 0, i>>
  <2>1. CASE InChan(chan', l)
    <3>1. PICK d, b, i : d \in Epochs /\ b \in DOMAIN chan'[d] /\ i \in DOMAIN chan'[d][b]
                         /\ l = <<"chan", d, b, i>>
      BY <2>1 DEF InChan
    <3>2. CASE d = e /\ b = n
      <4>1. m[l] = <<"writer", e, 0, i>> /\ i \in DOMAIN wfut[e]
        BY <1>3, <3>1, <3>2
      <4>2. InWriter(wfut, m[l])
        BY <4>1 DEF InWriter
      <4>. QED  BY <1>3, <3>1, <3>2, <4>1, <4>2, PlaceKinds, PlaceItems
    <3>3. CASE ~(d = e /\ b = n)
      <4>1. b \in DOMAIN chan[d] /\ chan'[d][b] = chan[d][b]
        <5>1. CASE d = e
          <6>1. b \in 1 .. n - 1
            BY <1>3, <3>1, <3>3, <5>1
          <6>. QED  BY <1>3, <5>1, <6>1
        <5>2. CASE d # e
          BY <1>2, <3>1, <5>2
        <5>. QED  BY <5>1, <5>2
      <4>3. m[l] = l
        BY <3>1, <3>3
      <4>2. InChan(chan, l)
        BY <3>1, <4>1 DEF InChan
      <4>. QED  BY <3>1, <4>1, <4>2, <4>3, PlaceKinds, PlaceItems
    <3>. QED  BY <3>2, <3>3
  <2>2. CASE InWriter(wfut', l)
    <3>1. PICK d, i : d \in Epochs /\ i \in DOMAIN wfut'[d] /\ l = <<"writer", d, 0, i>>
      BY <2>2 DEF InWriter
    <3>2. d # e /\ m[l] = l
      BY <1>2, <3>1
    <3>3. InWriter(wfut, l)
      BY <1>2, <3>1, <3>2 DEF InWriter
    <3>. QED  BY <1>2, <3>1, <3>2, <3>3, PlaceKinds, PlaceItems
  <2>3. CASE InReader(rfut', l) \/ InQueue(futures', l)
    <3>1. l[1] \in {"reader", "queue"} /\ \A i : l # <<"writer", e, 0, i>>
      BY <2>3 DEF InReader, InQueue
    <3>2. l \in Places
      BY <1>1, <2>3, PlaceKinds
    <3>. QED  BY <1>1, <3>1, <3>2 DEF Waiting
  <2>. QED  BY <2>1, <2>2, <2>3, PlaceKinds
<1>5. ASSUME NEW l \in Places PROVE \E x \in Places' : m[x] = l
  <2>1. CASE InChan(chan, l)
    <3>1. PICK d, b, i : d \in Epochs /\ b \in DOMAIN chan[d] /\ i \in DOMAIN chan[d][b]
                         /\ l = <<"chan", d, b, i>>
      BY <2>1 DEF InChan
    <3>2. ~(d = e /\ b = n) /\ b \in DOMAIN chan'[d] /\ chan'[d][b] = chan[d][b]
      <4>1. CASE d = e
        <5>1. b \in 1 .. n - 1 /\ b # n /\ b \in 1 .. n
          BY <1>3, <3>1, <4>1
        <5>. QED  BY <1>3, <4>1, <5>1
      <4>2. CASE d # e
        BY <1>2, <3>1, <4>2
      <4>. QED  BY <4>1, <4>2
    <3>3. InChan(chan', l)
      BY <3>1, <3>2 DEF InChan
    <3>. QED  BY <3>1, <3>2, <3>3, PlaceKinds
  <2>2. CASE InWriter(wfut, l)
    <3>1. PICK d, i : d \in Epochs /\ i \in DOMAIN wfut[d] /\ l = <<"writer", d, 0, i>>
      BY <2>2 DEF InWriter
    <3>2. CASE d = e
      <4>1. n \in DOMAIN chan'[e] /\ i \in DOMAIN chan'[e][n]
        BY <1>3, <3>1, <3>2
      <4>2. InChan(chan', <<"chan", e, n, i>>)
        BY <4>1 DEF InChan
      <4>. QED  BY <3>1, <3>2, <4>2, PlaceKinds
    <3>3. CASE d # e
      <4>1. InWriter(wfut', l)
        BY <1>2, <3>1, <3>3 DEF InWriter
      <4>. QED  BY <3>1, <3>3, <4>1, PlaceKinds
    <3>. QED  BY <3>2, <3>3
  <2>3. CASE InReader(rfut, l) \/ InQueue(futures, l)
    <3>1. l[1] \in {"reader", "queue"}
      BY <2>3 DEF InReader, InQueue
    <3>. QED  BY <1>1, <2>3, <3>1, PlaceKinds
  <2>. QED  BY <2>1, <2>2, <2>3, PlaceKinds
<1>. HIDE DEF m
<1>6. \A x, y \in Places' : m[x] = m[y] => x = y
  BY <1>4
<1>7. Moves(m, {})
  BY <1>1, <1>4, <1>5, <1>6 DEF Moves
<1>. QED  BY <1>7, MoveStep

\* The reader resolves the first command it has left.
LEMMA MoveReply ==
    ASSUME PlaceInv, TypeOK, NEW e \in Epochs, ReadReply(e)
    PROVE  PlaceInv'
<1>1. CASE rfut[e] = <<>>
  BY <1>1, PlaceFrame DEF ReadReply, queueVars, writerVars, callVars
<1>2. CASE rfut[e] # <<>>
  <2>. DEFINE m == [l \in Places' |-> IF l[1] = "reader" /\ l[2] = e
                                      THEN <<"reader", e, 0, l[4] + 1>> ELSE l]
              R == {Head(rfut[e])}
              x == <<"reader", e, 0, 1>>
  <2>1. /\ rfut' = [rfut EXCEPT ![e] = Tail(rfut[e])]
        /\ \E kind \in AnswerKinds : res' = Reply(Head(rfut[e]), Head(wire[e]), kind)
        /\ UNCHANGED <<futures, wfut, chan, todo, at>>
    BY <1>2 DEF ReadReply, Rest, queueVars, writerVars, callVars
  <2>2. rfut'[e] = Tail(rfut[e]) /\ \A d \in Epochs \ {e} : rfut'[d] = rfut[d]
    BY <2>1 DEF TypeOK
  <2>3. /\ Head(rfut[e]) = rfut[e][1] /\ Head(rfut[e]) \in Futs /\ 1 \in DOMAIN rfut[e]
        /\ \A i : i \in DOMAIN rfut'[e] => /\ i \in Int /\ i + 1 \in DOMAIN rfut[e] /\ i + 1 # 1
                                           /\ rfut'[e][i] = rfut[e][i + 1]
        /\ \A i \in DOMAIN rfut[e] : i \in Int /\ (i = 1 \/ i - 1 \in DOMAIN rfut'[e])
    <3>1. rfut[e] \in Seq(Futs)
      BY DEF TypeOK
    <3>2. /\ Len(rfut[e]) \in Nat /\ Len(rfut[e]) >= 1 /\ Tail(rfut[e]) \in Seq(Futs)
          /\ Len(Tail(rfut[e])) = Len(rfut[e]) - 1
          /\ \A i \in 1 .. Len(Tail(rfut[e])) : Tail(rfut[e])[i] = rfut[e][i + 1]
      BY <1>2, <3>1, HeadTailProperties
    <3>3. DOMAIN rfut[e] = 1 .. Len(rfut[e]) /\ DOMAIN rfut'[e] = 1 .. Len(rfut[e]) - 1
      BY <2>2, <3>1, <3>2
    <3>4. Head(rfut[e]) = rfut[e][1] /\ rfut[e][1] \in Futs
      BY <3>1, <3>2
    <3>. QED  BY <2>2, <3>2, <3>3, <3>4
  <2>. HIDE DEF R
  <2>4. ASSUME NEW l \in Places'
        PROVE  /\ m[l] \in Places /\ Waiting(l)' = Waiting(m[l]) /\ m[l] # x
               /\ \/ m[l] = l /\ \A i : l # <<"reader", e, 0, i>>
                  \/ \E i \in Int : l = <<"reader", e, 0, i>> /\ m[l] = <<"reader", e, 0, i + 1>>
    <3>1. CASE InReader(rfut', l)
      <4>1. PICK d, i : d \in Epochs /\ i \in DOMAIN rfut'[d] /\ l = <<"reader", d, 0, i>>
        BY <3>1 DEF InReader
      <4>2. CASE d = e
        <5>1. m[l] = <<"reader", e, 0, i + 1>> /\ i + 1 \in DOMAIN rfut[e] /\ i \in Int
          BY <2>3, <4>1, <4>2
        <5>2. InReader(rfut, m[l])
          BY <5>1 DEF InReader
        <5>3. m[l] \in Places /\ m[l] # x
          BY <2>3, <4>1, <4>2, <5>1, <5>2, PlaceKinds
        <5>4. Waiting(l)' = Waiting(m[l])
          <6>1. Waiting(l)' = rfut'[e][i] /\ Waiting(m[l]) = rfut[e][i + 1]
            BY <4>1, <4>2, <5>1, PlaceItems
          <6>. QED  BY <2>3, <4>1, <4>2, <6>1
        <5>. QED  BY <4>1, <4>2, <5>1, <5>3, <5>4
      <4>3. CASE d # e
        <5>1. m[l] = l /\ i \in DOMAIN rfut[d]
          BY <2>2, <4>1, <4>3
        <5>2. InReader(rfut, l)
          BY <4>1, <5>1 DEF InReader
        <5>. QED  BY <2>2, <4>1, <4>3, <5>1, <5>2, PlaceKinds, PlaceItems
      <4>. QED  BY <4>2, <4>3
    <3>2. CASE InQueue(futures', l) \/ InWriter(wfut', l) \/ InChan(chan', l)
      <4>1. l[1] \in {"queue", "writer", "chan"} /\ \A i : l # <<"reader", e, 0, i>>
        BY <3>2 DEF InQueue, InWriter, InChan
      <4>2. l \in Places
        BY <2>1, <3>2, PlaceKinds
      <4>. QED  BY <2>1, <4>1, <4>2 DEF Waiting
    <3>. QED  BY <3>1, <3>2, PlaceKinds
  <2>5. ASSUME NEW l \in Places PROVE l = x \/ \E y \in Places' : m[y] = l
    <3>1. CASE InReader(rfut, l)
      <4>1. PICK d, i : d \in Epochs /\ i \in DOMAIN rfut[d] /\ l = <<"reader", d, 0, i>>
        BY <3>1 DEF InReader
      <4>2. CASE d = e /\ i # 1
        <5>1. i - 1 \in DOMAIN rfut'[e] /\ i - 1 + 1 = i
          BY <2>3, <4>1, <4>2
        <5>2. InReader(rfut', <<"reader", e, 0, i - 1>>)
          BY <5>1 DEF InReader
        <5>. QED  BY SMTT(30), <4>1, <4>2, <5>1, <5>2, PlaceKinds
      <4>3. CASE d # e
        <5>1. InReader(rfut', l)
          BY <2>2, <4>1, <4>3 DEF InReader
        <5>. QED  BY <4>1, <4>3, <5>1, PlaceKinds
      <4>. QED  BY <4>1, <4>2, <4>3
    <3>2. CASE InQueue(futures, l) \/ InWriter(wfut, l) \/ InChan(chan, l)
      <4>1. l[1] \in {"queue", "writer", "chan"}
        BY <3>2 DEF InQueue, InWriter, InChan
      <4>. QED  BY <2>1, <3>2, <4>1, PlaceKinds
    <3>. QED  BY <3>1, <3>2, PlaceKinds
  <2>. HIDE DEF m
  <2>6. \A y, z \in Places' : m[y] = m[z] => y = z
    BY <2>4
  <2>7. x \in Places /\ Waiting(x) = Head(rfut[e])
    <3>1. InReader(rfut, x)
      BY <2>3 DEF InReader
    <3>. QED  BY <2>3, <3>1, PlaceKinds, PlaceItems
  <2>. HIDE DEF x
  <2>8. Moves(m, R)
    <3>1. /\ \A f \in Futs \ R : res'[f] = res[f]
          /\ \A f \in R : Len(res'[f]) = Len(res[f]) + 1 /\ res'[f] # <<>>
      <4>1. PICK kind \in AnswerKinds : res' = Reply(Head(rfut[e]), Head(wire[e]), kind)
        BY <2>1
      <4>. QED  BY <2>3, <4>1, ReplyFacts DEF R
    <3>2. R \subseteq Futs /\ Head(rfut[e]) \in R /\ \A f \in R : f = Head(rfut[e])
      BY <2>3 DEF R
    <3>. QED  BY <2>1, <2>4, <2>5, <2>6, <2>7, <3>1, <3>2 DEF Moves
  <2>. QED  BY <2>8, MoveStep
<1>. QED  BY <1>1, <1>2

\* A sequence without its head.
LEMMA TailFacts ==
    ASSUME NEW S, NEW s \in Seq(S), s # <<>>
    PROVE  /\ Head(s) = s[1] /\ s[1] \in S /\ 1 \in DOMAIN s
           /\ \A b \in DOMAIN Tail(s) : b \in Int /\ b >= 1 /\ b + 1 \in DOMAIN s /\ Tail(s)[b] = s[b + 1]
           /\ \A b \in DOMAIN s :
                b \in Int /\ (b = 1 \/ (b - 1 \in DOMAIN Tail(s) /\ Tail(s)[b - 1] = s[b]))
<1>. DEFINE t == Tail(s)
<1>1. /\ Len(s) \in Nat /\ Len(s) >= 1 /\ t \in Seq(S) /\ Len(t) = Len(s) - 1
      /\ \A i \in 1 .. Len(t) : t[i] = s[i + 1]
  BY HeadTailProperties
<1>2. Head(s) = s[1] /\ s[1] \in S
  BY <1>1
<1>. HIDE DEF t
<1>3. DOMAIN s = 1 .. Len(s) /\ DOMAIN t = 1 .. Len(s) - 1
  BY <1>1
<1>4. ASSUME NEW b \in 1 .. Len(s) - 1
      PROVE  b \in Int /\ b >= 1 /\ b + 1 \in 1 .. Len(s) /\ t[b] = s[b + 1]
  BY <1>1
<1>5. ASSUME NEW b \in 1 .. Len(s), b # 1
      PROVE  b - 1 \in 1 .. Len(s) - 1 /\ t[b - 1] = s[b]
  <2>1. b - 1 \in 1 .. Len(s) - 1 /\ (b - 1) + 1 = b
    BY <1>1, <1>5
  <2>. QED  BY <1>4, <2>1
<1>. QED  BY <1>1, <1>2, <1>3, <1>4, <1>5 DEF t

\* Taking the first batch off a channel.
LEMMA ChanTail ==
    ASSUME TypeOK, NEW e \in Epochs, chan[e] # <<>>, chan' = [chan EXCEPT ![e] = Tail(chan[e])]
    PROVE  /\ Head(chan[e]) = chan[e][1] /\ chan[e][1] \in Seq(Futs) /\ 1 \in DOMAIN chan[e]
           /\ \A d \in Epochs \ {e} : chan'[d] = chan[d]
           /\ \A b \in DOMAIN chan'[e] : /\ b \in Int /\ b >= 1 /\ b + 1 \in DOMAIN chan[e]
                                         /\ chan'[e][b] = chan[e][b + 1]
           /\ \A b \in DOMAIN chan[e] :
                b \in Int /\ (b = 1 \/ (b - 1 \in DOMAIN chan'[e] /\ chan'[e][b - 1] = chan[e][b]))
<1>1. chan[e] \in Seq(Seq(Futs)) /\ chan'[e] = Tail(chan[e])
  BY DEF TypeOK
<1>2. \A d \in Epochs \ {e} : chan'[d] = chan[d]
  BY DEF TypeOK
<1>3. /\ Head(chan[e]) = chan[e][1] /\ chan[e][1] \in Seq(Futs) /\ 1 \in DOMAIN chan[e]
      /\ \A b \in DOMAIN Tail(chan[e]) : /\ b \in Int /\ b >= 1 /\ b + 1 \in DOMAIN chan[e]
                                         /\ Tail(chan[e])[b] = chan[e][b + 1]
      /\ \A b \in DOMAIN chan[e] :
           b \in Int /\ (b = 1 \/ (b - 1 \in DOMAIN Tail(chan[e]) /\ Tail(chan[e])[b - 1] = chan[e][b]))
  BY <1>1, TailFacts
<1>. QED  BY <1>1, <1>2, <1>3

\* The reader fetches a batch and resolves its first command.
LEMMA MoveFetch ==
    ASSUME PlaceInv, TypeInv, BuffersInv, NEW e \in Epochs, ReaderFetch(e)
    PROVE  PlaceInv'
<1>. DEFINE m == [l \in Places' |-> IF l[1] = "reader" /\ l[2] = e
                                    THEN <<"chan", e, 1, l[4] + 1>>
                                    ELSE IF l[1] = "chan" /\ l[2] = e
                                         THEN <<"chan", e, l[3] + 1, l[4]>> ELSE l]
            h == chan[e][1]
            x == <<"chan", e, 1, 1>>
            R == {Head(h)}
<1>0. TypeOK
  BY DEF TypeInv
<1>1. /\ rfut[e] = <<>> /\ chan[e] # <<>> /\ chan' = [chan EXCEPT ![e] = Tail(chan[e])]
      /\ rfut' = [rfut EXCEPT ![e] = Tail(Head(chan[e]))]
      /\ \E kind \in AnswerKinds : res' = Reply(Head(Head(chan[e])), Head(wire[e]), kind)
      /\ UNCHANGED <<futures, wfut, todo, at>>
  BY DEF ReaderFetch, Rest, BuffersInv, queueVars, writerVars, callVars
<1>2. /\ Head(chan[e]) = h /\ h \in Seq(Futs) /\ 1 \in DOMAIN chan[e]
      /\ \A d \in Epochs \ {e} : chan'[d] = chan[d]
      /\ \A b \in DOMAIN chan'[e] : b \in Int /\ b >= 1 /\ b + 1 \in DOMAIN chan[e]
      /\ \A b \in DOMAIN chan'[e] : chan'[e][b] = chan[e][b + 1]
      /\ \A b \in DOMAIN chan[e] :
           b \in Int /\ (b = 1 \/ (b - 1 \in DOMAIN chan'[e] /\ chan'[e][b - 1] = chan[e][b]))
  BY <1>0, <1>1, ChanTail
<1>3. rfut'[e] = Tail(h) /\ \A d \in Epochs \ {e} : rfut'[d] = rfut[d]
  BY <1>0, <1>1, <1>2 DEF TypeOK
<1>4. h # <<>>
  BY <1>1, <1>2, <1>0 DEF TypeInv, BatchInv, TypeOK
<1>. HIDE DEF h
<1>5. /\ Head(h) = h[1] /\ Head(h) \in Futs /\ 1 \in DOMAIN h
      /\ \A i \in DOMAIN rfut'[e] : i \in Int /\ i >= 1 /\ i + 1 \in DOMAIN h /\ rfut'[e][i] = h[i + 1]
      /\ \A i \in DOMAIN h : i \in Int /\ (i = 1 \/ i - 1 \in DOMAIN rfut'[e])
  <2>1. /\ Len(h) \in Nat /\ Len(h) >= 1 /\ Tail(h) \in Seq(Futs)
        /\ Len(Tail(h)) = Len(h) - 1
        /\ \A i \in 1 .. Len(Tail(h)) : Tail(h)[i] = h[i + 1]
    BY <1>2, <1>4, HeadTailProperties
  <2>2. DOMAIN h = 1 .. Len(h) /\ DOMAIN rfut'[e] = 1 .. Len(h) - 1
    BY <1>2, <1>3, <2>1
  <2>3. Head(h) = h[1] /\ h[1] \in Futs
    BY <1>2, <2>1
  <2>. QED  BY <1>3, <2>1, <2>2, <2>3
<1>. HIDE DEF R
<1>6. ASSUME NEW l \in Places'
      PROVE  /\ m[l] \in Places /\ Waiting(l)' = Waiting(m[l]) /\ m[l] # x
             /\ \/ m[l] = l /\ (l[1] = "chan" => l[2] # e)
                \/ \E i \in Int : l = <<"reader", e, 0, i>> /\ m[l] = <<"chan", e, 1, i + 1>>
                \/ \E b \in Int : \E i : b >= 1 /\ l = <<"chan", e, b, i>> /\ m[l] = <<"chan", e, b + 1, i>>
  <2>1. CASE InReader(rfut', l)
    <3>1. PICK d, i : d \in Epochs /\ i \in DOMAIN rfut'[d] /\ l = <<"reader", d, 0, i>>
      BY <2>1 DEF InReader
    <3>2. CASE d = e
      <4>1. m[l] = <<"chan", e, 1, i + 1>> /\ i + 1 \in DOMAIN h /\ i \in Int /\ i >= 1
        BY <1>5, <3>1, <3>2
      <4>2. InChan(chan, m[l])
        BY <1>2, <4>1 DEF InChan, h
      <4>3. m[l] \in Places /\ m[l] # x
        BY <4>1, <4>2, PlaceKinds
      <4>4. Waiting(l)' = rfut'[e][i] /\ Waiting(m[l]) = h[i + 1]
        BY <3>1, <3>2, <4>1, PlaceItems DEF h
      <4>. QED  BY <1>5, <3>1, <3>2, <4>1, <4>3, <4>4
    <3>3. CASE d # e
      <4>1. m[l] = l /\ i \in DOMAIN rfut[d]
        BY <1>3, <3>1, <3>3
      <4>2. InReader(rfut, l)
        BY <3>1, <4>1 DEF InReader
      <4>. QED  BY <1>3, <3>1, <3>3, <4>1, <4>2, PlaceKinds, PlaceItems
    <3>. QED  BY <3>2, <3>3
  <2>2. CASE InChan(chan', l)
    <3>1. PICK d, b, i : d \in Epochs /\ b \in DOMAIN chan'[d] /\ i \in DOMAIN chan'[d][b]
                         /\ l = <<"chan", d, b, i>>
      BY <2>2 DEF InChan
    <3>2. CASE d = e
      <4>1. /\ m[l] = <<"chan", e, b + 1, i>> /\ b \in Int /\ b >= 1 /\ b + 1 \in DOMAIN chan[e]
            /\ i \in DOMAIN chan[e][b + 1]
        BY <1>2, <3>1, <3>2
      <4>2. InChan(chan, m[l])
        BY <4>1 DEF InChan
      <4>3. m[l] \in Places /\ m[l] # x
        BY <4>1, <4>2, PlaceKinds
      <4>4. Waiting(l)' = chan'[e][b][i] /\ Waiting(m[l]) = chan[e][b + 1][i]
        BY <3>1, <3>2, <4>1, PlaceItems
      <4>. QED  BY <1>2, <3>1, <3>2, <4>1, <4>3, <4>4
    <3>3. CASE d # e
      <4>1. m[l] = l /\ chan'[d] = chan[d]
        BY <1>2, <3>1, <3>3
      <4>2. InChan(chan, l)
        BY <3>1, <4>1 DEF InChan
      <4>. QED  BY <3>1, <3>3, <4>1, <4>2, PlaceKinds, PlaceItems
    <3>. QED  BY <3>2, <3>3
  <2>3. CASE InQueue(futures', l) \/ InWriter(wfut', l)
    <3>1. l[1] \in {"queue", "writer"} /\ l # x
      BY <2>3 DEF InQueue, InWriter
    <3>2. l \in Places
      BY <1>1, <2>3, PlaceKinds
    <3>. QED  BY <1>1, <3>1, <3>2 DEF Waiting
  <2>. QED  BY <2>1, <2>2, <2>3, PlaceKinds
<1>7. ASSUME NEW l \in Places PROVE l = x \/ \E y \in Places' : m[y] = l
  <2>1. CASE InChan(chan, l)
    <3>1. PICK d, b, i : d \in Epochs /\ b \in DOMAIN chan[d] /\ i \in DOMAIN chan[d][b]
                         /\ l = <<"chan", d, b, i>>
      BY <2>1 DEF InChan
    <3>2. CASE d = e /\ b = 1 /\ i # 1
      <4>1. i - 1 \in DOMAIN rfut'[e] /\ i - 1 + 1 = i
        BY <1>5, <3>1, <3>2 DEF h
      <4>2. InReader(rfut', <<"reader", e, 0, i - 1>>)
        BY <4>1 DEF InReader
      <4>3. <<"reader", e, 0, i - 1>> \in Places'
        BY <4>2, PlaceKinds
      <4>4. m[<<"reader", e, 0, i - 1>>] = <<"chan", e, 1, i - 1 + 1>>
        BY <4>3
      <4>. QED  BY <3>1, <3>2, <4>1, <4>3, <4>4
    <3>3. CASE d = e /\ b # 1
      <4>1. b - 1 \in DOMAIN chan'[e] /\ i \in DOMAIN chan'[e][b - 1] /\ b - 1 + 1 = b
        BY <1>2, <3>1, <3>3
      <4>2. InChan(chan', <<"chan", e, b - 1, i>>)
        BY <4>1 DEF InChan
      <4>3. <<"chan", e, b - 1, i>> \in Places'
        BY <4>2, PlaceKinds
      <4>4. m[<<"chan", e, b - 1, i>>] = <<"chan", e, b - 1 + 1, i>>
        BY <4>3
      <4>. QED  BY <3>1, <3>3, <4>1, <4>3, <4>4
    <3>4. CASE d # e
      <4>1. InChan(chan', l)
        BY <1>2, <3>1, <3>4 DEF InChan
      <4>. QED  BY <3>1, <3>4, <4>1, PlaceKinds
    <3>. QED  BY <3>1, <3>2, <3>3, <3>4
  <2>2. CASE InReader(rfut, l)
    <3>1. PICK d, i : d \in Epochs /\ i \in DOMAIN rfut[d] /\ l = <<"reader", d, 0, i>>
      BY <2>2 DEF InReader
    <3>2. d # e
      BY <1>1, <3>1
    <3>3. InReader(rfut', l)
      BY <1>3, <3>1, <3>2 DEF InReader
    <3>. QED  BY <3>1, <3>2, <3>3, PlaceKinds
  <2>3. CASE InQueue(futures, l) \/ InWriter(wfut, l)
    <3>1. l[1] \in {"queue", "writer"}
      BY <2>3 DEF InQueue, InWriter
    <3>. QED  BY <1>1, <2>3, <3>1, PlaceKinds
  <2>. QED  BY <2>1, <2>2, <2>3, PlaceKinds
<1>. HIDE DEF m
<1>8. ASSUME NEW y \in Places', NEW z \in Places', m[y] = m[z] PROVE y = z
  BY <1>6, <1>8
<1>9. x \in Places /\ Waiting(x) = Head(h)
  <2>1. InChan(chan, x)
    BY <1>2, <1>5 DEF InChan, h
  <2>. QED  BY <1>5, <2>1, PlaceKinds, PlaceItems DEF h
<1>. HIDE DEF x
<1>10. Moves(m, R)
  <2>1. /\ \A f \in Futs \ R : res'[f] = res[f]
        /\ \A f \in R : Len(res'[f]) = Len(res[f]) + 1 /\ res'[f] # <<>>
    <3>1. PICK kind \in AnswerKinds : res' = Reply(Head(h), Head(wire[e]), kind)
      BY <1>1, <1>2
    <3>. QED  BY <1>0, <1>5, <3>1, ReplyFacts DEF R
  <2>2. R \subseteq Futs /\ Head(h) \in R /\ \A f \in R : f = Head(h)
    BY <1>5 DEF R
  <2>. QED  BY <1>1, <1>6, <1>7, <1>8, <1>9, <2>1, <2>2 DEF Moves
<1>. QED  BY <1>0, <1>10, MoveStep

\* A failed reader resolves what it has left ...
LEMMA MoveFail ==
    ASSUME PlaceInv, TypeOK, NEW e \in Epochs, ReaderFail(e)
    PROVE  PlaceInv'
<1>. DEFINE m == [l \in Places' |-> l]
            R == Range(rfut[e])
<1>1. /\ rfut' = [rfut EXCEPT ![e] = <<>>] /\ res' = Errors(R, OneErr) /\ rfut[e] \in Seq(Futs)
      /\ UNCHANGED <<futures, wfut, chan, todo, at>>
  BY DEF ReaderFail, TypeOK, queueVars, writerVars, callVars
<1>2. R \in SUBSET Futs /\ \A f : f \in R <=> \E i \in DOMAIN rfut[e] : rfut[e][i] = f
  BY <1>1, RangeFacts
<1>. HIDE DEF R
<1>3. rfut'[e] = <<>> /\ \A d \in Epochs \ {e} : rfut'[d] = rfut[d]
  BY <1>1 DEF TypeOK
<1>4. ASSUME NEW l \in Places'
      PROVE  l \in Places /\ Waiting(l)' = Waiting(l) /\ \A i : l # <<"reader", e, 0, i>>
  <2>1. CASE InReader(rfut', l)
    <3>1. PICK d, i : d \in Epochs /\ i \in DOMAIN rfut'[d] /\ l = <<"reader", d, 0, i>>
      BY <2>1 DEF InReader
    <3>2. d # e
      BY <1>3, <3>1
    <3>3. InReader(rfut, l)
      BY <1>3, <3>1, <3>2 DEF InReader
    <3>. QED  BY <1>3, <3>1, <3>2, <3>3, PlaceKinds, PlaceItems
  <2>2. CASE InQueue(futures', l) \/ InWriter(wfut', l) \/ InChan(chan', l)
    <3>1. l[1] \in {"queue", "writer", "chan"} /\ \A i : l # <<"reader", e, 0, i>>
      BY <2>2 DEF InQueue, InWriter, InChan
    <3>2. l \in Places
      BY <1>1, <2>2, PlaceKinds
    <3>. QED  BY <1>1, <3>1, <3>2 DEF Waiting
  <2>. QED  BY <2>1, <2>2, PlaceKinds
<1>5. ASSUME NEW l \in Places PROVE Waiting(l) \in R \/ l \in Places'
  <2>1. CASE InReader(rfut, l)
    <3>1. PICK d, i : d \in Epochs /\ i \in DOMAIN rfut[d] /\ l = <<"reader", d, 0, i>>
      BY <2>1 DEF InReader
    <3>2. CASE d = e
      BY <1>2, <3>1, <3>2, PlaceItems
    <3>3. CASE d # e
      <4>1. InReader(rfut', l)
        BY <1>3, <3>1, <3>3 DEF InReader
      <4>. QED  BY <4>1, PlaceKinds
    <3>. QED  BY <3>2, <3>3
  <2>2. CASE InQueue(futures, l) \/ InWriter(wfut, l) \/ InChan(chan, l)
    BY <1>1, <2>2, PlaceKinds
  <2>. QED  BY <2>1, <2>2, PlaceKinds
<1>6. \A x \in Places' : m[x] = x
  OBVIOUS
<1>. HIDE DEF m
<1>7. ASSUME NEW f \in R PROVE \E l \in Places : Waiting(l) = f /\ \A x \in Places' : m[x] # l
  <2>1. PICK i \in DOMAIN rfut[e] : rfut[e][i] = f
    BY <1>2
  <2>2. InReader(rfut, <<"reader", e, 0, i>>)
    BY DEF InReader
  <2>. QED  BY <1>4, <1>6, <2>1, <2>2, PlaceKinds, PlaceItems
<1>8. Moves(m, R)
  <2>1. /\ \A f \in Futs \ R : res'[f] = res[f]
        /\ \A f \in R : Len(res'[f]) = Len(res[f]) + 1 /\ res'[f] # <<>>
    BY <1>1, <1>2, ErrorsFacts
  <2>. QED  BY <1>1, <1>2, <1>4, <1>5, <1>6, <1>7, <2>1 DEF Moves
<1>. QED  BY <1>8, MoveStep

\* ... and then batch after batch.
LEMMA MoveDrain ==
    ASSUME PlaceInv, TypeOK, NEW e \in Epochs, ReaderDrain(e)
    PROVE  PlaceInv'
<1>. DEFINE m == [l \in Places' |-> IF l[1] = "chan" /\ l[2] = e
                                    THEN <<"chan", e, l[3] + 1, l[4]>> ELSE l]
            h == chan[e][1]
            R == Range(h)
<1>1. /\ chan[e] # <<>> /\ chan' = [chan EXCEPT ![e] = Tail(chan[e])]
      /\ res' = Errors(Range(Head(chan[e])), OneErr)
      /\ UNCHANGED <<futures, wfut, rfut, todo, at>>
  BY DEF ReaderDrain, queueVars, writerVars, readerVars, callVars
<1>2. /\ Head(chan[e]) = h /\ h \in Seq(Futs) /\ 1 \in DOMAIN chan[e]
      /\ \A d \in Epochs \ {e} : chan'[d] = chan[d]
      /\ \A b \in DOMAIN chan'[e] : b \in Int /\ b >= 1 /\ b + 1 \in DOMAIN chan[e]
      /\ \A b \in DOMAIN chan'[e] : chan'[e][b] = chan[e][b + 1]
      /\ \A b \in DOMAIN chan[e] :
           b \in Int /\ (b = 1 \/ (b - 1 \in DOMAIN chan'[e] /\ chan'[e][b - 1] = chan[e][b]))
  BY <1>1, ChanTail
<1>3. R \in SUBSET Futs /\ \A f : f \in R <=> \E i \in DOMAIN h : h[i] = f
  BY <1>2, RangeFacts
<1>. HIDE DEF h
<1>4. ASSUME NEW l \in Places'
      PROVE  /\ m[l] \in Places /\ Waiting(l)' = Waiting(m[l]) /\ \A i : m[l] # <<"chan", e, 1, i>>
             /\ \/ m[l] = l /\ (l[1] = "chan" => l[2] # e)
                \/ \E b \in Int : \E i : l = <<"chan", e, b, i>> /\ m[l] = <<"chan", e, b + 1, i>>
  <2>2. CASE InChan(chan', l)
    <3>1. PICK d, b, i : d \in Epochs /\ b \in DOMAIN chan'[d] /\ i \in DOMAIN chan'[d][b]
                         /\ l = <<"chan", d, b, i>>
      BY <2>2 DEF InChan
    <3>2. CASE d = e
      <4>1. /\ m[l] = <<"chan", e, b + 1, i>> /\ b \in Int /\ b >= 1 /\ b + 1 \in DOMAIN chan[e]
            /\ i \in DOMAIN chan[e][b + 1]
        BY <1>2, <3>1, <3>2
      <4>2. InChan(chan, m[l])
        BY <4>1 DEF InChan
      <4>3. m[l] \in Places /\ \A j : m[l] # <<"chan", e, 1, j>>
        BY <4>1, <4>2, PlaceKinds
      <4>4. Waiting(l)' = chan'[e][b][i] /\ Waiting(m[l]) = chan[e][b + 1][i]
        BY <3>1, <3>2, <4>1, PlaceItems
      <4>. QED  BY <1>2, <3>1, <3>2, <4>1, <4>3, <4>4
    <3>3. CASE d # e
      <4>1. m[l] = l /\ chan'[d] = chan[d]
        BY <1>2, <3>1, <3>3
      <4>2. InChan(chan, l)
        BY <3>1, <4>1 DEF InChan
      <4>. QED  BY <3>1, <3>3, <4>1, <4>2, PlaceKinds, PlaceItems
    <3>. QED  BY <3>2, <3>3
  <2>3. CASE InQueue(futures', l) \/ InWriter(wfut', l) \/ InReader(rfut', l)
    <3>1. l[1] \in {"queue", "writer", "reader"} /\ \A i : l # <<"chan", e, 1, i>>
      BY <2>3 DEF InQueue, InWriter, InReader
    <3>2. l \in Places
      BY <1>1, <2>3, PlaceKinds
    <3>. QED  BY <1>1, <3>1, <3>2 DEF Waiting
  <2>. QED  BY <2>2, <2>3, PlaceKinds
<1>5. ASSUME NEW l \in Places PROVE Waiting(l) \in R \/ \E y \in Places' : m[y] = l
  <2>1. CASE InChan(chan, l)
    <3>1. PICK d, b, i : d \in Epochs /\ b \in DOMAIN chan[d] /\ i \in DOMAIN chan[d][b]
                         /\ l = <<"chan", d, b, i>>
      BY <2>1 DEF InChan
    <3>2. CASE d = e /\ b = 1
      BY <1>3, <3>1, <3>2, PlaceItems DEF h
    <3>3. CASE d = e /\ b # 1
      <4>1. b - 1 \in DOMAIN chan'[e] /\ i \in DOMAIN chan'[e][b - 1] /\ b - 1 + 1 = b
        BY <1>2, <3>1, <3>3
      <4>2. InChan(chan', <<"chan", e, b - 1, i>>)
        BY <4>1 DEF InChan
      <4>3. <<"chan", e, b - 1, i>> \in Places'
        BY <4>2, PlaceKinds
      <4>4. m[<<"chan", e, b - 1, i>>] = <<"chan", e, b - 1 + 1, i>>
        BY <4>3
      <4>. QED  BY <3>1, <3>3, <4>1, <4>3, <4>4
    <3>4. CASE d # e
      <4>1. InChan(chan', l)
        BY <1>2, <3>1, <3>4 DEF InChan
      <4>. QED  BY <3>1, <3>4, <4>1, PlaceKinds
    <3>. QED  BY <3>2, <3>3, <3>4
  <2>3. CASE InQueue(futures, l) \/ InWriter(wfut, l) \/ InReader(rfut, l)
    <3>1. l[1] \in {"queue", "writer", "reader"}
      BY <2>3 DEF InQueue, InWriter, InReader
    <3>. QED  BY <1>1, <2>3, <3>1, PlaceKinds
  <2>. QED  BY <2>1, <2>3, PlaceKinds
<1>. HIDE DEF m, R
<1>6. ASSUME NEW y \in Places', NEW z \in Places', m[y] = m[z] PROVE y = z
  BY <1>4, <1>6
<1>7. ASSUME NEW f \in R PROVE \E l \in Places : Waiting(l) = f /\ \A x \in Places' : m[x] # l
  <2>1. PICK i \in DOMAIN h : h[i] = f
    BY <1>3
  <2>2. InChan(chan, <<"chan", e, 1, i>>)
    BY <1>2, <2>1 DEF InChan, h
  <2>3. Waiting(<<"chan", e, 1, i>>) = f
    BY <2>1, PlaceItems DEF h
  <2>. QED  BY <1>4, <2>2, <2>3, PlaceKinds
<1>8. Moves(m, R)
  <2>1. /\ \A f \in Futs \ R : res'[f] = res[f]
        /\ \A f \in R : Len(res'[f]) = Len(res[f]) + 1 /\ res'[f] # <<>>
    BY ZenonT(40), <1>1, <1>2, <1>3, ErrorsFacts DEF R
  <2>. QED  BY <1>1, <1>3, <1>4, <1>5, <1>6, <1>7, <2>1 DEF Moves
<1>. QED  BY <1>8, MoveStep

-----------------------------------------------------------------------------
(* Handing a chunk over *)

\* Chunks of SendMany start at multiples of their size.
LEMMA NextMultiple ==
    ASSUME NEW a \in Nat, NEW n \in Nat \ {0}, a % n = 0
    PROVE  (a + n) % n = 0
<1>. DEFINE q == a \div n
            Q == (a + n) \div n
            R == (a + n) % n
            d == q + 1 - Q
<1>1. q \in Int /\ a = n * q + (a % n)
  OBVIOUS
<1>2. Q \in Int /\ R \in Int /\ 0 <= R /\ R < n /\ a + n = n * Q + R
  OBVIOUS
<1>. HIDE DEF q, Q, R
<1>3. n * d = R /\ d \in Int
  <2>1. n * (q + 1 - Q) = n * q + n - n * Q
    BY <1>1, <1>2
  <2>. QED  BY <1>1, <1>2, <2>1
<1>. HIDE DEF d
<1>4. d <= 0 => n * d <= 0
  BY <1>3
<1>5. d >= 1 => n * d >= n
  BY <1>3
<1>. QED  BY <1>2, <1>3, <1>4, <1>5 DEF R

\* A future is its call and its index.
LEMMA FutFacts ==
    ASSUME NEW f \in Futs
    PROVE  f.call \in AllCalls /\ f.call.n \in Nat /\ f.n \in -2 .. f.call.n /\ f = Fut(f.call, f.n)
BY CallsAssumption DEF Futs, Fut, CallType

\* What handing over the chunk of call k at at[k] changes.
LEMMA HandOverFacts ==
    ASSUME TypeOK, CallsInv, NEW k \in AllCalls, k \in todo, HandOver(k)
    PROVE  /\ CallsInv'
           /\ \A f \in ChunkFuts(k, at[k]) : f \in Futs /\ NotYet(f)
           /\ \A f \in Futs : NotYet(f)' => NotYet(f) /\ f \notin ChunkFuts(k, at[k])
           /\ \A f \in HandedOver' : f \in HandedOver \/ f \in ChunkFuts(k, at[k])
           /\ k.n > 0 => ChunkAt(k, at[k]) /\ (k.kind = "many" => at[k] % ChunkSize = 0)
           /\ k.n > 0 => \A f : (\E i \in 1 .. Len(ChunkSeq(k, at[k])) : ChunkSeq(k, at[k])[i] = f)
                                    => NotYet(f) /\ ~NotYet(f)'
<1>. DEFINE from == at[k]
            end == ChunkEnd(k, at[k])
<1>1. /\ k \in CallType /\ k.n \in Nat /\ ChunkSize \in Nat \ {0} /\ from \in Nat
      /\ k.asking \in BOOLEAN /\ (k.kind = "many" => ~k.asking)
  BY CallsAssumption, BoundsAssumption DEF CallType, TypeOK
<1>2. /\ from < k.n \/ (from = 0 /\ k.n = 0)
      /\ IF k.kind = "many" THEN from % ChunkSize = 0 ELSE from = 0
  BY DEF CallsInv
<1>3. /\ end \in Nat /\ from <= end /\ end <= k.n /\ (k.n > 0 => from < end)
      /\ end = k.n \/ (k.kind = "many" /\ end = from + ChunkSize /\ end < k.n)
  BY <1>1, <1>2 DEF ChunkEnd
<1>4. /\ at'[k] = end /\ \A j \in AllCalls \ {k} : at'[j] = at[j]
      /\ todo' = IF end = k.n THEN todo \ {k} ELSE todo
  BY DEF HandOver, NextChunk, TypeOK
<1>5. \A f \in ChunkFuts(k, from) : f.call = k /\ f.n \in from .. k.n /\ (f.n < end \/ k.kind = "trans")
  BY <1>1, <1>2, <1>3 DEF ChunkFuts, Fut
<1>6. \A f \in Futs : f.call = k /\ f.n >= from /\ (f.n < end \/ (f.n = k.n /\ k.kind = "trans"))
                          => f \in ChunkFuts(k, from)
  <2>. SUFFICES ASSUME NEW f \in Futs, f.call = k, f.n >= from,
                       f.n < end \/ (f.n = k.n /\ k.kind = "trans")
                PROVE  f \in ChunkFuts(k, from)
    OBVIOUS
  <2>1. f.n \in Int /\ f = Fut(k, f.n)
    BY <1>1, FutFacts
  <2>2. CASE f.n < end
    <3>1. f.n \in from .. end - 1
      BY <1>1, <1>3, <2>1, <2>2
    <3>. QED  BY <2>1, <3>1 DEF ChunkFuts
  <2>. QED  BY <2>1, <2>2 DEF ChunkFuts
<1>7. ChunkFuts(k, from) \subseteq Futs
  BY <1>1, ChunkSeqType
<1>8. CallsInv'
  <2>. SUFFICES ASSUME NEW j \in todo'
                PROVE  /\ at'[j] < j.n \/ (at'[j] = 0 /\ j.n = 0)
                       /\ IF j.kind = "many" THEN at'[j] % ChunkSize = 0 ELSE at'[j] = 0
    BY DEF CallsInv
  <2>1. CASE j # k
    <3>1. j \in todo /\ j \in AllCalls
      BY <1>4 DEF TypeOK
    <3>. QED  BY <1>4, <2>1, <3>1 DEF CallsInv
  <2>2. CASE j = k
    <3>1. k.kind = "many" /\ end = from + ChunkSize /\ end < k.n
      BY <1>3, <1>4, <2>2
    <3>2. (from + ChunkSize) % ChunkSize = 0
      BY <1>1, <1>2, <3>1, NextMultiple
    <3>. QED  BY <1>4, <2>2, <3>1, <3>2
  <2>. QED  BY <2>1, <2>2
<1>. HIDE DEF from, end
<1>9. \A f \in ChunkFuts(k, from) : f \in Futs /\ NotYet(f)
  BY <1>1, <1>5, <1>7 DEF NotYet, from
<1>10. ASSUME NEW f \in Futs, NotYet(f)' PROVE NotYet(f) /\ f \notin ChunkFuts(k, from)
  <2>1. f.call \in AllCalls /\ f.n \in Int
    BY FutFacts
  <2>2. CASE f.call # k
    BY <1>4, <1>5, <1>10, <2>1, <2>2 DEF NotYet
  <2>3. CASE f.call = k
    <3>1. end # k.n /\ k.kind = "many" /\ (f.n >= end \/ f.n < 0)
      BY <1>3, <1>4, <1>10, <2>3 DEF NotYet
    <3>2. f.n >= from \/ f.n < 0
      BY <1>1, <1>3, <2>1, <3>1
    <3>3. ~(f.n \in from .. k.n /\ f.n < end)
      BY <1>1, <1>3, <2>1, <3>1
    <3>. QED  BY <1>5, <2>3, <3>1, <3>2, <3>3 DEF NotYet, from
  <2>. QED  BY <2>2, <2>3
<1>11. ASSUME NEW f \in HandedOver' PROVE f \in HandedOver \/ f \in ChunkFuts(k, from)
  <2>1. /\ f \in Futs /\ f.n >= 0 /\ (f.n < at'[f.call] \/ f.call \notin todo')
        /\ f.n = f.call.n => f.call.kind = "trans"
    BY DEF HandedOver
  <2>2. f.call \in AllCalls /\ f.n \in Int /\ f.call.n \in Nat /\ f.n <= f.call.n
    BY <2>1, FutFacts
  <2>3. CASE f.call # k
    BY <1>4, <2>1, <2>2, <2>3 DEF HandedOver
  <2>4. CASE f.call = k
    <3>1. CASE f.n < from
      BY <2>1, <2>4, <3>1 DEF HandedOver, from
    <3>2. CASE f.n >= from
      <4>1. f.n < end \/ (f.n = k.n /\ k.kind = "trans")
        BY <1>3, <1>4, <2>1, <2>2, <2>4
      <4>. QED  BY <1>6, <2>1, <2>4, <3>2, <4>1
    <3>. QED  BY <1>1, <2>2, <3>1, <3>2
  <2>. QED  BY <2>3, <2>4
<1>12. ASSUME k.n > 0
       PROVE  ChunkAt(k, from) /\ (k.kind = "many" => from % ChunkSize = 0)
  BY <1>1, <1>2, <1>12 DEF ChunkAt
<1>13. ASSUME k.n > 0, NEW i \in 1 .. Len(ChunkSeq(k, from)), NEW f, ChunkSeq(k, from)[i] = f
       PROVE  NotYet(f) /\ ~NotYet(f)'
  <2>. DEFINE x == IndexAt(k, from, i)
  <2>1. ChunkAt(k, from)
    BY <1>12, <1>13
  <2>2. Len(ChunkSeq(k, from)) = ChunkLen(k, from) /\ f = Fut(k, x)
    BY <1>13, <2>1, ChunkItems
  <2>3. f.call = k /\ f.n = x
    BY <2>2 DEF Fut
  <2>4. x \in Int /\ (x < 0 \/ x >= from)
    BY <1>1, <1>13, <2>1, <2>2, IndexFacts
  <2>5. CASE end = k.n
    BY <1>4, <2>3, <2>4, <2>5 DEF NotYet, from
  <2>6. CASE end # k.n
    <3>1. k.kind = "many" /\ ~k.asking
      BY <1>1, <1>3, <2>6
    <3>2. x = from + i - 1 /\ i \in 1 .. end - from
      BY <1>1, <1>3, <1>13, <2>2, <3>1 DEF IndexAt, PrefixLen, ChunkLen, end, from
    <3>3. x < end /\ x >= 0
      BY <1>1, <1>3, <3>2
    <3>. QED  BY <1>1, <1>3, <1>4, <2>3, <2>4, <3>3 DEF NotYet, from
  <2>. QED  BY <2>5, <2>6
<1>. QED  BY <1>8, <1>9, <1>10, <1>11, <1>12, <1>13 DEF from

\* A chunk whose callbacks are resolved right away.
LEMMA CallResolved ==
    ASSUME PlaceInv, TypeOK, CallsInv, NEW k \in AllCalls, k \in todo, HandOver(k),
           UNCHANGED <<futures, wfut, rfut, chan>>,
           \A f \in Futs \ ChunkFuts(k, at[k]) : res'[f] = res[f],
           \A f \in ChunkFuts(k, at[k]) : Len(res'[f]) = Len(res[f]) + 1 /\ res'[f] # <<>>
    PROVE  PlaceInv'
<1>. DEFINE R == ChunkFuts(k, at[k])
<1>1. Places' = Places /\ \A l : Waiting(l)' = Waiting(l)
  BY DEF Places, QueuePlaces, WriterPlaces, ReaderPlaces, ChanPlaces, Waiting
<1>2. /\ \A f \in R : f \in Futs /\ NotYet(f)
      /\ \A f \in Futs : NotYet(f)' => NotYet(f) /\ f \notin R
      /\ \A f \in HandedOver' : f \in HandedOver \/ f \in R
  BY HandOverFacts
<1>3. /\ \A f \in Futs \ R : res'[f] = res[f]
      /\ \A f \in R : Len(res'[f]) = Len(res[f]) + 1 /\ res'[f] # <<>>
  OBVIOUS
<1>. HIDE DEF R
<1>4. \A l \in Places : Waiting(l) \in Futs \ R
  BY <1>2, WaitingType DEF PlaceInv, Fresh
<1>5. InOnePlace'
  BY <1>1 DEF PlaceInv, InOnePlace
<1>6. Unresolved'
  BY <1>1, <1>3, <1>4 DEF PlaceInv, Unresolved
<1>7. ResolvedOnce'
  <2>1. \A f \in R : res[f] = <<>>
    BY <1>2 DEF PlaceInv, Fresh
  <2>. QED  BY <1>3, <2>1 DEF PlaceInv, ResolvedOnce
<1>8. NotLost'
  <2>1. HandedOver \subseteq Futs
    BY DEF HandedOver
  <2>. QED  BY <1>1, <1>2, <1>3, <2>1 DEF PlaceInv, NotLost
<1>9. Fresh'
  BY <1>1, <1>2, <1>3 DEF PlaceInv, Fresh
<1>. QED  BY <1>5, <1>6, <1>7, <1>8, <1>9 DEF PlaceInv

\* A chunk appended to the queue.
LEMMA CallQueued ==
    ASSUME PlaceInv, TypeOK, CallsInv, NEW k \in AllCalls, k \in todo, SendQueued(k),
           UNCHANGED <<wfut, rfut, chan>>
    PROVE  PlaceInv'
<1>. DEFINE s == ChunkSeq(k, at[k])
            n == Len(futures)
            R == ChunkFuts(k, at[k])
<1>1. HandOver(k) /\ futures' = futures \o s /\ res' = res /\ k.n > 0
  BY DEF SendQueued
<1>2. /\ \A f \in R : f \in Futs /\ NotYet(f)
      /\ \A f \in Futs : NotYet(f)' => NotYet(f) /\ f \notin R
      /\ \A f \in HandedOver' : f \in HandedOver \/ f \in R
      /\ ChunkAt(k, at[k])
      /\ \A f : (\E i \in 1 .. Len(s) : s[i] = f) => NotYet(f) /\ ~NotYet(f)'
  BY <1>1, HandOverFacts
<1>3. /\ s \in Seq(Futs)
      /\ \A i, j \in 1 .. Len(s) : s[i] = s[j] => i = j
      /\ \A f \in R : \E i \in 1 .. Len(s) : s[i] = f
  BY <1>2, ChunkFacts
<1>. HIDE DEF s, R
<1>4. futures \in Seq(Futs)
  BY DEF TypeOK
<1>5. /\ n \in Nat /\ Len(s) \in Nat /\ DOMAIN futures = 1 .. n /\ DOMAIN futures' = 1 .. n + Len(s)
      /\ \A i \in 1 .. n + Len(s) : futures'[i] = IF i <= n THEN futures[i] ELSE s[i - n]
  BY <1>1, <1>3, <1>4, ConcatProperties
<1>. HIDE DEF n
<1>6. ASSUME NEW l \in Places'
      PROVE  \/ l \in Places /\ Waiting(l)' = Waiting(l)
             \/ \E i \in 1 .. Len(s) : l = <<"queue", 0, 0, n + i>> /\ Waiting(l)' = s[i]
  <2>1. CASE InQueue(futures', l)
    <3>1. PICK j \in 1 .. n + Len(s) : l = <<"queue", 0, 0, j>>
      BY <1>5, <2>1 DEF InQueue
    <3>2. CASE j <= n
      <4>1. j \in DOMAIN futures /\ futures'[j] = futures[j]
        BY <1>5, <3>2
      <4>2. InQueue(futures, l)
        BY <3>1, <4>1 DEF InQueue
      <4>. QED  BY <3>1, <4>1, <4>2, PlaceKinds, PlaceItems
    <3>3. CASE ~(j <= n)
      <4>1. j - n \in 1 .. Len(s) /\ n + (j - n) = j /\ futures'[j] = s[j - n]
        BY <1>5, <3>3
      <4>. QED  BY <3>1, <4>1, PlaceItems
    <3>. QED  BY <3>2, <3>3
  <2>2. CASE InWriter(wfut', l) \/ InReader(rfut', l) \/ InChan(chan', l)
    <3>1. l[1] \in {"writer", "reader", "chan"}
      BY <2>2 DEF InWriter, InReader, InChan
    <3>2. l \in Places
      BY <2>2, PlaceKinds
    <3>. QED  BY <3>1, <3>2 DEF Waiting
  <2>. QED  BY <2>1, <2>2, PlaceKinds
<1>7. ASSUME NEW l \in Places PROVE l \in Places' /\ Waiting(l)' = Waiting(l)
  <2>1. CASE InQueue(futures, l)
    <3>1. PICK j \in 1 .. n : l = <<"queue", 0, 0, j>>
      BY <1>5, <2>1 DEF InQueue
    <3>2. j \in DOMAIN futures' /\ futures'[j] = futures[j]
      BY <1>5
    <3>3. InQueue(futures', l)
      BY <3>1, <3>2 DEF InQueue
    <3>. QED  BY <3>1, <3>2, <3>3, PlaceKinds, PlaceItems
  <2>2. CASE InWriter(wfut, l) \/ InReader(rfut, l) \/ InChan(chan, l)
    <3>1. l[1] \in {"writer", "reader", "chan"}
      BY <2>2 DEF InWriter, InReader, InChan
    <3>2. l \in Places'
      BY <2>2, PlaceKinds
    <3>. QED  BY <3>1, <3>2 DEF Waiting
  <2>. QED  BY <2>1, <2>2, PlaceKinds
<1>8. ASSUME NEW i \in 1 .. Len(s)
      PROVE  \E l \in Places' : Waiting(l)' = s[i]
  <2>1. n + i \in DOMAIN futures' /\ futures'[n + i] = s[i]
    <3>1. n + i \in 1 .. n + Len(s) /\ ~(n + i <= n) /\ (n + i) - n = i
      BY <1>5
    <3>. QED  BY <1>5, <3>1
  <2>2. PICK j : j = n + i
    OBVIOUS
  <2>3. InQueue(futures', <<"queue", 0, 0, j>>)
    BY <2>1, <2>2 DEF InQueue
  <2>4. <<"queue", 0, 0, j>> \in Places' /\ Waiting(<<"queue", 0, 0, j>>)' = futures'[j]
    BY <2>3, PlaceKinds, PlaceItems
  <2>. QED  BY <2>1, <2>2, <2>4
<1>9. \A i \in 1 .. Len(s) : \A l \in Places : Waiting(l) # s[i]
  BY <1>2, <1>3 DEF PlaceInv, Fresh
<1>10. InOnePlace'
  <2>. SUFFICES ASSUME NEW x \in Places', NEW y \in Places', Waiting(x)' = Waiting(y)'
                PROVE  x = y
    BY DEF InOnePlace
  <2>1. CASE x \in Places /\ Waiting(x)' = Waiting(x)
    BY <1>6, <1>9, <2>1 DEF PlaceInv, InOnePlace
  <2>2. CASE \E i \in 1 .. Len(s) : x = <<"queue", 0, 0, n + i>> /\ Waiting(x)' = s[i]
    BY <1>3, <1>6, <1>9, <2>2
  <2>. QED  BY <1>6, <2>1, <2>2
<1>11. Unresolved'
  <2>1. \A i \in 1 .. Len(s) : s[i] \in Futs /\ res[s[i]] = <<>>
    BY <1>2, <1>3 DEF PlaceInv, Fresh
  <2>. QED  BY <1>1, <1>6, <2>1 DEF PlaceInv, Unresolved
<1>12. ResolvedOnce'
  BY <1>1 DEF PlaceInv, ResolvedOnce
<1>13. NotLost'
  <2>. SUFFICES ASSUME NEW f \in HandedOver'
                PROVE  res'[f] # <<>> \/ \E l \in Places' : Waiting(l)' = f
    BY DEF NotLost
  <2>1. CASE f \in HandedOver
    BY <1>1, <1>7, <2>1 DEF PlaceInv, NotLost
  <2>2. CASE f \in R
    BY <1>3, <1>8, <2>2
  <2>. QED  BY <1>2, <2>1, <2>2
<1>14. Fresh'
  <2>. SUFFICES ASSUME NEW f \in Futs, NotYet(f)'
                PROVE  res'[f] = <<>> /\ \A l \in Places' : Waiting(l)' # f
    BY DEF Fresh
  <2>. QED  BY <1>1, <1>2, <1>6 DEF PlaceInv, Fresh
<1>. QED  BY <1>10, <1>11, <1>12, <1>13, <1>14 DEF PlaceInv

\* Callers and Ping.
LEMMA PlaceCalls ==
    ASSUME PlaceInv, TypeOK, CallsInv, NEW k \in AllCalls,
           SendRejected(k) \/ SendEmpty(k) \/ Send(k) \/ ControlTick(k)
    PROVE  PlaceInv' /\ CallsInv'
<1>. USE DEF queueVars, ioVars, sockVars, writerVars, readerVars
<1>1. k \in todo
  BY DEF SendRejected, SendEmpty, Send, ControlTick
<1>2. at[k] \in Nat /\ ChunkFuts(k, at[k]) \in SUBSET Futs
  BY ChunkSeqType DEF TypeOK
<1>3. ASSUME SendRefused(k) \/ SendQueued(k), UNCHANGED <<wfut, rfut, chan>>
      PROVE  PlaceInv' /\ CallsInv'
  <2>1. HandOver(k)
    BY <1>3 DEF SendRefused, SendQueued
  <2>2. CASE SendRefused(k)
    <3>1. PICK kind : res' = Errors(ChunkFuts(k, at[k]), kind)
      BY <2>2 DEF SendRefused
    <3>2. UNCHANGED <<futures, wfut, rfut, chan>>
      BY <1>3, <2>2 DEF SendRefused
    <3>. QED  BY <1>1, <1>2, <2>1, <3>1, <3>2, ErrorsFacts, CallResolved, HandOverFacts
  <2>3. CASE SendQueued(k)
    BY <1>1, <1>3, <2>1, <2>3, CallQueued, HandOverFacts
  <2>. QED  BY <1>3, <2>2, <2>3
<1>4. CASE SendRejected(k)
  <2>1. PICK kind : res' = Errors(ChunkFuts(k, at[k]), kind)
    BY <1>4 DEF SendRejected
  <2>2. HandOver(k) /\ UNCHANGED <<futures, wfut, rfut, chan>>
    BY <1>4 DEF SendRejected
  <2>. QED  BY <1>1, <1>2, <2>1, <2>2, ErrorsFacts, CallResolved, HandOverFacts
<1>5. CASE SendEmpty(k)
  <2>1. HandOver(k) /\ UNCHANGED <<futures, wfut, rfut, chan>> /\ k.n = 0
    BY <1>5 DEF SendEmpty
  <2>2. at[k] = 0
    BY <1>1, <1>2, <2>1 DEF CallsInv
  <2>3. res' = Errors(ChunkFuts(k, at[k]), "empty")
    BY <1>5, <2>2 DEF SendEmpty, Errors
  <2>. QED  BY <1>1, <1>2, <2>1, <2>3, ErrorsFacts, CallResolved, HandOverFacts
<1>6. CASE Send(k)
  BY <1>3, <1>6 DEF Send
<1>7. CASE ControlTick(k)
  BY <1>3, <1>7 DEF ControlTick
<1>. QED  BY <1>4, <1>5, <1>6, <1>7

-----------------------------------------------------------------------------
(* Every step keeps the commands in one place *)

\* The steps of one writer or reader change only its own buffer.
LEMMA BuffersIO ==
    ASSUME TypeOK, BuffersInv, NEW e \in Epochs,
           UNCHANGED conns,
           (wpc[e] # "none" /\ wpc'[e] # "none") \/ wpc'[e] = wpc[e],
           (rpc[e] # "none" /\ rpc'[e] # "none") \/ rpc'[e] = rpc[e],
           wpc'[e] \in {"none", "wait", "swap", "done"} => wfut'[e] = <<>>,
           rpc'[e] = "fetch" => rfut'[e] = <<>>,
           \A d \in Epochs \ {e} : /\ wpc'[d] = wpc[d] /\ wfut'[d] = wfut[d]
                                   /\ rpc'[d] = rpc[d] /\ rfut'[d] = rfut[d]
    PROVE  BuffersInv'
BY DEF BuffersInv

\* Buffers are empty between the rounds of their goroutine.
LEMMA BuffersStep ==
    ASSUME TypeOK, BuffersInv, [Next]_vars
    PROVE  BuffersInv'
<1>. USE DEF procVars, queueVars, ioVars, sockVars, writerVars, readerVars, callVars, dataVars
<1>1. ASSUME UNCHANGED <<wpc, wfut, rpc, rfut, conns>> PROVE BuffersInv'
  BY <1>1 DEF BuffersInv
<1>2. CASE UNCHANGED vars
  BY <1>1, <1>2 DEF vars
<1>3. ASSUME NEW k, SendRejected(k) \/ SendEmpty(k) \/ Send(k) \/ ControlTick(k) PROVE BuffersInv'
  BY <1>1, <1>3 DEF SendRejected, SendEmpty, Send, ControlTick
<1>4. ASSUME \/ Close \/ TimerFire \/ ConnectError \/ ConnectWait \/ ControlDone \/ ControlPong
             \/ Stopped
      PROVE  BuffersInv'
  BY <1>1, <1>4
  DEF Close, TimerFire, ConnectError, ConnectWait, ControlDone, ControlPong, Stopped, vars
<1>5. ASSUME NEW p \in Procs, CreateStep(p) \/ SetupFail(p) \/ Lock(p) \/ CloseStep(p)
      PROVE  BuffersInv'
  BY <1>1, <1>5
  DEF CreateStep, CloseStep, CreateLoop, DialTCP, CreateOk, CreateReport, CreateFail, CreateDrop,
      SetupFail, Lock, CloseState, CloseSocket, CloseDrop
<1>6. ASSUME NEW p \in Procs, SetupOk(p) PROVE BuffersInv'
  <2>1. /\ wpc' = [wpc EXCEPT ![conns + 1] = "wait"] /\ rpc' = [rpc EXCEPT ![conns + 1] = "read"]
        /\ UNCHANGED <<wfut, rfut>> /\ conns' = conns + 1 /\ conns + 1 \in Epochs
    BY <1>6, BoundsAssumption DEF SetupOk, TypeOK, Epochs
  <2>2. conns \in Nat /\ Epochs \subseteq Int
    BY BoundsAssumption DEF TypeOK, Epochs
  <2>3. wfut[conns + 1] = <<>>
    BY <2>1, <2>2 DEF BuffersInv
  <2>. QED  BY <2>1, <2>2, <2>3 DEF BuffersInv, TypeOK
<1>7. ASSUME NEW e \in Epochs, ReconnectCheck(e) \/ Break(e) \/ ReaderDrain(e)
      PROVE  BuffersInv'
  BY <1>1, <1>7 DEF ReconnectCheck, Break, ReaderDrain
<1>8. ASSUME NEW e \in Epochs,
             \/ WriterWake(e) \/ WriterStop(e) \/ WriterSwap(e) \/ WriteOk(e) \/ WriteFail(e)
             \/ WriterPush(e) \/ WriterClose(e)
      PROVE  BuffersInv'
  <2>1. UNCHANGED <<rpc, rfut, conns>> /\ wpc[e] # "none" /\ wpc'[e] # "none"
    BY <1>8 DEF WriterWake, WriterStop, WriterSwap, WriteOk, WriteFail, WriterPush, WriterClose,
                TypeOK
  <2>2. \A d \in Epochs \ {e} : wpc'[d] = wpc[d] /\ wfut'[d] = wfut[d]
    BY <1>8 DEF WriterWake, WriterStop, WriterSwap, WriteOk, WriteFail, WriterPush, WriterClose,
                TypeOK
  <2>3. wpc'[e] \in {"none", "wait", "swap", "done"} => wfut'[e] = <<>>
    BY <1>8 DEF WriterWake, WriterStop, WriterSwap, WriteOk, WriteFail, WriterPush, WriterClose,
                TypeOK, BuffersInv
  <2>4. rpc'[e] = "fetch" => rfut'[e] = <<>>
    BY <2>1 DEF BuffersInv
  <2>. QED  BY <2>1, <2>2, <2>3, <2>4, BuffersIO
<1>9. ASSUME NEW e \in Epochs,
             ReadReply(e) \/ ReadFail(e) \/ ReaderFetch(e) \/ ReaderFail(e) \/ ReaderDone(e)
      PROVE  BuffersInv'
  <2>1. UNCHANGED <<wpc, wfut, conns>> /\ rpc[e] # "none" /\ rpc'[e] # "none"
    BY <1>9 DEF ReadReply, ReadFail, ReaderFetch, ReaderFail, ReaderDone, TypeOK
  <2>2. \A d \in Epochs \ {e} : rpc'[d] = rpc[d] /\ rfut'[d] = rfut[d]
    BY <1>9 DEF ReadReply, ReadFail, ReaderFetch, ReaderFail, ReaderDone, TypeOK
  <2>3. rpc'[e] = "fetch" => rfut'[e] = <<>>
    BY <1>9 DEF ReadReply, ReadFail, ReaderFetch, ReaderFail, ReaderDone, TypeOK, BuffersInv
  <2>4. wpc'[e] \in {"none", "wait", "swap", "done"} => wfut'[e] = <<>>
    BY <2>1 DEF BuffersInv
  <2>. QED  BY <2>1, <2>2, <2>3, <2>4, BuffersIO
<1>. QED
  BY <1>2, <1>3, <1>4, <1>5, <1>6, <1>7, <1>8, <1>9 DEF Next, WriterStep, ReaderStep

\* Commands stay in one place and calls in front of a chunk.
LEMMA PlaceStep ==
    ASSUME TypeInv, BuffersInv, CallsInv, PlaceInv, [Next]_vars
    PROVE  PlaceInv' /\ CallsInv'
<1>. USE DEF procVars, queueVars, ioVars, sockVars, writerVars, readerVars, callVars, dataVars
<1>0. TypeOK
  BY DEF TypeInv
<1>1. UNCHANGED <<todo, at>> => CallsInv'
  BY DEF CallsInv
<1>2. ASSUME UNCHANGED <<futures, wfut, rfut, chan, res, todo, at>> PROVE PlaceInv' /\ CallsInv'
  BY <1>1, <1>2, PlaceFrame
<1>3. CASE UNCHANGED vars
  BY <1>2, <1>3 DEF vars
<1>4. ASSUME NEW k \in AllCalls, SendRejected(k) \/ SendEmpty(k) \/ Send(k) \/ ControlTick(k)
      PROVE  PlaceInv' /\ CallsInv'
  BY <1>0, <1>4, PlaceCalls
<1>5. ASSUME \/ Close \/ TimerFire \/ ConnectError \/ ConnectWait \/ ControlDone \/ ControlPong
             \/ Stopped
      PROVE  PlaceInv' /\ CallsInv'
  BY <1>2, <1>5
  DEF Close, TimerFire, ConnectError, ConnectWait, ControlDone, ControlPong, Stopped, vars
<1>6. ASSUME NEW p \in Procs,
             \/ CreateLoop(p) \/ DialTCP(p) \/ CreateOk(p) \/ CreateReport(p) \/ CreateFail(p)
             \/ SetupOk(p) \/ SetupFail(p) \/ Lock(p) \/ CloseState(p) \/ CloseSocket(p)
      PROVE  PlaceInv' /\ CallsInv'
  BY <1>2, <1>6
  DEF CreateLoop, DialTCP, CreateOk, CreateReport, CreateFail, SetupOk, SetupFail, Lock, CloseState,
      CloseSocket
<1>7. ASSUME NEW p \in Procs, CreateDrop(p) \/ CloseDrop(p)
      PROVE  PlaceInv' /\ CallsInv'
  <2>1. PICK kind : DropFutures(kind)
    BY <1>7 DEF CreateDrop, CloseDrop
  <2>2. UNCHANGED <<wfut, rfut, chan, todo, at>>
    BY <1>7 DEF CreateDrop, CloseDrop
  <2>. QED  BY <1>0, <1>1, <2>1, <2>2, MoveDrop
<1>8. ASSUME NEW e \in Epochs,
             \/ ReconnectCheck(e) \/ Break(e) \/ WriterWake(e) \/ WriterStop(e) \/ WriteOk(e)
             \/ WriteFail(e) \/ WriterClose(e) \/ ReadFail(e) \/ ReaderDone(e)
      PROVE  PlaceInv' /\ CallsInv'
  BY <1>2, <1>8
  DEF ReconnectCheck, Break, WriterWake, WriterStop, WriteOk, WriteFail, WriterClose, ReadFail,
      ReaderDone
<1>9. ASSUME NEW e \in Epochs,
             \/ WriterSwap(e) \/ WriterPush(e) \/ ReadReply(e) \/ ReaderFetch(e) \/ ReaderFail(e)
             \/ ReaderDrain(e)
      PROVE  PlaceInv' /\ CallsInv'
  <2>1. UNCHANGED <<todo, at>>
    BY <1>9 DEF WriterSwap, WriterPush, ReadReply, ReaderFetch, ReaderFail, ReaderDrain
  <2>. QED  BY <1>0, <1>1, <1>9, <2>1, MoveSwap, MovePush, MoveReply, MoveFetch, MoveFail, MoveDrain
<1>. QED
  BY <1>3, <1>4, <1>5, <1>6, <1>7, <1>8, <1>9
  DEF Next, AllCalls, CreateStep, CloseStep, WriterStep, ReaderStep

FutureInv == TypeInv /\ BuffersInv /\ CallsInv /\ PlaceInv

\* Initially every call is ahead and nothing waits.
LEMMA FutureInit == Init => FutureInv
<1>. SUFFICES ASSUME Init PROVE FutureInv
  OBVIOUS
<1>1. TypeInv /\ TypeOK
  BY TypeInit DEF TypeInv
<1>2. BuffersInv
  BY DEF Init, BuffersInv
<1>3. CallsInv
  <2>1. \A k \in todo : k \in CallType /\ k.n \in Nat /\ at[k] = 0
    BY CallsAssumption DEF Init, CallType
  <2>2. 0 % ChunkSize = 0
    BY BoundsAssumption
  <2>. QED  BY <2>1, <2>2 DEF CallsInv
<1>4. \A l : l \notin Places
  <2>1. \A l : ~InQueue(futures, l) /\ ~InWriter(wfut, l) /\ ~InReader(rfut, l) /\ ~InChan(chan, l)
    BY DEF Init, InQueue, InWriter, InReader, InChan
  <2>. QED  BY <2>1, PlaceKinds
<1>5. HandedOver = {}
  <2>1. \A f \in Futs : f.call \in todo /\ (f.n >= 0 => ~(f.n < at[f.call]))
    BY FutFacts DEF Init
  <2>. QED  BY <2>1 DEF HandedOver
<1>6. \A f \in Futs : res[f] = <<>>
  BY DEF Init
<1>7. PlaceInv
  BY <1>4, <1>5, <1>6 DEF PlaceInv, InOnePlace, Unresolved, ResolvedOnce, NotLost, Fresh
<1>. QED  BY <1>1, <1>2, <1>3, <1>7 DEF FutureInv

LEMMA FutureStep == FutureInv /\ [Next]_vars => FutureInv'
<1>1. TypeInv => TypeOK
  BY DEF TypeInv
<1>. QED  BY <1>1, TypeStep, BuffersStep, PlaceStep DEF FutureInv

\* No interleaving of callers, dropFutures, writers, readers and Close loses or
\* doubles a request.
THEOREM NothingIsLost == Spec => []Conserved
<1>1. ASSUME FutureInv PROVE Conserved
  <2>. SUFFICES ASSUME NEW f \in HandedOver
                PROVE  \/ res[f] = <<>> /\ \E l \in Places : Held(f) = {l}
                       \/ Len(res[f]) = 1 /\ Held(f) = {}
    BY DEF Conserved
  <2>1. f \in Futs /\ res[f] \in Seq(Results) /\ Len(res[f]) \in Nat /\ Len(res[f]) <= 1
    BY <1>1 DEF HandedOver, FutureInv, TypeInv, TypeOK, PlaceInv, ResolvedOnce
  <2>2. CASE res[f] = <<>>
    <3>1. PICK l \in Places : Waiting(l) = f
      BY <1>1, <2>2 DEF FutureInv, PlaceInv, NotLost
    <3>2. Held(f) = {l}
      BY <1>1, <3>1 DEF FutureInv, PlaceInv, InOnePlace, Held
    <3>. QED  BY <2>2, <3>2
  <2>3. CASE res[f] # <<>>
    <3>1. Held(f) = {}
      BY <1>1, <2>3 DEF FutureInv, PlaceInv, Unresolved, Held
    <3>2. Len(res[f]) # 0
      BY <2>1, <2>3
    <3>3. Len(res[f]) = 1
      <4>. DEFINE n == Len(res[f])
      <4>1. n \in Nat /\ n <= 1 /\ n # 0
        BY <2>1, <3>2
      <4>. HIDE DEF n
      <4>2. n = 1
        BY <4>1
      <4>. QED  BY <4>2 DEF n
    <3>. QED  BY <3>1, <3>3, Zenon
  <2>. QED  BY <2>2, <2>3
<1>. QED  BY <1>1, FutureInit, FutureStep, PTL DEF Spec

-----------------------------------------------------------------------------
(* Errors that promise the request was not sent *)

\* A command that is queued or still with its caller was never written.
QueueUnwritten == \A i \in DOMAIN futures : futures[i] \notin written
FreshUnwritten == \A f \in written : ~NotYet(f)

\* What the connection itself says of a request it did not write, ...
OwnClaims == NotSentKinds \ {"loading"}

\* ... and never says of one that was written.
NeverClaimed == \A f \in written : \A i \in DOMAIN res[f] : res[f][i].kind \notin OwnClaims

HonestInv == QueueUnwritten /\ FreshUnwritten /\ NeverClaimed

\* Results only grow by ones that honour the trait.
LEMMA HonestFrame ==
    ASSUME HonestInv, TypeOK, UNCHANGED written,
           \A i \in DOMAIN futures' : futures'[i] \notin written,
           \A f \in written : ~NotYet(f)',
           \A f \in written : \/ res'[f] = res[f]
                              \/ \E r : res'[f] = Append(res[f], r) /\ r.kind \notin OwnClaims
    PROVE  HonestInv'
<1>1. NeverClaimed'
  <2>. SUFFICES ASSUME NEW f \in written, NEW i \in DOMAIN res'[f]
                PROVE  res'[f][i].kind \notin OwnClaims
    BY DEF NeverClaimed
  <2>1. CASE res'[f] = res[f]
    BY <2>1 DEF HonestInv, NeverClaimed
  <2>2. ASSUME NEW r, res'[f] = Append(res[f], r), r.kind \notin OwnClaims
        PROVE  res'[f][i].kind \notin OwnClaims
    <3>1. f \in Futs /\ res[f] \in Seq(Results)
      BY DEF TypeOK
    <3>2. /\ Len(res[f]) \in Nat /\ DOMAIN res[f] = 1 .. Len(res[f])
          /\ DOMAIN Append(res[f], r) = 1 .. Len(res[f]) + 1
          /\ \A j \in 1 .. Len(res[f]) + 1 :
               Append(res[f], r)[j] = IF j <= Len(res[f]) THEN res[f][j] ELSE r
      BY <3>1
    <3>3. i \in 1 .. Len(res[f]) + 1
      BY <2>2, <3>2
    <3>4. CASE i <= Len(res[f])
      <4>1. i \in DOMAIN res[f] /\ res'[f][i] = res[f][i]
        BY <2>2, <3>2, <3>3, <3>4
      <4>. QED  BY <4>1 DEF HonestInv, NeverClaimed
    <3>5. CASE ~(i <= Len(res[f]))
      BY <2>2, <3>2, <3>3, <3>5
    <3>. QED  BY <3>4, <3>5
  <2>. QED  BY <2>1, <2>2
<1>. QED  BY <1>1 DEF HonestInv, QueueUnwritten, FreshUnwritten

\* Callers and Ping.
LEMMA HonestCalls ==
    ASSUME FutureInv, HonestInv, NEW k \in AllCalls,
           SendRejected(k) \/ SendEmpty(k) \/ Send(k) \/ ControlTick(k)
    PROVE  HonestInv'
<1>. USE DEF queueVars, ioVars, sockVars, writerVars, readerVars
<1>0. TypeOK /\ CallsInv /\ PlaceInv /\ written \subseteq Futs
  BY DEF FutureInv, TypeInv, TypeOK
<1>1. k \in todo /\ UNCHANGED written
  BY DEF SendRejected, SendEmpty, Send, ControlTick
<1>2. HandOver(k)
  BY DEF SendRejected, SendEmpty, Send, ControlTick, SendRefused, SendQueued
<1>3. /\ \A f \in ChunkFuts(k, at[k]) : f \in Futs /\ NotYet(f)
      /\ \A f \in Futs : NotYet(f)' => NotYet(f)
      /\ k.n > 0 => ChunkAt(k, at[k])
      /\ k.n > 0 => \A f : (\E i \in 1 .. Len(ChunkSeq(k, at[k])) : ChunkSeq(k, at[k])[i] = f)
                               => NotYet(f)
  BY <1>0, <1>1, <1>2, HandOverFacts
<1>4. \A f \in written : ~NotYet(f)' /\ f \notin ChunkFuts(k, at[k])
  BY <1>0, <1>3 DEF HonestInv, FreshUnwritten
<1>5. \A f \in written : res'[f] = res[f]
  <2>1. \A f \in Futs \ ChunkFuts(k, at[k]) : res'[f] = res[f]
    <3>1. CASE SendRejected(k)
      BY <3>1 DEF SendRejected, Errors
    <3>2. CASE SendEmpty(k)
      <4>1. at[k] = 0
        BY <1>0, <1>1, <3>2 DEF SendEmpty, CallsInv, TypeOK
      <4>. QED  BY <3>2, <4>1 DEF SendEmpty
    <3>3. CASE Send(k) \/ ControlTick(k)
      BY <3>3 DEF Send, ControlTick, SendRefused, SendQueued, Errors
    <3>. QED  BY <3>1, <3>2, <3>3
  <2>. QED  BY <1>0, <1>4, <2>1
<1>6. \A i \in DOMAIN futures' : futures'[i] \notin written
  <2>1. CASE futures' = futures
    BY <2>1 DEF HonestInv, QueueUnwritten
  <2>2. CASE SendQueued(k)
    <3>. DEFINE s == ChunkSeq(k, at[k])
    <3>1. futures' = futures \o s /\ k.n > 0
      BY <2>2 DEF SendQueued
    <3>2. s \in Seq(Futs) /\ futures \in Seq(Futs)
      BY <1>0, <1>3, <3>1, ChunkFacts DEF TypeOK
    <3>3. \A i \in 1 .. Len(s) : s[i] \notin written
      BY <1>3, <3>1 DEF HonestInv, FreshUnwritten
    <3>4. \A i \in 1 .. Len(futures) : futures[i] \notin written
      BY <3>2 DEF HonestInv, QueueUnwritten
    <3>. HIDE DEF s
    <3>5. /\ Len(futures) \in Nat /\ Len(s) \in Nat /\ DOMAIN futures' = 1 .. Len(futures) + Len(s)
          /\ \A i \in 1 .. Len(futures) + Len(s) :
               futures'[i] = IF i <= Len(futures) THEN futures[i] ELSE s[i - Len(futures)]
      BY <3>1, <3>2, ConcatProperties
    <3>6. ASSUME NEW i \in 1 .. Len(futures) + Len(s) PROVE futures'[i] \notin written
      <4>1. CASE i <= Len(futures)
        <5>1. i \in 1 .. Len(futures)
          BY <3>5, <4>1
        <5>. QED  BY <3>4, <3>5, <4>1, <5>1
      <4>2. CASE ~(i <= Len(futures))
        <5>1. i - Len(futures) \in 1 .. Len(s)
          BY <3>5, <4>2
        <5>. QED  BY <3>3, <3>5, <4>2, <5>1
      <4>. QED  BY <4>1, <4>2
    <3>. QED  BY <3>5, <3>6
  <2>. QED  BY <2>1, <2>2 DEF SendRejected, SendEmpty, Send, ControlTick, SendRefused
<1>. QED  BY <1>0, <1>1, <1>4, <1>5, <1>6, HonestFrame

\* dropFutures resolves only what was not written.
LEMMA HonestDrop ==
    ASSUME FutureInv, HonestInv, NEW kind, DropFutures(kind), UNCHANGED <<written, todo, at>>
    PROVE  HonestInv'
<1>1. TypeOK /\ futures \in Seq(Futs) /\ written \subseteq Futs
  BY DEF FutureInv, TypeInv, TypeOK
<1>2. \A f \in written : f \notin Range(futures)
  BY <1>1, RangeFacts DEF HonestInv, QueueUnwritten
<1>3. \A f \in written : res'[f] = res[f]
  BY <1>1, <1>2 DEF DropFutures, Errors
<1>4. \A f \in written : ~NotYet(f)'
  BY DEF HonestInv, FreshUnwritten, NotYet
<1>5. futures' = <<>>
  BY DEF DropFutures
<1>6. \A i \in DOMAIN futures' : futures'[i] \notin written
  BY <1>5
<1>. QED  BY <1>1, <1>3, <1>4, <1>6, HonestFrame

\* What is written has no result and is neither queued nor with its caller.
LEMMA HonestWrite ==
    ASSUME FutureInv, HonestInv, NEW e \in Epochs, WriteOk(e) \/ WriteFail(e)
    PROVE  HonestInv'
<1>. DEFINE W == Range(wfut[e])
<1>1. /\ written' = written \cup W
      /\ UNCHANGED <<futures, res, todo, at>>
  BY DEF WriteOk, WriteFail, queueVars, callVars
<1>2. /\ wfut[e] \in Seq(Futs) /\ futures \in Seq(Futs) /\ InOnePlace /\ Unresolved /\ Fresh
  BY DEF FutureInv, TypeInv, TypeOK, PlaceInv
<1>3. ASSUME NEW f \in W PROVE f \in Futs /\ \E l \in Places : Waiting(l) = f /\ l[1] = "writer"
  <2>1. PICK i \in DOMAIN wfut[e] : wfut[e][i] = f
    BY <1>2, RangeFacts
  <2>2. InWriter(wfut, <<"writer", e, 0, i>>)
    BY DEF InWriter
  <2>. QED  BY <1>2, <2>1, <2>2, PlaceKinds, PlaceItems, RangeFacts
<1>. HIDE DEF W
<1>4. \A f \in W : res[f] = <<>> /\ ~NotYet(f)
  BY <1>2, <1>3 DEF Unresolved, Fresh
<1>5. ASSUME NEW i \in DOMAIN futures PROVE futures[i] \notin W
  <2>1. InQueue(futures, <<"queue", 0, 0, i>>)
    BY DEF InQueue
  <2>2. <<"queue", 0, 0, i>> \in Places /\ Waiting(<<"queue", 0, 0, i>>) = futures[i]
    BY <2>1, PlaceKinds, PlaceItems
  <2>. QED  BY <1>2, <1>3, <2>2 DEF InOnePlace
<1>6. QueueUnwritten'
  BY <1>1, <1>5 DEF HonestInv, QueueUnwritten
<1>7. FreshUnwritten'
  BY <1>1, <1>4 DEF HonestInv, FreshUnwritten, NotYet
<1>8. NeverClaimed'
  BY <1>1, <1>4 DEF HonestInv, NeverClaimed
<1>. QED  BY <1>6, <1>7, <1>8 DEF HonestInv

\* Readers report answers and ErrIO only.
LEMMA HonestRead ==
    ASSUME FutureInv, HonestInv, NEW e \in Epochs,
           ReadReply(e) \/ ReaderFetch(e) \/ ReaderFail(e) \/ ReaderDrain(e)
    PROVE  HonestInv'
<1>0. TypeOK /\ written \subseteq Futs
  BY DEF FutureInv, TypeInv, TypeOK
<1>1. UNCHANGED <<futures, written, todo, at>>
  BY DEF ReadReply, ReaderFetch, ReaderFail, ReaderDrain, queueVars, writerVars, callVars
<1>2. \/ res' = res
      \/ \E g, from : \E kind \in AnswerKinds : res' = Reply(g, from, kind)
      \/ \E fs : res' = Errors(fs, "io")
  BY DEF ReadReply, ReaderFetch, ReaderFail, ReaderDrain, OneErr
<1>3. ASSUME NEW f \in written
      PROVE  res'[f] = res[f] \/ \E r : res'[f] = Append(res[f], r) /\ r.kind \notin OwnClaims
  <2>1. f \in Futs
    BY <1>0
  <2>2. ASSUME NEW g, NEW from, NEW kind \in AnswerKinds, res' = Reply(g, from, kind)
        PROVE  res'[f] = res[f] \/ res'[f] = Append(res[f], [kind |-> kind, of |-> from])
    BY <1>0, <2>1, <2>2 DEF Reply, TypeOK
  <2>3. ASSUME NEW fs, res' = Errors(fs, "io")
        PROVE  res'[f] = res[f] \/ res'[f] = Append(res[f], [kind |-> "io", of |-> f])
    BY <1>0, <2>1, <2>3 DEF Errors
  <2>4. \A from : \A kind \in AnswerKinds : [kind |-> kind, of |-> from].kind \notin OwnClaims
    BY AnswersAssumption DEF OwnClaims, NotSentKinds
  <2>5. [kind |-> "io", of |-> f].kind \notin OwnClaims
    BY DEF OwnClaims, NotSentKinds
  <2>. QED  BY <1>2, <2>2, <2>3, <2>4, <2>5
<1>4. \A f \in written : ~NotYet(f)'
  BY <1>1 DEF HonestInv, FreshUnwritten, NotYet
<1>5. \A i \in DOMAIN futures' : futures'[i] \notin written
  BY <1>1 DEF HonestInv, QueueUnwritten
<1>. QED  BY <1>0, <1>1, <1>3, <1>4, <1>5, HonestFrame

\* Every step keeps the trait honest.
LEMMA HonestStep ==
    ASSUME FutureInv, HonestInv, [Next]_vars
    PROVE  HonestInv'
<1>. USE DEF procVars, queueVars, ioVars, sockVars, writerVars, readerVars, callVars, dataVars
<1>1. ASSUME UNCHANGED <<futures, written, res, todo, at>> PROVE HonestInv'
  BY <1>1 DEF HonestInv, QueueUnwritten, FreshUnwritten, NeverClaimed, NotYet
<1>2. CASE UNCHANGED vars
  BY <1>1, <1>2 DEF vars
<1>3. ASSUME \/ Close \/ TimerFire \/ ConnectError \/ ConnectWait \/ ControlDone \/ ControlPong
             \/ Stopped
      PROVE  HonestInv'
  BY <1>1, <1>3
  DEF Close, TimerFire, ConnectError, ConnectWait, ControlDone, ControlPong, Stopped, vars
<1>4. ASSUME NEW p \in Procs,
             \/ CreateLoop(p) \/ DialTCP(p) \/ CreateOk(p) \/ CreateReport(p) \/ CreateFail(p)
             \/ SetupOk(p) \/ SetupFail(p) \/ Lock(p) \/ CloseState(p) \/ CloseSocket(p)
      PROVE  HonestInv'
  BY <1>1, <1>4
  DEF CreateLoop, DialTCP, CreateOk, CreateReport, CreateFail, SetupOk, SetupFail, Lock, CloseState,
      CloseSocket
<1>5. ASSUME NEW p \in Procs, CreateDrop(p) \/ CloseDrop(p) PROVE HonestInv'
  <2>1. PICK kind : DropFutures(kind)
    BY <1>5 DEF CreateDrop, CloseDrop
  <2>2. UNCHANGED <<written, todo, at>>
    BY <1>5 DEF CreateDrop, CloseDrop
  <2>. QED  BY <2>1, <2>2, HonestDrop
<1>6. ASSUME NEW e \in Epochs,
             \/ ReconnectCheck(e) \/ Break(e) \/ WriterWake(e) \/ WriterStop(e) \/ WriterPush(e)
             \/ WriterClose(e) \/ ReadFail(e) \/ ReaderDone(e)
      PROVE  HonestInv'
  BY <1>1, <1>6
  DEF ReconnectCheck, Break, WriterWake, WriterStop, WriterPush, WriterClose, ReadFail, ReaderDone
<1>7. ASSUME NEW e \in Epochs, WriterSwap(e) PROVE HonestInv'
  <2>1. futures' = <<>> /\ UNCHANGED <<written, res, todo, at>>
    BY <1>7 DEF WriterSwap, SwapIn, FutureInv, BuffersInv
  <2>. QED  BY <2>1 DEF HonestInv, QueueUnwritten, FreshUnwritten, NeverClaimed, NotYet
<1>. QED
  BY <1>2, <1>3, <1>4, <1>5, <1>6, <1>7, HonestCalls, HonestWrite, HonestRead
  DEF Next, AllCalls, CreateStep, CloseStep, WriterStep, ReaderStep

-----------------------------------------------------------------------------
(* Batches on the wire *)

\* What keeps together stays together when a whole sequence is appended ...
LEMMA ConcatContiguous ==
    ASSUME NEW s \in Seq(Futs), NEW t \in Seq(Futs), Contiguous(s), Whole(t)
    PROVE  Contiguous(s \o t) /\ (Whole(s) => Whole(s \o t))
<1>. DEFINE a == Len(s)
            b == Len(t)
            u == s \o t
<1>1. /\ a \in Nat /\ b \in Nat /\ Len(u) = a + b
      /\ \A i \in 1 .. a + b : u[i] = IF i <= a THEN s[i] ELSE t[i - a]
  BY ConcatProperties
<1>2. /\ \A i \in 2 .. a : MustFollow(s[i]) => s[i - 1] = Prev(s[i])
      /\ \A i \in 2 .. b : MustFollow(t[i]) => t[i - 1] = Prev(t[i])
      /\ b > 0 => ~MustFollow(t[1])
  BY DEF Contiguous, Whole
<1>3. Whole(s) => (a > 0 => ~MustFollow(s[1]))
  BY DEF Whole
<1>. HIDE DEF a, b, u
<1>4. ASSUME NEW i \in 2 .. a + b, MustFollow(u[i]) PROVE u[i - 1] = Prev(u[i])
  <2>1. i - 1 \in 1 .. a + b /\ i \in 1 .. a + b /\ i \in Int
    BY <1>1
  <2>2. CASE i <= a
    <3>1. i \in 2 .. a /\ u[i] = s[i] /\ u[i - 1] = s[i - 1]
      BY <1>1, <2>1, <2>2
    <3>. QED  BY <1>2, <1>4, <3>1
  <2>3. CASE i = a + 1
    <3>1. i - a = 1 /\ b > 0 /\ u[i] = t[i - a]
      BY <1>1, <2>1, <2>3
    <3>. QED  BY <1>2, <1>4, <3>1
  <2>4. CASE i > a + 1
    <3>1. i - a \in 2 .. b /\ u[i] = t[i - a] /\ u[i - 1] = t[(i - a) - 1]
      <4>1. (i - 1) - a = (i - a) - 1 /\ ~(i <= a) /\ ~(i - 1 <= a) /\ i - a \in 2 .. b
        BY <1>1, <2>1, <2>4
      <4>. QED  BY <1>1, <2>1, <4>1
    <3>. QED  BY <1>2, <1>4, <3>1
  <2>. QED  BY <1>1, <2>1, <2>2, <2>3, <2>4
<1>5. Contiguous(u)
  BY <1>1, <1>4 DEF Contiguous
<1>6. ASSUME Whole(s), a + b > 0 PROVE ~MustFollow(u[1])
  <2>1. CASE a > 0
    BY <1>1, <1>3, <1>6, <2>1
  <2>2. CASE a = 0
    <3>1. u[1] = t[1 - a] /\ 1 - a = 1 /\ b > 0
      BY <1>1, <1>6, <2>2
    <3>. QED  BY <1>2, <3>1
  <2>. QED  BY <1>1, <2>1, <2>2
<1>7. Whole(s) => Whole(u)
  BY <1>1, <1>5, <1>6 DEF Whole
<1>. QED  BY <1>5, <1>7 DEF u

\* ... when a packet breaks off ...
LEMMA PrefixWhole ==
    ASSUME NEW s \in Seq(Futs), NEW m \in 0 .. Len(s), Whole(s)
    PROVE  SubSeq(s, 1, m) \in Seq(Futs) /\ Whole(SubSeq(s, 1, m))
<1>. DEFINE u == SubSeq(s, 1, m)
<1>1. Len(s) \in Nat /\ m \in Nat /\ m <= Len(s)
  OBVIOUS
<1>2. u \in Seq(Futs) /\ Len(u) = m /\ \A i \in 1 .. m : u[i] = s[i]
  BY <1>1, SubSeqProperties
<1>3. /\ \A i \in 2 .. Len(s) : MustFollow(s[i]) => s[i - 1] = Prev(s[i])
      /\ Len(s) > 0 => ~MustFollow(s[1])
  BY DEF Whole, Contiguous
<1>. HIDE DEF u
<1>4. ASSUME NEW i \in 2 .. m, MustFollow(u[i]) PROVE u[i - 1] = Prev(u[i])
  <2>1. i \in 1 .. m /\ i - 1 \in 1 .. m /\ i \in 2 .. Len(s)
    BY <1>1
  <2>. QED  BY <1>2, <1>3, <1>4, <2>1
<1>5. m > 0 => ~MustFollow(u[1])
  BY <1>1, <1>2, <1>3
<1>6. Whole(u)
  BY <1>2, <1>4, <1>5 DEF Whole, Contiguous
<1>. QED  BY <1>2, <1>6 DEF u

\* ... and when the first reply has been read.
LEMMA TailContiguous ==
    ASSUME NEW s \in Seq(Futs), s # <<>>, Contiguous(s)
    PROVE  Contiguous(Tail(s))
<1>. DEFINE u == Tail(s)
<1>1. /\ Len(s) \in Nat /\ Len(s) >= 1 /\ u \in Seq(Futs) /\ Len(u) = Len(s) - 1
      /\ \A i \in 1 .. Len(u) : u[i] = s[i + 1]
  BY HeadTailProperties
<1>2. \A i \in 2 .. Len(s) : MustFollow(s[i]) => s[i - 1] = Prev(s[i])
  BY DEF Contiguous
<1>. HIDE DEF u
<1>3. ASSUME NEW i \in 2 .. Len(u), MustFollow(u[i]) PROVE u[i - 1] = Prev(u[i])
  <2>1. i + 1 \in 2 .. Len(s) /\ i \in 1 .. Len(u) /\ i - 1 \in 1 .. Len(u) /\ (i + 1) - 1 = (i - 1) + 1
    BY <1>1
  <2>. QED  BY <1>1, <1>2, <1>3, <2>1
<1>4. Contiguous(u)
  BY <1>3 DEF Contiguous
<1>. QED  BY <1>4 DEF u

\* The queue and every writer's buffer consist of whole chunks.
OrderInv ==
    /\ Whole(futures)
    /\ \A e \in Epochs : Whole(wfut[e]) /\ Contiguous(wire[e])

\* Every step keeps chunks whole.
LEMMA OrderStep ==
    ASSUME FutureInv, OrderInv, [Next]_vars
    PROVE  OrderInv'
<1>. USE DEF procVars, queueVars, ioVars, sockVars, writerVars, readerVars, callVars, dataVars
<1>0. /\ TypeOK /\ CallsInv /\ futures \in Seq(Futs)
      /\ \A e \in Epochs : wfut[e] \in Seq(Futs) /\ wire[e] \in Seq(Futs)
  BY DEF FutureInv, TypeInv, TypeOK
<1>1. Whole(<<>>)
  BY DEF Whole, Contiguous
<1>2. ASSUME UNCHANGED <<futures, wfut, wire>> PROVE OrderInv'
  BY <1>2 DEF OrderInv
<1>3. CASE UNCHANGED vars
  BY <1>2, <1>3 DEF vars
<1>4. ASSUME NEW k \in AllCalls, SendRejected(k) \/ SendEmpty(k) \/ Send(k) \/ ControlTick(k)
      PROVE  OrderInv'
  <2>1. k \in todo /\ HandOver(k) /\ UNCHANGED <<wfut, wire>>
    BY <1>4 DEF SendRejected, SendEmpty, Send, ControlTick, SendRefused, SendQueued
  <2>2. CASE futures' = futures
    BY <1>2, <2>1, <2>2
  <2>3. CASE SendQueued(k)
    <3>1. futures' = futures \o ChunkSeq(k, at[k]) /\ k.n > 0
      BY <2>3 DEF SendQueued
    <3>2. ChunkAt(k, at[k]) /\ (k.kind = "many" => at[k] % ChunkSize = 0)
      BY <1>0, <2>1, <3>1, HandOverFacts
    <3>3. ChunkSeq(k, at[k]) \in Seq(Futs) /\ Whole(ChunkSeq(k, at[k]))
      BY <3>2, ChunkFacts, ChunkWhole
    <3>4. Contiguous(futures) /\ Whole(futures)
      BY DEF OrderInv, Whole
    <3>5. Whole(futures')
      BY <1>0, <3>1, <3>3, <3>4, ConcatContiguous
    <3>. QED  BY <2>1, <3>5 DEF OrderInv
  <2>. QED  BY <1>4, <2>2, <2>3 DEF SendRejected, SendEmpty, Send, ControlTick, SendRefused
<1>5. ASSUME \/ Close \/ TimerFire \/ ConnectError \/ ConnectWait \/ ControlDone \/ ControlPong
             \/ Stopped
      PROVE  OrderInv'
  BY <1>2, <1>5
  DEF Close, TimerFire, ConnectError, ConnectWait, ControlDone, ControlPong, Stopped, vars
<1>6. ASSUME NEW p \in Procs,
             \/ CreateLoop(p) \/ DialTCP(p) \/ CreateOk(p) \/ CreateReport(p) \/ CreateFail(p)
             \/ SetupOk(p) \/ SetupFail(p) \/ Lock(p) \/ CloseState(p) \/ CloseSocket(p)
      PROVE  OrderInv'
  BY <1>2, <1>6
  DEF CreateLoop, DialTCP, CreateOk, CreateReport, CreateFail, SetupOk, SetupFail, Lock, CloseState,
      CloseSocket
<1>7. ASSUME NEW p \in Procs, CreateDrop(p) \/ CloseDrop(p) PROVE OrderInv'
  <2>1. futures' = <<>> /\ UNCHANGED <<wfut, wire>>
    BY <1>7 DEF CreateDrop, CloseDrop, DropFutures
  <2>. QED  BY <1>1, <2>1 DEF OrderInv
<1>8. ASSUME NEW e \in Epochs,
             \/ ReconnectCheck(e) \/ Break(e) \/ WriterWake(e) \/ WriterStop(e) \/ WriterClose(e)
             \/ ReadFail(e) \/ ReaderFail(e) \/ ReaderDrain(e) \/ ReaderDone(e)
      PROVE  OrderInv'
  BY <1>2, <1>8
  DEF ReconnectCheck, Break, WriterWake, WriterStop, WriterClose, ReadFail, ReaderFail, ReaderDrain,
      ReaderDone
<1>9. ASSUME NEW e \in Epochs, WriterSwap(e) \/ WriterPush(e) PROVE OrderInv'
  <2>1. /\ futures' \in {futures, <<>>} /\ wire' = wire
        /\ \A d \in Epochs : wfut'[d] \in {wfut[d], futures, <<>>}
    BY <1>0, <1>9 DEF WriterSwap, WriterPush, SwapIn, FutureInv, BuffersInv, TypeOK
  <2>. QED  BY <1>1, <2>1 DEF OrderInv
<1>10. ASSUME NEW e \in Epochs, WriteOk(e) \/ WriteFail(e) PROVE OrderInv'
  <2>1. Contiguous(wire[e]) /\ Whole(wfut[e]) /\ UNCHANGED <<futures, wfut>>
    BY <1>10 DEF OrderInv, WriteOk, WriteFail
  <2>2. PICK t : t \in Seq(Futs) /\ Whole(t) /\ wire' = [wire EXCEPT ![e] = wire[e] \o t]
    <3>1. CASE WriteOk(e)
      BY <1>0, <2>1, <3>1 DEF WriteOk
    <3>2. CASE WriteFail(e)
      <4>1. PICK m \in 0 .. Len(wfut[e]) :
                   wire' = [wire EXCEPT ![e] = wire[e] \o SubSeq(wfut[e], 1, m)]
        BY <3>2 DEF WriteFail
      <4>. QED  BY <1>0, <2>1, <4>1, PrefixWhole
    <3>. QED  BY <1>10, <3>1, <3>2
  <2>3. Contiguous(wire[e] \o t)
    BY <1>0, <2>1, <2>2, ConcatContiguous
  <2>4. \A d \in Epochs : wire'[d] = wire[d] \/ wire'[d] = wire[e] \o t
    BY <1>0, <2>2 DEF TypeOK
  <2>. QED  BY <2>1, <2>3, <2>4 DEF OrderInv
<1>11. ASSUME NEW e \in Epochs, ReadReply(e) \/ ReaderFetch(e) PROVE OrderInv'
  <2>1. CASE wire' = wire
    BY <1>2, <1>11, <2>1 DEF ReadReply, ReaderFetch
  <2>2. CASE wire' # wire
    <3>1. wire' = [wire EXCEPT ![e] = Tail(wire[e])] /\ wire[e] # <<>> /\ UNCHANGED <<futures, wfut>>
      BY <1>11, <2>2 DEF ReadReply, ReaderFetch, FutureInv, TypeInv, BatchInv
    <3>2. Contiguous(Tail(wire[e]))
      BY <1>0, <3>1, TailContiguous DEF OrderInv
    <3>3. \A d \in Epochs : wire'[d] = wire[d] \/ wire'[d] = Tail(wire[e])
      BY <1>0, <3>1 DEF TypeOK
    <3>. QED  BY <3>1, <3>2, <3>3 DEF OrderInv
  <2>. QED  BY <2>1, <2>2
<1>. QED
  BY <1>3, <1>4, <1>5, <1>6, <1>7, <1>8, <1>9, <1>10, <1>11
  DEF Next, AllCalls, CreateStep, CloseStep, WriterStep, ReaderStep

\* On every socket ASKING stays next to its request, and batches, transactions
\* and chunks of SendMany arrive contiguous and whole.
THEOREM BatchesArriveWhole == Spec => []BatchesWhole
<1>1. Init => OrderInv
  BY DEF Init, OrderInv, Whole, Contiguous
<1>2. FutureInv /\ OrderInv /\ [Next]_vars => OrderInv'
  BY OrderStep
<1>3. OrderInv => BatchesContiguous
  BY DEF OrderInv, Contiguous, MustFollow, BatchesContiguous
<1>4. BatchesContiguous /\ Conserved => BatchesWhole
  BY DEF BatchesWhole
<1>. QED  BY <1>1, <1>2, <1>3, <1>4, FutureInit, FutureStep, NothingIsLost, PTL DEF Spec

-----------------------------------------------------------------------------
(* Pairing replies with requests *)

\* What the server has got on a socket (wi) are the commands its reader has
\* left (r), the batches in transit (h) and as much of the writer's buffer (w)
\* as its program counter (p) tells, in this order: off[b] is where batch b
\* starts and off[Len(h) + 1] where the last one ends.
Aligned(r, h, w, p, wi, off) ==
    /\ off \in [1 .. Len(h) + 1 -> Nat]
    /\ off[1] = Len(r)
    /\ \A b \in 1 .. Len(h) : off[b + 1] = off[b] + Len(h[b])
    /\ \A b, d \in 1 .. Len(h) + 1 : b <= d => off[b] <= off[d]
    /\ \A j \in 1 .. Len(r) : j <= Len(wi) => wi[j] = r[j]
    /\ \A b \in 1 .. Len(h) : \A j \in 1 .. Len(h[b]) :
         off[b] + j <= Len(wi) => wi[off[b] + j] = h[b][j]
    /\ Len(wi) <= off[Len(h) + 1] + Len(w)
    /\ p \in {"none", "wait", "swap", "write"} => Len(wi) = off[Len(h) + 1]
    /\ p = "push" => Len(wi) = off[Len(h) + 1] + Len(w)
    /\ p \in {"push", "exit"} => \A j \in 1 .. Len(w) :
         off[Len(h) + 1] + j <= Len(wi) => wi[off[Len(h) + 1] + j] = w[j]

\* A writer writes its buffer, or a part of it.
LEMMA AlignWrite ==
    ASSUME NEW r \in Seq(Futs), NEW h \in Seq(Seq(Futs)), NEW w \in Seq(Futs), NEW wi \in Seq(Futs),
           NEW off, Aligned(r, h, w, "write", wi, off),
           NEW m \in 0 .. Len(w), NEW p, p = "exit" \/ (p = "push" /\ m = Len(w))
    PROVE  Aligned(r, h, w, p, wi \o SubSeq(w, 1, m), off)
<1>. DEFINE t == SubSeq(w, 1, m)
            u == wi \o t
            end == off[Len(h) + 1]
<1>1. Len(r) \in Nat /\ Len(h) \in Nat /\ Len(w) \in Nat /\ Len(wi) \in Nat /\ m \in Nat /\ m <= Len(w)
  OBVIOUS
<1>2. t \in Seq(Futs) /\ Len(t) = m /\ \A i \in 1 .. m : t[i] = w[i]
  BY <1>1, SubSeqProperties
<1>. HIDE DEF t
<1>3. /\ Len(u) = Len(wi) + m
      /\ \A i \in 1 .. Len(wi) + m : u[i] = IF i <= Len(wi) THEN wi[i] ELSE t[i - Len(wi)]
  <2>1. /\ Len(wi \o t) = Len(wi) + Len(t)
        /\ \A i \in 1 .. Len(wi) + Len(t) :
             (wi \o t)[i] = IF i <= Len(wi) THEN wi[i] ELSE t[i - Len(wi)]
    BY <1>2, ConcatProperties
  <2>. QED  BY <1>2, <2>1
<1>4. /\ off \in [1 .. Len(h) + 1 -> Nat] /\ off[1] = Len(r)
      /\ \A b \in 1 .. Len(h) : off[b + 1] = off[b] + Len(h[b])
      /\ \A b, d \in 1 .. Len(h) + 1 : b <= d => off[b] <= off[d]
      /\ \A j \in 1 .. Len(r) : j <= Len(wi) => wi[j] = r[j]
      /\ \A b \in 1 .. Len(h) : \A j \in 1 .. Len(h[b]) :
           off[b] + j <= Len(wi) => wi[off[b] + j] = h[b][j]
      /\ Len(wi) = end
  BY DEF Aligned
<1>. HIDE DEF u, end
<1>5. end \in Nat /\ Len(wi) = end /\ \A b \in 1 .. Len(h) + 1 : off[b] \in Nat /\ off[b] <= end
  <2>1. Len(h) + 1 \in 1 .. Len(h) + 1 /\ \A b \in 1 .. Len(h) + 1 : b <= Len(h) + 1
    BY <1>1
  <2>2. \A b \in 1 .. Len(h) + 1 : off[b] \in Nat
    BY <1>4
  <2>. QED  BY <1>4, <2>1, <2>2 DEF end
<1>6. \A j \in 1 .. Len(r) : j <= Len(wi) /\ u[j] = r[j]
  <2>. TAKE j \in 1 .. Len(r)
  <2>1. j <= Len(wi) /\ j \in 1 .. Len(wi) + m
    BY <1>1, <1>4, <1>5
  <2>. QED  BY <1>3, <1>4, <2>1
<1>7. ASSUME NEW b \in 1 .. Len(h), NEW j \in 1 .. Len(h[b])
      PROVE  u[off[b] + j] = h[b][j]
  <2>1. b \in 1 .. Len(h) + 1 /\ b + 1 \in 1 .. Len(h) + 1 /\ Len(h[b]) \in Nat
    BY <1>1
  <2>2. off[b] \in Nat /\ off[b + 1] = off[b] + Len(h[b]) /\ off[b + 1] <= end
    BY <1>4, <1>5, <2>1
  <2>3. off[b] + j <= Len(wi) /\ off[b] + j \in 1 .. Len(wi) + m
    <3>1. PICK o \in Nat, k \in Nat, l \in Nat :
            o = off[b] /\ k = Len(h[b]) /\ l = Len(wi) /\ o + k <= l
      BY <1>1, <1>5, <2>1, <2>2
    <3>2. j \in 1 .. k
      BY <3>1
    <3>3. o + j <= l /\ o + j \in 1 .. l + m
      BY SMTT(30), <1>1, <3>1, <3>2
    <3>. QED  BY <3>1, <3>3
  <2>. QED  BY <1>3, <1>4, <2>3
<1>8. ASSUME NEW j \in 1 .. Len(w), end + j <= Len(u) PROVE u[end + j] = w[j]
  <2>1. j \in 1 .. m /\ end + j \in 1 .. Len(wi) + m /\ ~(end + j <= Len(wi)) /\ (end + j) - Len(wi) = j
    BY <1>1, <1>3, <1>4, <1>5, <1>8
  <2>. QED  BY <1>2, <1>3, <2>1
<1>9. Len(u) <= end + Len(w) /\ (p = "push" => Len(u) = end + Len(w))
  <2>1. Len(u) = end + m /\ end \in Nat
    BY <1>3, <1>5
  <2>2. Len(u) <= end + Len(w)
    <3>. HIDE DEF u, end
    <3>. QED  BY <1>1, <2>1
  <2>3. ASSUME p = "push" PROVE Len(u) = end + Len(w)
    <3>1. m = Len(w)
      BY <2>3
    <3>. QED  BY <2>1, <3>1
  <2>. QED  BY <2>2, <2>3
<1>10. p \notin {"none", "wait", "swap", "write"}
  OBVIOUS
<1>. QED  BY <1>4, <1>6, <1>7, <1>8, <1>9, <1>10 DEF Aligned, u, t, end

\* A writer hands its buffer to the reader.
LEMMA AlignPush ==
    ASSUME NEW r \in Seq(Futs), NEW h \in Seq(Seq(Futs)), NEW w \in Seq(Futs), NEW wi \in Seq(Futs),
           NEW off, NEW p \in {"push", "exit"}, Aligned(r, h, w, p, wi, off)
    PROVE  \E o : Aligned(r, Append(h, w), <<>>, IF p = "push" THEN "wait" ELSE "exit", wi, o)
<1>. DEFINE n == Len(h)
            g == Append(h, w)
            end == off[n + 1]
            o == [i \in 1 .. n + 2 |-> IF i <= n + 1 THEN off[i] ELSE end + Len(w)]
            q == IF p = "push" THEN "wait" ELSE "exit"
<1>1. Len(r) \in Nat /\ n \in Nat /\ Len(w) \in Nat /\ Len(wi) \in Nat
  OBVIOUS
<1>2. Len(g) = n + 1 /\ g[n + 1] = w /\ \A b \in 1 .. n : g[b] = h[b]
  BY AppendProperties
<1>3. /\ off \in [1 .. n + 1 -> Nat] /\ off[1] = Len(r)
      /\ \A b \in 1 .. n : off[b + 1] = off[b] + Len(h[b])
      /\ \A b, d \in 1 .. n + 1 : b <= d => off[b] <= off[d]
      /\ \A j \in 1 .. Len(r) : j <= Len(wi) => wi[j] = r[j]
      /\ \A b \in 1 .. n : \A j \in 1 .. Len(h[b]) :
           off[b] + j <= Len(wi) => wi[off[b] + j] = h[b][j]
      /\ Len(wi) <= end + Len(w)
      /\ p = "push" => Len(wi) = end + Len(w)
      /\ \A j \in 1 .. Len(w) : end + j <= Len(wi) => wi[end + j] = w[j]
  BY DEF Aligned
<1>. HIDE DEF n, g, end
<1>4. end \in Nat /\ end = off[n + 1] /\ \A b \in 1 .. n + 1 : off[b] \in Nat /\ off[b] <= end
  <2>1. n + 1 \in 1 .. n + 1 /\ \A b \in 1 .. n + 1 : b <= n + 1
    BY <1>1
  <2>2. \A b \in 1 .. n + 1 : off[b] \in Nat
    BY <1>3
  <2>. QED  BY <1>3, <2>1, <2>2 DEF end
<1>5. /\ o \in [1 .. Len(g) + 1 -> Nat] /\ \A b \in 1 .. n + 1 : o[b] = off[b]
      /\ o[n + 2] = end + Len(w)
  <2>1. Len(g) + 1 = n + 2 /\ n + 2 \in 1 .. n + 2 /\ ~(n + 2 <= n + 1) /\ end + Len(w) \in Nat
    BY <1>1, <1>2, <1>4
  <2>2. \A b \in 1 .. n + 2 : b <= n + 1 => b \in 1 .. n + 1
    BY <1>1
  <2>3. \A b \in 1 .. n + 1 : b \in 1 .. n + 2 /\ b <= n + 1
    BY <1>1
  <2>4. o \in [1 .. n + 2 -> Nat]
    BY <1>4, <2>1, <2>2
  <2>. QED  BY <2>1, <2>3, <2>4
<1>. HIDE DEF o
<1>6. o[1] = Len(r)
  BY <1>1, <1>3, <1>5
<1>7. ASSUME NEW b \in 1 .. Len(g) PROVE o[b + 1] = o[b] + Len(g[b])
  <2>1. CASE b = n + 1
    BY <1>1, <1>2, <1>4, <1>5, <2>1
  <2>2. CASE b # n + 1
    <3>1. b \in 1 .. n /\ b \in 1 .. n + 1 /\ b + 1 \in 1 .. n + 1
      BY <1>1, <1>2, <2>2
    <3>. QED  BY <1>2, <1>3, <1>5, <3>1
  <2>. QED  BY <2>1, <2>2
<1>8. ASSUME NEW b \in 1 .. Len(g) + 1, NEW d \in 1 .. Len(g) + 1, b <= d PROVE o[b] <= o[d]
  <2>1. CASE d = n + 2
    <3>1. \A a \in 1 .. n + 1 : o[a] \in Nat /\ o[a] <= end
      BY <1>4, <1>5
    <3>2. b = n + 2 \/ b \in 1 .. n + 1
      BY <1>1, <1>2
    <3>. QED  BY <1>1, <1>4, <1>5, <2>1, <3>1, <3>2
  <2>2. CASE d # n + 2
    <3>1. b \in 1 .. n + 1 /\ d \in 1 .. n + 1
      BY <1>1, <1>2, <1>8, <2>2
    <3>. QED  BY <1>3, <1>5, <1>8, <3>1
  <2>. QED  BY <2>1, <2>2
<1>9. ASSUME NEW b \in 1 .. Len(g), NEW j \in 1 .. Len(g[b]), o[b] + j <= Len(wi)
      PROVE  wi[o[b] + j] = g[b][j]
  <2>1. CASE b = n + 1
    <3>1. o[b] = end /\ g[b] = w
      BY <1>1, <1>2, <1>4, <1>5, <2>1
    <3>. QED  BY <1>3, <1>9, <3>1
  <2>2. CASE b # n + 1
    <3>1. b \in 1 .. n /\ b \in 1 .. n + 1
      BY <1>1, <1>2, <2>2
    <3>. QED  BY <1>2, <1>3, <1>5, <1>9, <3>1
  <2>. QED  BY <2>1, <2>2
<1>10. o[Len(g) + 1] = end + Len(w) /\ Len(<<>>) = 0
  BY <1>1, <1>2, <1>5
<1>11. /\ Len(wi) <= o[Len(g) + 1] + Len(<<>>)
       /\ q \in {"none", "wait", "swap", "write"} => Len(wi) = o[Len(g) + 1]
       /\ q # "push"
       /\ \A j \in 1 .. Len(<<>>) : o[Len(g) + 1] + j <= Len(wi) => wi[o[Len(g) + 1] + j] = <<>>[j]
  BY <1>1, <1>3, <1>4, <1>10
<1>. HIDE DEF q
<1>12. Aligned(r, g, <<>>, q, wi, o)
  BY <1>3, <1>5, <1>6, <1>7, <1>8, <1>9, <1>11 DEF Aligned
<1>. QED  BY <1>12 DEF g, q

\* A reply is read for a command the reader has left ...
LEMMA AlignReply ==
    ASSUME NEW r \in Seq(Futs), NEW h \in Seq(Seq(Futs)), NEW w \in Seq(Futs), NEW wi \in Seq(Futs),
           NEW off, NEW p, Aligned(r, h, w, p, wi, off), r # <<>>, wi # <<>>
    PROVE  /\ Head(wi) = Head(r)
           /\ \E o : Aligned(Tail(r), h, w, p, Tail(wi), o)
<1>. DEFINE n == Len(h)
            s == Tail(r)
            u == Tail(wi)
            o == [i \in 1 .. n + 1 |-> off[i] - 1]
<1>1. Len(r) \in Nat /\ Len(r) >= 1 /\ n \in Nat /\ Len(w) \in Nat /\ Len(wi) \in Nat /\ Len(wi) >= 1
  OBVIOUS
<1>2. /\ s \in Seq(Futs) /\ Len(s) = Len(r) - 1 /\ \A i \in 1 .. Len(s) : s[i] = r[i + 1]
      /\ u \in Seq(Futs) /\ Len(u) = Len(wi) - 1 /\ \A i \in 1 .. Len(u) : u[i] = wi[i + 1]
  BY HeadTailProperties
<1>3. /\ off \in [1 .. n + 1 -> Nat] /\ off[1] = Len(r)
      /\ \A b \in 1 .. n : off[b + 1] = off[b] + Len(h[b])
      /\ \A b, d \in 1 .. n + 1 : b <= d => off[b] <= off[d]
      /\ \A j \in 1 .. Len(r) : j <= Len(wi) => wi[j] = r[j]
      /\ \A b \in 1 .. n : \A j \in 1 .. Len(h[b]) :
           off[b] + j <= Len(wi) => wi[off[b] + j] = h[b][j]
      /\ Len(wi) <= off[n + 1] + Len(w)
      /\ p \in {"none", "wait", "swap", "write"} => Len(wi) = off[n + 1]
      /\ p = "push" => Len(wi) = off[n + 1] + Len(w)
      /\ p \in {"push", "exit"} =>
           \A j \in 1 .. Len(w) : off[n + 1] + j <= Len(wi) => wi[off[n + 1] + j] = w[j]
  BY DEF Aligned
<1>4. Head(wi) = Head(r)
  BY <1>1, <1>3
<1>. HIDE DEF n, s, u
<1>5. \A b \in 1 .. n + 1 : off[b] \in Nat /\ off[b] >= 1
  BY <1>1, <1>3
<1>6. o \in [1 .. n + 1 -> Nat] /\ \A b \in 1 .. n + 1 : o[b] = off[b] - 1
  BY <1>5
<1>. HIDE DEF o
<1>7. o[1] = Len(s)
  BY <1>1, <1>2, <1>3, <1>6
<1>8. ASSUME NEW b \in 1 .. n PROVE o[b + 1] = o[b] + Len(h[b])
  <2>1. b \in 1 .. n + 1 /\ b + 1 \in 1 .. n + 1 /\ Len(h[b]) \in Nat
    BY <1>1 DEF n
  <2>. QED  BY <1>3, <1>5, <1>6, <2>1
<1>9. \A b, d \in 1 .. n + 1 : b <= d => o[b] <= o[d]
  BY <1>3, <1>5, <1>6
<1>10. \A i \in Nat : i >= 1 /\ i <= Len(u) => u[i] = wi[i + 1]
  BY <1>1, <1>2
<1>11. ASSUME NEW j \in 1 .. Len(s), j <= Len(u) PROVE u[j] = s[j]
  <2>1. j + 1 \in 1 .. Len(r) /\ j + 1 <= Len(wi) /\ j \in 1 .. Len(u)
    BY <1>1, <1>2, <1>11
  <2>. QED  BY <1>2, <1>3, <2>1
<1>12. ASSUME NEW b \in 1 .. n, NEW j \in 1 .. Len(h[b]), o[b] + j <= Len(u)
       PROVE  u[o[b] + j] = h[b][j]
  <2>1. b \in 1 .. n + 1 /\ Len(h[b]) \in Nat
    BY <1>1 DEF n
  <2>2. o[b] = off[b] - 1 /\ off[b] \in Nat /\ off[b] >= 1
    BY <1>5, <1>6, <2>1
  <2>3. Len(u) = Len(wi) - 1 /\ j \in Nat /\ j >= 1
    BY <1>2, <2>1
  <2>4. o[b] + j \in Nat /\ o[b] + j >= 1 /\ (o[b] + j) + 1 = off[b] + j /\ off[b] + j <= Len(wi)
    BY SMTT(30), <1>1, <1>12, <2>2, <2>3
  <2>5. u[o[b] + j] = wi[(o[b] + j) + 1]
    BY <1>10, <1>12, <2>4
  <2>. QED  BY <1>3, <2>4, <2>5
<1>13. /\ n + 1 \in 1 .. n + 1 /\ o[n + 1] = off[n + 1] - 1 /\ off[n + 1] \in Nat
       /\ Len(u) <= o[n + 1] + Len(w)
       /\ p \in {"none", "wait", "swap", "write"} => Len(u) = o[n + 1]
       /\ p = "push" => Len(u) = o[n + 1] + Len(w)
  BY SMTT(30), <1>1, <1>2, <1>3, <1>5, <1>6
<1>14. ASSUME p \in {"push", "exit"}, NEW j \in 1 .. Len(w), o[n + 1] + j <= Len(u)
       PROVE  u[o[n + 1] + j] = w[j]
  <2>1. /\ o[n + 1] + j \in Nat /\ o[n + 1] + j >= 1 /\ (o[n + 1] + j) + 1 = off[n + 1] + j
        /\ off[n + 1] + j <= Len(wi)
    BY SMTT(30), <1>1, <1>2, <1>5, <1>13, <1>14
  <2>. QED  BY <1>3, <1>10, <1>14, <2>1
<1>15. Aligned(s, h, w, p, u, o)
  BY <1>6, <1>7, <1>8, <1>9, <1>11, <1>12, <1>13, <1>14 DEF Aligned, n
<1>. QED  BY <1>4, <1>15 DEF s, u

\* ... or for the first one of the next batch.
LEMMA AlignFetch ==
    ASSUME NEW h \in Seq(Seq(Futs)), NEW w \in Seq(Futs), NEW wi \in Seq(Futs),
           NEW off, NEW p, Aligned(<<>>, h, w, p, wi, off), wi # <<>>, h # <<>>, Head(h) # <<>>
    PROVE  /\ Head(wi) = Head(Head(h))
           /\ \E o : Aligned(Tail(Head(h)), Tail(h), w, p, Tail(wi), o)
<1>. DEFINE n == Len(h)
            a == Head(h)
            s == Tail(a)
            g == Tail(h)
            u == Tail(wi)
            o == [i \in 1 .. n |-> off[i + 1] - 1]
<1>0. n \in Nat /\ n >= 1 /\ Len(w) \in Nat /\ Len(wi) \in Nat /\ Len(wi) >= 1
  OBVIOUS
<1>1. /\ n \in Nat /\ n >= 1 /\ Len(w) \in Nat /\ Len(wi) \in Nat /\ Len(wi) >= 1
      /\ a \in Seq(Futs) /\ a = h[1]
  OBVIOUS
<1>2. /\ g \in Seq(Seq(Futs)) /\ Len(g) = n - 1 /\ \A b \in 1 .. n - 1 : g[b] = h[b + 1]
      /\ u \in Seq(Futs) /\ Len(u) = Len(wi) - 1 /\ \A i \in 1 .. Len(wi) - 1 : u[i] = wi[i + 1]
  BY <1>1, HeadTailProperties
<1>3. /\ off \in [1 .. n + 1 -> Nat] /\ off[1] = 0
      /\ \A b \in 1 .. n : off[b + 1] = off[b] + Len(h[b])
      /\ \A b, d \in 1 .. n + 1 : b <= d => off[b] <= off[d]
      /\ \A b \in 1 .. n : \A j \in 1 .. Len(h[b]) :
           off[b] + j <= Len(wi) => wi[off[b] + j] = h[b][j]
      /\ Len(wi) <= off[n + 1] + Len(w)
      /\ p \in {"none", "wait", "swap", "write"} => Len(wi) = off[n + 1]
      /\ p = "push" => Len(wi) = off[n + 1] + Len(w)
      /\ p \in {"push", "exit"} =>
           \A j \in 1 .. Len(w) : off[n + 1] + j <= Len(wi) => wi[off[n + 1] + j] = w[j]
  BY DEF Aligned
<1>. HIDE DEF n, a, g, u
<1>4. /\ Len(a) \in Nat /\ Len(a) >= 1 /\ s \in Seq(Futs) /\ Len(s) = Len(a) - 1
      /\ \A i \in 1 .. Len(a) - 1 : s[i] = a[i + 1]
      /\ Head(a) = a[1] /\ Head(wi) = wi[1]
  <2>1. a # <<>>
    BY DEF a
  <2>2. Head(wi) = wi[1]
    BY <1>1
  <2>. QED  BY <1>1, <2>1, <2>2, HeadTailProperties
<1>. HIDE DEF s
<1>5. 1 \in 1 .. n /\ 1 + 1 = 2 /\ 2 \in 1 .. n + 1 /\ \A b \in 1 .. n : b + 1 \in 1 .. n + 1 /\ 2 <= b + 1
  BY <1>1
<1>6. off[2] = Len(a)
  <2>1. off[1 + 1] = off[1] + Len(h[1])
    BY <1>3, <1>5
  <2>. QED  BY <1>1, <1>3, <1>4, <1>5, <2>1
<1>7. \A b \in 1 .. n : off[b + 1] \in Nat /\ off[b + 1] >= 1
  <2>. TAKE b \in 1 .. n
  <2>1. off[2] <= off[b + 1] /\ off[b + 1] \in Nat
    BY <1>3, <1>5
  <2>. QED  BY <1>4, <1>6, <2>1
<1>8. o \in [1 .. n -> Nat] /\ \A b \in 1 .. n : o[b] = off[b + 1] - 1
  BY <1>7
<1>. HIDE DEF o
<1>9. \A j \in 1 .. Len(a) : j <= Len(wi) => wi[j] = a[j]
  <2>. TAKE j \in 1 .. Len(a)
  <2>1. off[1] + j <= Len(wi) => wi[off[1] + j] = h[1][j]
    BY <1>1, <1>3, <1>5
  <2>. QED  BY <1>1, <1>3, <1>4, <2>1
<1>10. Head(wi) = Head(a)
  <2>1. 1 \in 1 .. Len(a) /\ 1 <= Len(wi)
    BY <1>1, <1>4
  <2>. QED  BY <1>4, <1>9, <2>1
<1>11. o[1] = Len(s)
  BY <1>4, <1>5, <1>6, <1>8
<1>12. Len(g) + 1 = n
  BY <1>1, <1>2
<1>13. ASSUME NEW b \in 1 .. Len(g) PROVE o[b + 1] = o[b] + Len(g[b])
  <2>1. b \in 1 .. n - 1 /\ b \in 1 .. n /\ b + 1 \in 1 .. n
    BY <1>1, <1>2
  <2>2. off[(b + 1) + 1] = off[b + 1] + Len(h[b + 1]) /\ Len(h[b + 1]) \in Nat
    BY <1>3, <2>1 DEF n
  <2>3. g[b] = h[b + 1] /\ o[b] = off[b + 1] - 1 /\ o[b + 1] = off[(b + 1) + 1] - 1
    BY <1>2, <1>8, <2>1
  <2>4. off[b + 1] \in Nat /\ off[(b + 1) + 1] \in Nat
    BY <1>7, <2>1
  <2>5. Len(g[b]) = Len(h[b + 1])
    BY <2>3
  <2>. DEFINE x == off[b + 1]
              y == off[(b + 1) + 1]
              z == Len(h[b + 1])
  <2>6. x \in Nat /\ y \in Nat /\ z \in Nat /\ y = x + z
    BY <2>2, <2>4
  <2>7. o[b] = x - 1 /\ o[b + 1] = y - 1 /\ Len(g[b]) = z
    BY <2>3, <2>5
  <2>. HIDE DEF x, y, z
  <2>8. y - 1 = (x - 1) + z
    BY <2>6
  <2>. QED  BY <2>7, <2>8
<1>14. ASSUME NEW b \in 1 .. n, NEW d \in 1 .. n, b <= d PROVE o[b] <= o[d]
  <2>1. b + 1 <= d + 1 /\ b + 1 \in 1 .. n + 1 /\ d + 1 \in 1 .. n + 1
    BY <1>5, <1>14
  <2>2. off[b + 1] <= off[d + 1]
    BY <1>3, <2>1
  <2>. QED  BY <1>7, <1>8, <2>2
<1>15. \A i \in Nat : i >= 1 /\ i <= Len(u) => u[i] = wi[i + 1]
  BY <1>1, <1>2
<1>16. ASSUME NEW j \in 1 .. Len(s), j <= Len(u) PROVE u[j] = s[j]
  <2>1. j + 1 \in 1 .. Len(a) /\ j + 1 <= Len(wi) /\ j \in 1 .. Len(wi) - 1 /\ j \in 1 .. Len(a) - 1
    BY <1>1, <1>2, <1>4, <1>16
  <2>. QED  BY <1>2, <1>4, <1>9, <2>1
<1>17. ASSUME NEW b \in 1 .. Len(g), NEW j \in 1 .. Len(g[b]), o[b] + j <= Len(u)
       PROVE  u[o[b] + j] = g[b][j]
  <2>1. b \in 1 .. n - 1 /\ b \in 1 .. n /\ b + 1 \in 1 .. n
    BY <1>1, <1>2
  <2>2. g[b] = h[b + 1] /\ o[b] = off[b + 1] - 1 /\ off[b + 1] \in Nat /\ off[b + 1] >= 1
    BY <1>2, <1>7, <1>8, <2>1
  <2>3. j \in Nat /\ j >= 1 /\ j \in 1 .. Len(h[b + 1]) /\ Len(u) = Len(wi) - 1
    BY <1>2, <2>1, <2>2
  <2>4. /\ o[b] + j \in Nat /\ o[b] + j >= 1 /\ (o[b] + j) + 1 = off[b + 1] + j
        /\ off[b + 1] + j <= Len(wi)
    <3>. DEFINE x == off[b + 1]
                y == Len(wi)
    <3>1. x \in Nat /\ x >= 1 /\ y \in Nat /\ j \in Nat /\ j >= 1 /\ o[b] = x - 1 /\ Len(u) = y - 1
      BY <1>0, <2>2, <2>3
    <3>2. (x - 1) + j <= y - 1
      BY <1>17, <3>1
    <3>. HIDE DEF x, y
    <3>3. (x - 1) + j \in Nat /\ (x - 1) + j >= 1 /\ ((x - 1) + j) + 1 = x + j /\ x + j <= y
      BY <3>1, <3>2
    <3>. QED  BY <3>1, <3>3 DEF x, y
  <2>5. u[o[b] + j] = wi[(o[b] + j) + 1]
    BY <1>15, <1>17, <2>4
  <2>6. wi[off[b + 1] + j] = h[b + 1][j]
    BY <1>3, <2>1, <2>3, <2>4
  <2>. QED  BY <2>2, <2>4, <2>5, <2>6
<1>18. o[n] = off[n + 1] - 1 /\ off[n + 1] \in Nat /\ off[n + 1] >= 1 /\ Len(u) = Len(wi) - 1
  <2>1. n \in 1 .. n
    BY <1>1
  <2>. QED  BY <1>2, <1>7, <1>8, <2>1
<1>19. /\ Len(u) <= o[n] + Len(w)
       /\ p \in {"none", "wait", "swap", "write"} => Len(u) = o[n]
       /\ p = "push" => Len(u) = o[n] + Len(w)
  <2>1. /\ Len(wi) <= off[n + 1] + Len(w)
        /\ p \in {"none", "wait", "swap", "write"} => Len(wi) = off[n + 1]
        /\ p = "push" => Len(wi) = off[n + 1] + Len(w)
    BY <1>3
  <2>. QED  BY SMTT(30), <1>0, <1>18, <2>1
<1>20. ASSUME p \in {"push", "exit"}, NEW j \in 1 .. Len(w), o[n] + j <= Len(u)
       PROVE  u[o[n] + j] = w[j]
  <2>1. /\ o[n] + j \in Nat /\ o[n] + j >= 1 /\ (o[n] + j) + 1 = off[n + 1] + j
        /\ off[n + 1] + j <= Len(wi)
    BY SMTT(30), <1>0, <1>18, <1>20
  <2>2. u[o[n] + j] = wi[(o[n] + j) + 1]
    BY <1>15, <1>20, <2>1
  <2>. QED  BY <1>3, <1>20, <2>1, <2>2
<1>21. Aligned(s, g, w, p, u, o)
  BY <1>8, <1>11, <1>12, <1>13, <1>14, <1>16, <1>17, <1>19, <1>20 DEF Aligned
<1>. QED  BY <1>10, <1>21 DEF s, g, u, a

\* While replies are read the wire agrees with the requests under way.
WireAligned(e) == \E off : Aligned(rfut[e], chan[e], wfut[e], wpc[e], wire[e], off)
WireInv == \A e \in Epochs : rpc[e] \in {"none", "read", "fetch"} => WireAligned(e)

\* A writer that moves without writing or pushing.
LEMMA AlignMove ==
    ASSUME NEW r, NEW h, NEW w, NEW p, NEW wi, NEW v \in Seq(Futs), NEW q,
           NEW off, Aligned(r, h, w, p, wi, off), off[Len(h) + 1] \in Nat,
           \/ p \in {"none", "wait", "swap"} /\ q \in {"wait", "swap", "write"}
           \/ p \in {"wait", "exit"} /\ q \in {"exit", "done"} /\ w = <<>> /\ v = <<>>
    PROVE  Aligned(r, h, v, q, wi, off)
<1>1. Len(v) \in Nat /\ (v = <<>> => Len(v) = 0)
  OBVIOUS
<1>2. /\ p \in {"none", "wait", "swap", "write"} => Len(wi) = off[Len(h) + 1]
      /\ Len(wi) <= off[Len(h) + 1] + Len(w)
  BY DEF Aligned
<1>3. Len(wi) <= off[Len(h) + 1] + Len(v)
  BY <1>1, <1>2
<1>4. q \in {"push", "exit"} => \A j \in 1 .. Len(v) :
         off[Len(h) + 1] + j <= Len(wi) => wi[off[Len(h) + 1] + j] = v[j]
  BY <1>1
<1>5. q # "push" /\ (q \in {"none", "wait", "swap", "write"} => Len(wi) = off[Len(h) + 1])
  BY <1>2
<1>. QED  BY <1>3, <1>4, <1>5 DEF Aligned

\* The end of the last batch is a position.
LEMMA AlignEnd ==
    ASSUME NEW r, NEW h \in Seq(Seq(Futs)), NEW w, NEW p, NEW wi, NEW off, Aligned(r, h, w, p, wi, off)
    PROVE  off[Len(h) + 1] \in Nat
<1>1. Len(h) \in Nat /\ off \in [1 .. Len(h) + 1 -> Nat]
  BY DEF Aligned
<1>2. Len(h) + 1 \in 1 .. Len(h) + 1
  BY <1>1
<1>. QED  BY <1>1, <1>2

\* Steps of epoch e leave the sockets of other epochs alone.
LEMMA WireOne ==
    ASSUME WireInv, NEW e \in Epochs,
           \A d \in Epochs \ {e} : /\ rfut'[d] = rfut[d] /\ chan'[d] = chan[d] /\ wfut'[d] = wfut[d]
                                   /\ wpc'[d] = wpc[d] /\ wire'[d] = wire[d] /\ rpc'[d] = rpc[d],
           rpc'[e] \in {"none", "read", "fetch"} =>
               \E off : Aligned(rfut'[e], chan'[e], wfut'[e], wpc'[e], wire'[e], off)
    PROVE  WireInv'
BY DEF WireInv, WireAligned

\* The writer keeps the wire aligned.
LEMMA WireWriter ==
    ASSUME FutureInv, WireInv, NEW e \in Epochs, WriterStep(e) \/ WriteOk(e)
    PROVE  WireInv'
<1>. USE DEF queueVars, readerVars
<1>. DEFINE Same == /\ UNCHANGED <<rfut, rpc>>
                    /\ \A d \in Epochs \ {e} : /\ wfut'[d] = wfut[d] /\ chan'[d] = chan[d]
                                               /\ wpc'[d] = wpc[d] /\ wire'[d] = wire[d]
<1>0. TypeOK /\ BuffersInv
  BY DEF FutureInv, TypeInv
<1>1. /\ rfut[e] \in Seq(Futs) /\ chan[e] \in Seq(Seq(Futs)) /\ wfut[e] \in Seq(Futs)
      /\ wire[e] \in Seq(Futs) /\ futures \in Seq(Futs)
  BY <1>0 DEF TypeOK
<1>2. SUFFICES ASSUME rpc'[e] \in {"none", "read", "fetch"}
               PROVE  Same /\ \E off : Aligned(rfut'[e], chan'[e], wfut'[e], wpc'[e], wire'[e], off)
  <2>1. Same
    BY <1>0
    DEF WriterStep, WriterWake, WriterStop, WriterSwap, WriteFail, WriterPush, WriterClose, WriteOk,
        TypeOK
  <2>. QED  BY <2>1, WireOne
<1>3. Same
  BY <1>0
  DEF WriterStep, WriterWake, WriterStop, WriterSwap, WriteFail, WriterPush, WriterClose, WriteOk,
      TypeOK
<1>4. PICK off : Aligned(rfut[e], chan[e], wfut[e], wpc[e], wire[e], off)
  BY <1>2, <1>3 DEF WireInv, WireAligned
<1>5. off[Len(chan[e]) + 1] \in Nat
  BY <1>1, <1>4, AlignEnd
<1>. HIDE DEF Same
<1>6. CASE WriterWake(e) \/ WriterStop(e) \/ WriterSwap(e) \/ WriterClose(e)
  <2>1. UNCHANGED <<rfut, chan, wire>>
    BY <1>6 DEF WriterWake, WriterStop, WriterSwap, WriterClose
  <2>2. wfut'[e] \in Seq(Futs)
    BY <1>0, <1>1, <1>6 DEF WriterWake, WriterStop, WriterSwap, WriterClose, TypeOK
  <2>3. \/ wpc[e] \in {"none", "wait", "swap"} /\ wpc'[e] \in {"wait", "swap", "write"}
        \/ wpc[e] \in {"wait", "exit"} /\ wpc'[e] \in {"exit", "done"} /\ wfut[e] = <<>> /\ wfut'[e] = <<>>
    BY <1>0, <1>6 DEF WriterWake, WriterStop, WriterSwap, WriterClose, TypeOK, BuffersInv
  <2>4. Aligned(rfut[e], chan[e], wfut'[e], wpc'[e], wire[e], off)
    BY <1>4, <1>5, <2>2, <2>3, AlignMove
  <2>. QED  BY <1>3, <2>1, <2>4
<1>7. CASE WriteOk(e)
  <2>1. /\ UNCHANGED <<rfut, chan, wfut>> /\ wpc[e] = "write" /\ wpc'[e] = "push"
        /\ wire'[e] = wire[e] \o wfut[e]
    BY <1>0, <1>7 DEF WriteOk, TypeOK
  <2>2. SubSeq(wfut[e], 1, Len(wfut[e])) = wfut[e] /\ Len(wfut[e]) \in 0 .. Len(wfut[e])
    BY <1>1
  <2>3. Aligned(rfut[e], chan[e], wfut[e], "push", wire[e] \o SubSeq(wfut[e], 1, Len(wfut[e])), off)
    BY <1>1, <1>4, <2>1, <2>2, AlignWrite
  <2>. QED  BY <1>3, <2>1, <2>2, <2>3
<1>8. CASE WriteFail(e)
  <2>1. UNCHANGED <<rfut, chan, wfut>> /\ wpc[e] = "write" /\ wpc'[e] = "exit"
    BY <1>0, <1>8 DEF WriteFail, TypeOK
  <2>2. PICK m \in 0 .. Len(wfut[e]) : wire'[e] = wire[e] \o SubSeq(wfut[e], 1, m)
    BY <1>0, <1>8 DEF WriteFail, TypeOK
  <2>3. Aligned(rfut[e], chan[e], wfut[e], "exit", wire[e] \o SubSeq(wfut[e], 1, m), off)
    BY <1>1, <1>4, <2>1, AlignWrite
  <2>. QED  BY <1>3, <2>1, <2>2, <2>3
<1>9. CASE WriterPush(e)
  <2>1. /\ UNCHANGED <<rfut, wire>> /\ wpc[e] \in {"push", "exit"} /\ wfut'[e] = <<>>
        /\ wpc'[e] = (IF wpc[e] = "push" THEN "wait" ELSE "exit")
        /\ chan'[e] = Append(chan[e], wfut[e])
    BY <1>0, <1>9 DEF WriterPush, Pushed, TypeOK
  <2>2. \E o : Aligned(rfut[e], Append(chan[e], wfut[e]), <<>>,
                       IF wpc[e] = "push" THEN "wait" ELSE "exit", wire[e], o)
    BY <1>1, <1>4, <2>1, AlignPush
  <2>. QED  BY <1>3, <2>1, <2>2
<1>. QED  BY <1>6, <1>7, <1>8, <1>9 DEF WriterStep

\* So does the reader, and it resolves a command with the reply to it.
LEMMA WireReader ==
    ASSUME FutureInv, WireInv, NEW e \in Epochs, ReadReply(e) \/ ReadFail(e) \/ ReaderStep(e)
    PROVE  /\ WireInv'
           /\ \/ res' = res
              \/ \E f \in Futs : \E kind \in AnswerKinds : res' = Reply(f, f, kind)
              \/ \E fs, kind : res' = Errors(fs, kind)
<1>. USE DEF queueVars, writerVars
<1>0. TypeOK /\ BuffersInv /\ BatchInv
  BY DEF FutureInv, TypeInv
<1>1. /\ rfut[e] \in Seq(Futs) /\ chan[e] \in Seq(Seq(Futs)) /\ wfut[e] \in Seq(Futs)
      /\ wire[e] \in Seq(Futs)
  BY <1>0 DEF TypeOK
<1>2. /\ UNCHANGED <<wfut, wpc>>
      /\ \A d \in Epochs \ {e} : /\ rfut'[d] = rfut[d] /\ chan'[d] = chan[d]
                                 /\ rpc'[d] = rpc[d] /\ wire'[d] = wire[d]
  BY <1>0 DEF ReadReply, ReadFail, ReaderStep, ReaderFetch, ReaderFail, ReaderDrain, ReaderDone,
              readerVars, TypeOK
<1>3. ASSUME rpc'[e] \notin {"none", "read", "fetch"} PROVE WireInv'
  BY <1>2, <1>3, WireOne
<1>4. CASE ReadFail(e) \/ ReaderFail(e) \/ ReaderDrain(e) \/ ReaderDone(e)
  <2>1. rpc'[e] \notin {"none", "read", "fetch"}
    BY <1>0, <1>4 DEF ReadFail, ReaderFail, ReaderDrain, ReaderDone, readerVars, TypeOK
  <2>2. res' = res \/ \E fs, kind : res' = Errors(fs, kind)
    BY <1>4 DEF ReadFail, ReaderFail, ReaderDrain, ReaderDone
  <2>. QED  BY <1>3, <2>1, <2>2
<1>5. CASE ReadReply(e) /\ rfut[e] = <<>>
  <2>1. UNCHANGED <<rfut, chan, wire, res>> /\ rpc[e] = "read"
    BY <1>5 DEF ReadReply
  <2>2. \E off : Aligned(rfut[e], chan[e], wfut[e], wpc[e], wire[e], off)
    BY <2>1 DEF WireInv, WireAligned
  <2>3. WireInv'
    BY <1>2, <2>1, <2>2, WireOne
  <2>. QED  BY <2>1, <2>3
<1>6. CASE ReadReply(e) /\ rfut[e] # <<>>
  <2>1. /\ rpc[e] = "read" /\ wire[e] # <<>> /\ chan' = chan
        /\ rfut'[e] = Tail(rfut[e]) /\ wire'[e] = Tail(wire[e])
        /\ \E kind \in AnswerKinds : res' = Reply(Head(rfut[e]), Head(wire[e]), kind)
    BY <1>0, <1>6 DEF ReadReply, Rest, TypeOK
  <2>2. PICK off : Aligned(rfut[e], chan[e], wfut[e], wpc[e], wire[e], off)
    BY <2>1 DEF WireInv, WireAligned
  <2>3. /\ Head(wire[e]) = Head(rfut[e])
        /\ \E o : Aligned(Tail(rfut[e]), chan[e], wfut[e], wpc[e], Tail(wire[e]), o)
    BY <1>1, <1>6, <2>1, <2>2, AlignReply
  <2>4. WireInv'
    BY <1>2, <2>1, <2>3, WireOne
  <2>5. Head(rfut[e]) \in Futs
    BY <1>1, <1>6
  <2>. QED  BY <2>1, <2>3, <2>4, <2>5
<1>7. CASE ReaderFetch(e)
  <2>1. /\ rpc[e] = "fetch" /\ chan[e] # <<>> /\ rfut[e] = <<>> /\ wire[e] # <<>>
        /\ rfut'[e] = Tail(Head(chan[e])) /\ wire'[e] = Tail(wire[e]) /\ chan'[e] = Tail(chan[e])
        /\ \E kind \in AnswerKinds : res' = Reply(Head(Head(chan[e])), Head(wire[e]), kind)
    BY <1>0, <1>7 DEF ReaderFetch, Rest, TypeOK, BuffersInv, BatchInv
  <2>2. PICK off : Aligned(<<>>, chan[e], wfut[e], wpc[e], wire[e], off)
    BY <2>1 DEF WireInv, WireAligned
  <2>3. Head(chan[e]) # <<>> /\ Head(chan[e]) \in Seq(Futs)
    <3>1. Len(chan[e]) \in Nat /\ Len(chan[e]) >= 1 /\ Head(chan[e]) = chan[e][1] /\ chan[e][1] \in Seq(Futs)
      BY <1>1, <2>1
    <3>2. 1 \in 1 .. Len(chan[e])
      BY <3>1
    <3>. QED  BY <1>0, <3>1, <3>2 DEF BatchInv
  <2>4. /\ Head(wire[e]) = Head(Head(chan[e]))
        /\ \E o : Aligned(Tail(Head(chan[e])), Tail(chan[e]), wfut[e], wpc[e], Tail(wire[e]), o)
    BY <1>1, <2>1, <2>2, <2>3, AlignFetch
  <2>5. WireInv'
    BY <1>2, <2>1, <2>4, WireOne
  <2>6. Head(Head(chan[e])) \in Futs
    BY <2>3
  <2>. QED  BY <2>1, <2>4, <2>5, <2>6
<1>. QED  BY <1>4, <1>5, <1>6, <1>7 DEF ReaderStep

\* Results that come with their own future.
LEMMA OwnResults ==
    ASSUME TypeOK, RightReply,
           \/ res' = res
           \/ \E f \in Futs : \E kind \in AnswerKinds : res' = Reply(f, f, kind)
           \/ \E fs, kind : res' = Errors(fs, kind)
    PROVE  RightReply'
<1>. SUFFICES ASSUME NEW f \in Futs, NEW i \in DOMAIN res'[f]
              PROVE  res'[f][i].of = f
  BY DEF RightReply
<1>1. res[f] \in Seq(Results) /\ \A j \in DOMAIN res[f] : res[f][j].of = f
  BY DEF TypeOK, RightReply
<1>2. res'[f] = res[f] \/ \E kind : res'[f] = Append(res[f], [kind |-> kind, of |-> f])
  <2>1. ASSUME NEW g \in Futs, NEW kind, res' = Reply(g, g, kind)
        PROVE  res'[f] = res[f] \/ res'[f] = Append(res[f], [kind |-> kind, of |-> f])
    BY <2>1 DEF TypeOK, Reply
  <2>2. ASSUME NEW fs, NEW kind, res' = Errors(fs, kind)
        PROVE  res'[f] = res[f] \/ res'[f] = Append(res[f], [kind |-> kind, of |-> f])
    BY <2>2 DEF Errors
  <2>. QED  BY <2>1, <2>2
<1>3. CASE res'[f] = res[f]
  BY <1>1, <1>3
<1>4. ASSUME NEW kind, res'[f] = Append(res[f], [kind |-> kind, of |-> f])
      PROVE  res'[f][i].of = f
  <2>. DEFINE r == [kind |-> kind, of |-> f]
  <2>1. r.of = f
    OBVIOUS
  <2>2. res'[f] = Append(res[f], r)
    BY <1>4
  <2>. HIDE DEF r
  <2>3. /\ Len(res[f]) \in Nat /\ DOMAIN res[f] = 1 .. Len(res[f])
        /\ DOMAIN Append(res[f], r) = 1 .. Len(res[f]) + 1
        /\ \A j \in 1 .. Len(res[f]) + 1 :
             Append(res[f], r)[j] = IF j <= Len(res[f]) THEN res[f][j] ELSE r
    BY <1>1
  <2>4. i \in 1 .. Len(res[f]) + 1
    BY <2>2, <2>3
  <2>5. CASE i <= Len(res[f])
    <3>1. i \in DOMAIN res[f] /\ res'[f][i] = res[f][i]
      BY <2>2, <2>3, <2>4, <2>5
    <3>. QED  BY <1>1, <3>1
  <2>6. CASE ~(i <= Len(res[f]))
    BY <2>1, <2>2, <2>3, <2>4, <2>6
  <2>. QED  BY <2>5, <2>6
<1>. QED  BY <1>2, <1>3, <1>4

\* Every step keeps the wire aligned and the results right.
LEMMA WireStep ==
    ASSUME FutureInv, WireInv, RightReply, [Next]_vars
    PROVE  WireInv' /\ RightReply'
<1>. USE DEF procVars, queueVars, ioVars, sockVars, writerVars, readerVars, callVars, dataVars
<1>0. TypeOK /\ BuffersInv /\ CallsInv
  BY DEF FutureInv, TypeInv
<1>1. ASSUME UNCHANGED <<rfut, chan, wfut, wpc, wire, rpc>> PROVE WireInv'
  BY <1>1 DEF WireInv, WireAligned
<1>2. res' = res => RightReply'
  BY DEF RightReply
<1>3. CASE UNCHANGED vars
  BY <1>1, <1>2, <1>3 DEF vars
<1>4. ASSUME NEW k \in AllCalls, SendRejected(k) \/ SendEmpty(k) \/ Send(k) \/ ControlTick(k)
      PROVE  WireInv' /\ RightReply'
  <2>1. UNCHANGED <<rfut, chan, wfut, wpc, wire, rpc>>
    BY <1>4 DEF SendRejected, SendEmpty, Send, ControlTick
  <2>2. res' = res \/ \E fs, kind : res' = Errors(fs, kind)
    <3>1. CASE SendRejected(k)
      BY <3>1 DEF SendRejected
    <3>2. CASE SendEmpty(k)
      <4>1. res' = Errors(ChunkFuts(k, 0), "empty")
        BY <3>2 DEF SendEmpty, Errors
      <4>. QED  BY <4>1
    <3>3. CASE Send(k) \/ ControlTick(k)
      BY <3>3 DEF Send, ControlTick, SendRefused, SendQueued
    <3>. QED  BY <1>4, <3>1, <3>2, <3>3
  <2>. QED  BY <1>0, <1>1, <2>1, <2>2, OwnResults
<1>5. ASSUME \/ Close \/ TimerFire \/ ConnectError \/ ConnectWait \/ ControlDone \/ ControlPong
             \/ Stopped
      PROVE  WireInv' /\ RightReply'
  BY <1>1, <1>2, <1>5
  DEF Close, TimerFire, ConnectError, ConnectWait, ControlDone, ControlPong, Stopped, vars
<1>6. ASSUME NEW p \in Procs,
             \/ CreateLoop(p) \/ DialTCP(p) \/ CreateOk(p) \/ CreateReport(p) \/ CreateFail(p)
             \/ SetupFail(p) \/ Lock(p) \/ CloseState(p) \/ CloseSocket(p)
      PROVE  WireInv' /\ RightReply'
  BY <1>1, <1>2, <1>6
  DEF CreateLoop, DialTCP, CreateOk, CreateReport, CreateFail, SetupFail, Lock, CloseState,
      CloseSocket
<1>7. ASSUME NEW p \in Procs, CreateDrop(p) \/ CloseDrop(p)
      PROVE  WireInv' /\ RightReply'
  <2>1. UNCHANGED <<rfut, chan, wfut, wpc, wire, rpc>> /\ \E fs, kind : res' = Errors(fs, kind)
    BY <1>7 DEF CreateDrop, CloseDrop, DropFutures
  <2>. QED  BY <1>0, <1>1, <2>1, OwnResults
<1>8. ASSUME NEW p \in Procs, SetupOk(p) PROVE WireInv' /\ RightReply'
  <2>. DEFINE e == conns + 1
  <2>1. /\ e \in Epochs /\ e > conns /\ UNCHANGED <<rfut, chan, wfut, wire, res>>
        /\ wpc' = [wpc EXCEPT ![e] = "wait"] /\ rpc' = [rpc EXCEPT ![e] = "read"]
    BY <1>0, <1>8, BoundsAssumption DEF SetupOk, TypeOK, Epochs
  <2>2. wpc[e] = "none" /\ rpc[e] = "none"
    BY <1>0, <2>1 DEF BuffersInv
  <2>. HIDE DEF e
  <2>3. wfut[e] \in Seq(Futs) /\ chan[e] \in Seq(Seq(Futs))
    BY <1>0, <2>1 DEF TypeOK
  <2>4. PICK off : Aligned(rfut[e], chan[e], wfut[e], "none", wire[e], off)
    BY <2>1, <2>2 DEF WireInv, WireAligned
  <2>5. Aligned(rfut[e], chan[e], wfut[e], "wait", wire[e], off)
    BY <2>3, <2>4, AlignEnd, AlignMove
  <2>6. wpc'[e] = "wait" /\ \A d \in Epochs \ {e} : wpc'[d] = wpc[d] /\ rpc'[d] = rpc[d]
    BY <1>0, <2>1 DEF TypeOK
  <2>7. WireInv'
    BY <2>1, <2>5, <2>6, WireOne
  <2>. QED  BY <1>2, <2>1, <2>7
<1>9. ASSUME NEW e \in Epochs, ReconnectCheck(e) \/ Break(e) PROVE WireInv' /\ RightReply'
  BY <1>1, <1>2, <1>9 DEF ReconnectCheck, Break
<1>10. ASSUME NEW e \in Epochs, WriterStep(e) \/ WriteOk(e) PROVE WireInv' /\ RightReply'
  <2>1. res' = res
    BY <1>10 DEF WriterStep, WriterWake, WriterStop, WriterSwap, WriteFail, WriterPush, WriterClose,
                 WriteOk
  <2>. QED  BY <1>2, <1>10, <2>1, WireWriter
<1>11. ASSUME NEW e \in Epochs, ReadReply(e) \/ ReadFail(e) \/ ReaderStep(e)
       PROVE  WireInv' /\ RightReply'
  BY <1>0, <1>11, WireReader, OwnResults
<1>. QED
  BY <1>3, <1>4, <1>5, <1>6, <1>7, <1>8, <1>9, <1>10, <1>11 DEF Next, AllCalls, CreateStep, CloseStep

\* Replies reach the callbacks of the requests that caused them, for any depth
\* of the pipeline and however writer and reader interleave.
THEOREM RepliesAreRight == Spec => []RightReply
<1>1. Init => WireInv /\ RightReply
  <2>. SUFFICES ASSUME Init PROVE WireInv /\ RightReply
    OBVIOUS
  <2>1. RightReply
    BY DEF Init, RightReply
  <2>2. ASSUME NEW e \in Epochs PROVE WireAligned(e)
    <3>1. /\ rfut[e] = <<>> /\ chan[e] = <<>> /\ wfut[e] = <<>> /\ wpc[e] = "none" /\ wire[e] = <<>>
      BY DEF Init
    <3>2. Aligned(<<>>, <<>>, <<>>, "none", <<>>, [i \in 1 .. 1 |-> 0])
      BY DEF Aligned
    <3>. QED  BY <3>1, <3>2 DEF WireAligned
  <2>. QED  BY <2>1, <2>2 DEF WireInv
<1>2. FutureInv /\ WireInv /\ RightReply /\ [Next]_vars => WireInv' /\ RightReply'
  BY WireStep
<1>. QED  BY <1>1, <1>2, FutureInit, FutureStep, PTL DEF Spec

\* A request that some writer tried to write gets no error with ErrTraitNotSent
\* from the connection, for all calls, any number of sockets and all options;
\* the only one it can get is ErrLoading, the server's refusal of this request.
THEOREM TraitIsHonest == Spec => []NotSentHonest
<1>1. Init => HonestInv
  BY DEF Init, HonestInv, QueueUnwritten, FreshUnwritten, NeverClaimed
<1>2. FutureInv /\ HonestInv /\ [Next]_vars => HonestInv'
  BY HonestStep
<1>3. FutureInv /\ HonestInv /\ RightReply => NotSentHonest
  <2>. SUFFICES ASSUME FutureInv, HonestInv, RightReply, NEW f \in written, NEW i \in DOMAIN res[f],
                       res[f][i].kind \in NotSentKinds
                PROVE  res[f][i] = [kind |-> "loading", of |-> f]
    BY DEF NotSentHonest
  <2>1. f \in Futs /\ res[f] \in Seq(Results)
    BY DEF FutureInv, TypeInv, TypeOK
  <2>2. res[f][i] \in Results
    BY <2>1
  <2>3. res[f][i].of = f
    BY <2>1 DEF RightReply
  <2>4. res[f][i].kind = "loading"
    BY DEF HonestInv, NeverClaimed, OwnClaims
  <2>. QED  BY <2>2, <2>3, <2>4 DEF Results
<1>. QED  BY <1>1, <1>2, <1>3, FutureInit, FutureStep, RepliesAreRight, PTL DEF Spec

-----------------------------------------------------------------------------
(* A connection is a redis.Sender *)

\* What the callers of a Sender can tell.
SenderView == <<ctxdone, (state = "closed"), [f \in SenderCallbacks |-> SenderOut(f)]>>

\* A result is appended, nothing else happens to the lists of results.
Grown == \A f \in Futs : res'[f] = res[f] \/ \E x : res'[f] = Append(res[f], x)

\* A visible callback is either handed over or not touched yet.
LEMMA SenderHanded ==
    ASSUME TypeOK, TypeOK', NEW f \in SenderCallbacks
    PROVE  /\ f \in Futs /\ f.call \in Calls
           /\ f \in HandedOver <=> ~NotYet(f)
           /\ f \in HandedOver' <=> ~NotYet(f)'
<1>1. f \in Futs /\ f.call \in Calls /\ f.call \in AllCalls /\ f.n \in Int /\ f.n >= 0
  <2>1. PICK k \in AllCalls : \E i \in -2 .. k.n : f = Fut(k, i)
    BY DEF SenderCallbacks, Futs
  <2>2. k.n \in Nat
    BY CallsAssumption DEF CallType
  <2>. QED  BY <2>1, <2>2 DEF SenderCallbacks, CallerSees, Fut, AllCalls
<1>2. f.n = f.call.n => f.call.kind = "trans"
  BY <1>1, CallsAssumption DEF SenderCallbacks, CallerSees, CallType
<1>3. f \in HandedOver <=> ~NotYet(f)
  <2>1. at[f.call] \in Nat
    BY <1>1 DEF TypeOK
  <2>. QED  BY <1>1, <1>2, <2>1 DEF HandedOver, NotYet
<1>4. f \in HandedOver' <=> ~NotYet(f)'
  <2>1. at'[f.call] \in Nat
    BY <1>1 DEF TypeOK
  <2>. QED  BY <1>1, <1>2, <2>1 DEF HandedOver, NotYet
<1>. QED  BY <1>1, <1>3, <1>4

\* What a callback can have seen, before and after a step: nothing before it
\* is handed over, and never two results or somebody else's reply.
LEMMA SenderFacts ==
    ASSUME TypeOK, PlaceInv, RightReply, TypeOK', PlaceInv', RightReply'
    PROVE  \A f \in SenderCallbacks :
             /\ f \in Futs /\ f.call \in Calls
             /\ SenderOut(f) \in Abstract!Status /\ SenderOut(f)' \in Abstract!Status
             /\ NotYet(f) => SenderOut(f) = "none"
             /\ NotYet(f)' => SenderOut(f)' = "none"
             /\ ~NotYet(f) /\ res[f] = <<>> => SenderOut(f) = "pending"
             /\ ~NotYet(f)' /\ res'[f] = <<>> => SenderOut(f)' = "pending"
             /\ res[f] # <<>> =>
                   SenderOut(f) = IF res[f][1].kind \in ErrKinds THEN "error" ELSE "reply"
             /\ res'[f] # <<>> =>
                   SenderOut(f)' = IF res'[f][1].kind \in ErrKinds THEN "error" ELSE "reply"
<1>. SUFFICES ASSUME NEW f \in SenderCallbacks
              PROVE  /\ f \in Futs /\ f.call \in Calls
                     /\ SenderOut(f) \in Abstract!Status /\ SenderOut(f)' \in Abstract!Status
                     /\ NotYet(f) => SenderOut(f) = "none"
                     /\ NotYet(f)' => SenderOut(f)' = "none"
                     /\ ~NotYet(f) /\ res[f] = <<>> => SenderOut(f) = "pending"
                     /\ ~NotYet(f)' /\ res'[f] = <<>> => SenderOut(f)' = "pending"
                     /\ res[f] # <<>> =>
                           SenderOut(f) = IF res[f][1].kind \in ErrKinds THEN "error" ELSE "reply"
                     /\ res'[f] # <<>> =>
                           SenderOut(f)' = IF res'[f][1].kind \in ErrKinds THEN "error" ELSE "reply"
  OBVIOUS
<1>1. f \in Futs /\ f.call \in Calls
  BY SenderHanded
<1>3. f \in HandedOver <=> ~NotYet(f)
  BY SenderHanded
<1>4. f \in HandedOver' <=> ~NotYet(f)'
  BY SenderHanded
<1>5. (NotYet(f) => res[f] = <<>>) /\ (NotYet(f)' => res'[f] = <<>>)
  BY <1>1 DEF PlaceInv, Fresh
<1>6. res[f] # <<>> => ~(Len(res[f]) > 1) /\ res[f][1].of = f
  <2>1. res[f] \in Seq(Results) /\ Len(res[f]) \in Nat /\ Len(res[f]) <= 1
    BY <1>1 DEF TypeOK, PlaceInv, ResolvedOnce
  <2>2. res[f] # <<>> => 1 \in DOMAIN res[f]
    BY <2>1
  <2>. QED  BY <1>1, <2>1, <2>2 DEF RightReply
<1>7. res'[f] # <<>> => ~(Len(res'[f]) > 1) /\ res'[f][1].of = f
  <2>1. res'[f] \in Seq(Results) /\ Len(res'[f]) \in Nat /\ Len(res'[f]) <= 1
    BY <1>1 DEF TypeOK, PlaceInv, ResolvedOnce
  <2>2. res'[f] # <<>> => 1 \in DOMAIN res'[f]
    BY <2>1
  <2>. QED  BY <1>1, <2>1, <2>2 DEF RightReply
<1>8. SenderOut(f) = IF res[f] = <<>> THEN (IF NotYet(f) THEN "none" ELSE "pending")
                     ELSE IF res[f][1].kind \in ErrKinds THEN "error" ELSE "reply"
  BY <1>3, <1>6 DEF SenderOut
<1>9. SenderOut(f)' = IF res'[f] = <<>> THEN (IF NotYet(f)' THEN "none" ELSE "pending")
                      ELSE IF res'[f][1].kind \in ErrKinds THEN "error" ELSE "reply"
  BY <1>4, <1>7 DEF SenderOut
<1>. QED  BY <1>1, <1>5, <1>8, <1>9 DEF Abstract!Status

\* Callbacks that see something new all do so in the same way.
LEMMA SenderBecome ==
    ASSUME NEW from, NEW to, (state = "closed") <=> (state' = "closed"), ctxdone' = ctxdone,
           \A f \in SenderCallbacks :
               /\ SenderOut(f)' \in Abstract!Status
               /\ SenderOut(f)' # SenderOut(f) => SenderOut(f) = from /\ SenderOut(f)' \in to
    PROVE  Abstract!Become(from, to) \/ UNCHANGED SenderView
<1>1. SenderCallbacks' = SenderCallbacks
  BY DEF SenderCallbacks, CallerSees
<1>2. CASE \A f \in SenderCallbacks : SenderOut(f)' = SenderOut(f)
  BY <1>1, <1>2 DEF SenderView
<1>3. CASE ~\A f \in SenderCallbacks : SenderOut(f)' = SenderOut(f)
  BY <1>1, <1>3 DEF Abstract!Become
<1>. QED  BY <1>2, <1>3

\* Results that come in for callbacks handed over before.
LEMMA SenderResolves ==
    ASSUME TypeOK, PlaceInv, RightReply, TypeOK', PlaceInv', RightReply', Grown,
           UNCHANGED <<state, ctxdone, todo, at>>
    PROVE  Abstract!Resolve \/ UNCHANGED SenderView
<1>1. ASSUME NEW f \in SenderCallbacks, SenderOut(f)' # SenderOut(f)
      PROVE  SenderOut(f) = "pending" /\ SenderOut(f)' \in {"reply", "error"}
  <2>1. NotYet(f)' <=> NotYet(f)
    BY DEF NotYet
  <2>2. res'[f] # res[f]
    <3>1. ASSUME res'[f] = res[f] PROVE SenderOut(f)' = SenderOut(f)
      BY <2>1, <3>1, SenderFacts
    <3>. QED  BY <1>1, <3>1
  <2>3. f \in Futs /\ res[f] \in Seq(Results) /\ Len(res'[f]) <= 1
    BY SenderFacts DEF TypeOK, PlaceInv, ResolvedOnce
  <2>4. PICK x : res'[f] = Append(res[f], x)
    BY <2>2, <2>3 DEF Grown
  <2>5. Len(res'[f]) = Len(res[f]) + 1 /\ Len(res[f]) \in Nat
    BY <2>3, <2>4
  <2>6. Len(res[f]) = 0
    BY <2>3, <2>5
  <2>7. res[f] = <<>> /\ res'[f] # <<>>
    BY <2>2, <2>3, <2>6
  <2>8. ~NotYet(f)
    BY <2>1, <2>3, <2>7 DEF PlaceInv, Fresh
  <2>. QED  BY <2>7, <2>8, SenderFacts
<1>. QED  BY <1>1, SenderFacts, SenderBecome DEF Abstract!Resolve

\* A chunk whose requests join the queue.
LEMMA SenderAccepts ==
    ASSUME TypeOK, PlaceInv, RightReply, TypeOK', PlaceInv', RightReply', CallsInv,
           NEW k \in AllCalls, k \in todo, HandOver(k), UNCHANGED <<state, ctxdone, res>>,
           state # "closed"
    PROVE  Abstract!Accept \/ UNCHANGED SenderView
<1>1. ASSUME NEW f \in SenderCallbacks, SenderOut(f)' # SenderOut(f)
      PROVE  SenderOut(f) = "none" /\ SenderOut(f)' \in {"pending"}
  <2>1. f \in Futs /\ (NotYet(f)' => NotYet(f))
    BY HandOverFacts, SenderFacts
  <2>2. NotYet(f) /\ ~NotYet(f)'
    BY <1>1, <2>1, SenderFacts
  <2>3. res'[f] = <<>>
    BY <2>1, <2>2 DEF PlaceInv, Fresh
  <2>. QED  BY <2>2, <2>3, SenderFacts
<1>2. Abstract!Become("none", {"pending"}) \/ UNCHANGED SenderView
  BY <1>1, SenderFacts, SenderBecome
<1>. QED  BY <1>2 DEF Abstract!Accept

\* The first element of a list of one.
LEMMA AppendFirst == \A x : Append(<<>>, x) # <<>> /\ Append(<<>>, x)[1] = x
<1>. SUFFICES ASSUME NEW x PROVE Append(<<>>, x) # <<>> /\ Append(<<>>, x)[1] = x
  OBVIOUS
<1>1. <<>> \in Seq({x}) /\ Len(<<>>) = 0
  OBVIOUS
<1>. QED  BY <1>1, AppendProperties

\* A chunk whose callbacks are resolved on the spot.
LEMMA SenderAnswers ==
    ASSUME TypeOK, PlaceInv, RightReply, TypeOK', PlaceInv', RightReply', CallsInv,
           NEW k \in AllCalls, k \in todo, HandOver(k), UNCHANGED <<state, ctxdone>>, NEW kind,
           res' = [f \in Futs |-> IF f \in ChunkFuts(k, at[k])
                                  THEN Append(res[f], [kind |-> kind, of |-> f]) ELSE res[f]]
    PROVE  /\ \A f \in SenderCallbacks :
                SenderOut(f)' # SenderOut(f) =>
                   /\ SenderOut(f) = "none"
                   /\ SenderOut(f)' = IF kind \in ErrKinds THEN "error" ELSE "reply"
                   /\ f.call = k
           /\ kind \in ErrKinds => Abstract!Refuse \/ UNCHANGED SenderView
<1>1. ASSUME NEW f \in SenderCallbacks, SenderOut(f)' # SenderOut(f)
      PROVE  /\ SenderOut(f) = "none"
             /\ SenderOut(f)' = IF kind \in ErrKinds THEN "error" ELSE "reply"
             /\ f.call = k
  <2>1. f \in Futs
    BY SenderFacts
  <2>2. CASE f \in ChunkFuts(k, at[k])
    <3>1. NotYet(f) /\ res[f] = <<>>
      BY <2>1, <2>2, HandOverFacts DEF PlaceInv, Fresh
    <3>2. res'[f] = Append(res[f], [kind |-> kind, of |-> f])
      BY <2>1, <2>2
    <3>3. res'[f] # <<>> /\ res'[f][1] = [kind |-> kind, of |-> f]
      BY <3>1, <3>2, AppendFirst
    <3>4. res'[f][1].kind = kind
      BY <3>3
    <3>5. f.call = k
      BY <2>2 DEF ChunkFuts, Fut
    <3>. QED  BY <3>1, <3>3, <3>4, <3>5, SenderFacts
  <2>3. CASE f \notin ChunkFuts(k, at[k])
    <3>1. res'[f] = res[f]
      BY <2>1, <2>3
    <3>2. NotYet(f)' => NotYet(f)
      BY <2>1, HandOverFacts
    <3>3. NotYet(f) => NotYet(f)'
      <4>1. ASSUME NotYet(f), ~NotYet(f)' PROVE f \in HandedOver' /\ f \notin HandedOver
        BY <2>1, <4>1, SenderHanded
      <4>. QED  BY <2>3, <4>1, HandOverFacts
    <3>. QED  BY <1>1, <3>1, <3>2, <3>3, SenderFacts
  <2>. QED  BY <2>2, <2>3
<1>2. ASSUME kind \in ErrKinds PROVE Abstract!Refuse \/ UNCHANGED SenderView
  <2>1. \A f \in SenderCallbacks :
           /\ SenderOut(f)' \in Abstract!Status
           /\ SenderOut(f)' # SenderOut(f) => SenderOut(f) = "none" /\ SenderOut(f)' \in {"error"}
    BY <1>1, <1>2, SenderFacts
  <2>2. Abstract!Become("none", {"error"}) \/ UNCHANGED SenderView
    BY <2>1, SenderBecome
  <2>. QED  BY <2>2 DEF Abstract!Refuse
<1>. QED  BY <1>1, <1>2

\* Every step is one of callers, leaves requests and results alone, or only
\* adds results.
LEMMA SenderCases ==
    ASSUME TypeInv, Next
    PROVE  \/ \E k \in AllCalls : SendRejected(k) \/ SendEmpty(k) \/ Send(k) \/ ControlTick(k)
           \/ UNCHANGED <<res, todo, at>>
           \/ Grown /\ UNCHANGED <<state, ctxdone, todo, at>>
<1>. USE DEF procVars, queueVars, ioVars, sockVars, writerVars, readerVars, callVars, dataVars
<1>0. TypeOK
  BY DEF TypeInv
<1>1. ASSUME NEW fs, NEW kind, res' = Errors(fs, kind) PROVE Grown
  BY <1>1 DEF Errors, Grown
<1>2. ASSUME NEW f, NEW x, NEW kind, res' = Reply(f, x, kind) PROVE Grown
  BY <1>0, <1>2 DEF Reply, Grown, TypeOK
<1>3. ASSUME NEW p \in Procs, CreateStep(p) \/ SetupOk(p) \/ SetupFail(p) \/ CloseStep(p) \/ Lock(p)
      PROVE  UNCHANGED <<res, todo, at>> \/ (Grown /\ UNCHANGED <<state, ctxdone, todo, at>>)
  <2>1. CASE CreateDrop(p)
    BY <1>1, <2>1 DEF CreateDrop, DropFutures
  <2>2. CASE CloseDrop(p)
    BY <1>1, <2>2 DEF CloseDrop, DropFutures
  <2>3. CASE ~CreateDrop(p) /\ ~CloseDrop(p)
    BY <1>3, <2>3
    DEF CreateStep, CloseStep, CreateLoop, DialTCP, SetupOk, SetupFail, CreateOk, CreateReport,
        CreateFail, CloseState, CloseSocket, Lock
  <2>. QED  BY <2>1, <2>2, <2>3
<1>4. ASSUME Close \/ TimerFire \/ ConnectError \/ ConnectWait \/ ControlDone \/ ControlPong \/ Stopped
      PROVE  UNCHANGED <<res, todo, at>>
  BY <1>4
  DEF Close, TimerFire, ConnectError, ConnectWait, ControlDone, ControlPong, Stopped, vars
<1>5. ASSUME NEW e \in Epochs, ReconnectCheck(e) \/ WriterStep(e) \/ WriteOk(e) \/ ReadFail(e) \/ Break(e)
      PROVE  UNCHANGED <<res, todo, at>>
  BY <1>5
  DEF ReconnectCheck, WriterStep, WriterWake, WriterStop, WriterSwap, WriteFail, WriterPush,
      WriterClose, WriteOk, ReadFail, Break
<1>6. ASSUME NEW e \in Epochs, ReadReply(e) \/ ReaderStep(e)
      PROVE  UNCHANGED <<res, todo, at>> \/ (Grown /\ UNCHANGED <<state, ctxdone, todo, at>>)
  <2>1. CASE ReadReply(e)
    BY <1>2, <2>1 DEF ReadReply
  <2>2. CASE ReaderFetch(e)
    BY <1>2, <2>2 DEF ReaderFetch
  <2>3. CASE ReaderFail(e)
    BY <1>1, <2>3 DEF ReaderFail
  <2>4. CASE ReaderDrain(e)
    BY <1>1, <2>4 DEF ReaderDrain
  <2>5. CASE ReaderDone(e)
    BY <2>5 DEF ReaderDone
  <2>. QED  BY <1>6, <2>1, <2>2, <2>3, <2>4, <2>5 DEF ReaderStep
<1>. QED  BY <1>3, <1>4, <1>5, <1>6 DEF Next, AllCalls

\* The step of a caller.
LEMMA SenderCalls ==
    ASSUME FutureInv, RightReply, FutureInv', RightReply', NEW k \in AllCalls,
           SendRejected(k) \/ SendEmpty(k) \/ Send(k) \/ ControlTick(k)
    PROVE  Abstract!Next \/ UNCHANGED SenderView
<1>. USE DEF procVars
<1>1. TypeOK /\ PlaceInv /\ CallsInv /\ TypeOK' /\ PlaceInv'
  BY DEF FutureInv, TypeInv
<1>2. k \in todo /\ HandOver(k) /\ UNCHANGED <<state, ctxdone>>
  BY DEF SendRejected, SendEmpty, Send, ControlTick, SendRefused, SendQueued
<1>3. ASSUME NEW kind \in ErrKinds, res' = Errors(ChunkFuts(k, at[k]), kind)
      PROVE  Abstract!Next \/ UNCHANGED SenderView
  <2>1. Abstract!Refuse \/ UNCHANGED SenderView
    BY <1>1, <1>2, <1>3, SenderAnswers DEF Errors
  <2>. QED  BY <2>1 DEF Abstract!Next
<1>4. CASE SendRejected(k)
  BY <1>3, <1>4 DEF SendRejected, ErrKinds
<1>5. CASE SendEmpty(k)
  <2>1. at[k] = 0 /\ k.n = 0
    BY <1>1, <1>2, <1>5 DEF SendEmpty, CallsInv, TypeOK
  <2>2. res' = [f \in Futs |-> IF f \in ChunkFuts(k, at[k])
                               THEN Append(res[f], [kind |-> "empty", of |-> f]) ELSE res[f]]
    BY <1>5, <2>1 DEF SendEmpty
  <2>3. "empty" \notin ErrKinds
    BY DEF ErrKinds, NotSentKinds
  <2>4. \A f \in SenderCallbacks :
           SenderOut(f)' # SenderOut(f) =>
              SenderOut(f) = "none" /\ SenderOut(f)' = "reply" /\ f.call = k
    BY <1>1, <1>2, <2>2, <2>3, SenderAnswers
  <2>5. Abstract!Become("none", {"reply"}) \/ UNCHANGED SenderView
    <3>1. \A f \in SenderCallbacks :
             /\ SenderOut(f)' \in Abstract!Status
             /\ SenderOut(f)' # SenderOut(f) => SenderOut(f) = "none" /\ SenderOut(f)' \in {"reply"}
      BY <1>1, <2>4, SenderFacts
    <3>. QED  BY <1>2, <3>1, SenderBecome
  <2>6. \A f \in SenderCallbacks \ {g \in SenderCallbacks : g.call.n = 0} :
           SenderOut(f)' = SenderOut(f)
    BY <2>1, <2>4
  <2>7. SenderCallbacks' = SenderCallbacks
    BY DEF SenderCallbacks, CallerSees
  <2>8. Abstract!Trivial \/ UNCHANGED SenderView
    BY <2>5, <2>6, <2>7 DEF Abstract!Trivial
  <2>. QED  BY <2>8 DEF Abstract!Next
<1>6. CASE SendRefused(k)
  BY <1>3, <1>6 DEF SendRefused, ErrKinds, NotSentKinds
<1>7. CASE SendQueued(k)
  <2>1. state # "closed" /\ res' = res
    BY <1>7 DEF SendQueued, Accepting
  <2>2. Abstract!Accept \/ UNCHANGED SenderView
    BY <1>1, <1>2, <2>1, SenderAccepts
  <2>. QED  BY <2>2 DEF Abstract!Next
<1>. QED  BY <1>4, <1>5, <1>6, <1>7 DEF Send, ControlTick

\* control() closes the connection only when the context has ended.
ContextInv == pc[ControlP] \in {"select", "pinging"} \/ ctxdone

\* A context that has ended stays so, and connClosed is stored after that.
LEMMA ContextStep ==
    ASSUME TypeOK, CloseInv, ContextInv, Next
    PROVE  /\ ContextInv'
           /\ ctxdone => ctxdone' = ctxdone
           /\ state # "closed" /\ state' = "closed" => ctxdone
<1>. USE DEF procVars, queueVars, ioVars, sockVars, writerVars, readerVars, callVars, dataVars
<1>. DEFINE Goal == /\ ContextInv'
                    /\ ctxdone => ctxdone' = ctxdone
                    /\ state # "closed" /\ state' = "closed" => ctxdone
<1>0. ctxdone \in BOOLEAN /\ pc \in [Procs -> Pcs]
  BY DEF TypeOK
<1>1. ASSUME UNCHANGED <<state, ctxdone>>, pc'[ControlP] = pc[ControlP] PROVE Goal
  BY <1>1 DEF ContextInv
<1>2. ASSUME NEW k, SendRejected(k) \/ SendEmpty(k) \/ Send(k) PROVE Goal
  BY <1>1, <1>2 DEF SendRejected, SendEmpty, Send
<1>3. ASSUME Close PROVE Goal
  BY <1>3 DEF Close, ContextInv
<1>4. ASSUME TimerFire \/ Stopped \/ ConnectError \/ ConnectWait PROVE Goal
  <2>1. UNCHANGED <<state, ctxdone>> /\ pc'[ControlP] = pc[ControlP]
    BY <1>0, <1>4, ProcFacts DEF TimerFire, Stopped, ConnectError, ConnectWait, Goto, vars
  <2>. QED  BY <1>1, <2>1
<1>5. ASSUME ControlDone \/ ControlPong \/ \E k \in Pings : ControlTick(k) PROVE Goal
  <2>1. UNCHANGED <<state, ctxdone>>
    BY <1>5 DEF ControlDone, ControlPong, ControlTick
  <2>2. ctxdone \/ pc'[ControlP] \in {"select", "pinging"}
    BY <1>0, <1>5, ProcFacts DEF ControlDone, ControlPong, ControlTick, Goto
  <2>. QED  BY <2>1, <2>2 DEF ContextInv
<1>6. ASSUME NEW p \in Procs \ {ControlP},
             CreateStep(p) \/ SetupOk(p) \/ SetupFail(p) \/ Lock(p) \/ CloseStep(p)
      PROVE  Goal
  <2>1. ctxdone' = ctxdone
    BY <1>6
    DEF CreateStep, CloseStep, CreateLoop, DialTCP, SetupOk, SetupFail, CreateOk, CreateReport,
        CreateFail, CreateDrop, CloseState, CloseSocket, CloseDrop, Lock
  <2>2. state' = state \/ state' # "closed"
    BY <1>6
    DEF CreateStep, CloseStep, CreateLoop, DialTCP, SetupOk, SetupFail, CreateOk, CreateReport,
        CreateFail, CreateDrop, CloseState, ClosedAs, CloseSocket, CloseDrop, Lock
  <2>3. pc'[ControlP] = pc[ControlP]
    BY <1>0, <1>6, ProcFacts
    DEF CreateStep, CloseStep, CreateLoop, Leave, DialTCP, SetupOk, SetupFail, CreateOk, CreateReport,
        CreateFail, CreateDrop, CloseState, CloseSocket, CloseDrop, Lock, Goto
  <2>. QED  BY <2>1, <2>2, <2>3 DEF ContextInv
<1>7. ASSUME CreateStep(ControlP) \/ SetupOk(ControlP) \/ SetupFail(ControlP) \/ Lock(ControlP)
             \/ CloseStep(ControlP)
      PROVE  Goal
  <2>1. ctxdone' = ctxdone
    BY <1>7
    DEF CreateStep, CloseStep, CreateLoop, DialTCP, SetupOk, SetupFail, CreateOk, CreateReport,
        CreateFail, CreateDrop, CloseState, CloseSocket, CloseDrop, Lock
  <2>2. pc[ControlP] \notin {"select", "pinging"}
    BY <1>7
    DEF CreateStep, CloseStep, CreateLoop, DialTCP, SetupOk, SetupFail, CreateOk, CreateReport,
        CreateFail, CreateDrop, CloseState, CloseSocket, CloseDrop, Lock
  <2>. QED  BY <2>1, <2>2 DEF ContextInv
<1>8. ASSUME NEW e \in Epochs, ReconnectCheck(e) PROVE Goal
  <2>1. state' = state /\ (ctxdone' = ctxdone \/ ctxdone' = TRUE)
    BY <1>8 DEF ReconnectCheck
  <2>2. pc'[ControlP] = pc[ControlP]
    BY <1>0, <1>8, ProcFacts DEF ReconnectCheck, Leave, Goto
  <2>. QED  BY <1>0, <2>1, <2>2 DEF ContextInv
<1>9. ASSUME NEW e \in Epochs,
             WriterStep(e) \/ WriteOk(e) \/ ReadReply(e) \/ ReadFail(e) \/ ReaderStep(e) \/ Break(e)
      PROVE  Goal
  <2>1. UNCHANGED <<state, ctxdone>> /\ (pc' = pc \/ pc' = [pc EXCEPT ![e] = "lock"])
    BY <1>9
    DEF WriterStep, WriterWake, WriterStop, WriterSwap, WriteFail, WriterPush, WriterClose, WriteOk,
        ReadReply, ReadFail, ReaderStep, ReaderFetch, ReaderFail, ReaderDrain, ReaderDone, Break, SetErr
  <2>2. pc'[ControlP] = pc[ControlP]
    BY <1>0, <2>1, ProcFacts
  <2>. QED  BY <1>1, <2>1, <2>2
<1>. HIDE DEF Goal
<1>10. Goal
  BY <1>2, <1>3, <1>4, <1>5, <1>6, <1>7, <1>8, <1>9 DEF Next
<1>. QED  BY <1>10 DEF Goal

\* Every step of a connection is a step of a Sender, or invisible.
LEMMA SenderStep ==
    ASSUME CloseInv, ContextInv, FutureInv, RightReply, FutureInv', RightReply', [Next]_vars
    PROVE  Abstract!Next \/ UNCHANGED SenderView
<1>. USE DEF procVars, queueVars, ioVars, sockVars, writerVars, readerVars, callVars, dataVars
<1>1. TypeInv /\ TypeOK /\ PlaceInv /\ TypeOK' /\ PlaceInv'
  BY DEF FutureInv, TypeInv
<1>2. CASE \E k \in AllCalls : SendRejected(k) \/ SendEmpty(k) \/ Send(k) \/ ControlTick(k)
  BY <1>2, SenderCalls
<1>3. CASE UNCHANGED <<res, todo, at>>
  <2>1. \A f \in SenderCallbacks : SenderOut(f)' = SenderOut(f)
    BY <1>3 DEF SenderOut, HandedOver
  <2>2. SenderCallbacks' = SenderCallbacks
    BY DEF SenderCallbacks, CallerSees
  <2>3. state = "closed" => state' = "closed"
    BY ClosedStep DEF vars
  <2>4. /\ ctxdone => ctxdone' = ctxdone
        /\ state # "closed" /\ state' = "closed" => ctxdone
    BY <1>1, ContextStep DEF vars
  <2>5. CASE ((state = "closed") <=> (state' = "closed")) /\ ctxdone' = ctxdone
    BY <2>1, <2>2, <2>5 DEF SenderView
  <2>6. CASE ((state = "closed") <=> (state' = "closed")) /\ ctxdone' # ctxdone
    <3>1. ~ctxdone /\ ctxdone' = TRUE
      BY <1>1, <2>4, <2>6 DEF TypeOK
    <3>. QED  BY <2>1, <2>2, <2>6, <3>1 DEF Abstract!Next, Abstract!Close
  <2>7. CASE state # "closed" /\ state' = "closed"
    BY <2>1, <2>2, <2>4, <2>7 DEF Abstract!Next, Abstract!TakeEffect
  <2>. QED  BY <2>3, <2>5, <2>6, <2>7
<1>4. CASE Grown /\ UNCHANGED <<state, ctxdone, todo, at>>
  BY <1>1, <1>4, SenderResolves DEF Abstract!Next
<1>5. CASE UNCHANGED vars
  BY <1>3, <1>5 DEF vars
<1>. QED  BY <1>1, <1>2, <1>3, <1>4, <1>5, SenderCases

\* A connection keeps the contract of redis.Sender, for all calls, any number of
\* sockets and all options: doSend, doSendBatch, dropFutures and the readers
\* resolve each visible callback once, with its own reply or an error; and
\* nothing is taken on once control() has stored connClosed, which it does only
\* after Close.
THEOREM ConnectionIsSender == Spec => ImplementsSender
<1>1. Init => Abstract!Init
  <2>. SUFFICES ASSUME Init PROVE Abstract!Init
    OBVIOUS
  <2>1. (state = "closed") = FALSE /\ ctxdone = FALSE
    BY DEF Init
  <2>2. ASSUME NEW f \in SenderCallbacks PROVE SenderOut(f) = "none"
    <3>1. f \in Futs /\ f.call \in AllCalls /\ f.n >= 0
      BY FutFacts DEF SenderCallbacks, CallerSees
    <3>2. f.n \in Int
      BY <3>1, FutFacts
    <3>3. res[f] = <<>> /\ at[f.call] = 0 /\ f.call \in todo
      BY <3>1 DEF Init
    <3>4. f \notin HandedOver
      BY <3>1, <3>2, <3>3 DEF HandedOver
    <3>. QED  BY <3>3, <3>4 DEF SenderOut
  <2>. QED  BY <2>1, <2>2 DEF Abstract!Init
<1>2. Init => ContextInv
  BY ProcFacts DEF Init, ContextInv
<1>3. TypeOK /\ CloseInv /\ ContextInv /\ [Next]_vars => ContextInv'
  BY ContextStep DEF vars, procVars, ContextInv
<1>4. CloseInv /\ ContextInv /\ FutureInv /\ RightReply /\ FutureInv' /\ RightReply' /\ [Next]_vars
        => [Abstract!Next]_SenderView
  BY SenderStep
<1>. QED  BY <1>1, <1>2, <1>3, <1>4, CloseInvariant, FutureInit, FutureStep, RepliesAreRight, PTL
     DEF Spec, ImplementsSender, Abstract!Spec, SenderView

=============================================================================
