--------------------------- MODULE CallersProofs ----------------------------
(***************************************************************************)
(* Proofs about Scanning and SyncCalls: blocking calls return the right    *)
(* results once and for good, for batches of any length; iterations over   *)
(* keys and shards leave nothing out, for any number of masters.           *)
(***************************************************************************)
EXTENDS Scanning, FiniteSetTheorems, TLAPS

(* Blocking calls *)

\* Where the goroutines may be.  Only ctxBatch has a caller that resolves.
PcInv ==
    /\ \A i \in Requests : pc[i] \in {"idle", "claimed", "written", "closing", "end"}
    /\ pc[0] \in {"call", "select", "fill", "wait", "returned", "claimed", "written", "closing"}
    /\ kind # "ctxmany" => pc[0] \in {"call", "select", "returned"}
    /\ pc[0] = "call" => pos = 1
    /\ pc[0] \in {"select", "fill", "claimed", "written", "closing"} => pos \in Requests

\* Requests that are claimed but not yet counted.
Working == {g \in Goroutines : pc[g] \in {"claimed", "written"}}
Closing == {g \in Goroutines : pc[g] = "closing"}
Tallies == kind \in {"sync", "syncmany", "ctxmany"}

\* Every claim is counted once, by the goroutine that claimed.
TallyInv ==
    /\ kind # "ctxmany" => o = {i \in Requests : pc[i] # "idle"}
    /\ IF Tallies THEN Cardinality(o) = cnt + Cardinality(Working) ELSE cnt = 0

\* Who closes a channel: the goroutine it belongs to, or, of a ctxBatch, the
\* one that brought the counter to its end.
ClosesInv ==
    /\ kind \in {"sync", "syncmany"} => Closing = {} /\ \A i \in Requests : closes[i] = 0
    /\ kind \in {"ctx", "chan", "chanmany"} =>
          \A i \in Requests : closes[i] = IF pc[i] = "end" THEN 1 ELSE 0
    /\ kind = "ctxmany" =>
          /\ \A i \in Requests : closes[i] = 0 \/ (i = 1 /\ closes[i] = 1)
          /\ cnt < Size => Closing = {} /\ closes[1] = 0
          /\ closes[1] = 1 => Closing = {}
          /\ \A g, h \in Closing : g = h

\* Nobody will write a result any more.
Settled == o = Requests /\ \A g \in Goroutines : pc[g] # "claimed"

\* A result is the request's own or a cancellation, and is there unless its
\* claimant is just about to write it.
ResultInv ==
    /\ \A i \in Requests :
          /\ r[i] \in {Unset, ErrRequestCancelled, i}
          /\ r[i] = i => i \in Arrived
          /\ r[i] = ErrRequestCancelled => ctxdone
    /\ \A i \in o : r[i] # Unset \/ \E g \in Goroutines : pc[g] = "claimed" /\ At(g) = i
    /\ gaveup => kind = "ctx" /\ ctxdone /\ pc[0] = "returned"
    /\ kind \in {"chan", "chanmany"} =>
          /\ \A i \in Requests : i < pos => closes[i] = 1
          /\ pc[0] = "returned" => pos = Size + 1
    /\ pc[0] = "returned" /\ ~gaveup => Settled

CallInv == CallTypeOK /\ PcInv /\ TallyInv /\ ClosesInv /\ ResultInv

-----------------------------------------------------------------------------
(* Iterations *)

\* As long as no Next was cancelled, the scanner, its user and the Sender agree
\* whose turn it is.
TurnInv ==
    /\ ~paniced
    /\ reader \in {"ready", "send"} => flying = <<>>
    /\ reader = "ready" => cb = "nil"
    /\ reader = "send" => Scans /\ cb = "current" /\ got = "none"
    /\ reader = "select" => Scans /\ \/ got = "none" /\ cb = "current" /\ Len(flying) = 1
                                     \/ got # "none" /\ cb = "nil" /\ flying = <<>>
    /\ reader = "stopped" => cb = "nil" /\ flying = <<>>

PagesInOrder == \A a \in Masters : \A j \in DOMAIN pages[a] : pages[a][j] = j - 1

\* The SCAN request that comes next, or is under way, or was answered last.
ThisPage == [addr |-> addrs[1], iter |-> Len(pages[addrs[1]])]

Through(list) == over = wanted \ ToSet(list)

\* How far the user has got: the shards before addrs are through, the first of
\* addrs is read up to iter, the others are untouched.
PlaceInv ==
    /\ \A i, j \in DOMAIN addrs : addrs[i] = addrs[j] => i = j
    /\ ToSet(addrs) \subseteq wanted
    /\ kind = "connscan" => Len(addrs) = 1
    /\ Scans /\ reader # "stopped" => \A j \in DOMAIN addrs : j # 1 => pages[addrs[j]] = <<>>
    /\ Scans /\ reader = "ready" /\ ~err =>
          /\ addrs # <<>>
          /\ iter = LastIter => over = (wanted \ ToSet(addrs)) \cup {addrs[1]}
          /\ iter # LastIter => Through(addrs) /\ Request = ThisPage
    /\ reader = "send" => addrs # <<>> /\ Through(addrs) /\ Request = ThisPage
    /\ reader = "select" /\ got = "none" => addrs # <<>> /\ Through(addrs) /\ flying[1] = ThisPage
    /\ reader = "select" /\ got \in {"more", "last"} =>
          /\ addrs # <<>> /\ Through(addrs) /\ page = ThisPage /\ ~err
          /\ iter = IF got = "last" THEN LastIter ELSE page.iter + 1
    /\ got = "eof" => over = wanted /\ reader \in {"select", "stopped"}

\* EachShard calls back for one master after another.
ShardsInv ==
    kind = "each" =>
        /\ reader \in {"ready", "stopped"}
        /\ Len(shards) + Len(addrs) = Cardinality(wanted)
        /\ \A j \in DOMAIN shards : j < Len(shards) => shards[j] = "conn"
        /\ reader = "ready" => \A j \in DOMAIN shards : shards[j] = "conn"
        /\ reader = "stopped" => addrs = <<>> \/ \E j \in DOMAIN shards : shards[j] # "conn"

ScanInv == TurnInv /\ PagesInOrder /\ PlaceInv /\ ShardsInv

\* A request under way was not sent at the end of a shard.
CursorInv ==
    /\ Scans /\ iter = LastIter => addrs # <<>>
    /\ reader = "send" \/ (reader = "select" /\ got = "none") => iter # LastIter

\* Once a Next was cancelled no request is sent any more.  The one under way
\* still has the callback of its own Next, unless another Next sets another.
LateInv ==
    /\ Scans /\ ctxdone
    /\ iter = LastIter \/ flying # <<>> => addrs # <<>>
    /\ reader \in {"ready", "stopped"} => cb # "current"
    /\ reader = "select" /\ ~paniced => cb # "current" /\ got \notin {"more", "last"}
    /\ cut = "cancelled" =>
          /\ ~paniced
          /\ reader = "send" => cb = "current"
          /\ flying # <<>> => Len(flying) = 1 /\ cb = "old" /\ reader # "send" /\ iter # LastIter
    /\ cut = "overlapped" /\ ~paniced => IF reader = "send" THEN cb # "old" ELSE cb = "nil" /\ err

Phases == IF cut = "no" THEN ScanInv /\ CursorInv ELSE PagesInOrder /\ LateInv

Inv == TypeOK /\ CallInv /\ Phases

-----------------------------------------------------------------------------
(* Facts about blocking calls *)

LEMMA SizeFacts ==
    /\ Size \in Nat /\ Requests = 1 .. Size /\ Goroutines = 0 .. Size
    /\ kind \in {"sync", "chan", "ctx"} => Requests = {1}
    /\ kind \in {"syncmany", "chanmany", "ctxmany"} => 1 \in Requests
    /\ kind \in CallKinds => Size # 0
<1>1. Size \in Nat /\ (kind \in {"sync", "chan", "ctx"} => Size = 1)
      /\ (kind \in {"syncmany", "chanmany", "ctxmany"} => Size \in Nat \ {0})
      /\ (kind \in CallKinds => Size # 0)
  BY CallsAssumption DEF Size, CallKinds
<1> QED BY <1>1 DEF Requests, Goroutines

LEMMA SameSize ==
    ASSUME kind' = kind
    PROVE  Size' = Size /\ Requests' = Requests /\ Goroutines' = Goroutines /\ Tallies' = Tallies
BY DEF Size, Requests, Goroutines, Tallies

LEMMA FiniteFacts ==
    /\ IsFiniteSet(Goroutines) /\ IsFiniteSet(Requests)
    /\ Cardinality(Requests) = Size
    /\ IsFiniteSet(Working) /\ Cardinality(Working) \in Nat
<1>1. Size \in Nat /\ Size \in Int /\ 0 \in Int /\ 1 \in Int
  BY SizeFacts
<1>2. IsFiniteSet(0 .. Size) /\ IsFiniteSet(1 .. Size)
      /\ Cardinality(1 .. Size) = IF 1 > Size THEN 0 ELSE Size - 1 + 1
  BY <1>1, FS_Interval
<1>3. Cardinality(1 .. Size) = Size
  BY <1>1, <1>2
<1>4. Working \in SUBSET Goroutines
  BY DEF Working
<1>5. IsFiniteSet(Working)
  BY <1>2, <1>4, SizeFacts, FS_Subset
<1> QED BY <1>2, <1>3, <1>5, SizeFacts, FS_CardinalityType

\* When everything is counted, everything is claimed and nobody is at work.
LEMMA AllCounted ==
    ASSUME CallTypeOK, TallyInv, Tallies, cnt = Size
    PROVE  o = Requests /\ Working = {}
<1>1. o \in SUBSET Requests /\ IsFiniteSet(Requests) /\ Cardinality(Requests) = Size
  BY FiniteFacts DEF CallTypeOK
<1>2. Cardinality(o) <= Size /\ (Cardinality(o) = Size => o = Requests)
  BY <1>1, FS_Subset
<1>3. Cardinality(o) = Size + Cardinality(Working) /\ Cardinality(Working) \in Nat /\ Size \in Nat
  BY FiniteFacts, SizeFacts DEF TallyInv
<1>4. Cardinality(Working) = 0 /\ Cardinality(o) = Size
  BY <1>2, <1>3
<1> QED BY <1>2, <1>4, FiniteFacts, FS_EmptySet

\* Who works has not been counted.
LEMMA WorkersLeft ==
    ASSUME CallTypeOK, TallyInv, Tallies, Working # {}
    PROVE  cnt < Size /\ cnt + 1 \in 0 .. Size
<1>1. o \in SUBSET Requests /\ IsFiniteSet(Requests) /\ Cardinality(Requests) = Size
  BY FiniteFacts DEF CallTypeOK
<1>2. IsFiniteSet(o) /\ Cardinality(o) <= Size
  BY <1>1, FS_Subset
<1>3. Cardinality(o) = cnt + Cardinality(Working) /\ Cardinality(Working) \in Nat
  BY FiniteFacts DEF TallyInv
<1>4. Cardinality(Working) # 0
  BY FiniteFacts, FS_EmptySet
<1>5. cnt \in Nat /\ Size \in Nat /\ Cardinality(o) \in Nat
  BY <1>2, SizeFacts, FS_CardinalityType DEF CallTypeOK
<1> QED BY <1>2, <1>3, <1>4, <1>5

\* Who resolves, and what.
LEMMA AtFacts ==
    ASSUME CallTypeOK, PcInv, NEW g \in Goroutines,
           g \in Requests \/ pc[0] \in {"fill", "claimed", "written", "closing"}
    PROVE  At(g) \in Requests /\ (g # 0 => g \in Requests /\ At(g) = g)
<1>1. g # 0 => g \in Requests
  BY SizeFacts
<1>2. g = 0 => g \notin Requests
  BY SizeFacts
<1> QED BY <1>1, <1>2 DEF At, PcInv

-----------------------------------------------------------------------------
(* The steps of a blocking call *)

\* A result that is claimed for its request.
LEMMA ClaimStep ==
    ASSUME CallInv, NEW g \in Goroutines, Begin(g), ~Claimed(At(g))
    PROVE  CallInv'
<1> DEFINE a == At(g)
<1>1. /\ pc' = [pc EXCEPT ![g] = "claimed"] /\ o' = o \cup {a} /\ pos' = pos
      /\ UNCHANGED <<kind, r, cnt, closes, ctxdone, gaveup>>
      /\ \/ g \in Requests /\ pc[g] = "idle"
         \/ g = 0 /\ pc[0] = "fill"
  BY DEF Begin
<1>2. /\ Size' = Size /\ Requests' = Requests /\ Goroutines' = Goroutines /\ (Tallies' <=> Tallies)
  BY <1>1, SameSize
<1>3. CallTypeOK /\ PcInv /\ TallyInv /\ ClosesInv /\ ResultInv
  BY DEF CallInv
<1>4. a \in Requests /\ (g # 0 => g \in Requests /\ a = g)
  BY <1>1, <1>3, AtFacts
<1>5. pc \in [Goroutines -> {"call", "select", "fill", "wait", "returned", "idle", "claimed",
                             "written", "closing", "end"}]
  BY <1>3 DEF CallTypeOK
<1>6. pc'[g] = "claimed" /\ \A h \in Goroutines : h # g => pc'[h] = pc[h]
  BY <1>1, <1>5
<1>7. a \notin o
  <2>1. CASE kind = "ctxmany"
    BY <2>1 DEF Claimed
  <2>2. CASE kind # "ctxmany"
    BY <1>1, <1>3, <1>4, <2>2 DEF TallyInv, PcInv
  <2> QED BY <2>1, <2>2
<1>8. 0 \in Goroutines /\ 0 \notin Requests /\ Requests \subseteq Goroutines
  BY SizeFacts
<1> HIDE DEF a
<1>9. CallTypeOK'
  BY <1>1, <1>2, <1>3, <1>4, <1>5 DEF CallTypeOK
<1>10. PcInv'
  BY <1>1, <1>2, <1>3, <1>6, <1>8 DEF PcInv
<1>11. TallyInv'
  <2>1. kind # "ctxmany" => o' = {i \in Requests : pc'[i] # "idle"}
    BY <1>1, <1>3, <1>4, <1>6, <1>8 DEF TallyInv, PcInv
  <2>2. Working' = Working \cup {g} /\ g \notin Working
    BY <1>1, <1>2, <1>6 DEF Working
  <2>3. Cardinality(Working') = Cardinality(Working) + 1
    BY <2>2, FiniteFacts, FS_AddElement
  <2>4. IsFiniteSet(o)
    BY <1>3, FiniteFacts, FS_Subset DEF CallTypeOK
  <2>5. Cardinality(o') = Cardinality(o) + 1
    BY <1>1, <1>7, <2>4, FS_AddElement
  <2>6. Cardinality(Working) \in Nat /\ cnt \in Nat
    BY <1>3, FiniteFacts, SizeFacts DEF CallTypeOK
  <2> QED BY <1>1, <1>2, <1>3, <2>1, <2>3, <2>5, <2>6 DEF TallyInv
<1>12. ClosesInv'
  <2>1. Closing' = Closing
    BY <1>1, <1>2, <1>6 DEF Closing
  <2> QED BY <1>1, <1>2, <1>3, <1>6, <1>8, <2>1 DEF ClosesInv
<1>13. ResultInv'
  <2>1. Arrived' = Arrived
    BY <1>1, <1>2, <1>6, <1>8 DEF Arrived
  <2>2. \A h \in Goroutines : At(h)' = At(h)
    BY <1>1 DEF At
  <2>3. At(g) = a
    BY DEF a
  <2>4. \A i \in o' : r'[i] # Unset \/ \E h \in Goroutines : pc'[h] = "claimed" /\ At(h)' = i
    BY <1>1, <1>3, <1>6, <2>2, <2>3 DEF ResultInv
  <2>5. pc'[0] = "returned" /\ ~gaveup => FALSE
    BY <1>1, <1>3, <1>4, <1>6, <1>7, <1>8 DEF ResultInv, Settled
  <2> QED BY <1>1, <1>2, <1>3, <1>6, <1>8, <2>1, <2>4, <2>5 DEF ResultInv
<1> QED BY <1>9, <1>10, <1>11, <1>12, <1>13 DEF CallInv

\* A goroutine leaves Resolve: it ends, or the caller takes the next request.
LEMMA LeaveFacts ==
    ASSUME CallTypeOK, PcInv, NEW g \in Goroutines, Leave(g), kind' = kind,
           g \in Requests \/ (g = 0 /\ kind = "ctxmany" /\ pc[0] \in {"fill", "claimed", "written", "closing"})
    PROVE  /\ pc' \in [Goroutines -> {"call", "select", "fill", "wait", "returned", "idle",
                                      "claimed", "written", "closing", "end"}]
           /\ pc'[g] \in {"end", "fill", "wait"} /\ (g # 0 => pc'[g] = "end")
           /\ \A h \in Goroutines : h # g => pc'[h] = pc[h]
           /\ pos' \in 1 .. Size + 1 /\ (g # 0 => pos' = pos)
           /\ PcInv'
<1>1. /\ Size' = Size /\ Requests' = Requests /\ Goroutines' = Goroutines
  BY SameSize
<1>2. 0 \in Goroutines /\ 0 \notin Requests /\ Requests \subseteq Goroutines /\ Requests = 1 .. Size
      /\ Size \in Nat
  BY SizeFacts
<1>3. pc \in [Goroutines -> {"call", "select", "fill", "wait", "returned", "idle", "claimed",
                             "written", "closing", "end"}] /\ pos \in 1 .. Size + 1
  BY DEF CallTypeOK
<1>4. CASE g # 0
  <2>1. pc' = [pc EXCEPT ![g] = "end"] /\ pos' = pos
    BY <1>4 DEF Leave
  <2>2. pc'[g] = "end" /\ \A h \in Goroutines : h # g => pc'[h] = pc[h]
    BY <1>3, <2>1
  <2>3. PcInv'
    BY <1>1, <1>2, <1>4, <2>1, <2>2 DEF PcInv
  <2> QED BY <1>3, <1>4, <2>1, <2>2, <2>3
<1>5. CASE g = 0
  <2>1. pc' = [pc EXCEPT ![0] = IF pos < Size THEN "fill" ELSE "wait"] /\ pos' = pos + 1
    BY <1>5 DEF Leave
  <2>2. pos \in Requests /\ kind = "ctxmany"
    BY <1>2, <1>5 DEF PcInv
  <2>3. pc'[0] = (IF pos < Size THEN "fill" ELSE "wait") /\ \A h \in Goroutines : h # 0 => pc'[h] = pc[h]
    BY <1>2, <1>3, <2>1
  <2>4. pos' \in 1 .. Size + 1 /\ (pc'[0] = "fill" => pos' \in Requests)
    BY <1>2, <2>1, <2>2, <2>3
  <2>5. PcInv'
    BY <1>1, <1>2, <2>2, <2>3, <2>4 DEF PcInv
  <2>6. pc' \in [Goroutines -> {"call", "select", "fill", "wait", "returned", "idle", "claimed",
                                "written", "closing", "end"}]
    BY <1>3, <2>1
  <2> QED BY <1>5, <2>3, <2>4, <2>5, <2>6
<1> QED BY <1>4, <1>5

\* A result nobody waits for: its request was claimed before.
LEMMA LateStep ==
    ASSUME CallInv, NEW g \in Goroutines, Begin(g), Claimed(At(g))
    PROVE  CallInv'
<1>1. /\ Leave(g) /\ UNCHANGED <<kind, r, o, cnt, closes, ctxdone, gaveup>> /\ kind = "ctxmany"
      /\ \/ g \in Requests /\ pc[g] = "idle"
         \/ g = 0 /\ pc[0] = "fill"
  BY DEF Begin, Claimed
<1>2. CallTypeOK /\ PcInv /\ TallyInv /\ ClosesInv /\ ResultInv
  BY DEF CallInv
<1>3. /\ Size' = Size /\ Requests' = Requests /\ Goroutines' = Goroutines /\ (Tallies' <=> Tallies)
  BY <1>1, SameSize
<1>4. /\ pc' \in [Goroutines -> {"call", "select", "fill", "wait", "returned", "idle",
                                 "claimed", "written", "closing", "end"}]
      /\ pc'[g] \in {"end", "fill", "wait"} /\ (g # 0 => pc'[g] = "end")
      /\ \A h \in Goroutines : h # g => pc'[h] = pc[h]
      /\ pos' \in 1 .. Size + 1 /\ (g # 0 => pos' = pos)
      /\ PcInv'
  BY <1>1, <1>2, LeaveFacts
<1>5. 0 \in Goroutines /\ 0 \notin Requests /\ Requests \subseteq Goroutines
  BY SizeFacts
<1>6. CallTypeOK'
  BY <1>1, <1>2, <1>3, <1>4 DEF CallTypeOK
<1>7. Working' = Working /\ Closing' = Closing
  BY <1>1, <1>3, <1>4 DEF Working, Closing
<1>8. TallyInv' /\ ClosesInv'
  BY <1>1, <1>2, <1>3, <1>7 DEF TallyInv, ClosesInv
<1>9. ResultInv'
  <2>1. Arrived \subseteq Arrived'
    BY <1>1, <1>3, <1>4, <1>5 DEF Arrived
  <2>2. \A h \in Goroutines : pc[h] = "claimed" => pc'[h] = "claimed" /\ At(h)' = At(h)
    BY <1>1, <1>4, <1>5 DEF At
  <2>3. \A i \in o' : r'[i] # Unset \/ \E h \in Goroutines : pc'[h] = "claimed" /\ At(h)' = i
    BY <1>1, <1>2, <2>2 DEF ResultInv
  <2>4. pc'[0] = "returned" => pc[0] = "returned"
    BY <1>4, <1>5
  <2>5. Settled => Settled'
    BY <1>1, <1>3, <1>4 DEF Settled
  <2> QED BY <1>1, <1>2, <1>3, <2>1, <2>3, <2>4, <2>5 DEF ResultInv
<1> QED BY <1>4, <1>6, <1>8, <1>9 DEF CallInv

LEMMA WriteStep == ASSUME CallInv, NEW g \in Goroutines, Write(g) PROVE CallInv'
<1>1. PICK a : a = At(g)
  OBVIOUS
<1>2. PICK v \in Values(g) : r' = [r EXCEPT ![a] = v]
  BY <1>1 DEF Write
<1>3. pc[g] = "claimed" /\ pc' = [pc EXCEPT ![g] = "written"]
      /\ UNCHANGED <<kind, pos, o, cnt, closes, ctxdone, gaveup>>
  BY DEF Write
<1>4. CallTypeOK /\ PcInv /\ TallyInv /\ ClosesInv /\ ResultInv
  BY DEF CallInv
<1>5. /\ Size' = Size /\ Requests' = Requests /\ Goroutines' = Goroutines /\ (Tallies' <=> Tallies)
  BY <1>3, SameSize
<1>6. 0 \in Goroutines /\ 0 \notin Requests /\ Requests \subseteq Goroutines /\ Requests = 1 .. Size
      /\ Goroutines = 0 .. Size /\ Size \in Nat
  BY SizeFacts
<1>7. g = 0 \/ g \in Requests
  BY <1>6
<1>8. a \in Requests /\ (g # 0 => a = g)
  BY <1>1, <1>3, <1>4, <1>7, AtFacts
<1>9. pc \in [Goroutines -> {"call", "select", "fill", "wait", "returned", "idle", "claimed",
                             "written", "closing", "end"}]
      /\ r \in [Requests -> Requests \cup {Unset, ErrRequestCancelled}]
  BY <1>4 DEF CallTypeOK
<1>10. pc'[g] = "written" /\ \A h \in Goroutines : h # g => pc'[h] = pc[h]
  BY <1>3, <1>9
<1>11. (v = a /\ g = a) \/ (v = ErrRequestCancelled /\ ctxdone)
  BY <1>7, <1>8 DEF Values
<1>12. r'[a] = v /\ \A i \in Requests : i # a => r'[i] = r[i]
  BY <1>2, <1>8, <1>9
<1>13. CallTypeOK'
  <2>1. pc' \in [Goroutines -> {"call", "select", "fill", "wait", "returned", "idle", "claimed",
                                "written", "closing", "end"}]
    BY <1>3, <1>9
  <2>2. r' \in [Requests -> Requests \cup {Unset, ErrRequestCancelled}]
    BY <1>2, <1>8, <1>9, <1>11
  <2> QED BY <1>3, <1>4, <1>5, <2>1, <2>2 DEF CallTypeOK
<1>14. PcInv'
  BY <1>3, <1>4, <1>5, <1>6, <1>10 DEF PcInv
<1>15. Working' = Working /\ Closing' = Closing
  BY <1>3, <1>5, <1>10 DEF Working, Closing
<1>16. TallyInv' /\ ClosesInv'
  BY <1>3, <1>4, <1>5, <1>6, <1>10, <1>15 DEF TallyInv, ClosesInv
<1>17. ResultInv'
  <2>1. Arrived \subseteq Arrived' /\ (g \in Requests => g \in Arrived')
    BY <1>5, <1>6, <1>10 DEF Arrived
  <2>2. \A i \in Requests : /\ r'[i] \in {Unset, ErrRequestCancelled, i}
                            /\ r'[i] = i => i \in Arrived'
                            /\ r'[i] = ErrRequestCancelled => ctxdone
    <3> SUFFICES ASSUME NEW i \in Requests
                 PROVE  /\ r'[i] \in {Unset, ErrRequestCancelled, i}
                        /\ r'[i] = i => i \in Arrived'
                        /\ r'[i] = ErrRequestCancelled => ctxdone
      OBVIOUS
    <3>1. CASE i # a
      BY <1>4, <1>12, <2>1, <3>1 DEF ResultInv
    <3>2. i # ErrRequestCancelled /\ i # Unset
      BY <1>6 DEF ErrRequestCancelled, Unset
    <3>3. CASE i = a
      BY <1>8, <1>11, <1>12, <2>1, <3>2, <3>3
    <3> QED BY <3>1, <3>3
  <2>3. r'[a] # Unset
    BY <1>6, <1>8, <1>11, <1>12 DEF Unset, ErrRequestCancelled
  <2>4. \A h \in Goroutines : At(h)' = At(h)
    BY <1>3 DEF At
  <2>5. \A i \in o : r'[i] # Unset \/ \E h \in Goroutines : pc'[h] = "claimed" /\ At(h)' = i
    <3> SUFFICES ASSUME NEW i \in o, i # a
                 PROVE  r'[i] # Unset \/ \E h \in Goroutines : pc'[h] = "claimed" /\ At(h)' = i
      BY <2>3
    <3>1. i \in Requests
      BY <1>4 DEF CallTypeOK
    <3>2. CASE r[i] # Unset
      BY <1>12, <3>1, <3>2
    <3>3. CASE \E h \in Goroutines : pc[h] = "claimed" /\ At(h) = i
      BY <1>1, <1>10, <2>4, <3>3
    <3> QED BY <1>4, <3>2, <3>3 DEF ResultInv
  <2>6. pc'[0] = "returned" /\ ~gaveup => FALSE
    BY <1>3, <1>4, <1>6, <1>10 DEF ResultInv, Settled
  <2>7. pc'[0] = "returned" <=> pc[0] = "returned"
    BY <1>3, <1>6, <1>10
  <2> QED BY <1>3, <1>4, <1>5, <2>2, <2>5, <2>6, <2>7 DEF ResultInv
<1> QED BY <1>13, <1>14, <1>16, <1>17 DEF CallInv

\* Steps after the write leave the results as they are.
LEMMA ResultKept ==
    ASSUME CallInv, NEW g \in Goroutines, pc[g] \in {"written", "closing"},
           g \in Requests => pc'[g] \in {"closing", "end"},
           g = 0 => pc'[0] \in {"closing", "fill", "wait"},
           \A h \in Goroutines : h # g => pc'[h] = pc[h],
           g # 0 => pos' = pos,
           UNCHANGED <<kind, r, o, ctxdone, gaveup>>,
           \A i \in Requests : closes[i] = 1 => closes'[i] = 1,
           g = 0 => kind = "ctxmany"
    PROVE  ResultInv'
<1>1. /\ Size' = Size /\ Requests' = Requests /\ Goroutines' = Goroutines
  BY SameSize
<1>2. 0 \in Goroutines /\ 0 \notin Requests /\ Requests \subseteq Goroutines /\ (g = 0 \/ g \in Requests)
  BY SizeFacts
<1>3. ResultInv /\ PcInv
  BY DEF CallInv
<1>4. Arrived' = Arrived
  BY <1>1, <1>2 DEF Arrived
<1>5. \A h \in Goroutines : pc[h] = "claimed" => pc'[h] = "claimed" /\ At(h)' = At(h)
  BY <1>2 DEF At
<1>6. \A i \in o : r[i] # Unset \/ \E h \in Goroutines : pc'[h] = "claimed" /\ At(h)' = i
  BY <1>3, <1>5 DEF ResultInv
<1>7. pc'[0] = "returned" <=> pc[0] = "returned"
  BY <1>2
<1>8. Settled => Settled'
  BY <1>1, <1>2 DEF Settled
<1>9. kind \in {"chan", "chanmany"} => pos' = pos
  OBVIOUS
<1> QED BY <1>1, <1>3, <1>4, <1>6, <1>7, <1>8, <1>9 DEF ResultInv

LEMMA CountStep == ASSUME CallInv, NEW g \in Goroutines, Count(g) PROVE CallInv'
<1>1. pc[g] = "written" /\ UNCHANGED <<kind, r, o, closes, ctxdone, gaveup>>
  BY DEF Count
<1>2. CallTypeOK /\ PcInv /\ TallyInv /\ ClosesInv /\ ResultInv
  BY DEF CallInv
<1>3. /\ Size' = Size /\ Requests' = Requests /\ Goroutines' = Goroutines /\ (Tallies' <=> Tallies)
  BY <1>1, SameSize
<1>4. 0 \in Goroutines /\ 0 \notin Requests /\ Requests \subseteq Goroutines /\ (g = 0 \/ g \in Requests)
  BY SizeFacts
<1>5. g = 0 => kind = "ctxmany"
  BY <1>1, <1>2 DEF PcInv
<1>6. pc \in [Goroutines -> {"call", "select", "fill", "wait", "returned", "idle", "claimed",
                             "written", "closing", "end"}] /\ cnt \in 0 .. Size /\ pos \in 1 .. Size + 1
  BY <1>2 DEF CallTypeOK
<1>7. g \in Working /\ Working # {}
  BY <1>1 DEF Working
<1>8. Tallies => cnt < Size /\ cnt + 1 \in 0 .. Size
  BY <1>2, <1>7, WorkersLeft
<1>9. ASSUME pc' = [pc EXCEPT ![g] = "closing"], pos' = pos
      PROVE  PcInv'
  <2>1. pc'[g] = "closing" /\ \A h \in Goroutines : h # g => pc'[h] = pc[h]
    BY <1>6, <1>9
  <2> QED BY <1>1, <1>2, <1>3, <1>4, <1>9, <2>1 DEF PcInv
<1>10. /\ pc' \in [Goroutines -> {"call", "select", "fill", "wait", "returned", "idle",
                                  "claimed", "written", "closing", "end"}]
       /\ pc'[g] \in {"closing", "end", "fill", "wait"} /\ (g # 0 => pc'[g] \in {"closing", "end"})
       /\ g = 0 => pc'[g] \in {"closing", "fill", "wait"}
       /\ \A h \in Goroutines : h # g => pc'[h] = pc[h]
       /\ pos' \in 1 .. Size + 1 /\ (g # 0 => pos' = pos)
       /\ PcInv'
  <2>1. CASE pc' = [pc EXCEPT ![g] = "closing"] /\ UNCHANGED pos
    BY <1>6, <1>9, <2>1
  <2>2. CASE Leave(g)
    <3>1. g \in Requests \/ (g = 0 /\ kind = "ctxmany" /\ pc[0] \in {"fill", "claimed", "written", "closing"})
      BY <1>1, <1>4, <1>5
    <3>2. /\ pc' \in [Goroutines -> {"call", "select", "fill", "wait", "returned", "idle",
                                     "claimed", "written", "closing", "end"}]
          /\ pc'[g] \in {"end", "fill", "wait"} /\ (g # 0 => pc'[g] = "end")
          /\ \A h \in Goroutines : h # g => pc'[h] = pc[h]
          /\ pos' \in 1 .. Size + 1 /\ (g # 0 => pos' = pos)
          /\ PcInv'
      BY <1>1, <1>2, <2>2, <3>1, LeaveFacts
    <3>3. g = 0 => pc'[g] # "end"
      BY <3>2 DEF PcInv
    <3> QED BY <3>2, <3>3
  <2> QED BY <2>1, <2>2 DEF Count
<1>11. IF Tallies THEN cnt' = cnt + 1 ELSE cnt' = cnt /\ pc'[g] = "closing"
  <2>1. kind \in CallKinds
    <3>1. kind \notin CallKinds => Requests = {}
      BY SizeFacts DEF Size, CallKinds
    <3> QED BY <1>4, <1>5, <3>1 DEF CallKinds
  <2>2. CASE kind \in {"ctx", "chan", "chanmany"}
    BY <1>6, <2>2 DEF Count, Tallies
  <2>3. CASE Tallies
    BY <2>3 DEF Count, Tallies
  <2> QED BY <2>1, <2>2, <2>3 DEF CallKinds, Tallies
<1>12. Tallies => (pc'[g] = "closing" <=> kind = "ctxmany" /\ cnt' = Size)
  <2>1. CASE kind = "ctxmany" /\ cnt + 1 = Size
    BY <1>6, <2>1 DEF Count
  <2>2. CASE ~(kind = "ctxmany" /\ cnt + 1 = Size) /\ Tallies
    <3>1. Leave(g) /\ cnt' = cnt + 1
      BY <1>3, <2>2 DEF Count, Tallies
    <3>2. pc'[g] # "closing"
      BY <1>6, <3>1 DEF Leave
    <3> QED BY <2>2, <3>1, <3>2
  <2> QED BY <1>11, <2>1, <2>2
<1>13. CallTypeOK'
  BY <1>1, <1>2, <1>3, <1>8, <1>10, <1>11 DEF CallTypeOK
<1>14. TallyInv'
  <2>1. Working' = Working \ {g}
    BY <1>3, <1>10 DEF Working
  <2>2. Cardinality(Working') = Cardinality(Working) - 1
    BY <1>7, <2>1, FiniteFacts, FS_RemoveElement
  <2>3. kind # "ctxmany" => o' = {i \in Requests : pc'[i] # "idle"}
    BY <1>1, <1>2, <1>4, <1>10 DEF TallyInv
  <2>4. Cardinality(Working) \in Nat /\ cnt \in Int
    BY <1>6, FiniteFacts
  <2>5. Tallies => Cardinality(o') = cnt' + Cardinality(Working')
    <3> SUFFICES ASSUME Tallies PROVE Cardinality(o') = cnt' + Cardinality(Working')
      OBVIOUS
    <3>1. Cardinality(o') = cnt + Cardinality(Working) /\ cnt' = cnt + 1
      BY <1>1, <1>2, <1>11 DEF TallyInv
    <3> QED BY <2>2, <2>4, <3>1
  <2> QED BY <1>1, <1>2, <1>3, <1>11, <2>3, <2>5 DEF TallyInv
<1>15. ClosesInv'
  <2>1. CASE kind \in {"sync", "syncmany"}
    <3>1. pc'[g] # "closing"
      BY <1>12, <2>1 DEF Tallies
    <3>2. Closing' = Closing
      BY <1>1, <1>3, <1>10, <3>1 DEF Closing
    <3> QED BY <1>1, <1>2, <1>3, <2>1, <3>2 DEF ClosesInv
  <2>2. CASE kind \in {"ctx", "chan", "chanmany"}
    <3>1. pc'[g] = "closing"
      BY <1>11, <2>2 DEF Tallies
    <3> QED BY <1>1, <1>2, <1>3, <1>4, <1>10, <2>2, <3>1 DEF ClosesInv
  <2>3. CASE kind = "ctxmany"
    <3>1. Closing = {} /\ closes[1] = 0 /\ Tallies
      BY <1>2, <1>8, <2>3 DEF ClosesInv, Tallies
    <3>2. Closing' \subseteq {g} /\ (cnt' < Size => Closing' = {})
      <4>1. \A h \in Goroutines : pc'[h] = "closing" => h = g
        BY <1>10, <3>1 DEF Closing
      <4>2. cnt' < Size => pc'[g] # "closing"
        BY <1>6, <1>11, <1>12, <3>1
      <4> QED BY <1>3, <4>1, <4>2 DEF Closing
    <3> QED BY <1>1, <1>2, <1>3, <2>3, <3>1, <3>2 DEF ClosesInv
  <2>4. CASE kind \notin CallKinds
    BY <1>1, <2>4 DEF ClosesInv, CallKinds
  <2> QED BY <2>1, <2>2, <2>3, <2>4 DEF CallKinds
<1>16. ResultInv'
  BY <1>1, <1>4, <1>5, <1>10, ResultKept
<1> QED BY <1>10, <1>13, <1>14, <1>15, <1>16 DEF CallInv

LEMMA CloseStep == ASSUME CallInv, NEW g \in Goroutines, Close(g) PROVE CallInv'
<1>1. pc[g] = "closing" /\ UNCHANGED <<kind, r, o, cnt, ctxdone, gaveup>> /\ Leave(g)
  BY DEF Close
<1>2. CallTypeOK /\ PcInv /\ TallyInv /\ ClosesInv /\ ResultInv
  BY DEF CallInv
<1>3. /\ Size' = Size /\ Requests' = Requests /\ Goroutines' = Goroutines /\ (Tallies' <=> Tallies)
  BY <1>1, SameSize
<1>4. 0 \in Goroutines /\ 0 \notin Requests /\ Requests \subseteq Goroutines /\ (g = 0 \/ g \in Requests)
  BY SizeFacts
<1>5. g = 0 => kind = "ctxmany"
  BY <1>1, <1>2 DEF PcInv
<1>6. PICK ch : ch = Channel(g)
  OBVIOUS
<1>7. closes' = [closes EXCEPT ![ch] = @ + 1] /\ closes \in [Requests -> Nat]
  BY <1>2, <1>6 DEF Close, CallTypeOK
<1>8. g \in Closing
  BY <1>1 DEF Closing
<1>9. /\ pc' \in [Goroutines -> {"call", "select", "fill", "wait", "returned", "idle",
                                 "claimed", "written", "closing", "end"}]
      /\ pc'[g] \in {"end", "fill", "wait"} /\ (g # 0 => pc'[g] = "end")
      /\ \A h \in Goroutines : h # g => pc'[h] = pc[h]
      /\ pos' \in 1 .. Size + 1 /\ (g # 0 => pos' = pos)
      /\ PcInv'
  BY <1>1, <1>2, <1>4, <1>5, LeaveFacts
<1>10. g = 0 => pc'[0] # "end"
  BY <1>9 DEF PcInv
<1>11. CallTypeOK'
  <2>1. closes' \in [Requests -> Nat]
    <3>1. CASE ch \in Requests
      <4>1. closes[ch] + 1 \in Nat
        BY <1>7, <3>1
      <4> QED BY <1>7, <4>1
    <3>2. CASE ch \notin Requests
      BY <1>7, <3>2
    <3> QED BY <3>1, <3>2
  <2> QED BY <1>1, <1>2, <1>3, <1>9, <2>1 DEF CallTypeOK
<1>12. TallyInv'
  <2>1. Working' = Working
    BY <1>1, <1>3, <1>9 DEF Working
  <2> QED BY <1>1, <1>2, <1>3, <1>4, <1>9, <2>1 DEF TallyInv
<1>13. ClosesInv' /\ \A i \in Requests : closes[i] = 1 => closes'[i] = 1
  <2>1. CASE kind \in {"sync", "syncmany"}
    BY <1>2, <1>8, <2>1 DEF ClosesInv
  <2>2. CASE kind \in {"ctx", "chan", "chanmany"}
    <3>1. g \in Requests /\ ch = g
      BY <1>4, <1>5, <1>6, <2>2, SizeFacts DEF Channel
    <3>2. closes[g] = 0 /\ pc'[g] = "end"
      BY <1>1, <1>2, <1>4, <1>9, <2>2, <3>1 DEF ClosesInv
    <3>3. closes'[g] = 1 /\ \A i \in Requests : i # g => closes'[i] = closes[i]
      BY <1>7, <3>1, <3>2
    <3>4. \A i \in Requests : closes'[i] = IF pc'[i] = "end" THEN 1 ELSE 0
      BY <1>2, <1>4, <1>9, <2>2, <3>2, <3>3 DEF ClosesInv
    <3> QED BY <1>1, <1>3, <2>2, <3>2, <3>3, <3>4 DEF ClosesInv
  <2>3. CASE kind = "ctxmany"
    <3>1. ch = 1 /\ 1 \in Requests
      BY <1>6, <2>3, SizeFacts DEF Channel
    <3>2. closes[1] = 0 /\ ~(cnt < Size) /\ Closing = {g}
      BY <1>2, <1>8, <2>3, <3>1 DEF ClosesInv
    <3>3. closes'[1] = 1 /\ \A i \in Requests : i # 1 => closes'[i] = closes[i]
      BY <1>7, <3>1, <3>2
    <3>4. Closing' = {}
      BY <1>3, <1>9, <3>2 DEF Closing
    <3> QED BY <1>1, <1>2, <1>3, <2>3, <3>2, <3>3, <3>4 DEF ClosesInv
  <2>4. CASE kind \notin CallKinds
    <3>1. Requests = {}
      BY <2>4, SizeFacts DEF Size, CallKinds
    <3> QED BY <1>1, <2>4, <3>1 DEF ClosesInv, CallKinds
  <2> QED BY <2>1, <2>2, <2>3, <2>4 DEF CallKinds
<1>14. ResultInv'
  <2>1. g = 0 => pc'[0] \in {"closing", "fill", "wait"}
    BY <1>9, <1>10
  <2>2. g \in Requests => pc'[g] \in {"closing", "end"}
    BY <1>4, <1>9
  <2> QED BY <1>1, <1>5, <1>9, <1>13, <2>1, <2>2, ResultKept
<1> QED BY <1>9, <1>11, <1>12, <1>13, <1>14 DEF CallInv

\* The caller goes on by itself.
LEMMA CallerStep == ASSUME CallInv, Caller PROVE CallInv'
<1>1. PICK next : pc' = [pc EXCEPT ![0] = next] /\ UNCHANGED <<kind, r, o, cnt, closes, ctxdone>>
                  /\ next \in {"select", "returned", "fill"}
  BY DEF Caller, SendReturns, WaitGroup, Value, Received, Abandoned, Become
<1>2. CallTypeOK /\ PcInv /\ TallyInv /\ ClosesInv /\ ResultInv
  BY DEF CallInv
<1>3. /\ Size' = Size /\ Requests' = Requests /\ Goroutines' = Goroutines /\ (Tallies' <=> Tallies)
  BY <1>1, SameSize
<1>4. 0 \in Goroutines /\ 0 \notin Requests /\ Requests \subseteq Goroutines /\ Requests = 1 .. Size
      /\ Size \in Nat
  BY SizeFacts
<1>5. pc \in [Goroutines -> {"call", "select", "fill", "wait", "returned", "idle", "claimed",
                             "written", "closing", "end"}] /\ pos \in 1 .. Size + 1
  BY <1>2 DEF CallTypeOK
<1>6. pc'[0] = next /\ \A h \in Goroutines : h # 0 => pc'[h] = pc[h]
  BY <1>1, <1>4, <1>5
<1>7. pc[0] \in {"call", "select", "wait"}
  BY DEF Caller, SendReturns, WaitGroup, Value, Received, Abandoned
<1>8. Working' = Working /\ Closing' = Closing /\ Arrived' = Arrived
  BY <1>1, <1>3, <1>4, <1>6, <1>7 DEF Working, Closing, Arrived
<1>9. TallyInv' /\ ClosesInv'
  BY <1>1, <1>2, <1>3, <1>4, <1>6, <1>8 DEF TallyInv, ClosesInv
<1>10. /\ pos' \in 1 .. Size + 1
       /\ kind # "ctxmany" => next # "fill"
       /\ next \in {"select", "fill"} => pos' \in Requests
       /\ gaveup' \in BOOLEAN /\ (gaveup' => kind = "ctx" /\ ctxdone /\ next = "returned")
       /\ pos' # pos => pos' = pos + 1 \/ kind = "ctxmany"
  <2>1. gaveup = FALSE
    BY <1>2, <1>7 DEF ResultInv, CallTypeOK
  <2>2. CASE SendReturns
    <3>1. next = "select" /\ pos' = pos /\ gaveup' = gaveup /\ pos = 1 /\ Size > 0
      BY <1>2, <1>4, <1>5, <1>6, <2>2 DEF SendReturns, Become, PcInv
    <3>2. pos' \in 1 .. Size + 1 /\ pos' \in Requests
      BY <1>4, <3>1
    <3> QED BY <2>1, <3>1, <3>2
  <2>3. CASE WaitGroup \/ Received
    <3>1. next = "returned" /\ pos' = pos /\ gaveup' = gaveup
      BY <1>4, <1>5, <1>6, <2>3 DEF WaitGroup, Received, Become
    <3> QED BY <1>5, <2>1, <3>1
  <2>4. CASE Value
    <3>1. next = (IF pos < Size THEN "select" ELSE "returned") /\ pos' = pos + 1 /\ gaveup' = gaveup
      BY <1>4, <1>5, <1>6, <2>4 DEF Value, Become
    <3>2. pos \in Requests
      BY <1>2, <2>4 DEF Value, PcInv
    <3>3. next # "fill" /\ pos' \in 1 .. Size + 1 /\ (next = "select" => pos' \in Requests)
      BY <1>4, <3>1, <3>2
    <3> QED BY <2>1, <3>1, <3>3
  <2>5. CASE Abandoned /\ kind = "ctx"
    <3>1. next = "returned" /\ pos' = pos /\ gaveup' = TRUE /\ ctxdone
      BY <1>4, <1>5, <1>6, <2>5 DEF Abandoned, Become
    <3> QED BY <1>5, <2>5, <3>1
  <2>6. CASE Abandoned /\ kind = "ctxmany"
    <3>1. next = "fill" /\ pos' = 1 /\ gaveup' = gaveup
      BY <1>4, <1>5, <1>6, <2>6 DEF Abandoned, Become
    <3>2. 1 \in Requests
      BY <2>6, SizeFacts
    <3>3. pos' \in 1 .. Size + 1
      BY <1>4, <3>1
    <3> QED BY <2>1, <2>6, <3>1, <3>2, <3>3
  <2> QED BY <2>2, <2>3, <2>4, <2>5, <2>6 DEF Caller, Abandoned
<1>11. PcInv'
  BY <1>1, <1>2, <1>3, <1>4, <1>6, <1>10 DEF PcInv
<1>12. CallTypeOK'
  BY <1>1, <1>2, <1>3, <1>5, <1>10 DEF CallTypeOK
<1>13. kind \in {"chan", "chanmany"} =>
          /\ \A i \in Requests : i < pos' => closes[i] = 1
          /\ next = "returned" => pos' = Size + 1
  <2> SUFFICES ASSUME kind \in {"chan", "chanmany"}
               PROVE  /\ \A i \in Requests : i < pos' => closes[i] = 1
                      /\ next = "returned" => pos' = Size + 1
    OBVIOUS
  <2>1. \A i \in Requests : i < pos => closes[i] = 1
    BY <1>2 DEF ResultInv
  <2>2. CASE SendReturns
    BY <1>4, <1>5, <1>6, <2>1, <2>2 DEF SendReturns, Become
  <2>3. CASE Value
    <3>1. next = (IF pos < Size THEN "select" ELSE "returned") /\ pos' = pos + 1 /\ closes[pos] > 0
      BY <1>4, <1>5, <1>6, <2>3 DEF Value, Become
    <3>2. pos \in Requests
      BY <1>2, <2>3 DEF Value, PcInv
    <3>3. closes[pos] = 1
      BY <1>2, <3>1, <3>2 DEF ClosesInv
    <3> QED BY <1>4, <2>1, <3>1, <3>2, <3>3
  <2> QED BY <2>2, <2>3 DEF Caller, WaitGroup, Received, Abandoned
<1>14. next = "returned" /\ ~gaveup' => Settled'
  <2> SUFFICES ASSUME next = "returned", ~gaveup' PROVE o = Requests /\ \A g \in Goroutines : pc[g] # "claimed"
    BY <1>1, <1>3, <1>4, <1>6 DEF Settled
  <2>1. ASSUME Tallies, cnt = Size PROVE o = Requests /\ \A g \in Goroutines : pc[g] # "claimed"
    <3>1. o = Requests /\ Working = {}
      BY <1>2, <2>1, AllCounted
    <3> QED BY <3>1 DEF Working
  <2>2. ASSUME kind \in {"ctx", "chan", "chanmany"}, \A i \in Requests : closes[i] = 1
        PROVE  o = Requests /\ \A g \in Goroutines : pc[g] # "claimed"
    <3>1. \A i \in Requests : pc[i] = "end"
      BY <1>2, <2>2 DEF ClosesInv
    <3>2. o = Requests
      BY <1>2, <2>2, <3>1 DEF TallyInv
    <3>3. \A g \in Goroutines : g = 0 \/ g \in Requests
      BY SizeFacts
    <3> QED BY <1>7, <3>1, <3>2, <3>3
  <2>3. CASE WaitGroup
    BY <2>1, <2>3 DEF WaitGroup, Tallies
  <2>4. CASE Received /\ kind = "ctx"
    <3>1. Requests = {1} /\ closes[1] > 0
      BY <2>4, SizeFacts DEF Received
    <3>2. closes[1] = 1
      BY <1>2, <2>4, <3>1 DEF ClosesInv
    <3> QED BY <2>2, <2>4, <3>1, <3>2
  <2>5. CASE Received /\ kind = "ctxmany"
    <3>1. ~(cnt < Size)
      BY <1>2, <2>5 DEF Received, ClosesInv
    <3>2. cnt = Size
      BY <1>2, <1>4, <3>1 DEF CallTypeOK
    <3> QED BY <2>1, <2>5, <3>2 DEF Tallies
  <2>6. CASE Value
    <3>1. kind \in {"chan", "chanmany"}
      BY <2>6 DEF Value
    <3>2. \A i \in Requests : closes[i] = 1
      BY <1>4, <1>13, <3>1
    <3> QED BY <2>2, <3>1, <3>2
  <2>7. CASE SendReturns
    BY <1>4, <1>5, <1>6, <2>7 DEF SendReturns, Become
  <2>8. CASE Abandoned
    BY <1>4, <1>5, <1>6, <2>8 DEF Abandoned, Become
  <2> QED BY <2>3, <2>4, <2>5, <2>6, <2>7, <2>8 DEF Caller, Received
<1>15. ResultInv'
  <2>1. \A h \in Goroutines : pc[h] = "claimed" => pc'[h] = "claimed" /\ At(h)' = At(h)
    BY <1>4, <1>6, <1>7 DEF At
  <2>2. \A i \in o' : r'[i] # Unset \/ \E g \in Goroutines : pc'[g] = "claimed" /\ At(g)' = i
    BY <1>1, <1>2, <2>1 DEF ResultInv
  <2>3. \A i \in Requests : /\ r'[i] \in {Unset, ErrRequestCancelled, i}
                            /\ r'[i] = i => i \in Arrived'
                            /\ r'[i] = ErrRequestCancelled => ctxdone'
    BY <1>1, <1>2, <1>8 DEF ResultInv
  <2> QED BY <1>1, <1>3, <1>6, <1>10, <1>13, <1>14, <2>2, <2>3 DEF ResultInv
<1> QED BY <1>9, <1>11, <1>12, <1>15 DEF CallInv

\* Cancelling, and steps that are not of a call.
LEMMA CancelStep ==
    ASSUME CallInv, UNCHANGED <<kind, pc, pos, r, o, cnt, closes, gaveup>>,
           ctxdone' \in BOOLEAN, ctxdone => ctxdone'
    PROVE  CallInv'
<1>1. /\ Size' = Size /\ Requests' = Requests /\ Goroutines' = Goroutines /\ (Tallies' <=> Tallies)
  BY SameSize
<1>2. Working' = Working /\ Closing' = Closing /\ Arrived' = Arrived /\ (Settled' <=> Settled)
  BY <1>1 DEF Working, Closing, Arrived, Settled
<1>3. \A g : At(g)' = At(g)
  BY DEF At
<1>4. CallTypeOK' /\ PcInv' /\ TallyInv' /\ ClosesInv'
  BY <1>1, <1>2 DEF CallInv, CallTypeOK, PcInv, TallyInv, ClosesInv
<1>5. ResultInv'
  BY <1>1, <1>2, <1>3 DEF CallInv, ResultInv
<1> QED BY <1>4, <1>5 DEF CallInv

LEMMA CallInitInv == CallInit => CallInv
<1> SUFFICES ASSUME CallInit PROVE CallInv
  OBVIOUS
<1>1. Size \in Nat /\ Requests = 1 .. Size /\ Goroutines = 0 .. Size
  BY SizeFacts
<1>2. pc = [g \in Goroutines |-> IF g = 0 THEN "call" ELSE "idle"]
  BY DEF CallInit
<1>3. pc[0] = "call" /\ \A i \in Requests : pc[i] = "idle"
  BY <1>1, <1>2
<1>4. CallTypeOK
  <2>1. cnt \in 0 .. Size /\ pos \in 1 .. Size + 1
    BY <1>1 DEF CallInit
  <2> QED BY <1>2, <2>1 DEF CallInit, CallTypeOK
<1>5. PcInv
  BY <1>3 DEF PcInv, CallInit
<1>6. Working = {} /\ Closing = {}
  <2>1. \A g \in Goroutines : pc[g] \in {"call", "idle"}
    BY <1>2
  <2> QED BY <2>1 DEF Working, Closing
<1>7. TallyInv
  BY <1>3, <1>6, FS_EmptySet DEF TallyInv, CallInit
<1>8. ClosesInv
  BY <1>3, <1>6, SizeFacts DEF ClosesInv, CallInit
<1>9. ResultInv
  BY <1>1, <1>3 DEF ResultInv, CallInit, Unset, ErrRequestCancelled
<1> QED BY <1>4, <1>5, <1>7, <1>8, <1>9 DEF CallInv

LEMMA CallNextInv == ASSUME CallInv, CallNext PROVE CallInv'
<1>1. CASE Caller
  BY <1>1, CallerStep
<1>2. CASE Cancel
  BY <1>2, CancelStep DEF Cancel
<1>3. CASE \E g \in Goroutines : Begin(g)
  BY <1>3, ClaimStep, LateStep
<1>4. CASE \E g \in Goroutines : Resolving(g)
  BY <1>4, WriteStep, CountStep, CloseStep DEF Resolving
<1> QED BY <1>1, <1>2, <1>3, <1>4 DEF CallNext

-----------------------------------------------------------------------------
(* A blocking call is what BlockingCall says *)

\* Nothing a caller could notice happens.
Unnoticed == Size' = Size /\ Arrived' = Arrived /\ ctxdone' = ctxdone /\ Returned' = Returned

\* The caller gets its results.
LEMMA ReturnMaps ==
    ASSUME CallInv, CallInv', pc[0] # "returned", pc'[0] = "returned",
           UNCHANGED <<kind, r, ctxdone>>, Arrived' = Arrived, kind \in CallKinds
    PROVE  Abstract!Return
<1>1. /\ Size' = Size /\ Requests' = Requests
  BY SameSize
<1>2. Size \in Nat /\ Requests = 1 .. Size /\ Size # 0
  BY SizeFacts
<1>3. Returned = <<>>
  BY DEF Returned
<1>4. CASE gaveup'
  <2>1. kind = "ctx" /\ ctxdone
    BY <1>4 DEF CallInv, ResultInv
  <2>2. Size = 1
    BY <2>1 DEF Size, CallKinds
  <2>3. Returned' = <<ErrRequestCancelled>>
    BY <1>4 DEF Returned
  <2>4. Returned' \in [1 .. Size -> (1 .. Size) \cup {-1}] /\ \A i \in 1 .. Size : Returned'[i] = -1
    BY <2>2, <2>3 DEF ErrRequestCancelled
  <2>5. ctxdone' = ctxdone /\ Size > 0
    BY <1>2
  <2> QED BY <1>1, <1>3, <2>1, <2>4, <2>5
          DEF Abstract!Return, Abstract!Allowed, Abstract!ErrRequestCancelled
<1>5. CASE ~gaveup'
  <2>1. Returned' = r /\ r' = r
    BY <1>5 DEF Returned
  <2>2. Settled'
    BY <1>5 DEF CallInv, ResultInv
  <2>3. \A i \in Requests : r[i] # Unset
    BY <1>1, <2>1, <2>2 DEF CallInv, ResultInv, Settled
  <2>4. \A i \in Requests : (r[i] = i /\ i \in Arrived) \/ (r[i] = ErrRequestCancelled /\ ctxdone)
    BY <2>3 DEF CallInv, ResultInv
  <2>5. r \in [1 .. Size -> (1 .. Size) \cup {-1}]
    BY <1>2, <2>4 DEF CallInv, CallTypeOK, ErrRequestCancelled
  <2>6. Size > 0
    BY <1>2
  <2> QED BY <1>1, <1>2, <1>3, <2>1, <2>4, <2>5, <2>6
          DEF Abstract!Return, Abstract!Allowed, Abstract!ErrRequestCancelled, ErrRequestCancelled
<1> QED BY <1>4, <1>5

\* Every step of a call is a step that BlockingCall allows, or goes unnoticed.
LEMMA CallMaps ==
    ASSUME CallInv, CallInv', CallNext
    PROVE  Abstract!Next \/ Unnoticed
<1> USE DEF Abstract!Next
<1>0. kind' = kind
  BY DEF CallNext, Caller, SendReturns, WaitGroup, Value, Received, Abandoned, Become, Cancel,
         Begin, Resolving, Write, Count, Close
<1>1. /\ Size' = Size /\ Requests' = Requests /\ Goroutines' = Goroutines
  BY <1>0, SameSize
<1>2. 0 \in Goroutines /\ 0 \notin Requests /\ Requests \subseteq Goroutines /\ Requests = 1 .. Size
      /\ \A g \in Goroutines : g = 0 \/ g \in Requests
  BY SizeFacts
<1>3. pc \in [Goroutines -> {"call", "select", "fill", "wait", "returned", "idle", "claimed",
                             "written", "closing", "end"}]
  BY DEF CallInv, CallTypeOK
<1>4. CASE Caller
  <2>1. /\ UNCHANGED <<kind, r, ctxdone>> /\ pc[0] # "returned"
        /\ \A g \in Goroutines : g # 0 => pc'[g] = pc[g]
    BY <1>3, <1>4 DEF Caller, SendReturns, WaitGroup, Value, Received, Abandoned, Become
  <2>2. Arrived' = Arrived
    BY <1>1, <1>2, <2>1 DEF Arrived
  <2>3. kind \in CallKinds
    BY <1>4, <1>2 DEF Caller, SendReturns, WaitGroup, Value, Received, Abandoned, CallKinds, Size
  <2>4. CASE pc'[0] = "returned"
    BY <2>1, <2>2, <2>3, <2>4, ReturnMaps
  <2>5. CASE pc'[0] # "returned"
    BY <1>1, <2>1, <2>2, <2>5 DEF Unnoticed, Returned
  <2> QED BY <2>4, <2>5
<1>5. CASE Cancel
  <2>1. Arrived' = Arrived /\ Returned' = Returned /\ ctxdone' = TRUE
    BY <1>1, <1>5 DEF Cancel, Arrived, Returned
  <2> QED BY <1>1, <2>1 DEF Abstract!Cancel
<1>6. ASSUME NEW g \in Goroutines, Begin(g) \/ Resolving(g)
      PROVE  Abstract!Next \/ Unnoticed
  <2>1. /\ \A h \in Goroutines : h # g => pc'[h] = pc[h]
        /\ g = 0 => pc[0] # "returned" /\ pc'[0] # "returned"
        /\ UNCHANGED <<ctxdone, gaveup>>
    BY <1>2, <1>3, <1>6 DEF Begin, Resolving, Write, Count, Close, Leave
  <2>2. pc'[0] = "returned" <=> pc[0] = "returned"
    BY <1>2, <2>1
  <2>3. r' = r \/ Write(g)
    BY <1>6 DEF Begin, Resolving, Count, Close
  <2>4. Returned' = Returned
    <3>1. CASE pc[0] # "returned" \/ gaveup
      BY <2>1, <2>2, <3>1 DEF Returned
    <3>2. CASE pc[0] = "returned" /\ ~gaveup
      <4>1. ~Write(g)
        BY <3>2 DEF CallInv, ResultInv, Settled, Write
      <4> QED BY <2>1, <2>2, <2>3, <4>1 DEF Returned
    <3> QED BY <3>1, <3>2
  <2>5. g \in Arrived => g \in Arrived'
    <3> SUFFICES ASSUME g \in Requests, pc[g] \in {"written", "closing", "end"}
                 PROVE  pc'[g] \in {"closing", "end"}
      BY <1>1 DEF Arrived
    <3>1. Count(g) \/ Close(g)
      BY <1>2, <1>6 DEF Begin, Resolving, Write
    <3> QED BY <1>2, <1>3, <3>1 DEF Count, Close, Leave
  <2>6. Arrived' = Arrived \/ (g \in Requests \ Arrived /\ Arrived' = Arrived \cup {g})
    BY <1>1, <1>2, <2>1, <2>5 DEF Arrived
  <2> QED BY <1>1, <1>2, <2>1, <2>4, <2>6 DEF Unnoticed, Abstract!Arrive
<1> QED BY <1>4, <1>5, <1>6 DEF CallNext

-----------------------------------------------------------------------------
(* Facts about iterations *)

Distinct(list) == \A i, j \in DOMAIN list : list[i] = list[j] => i = j

LEMMA TailFacts ==
    ASSUME NEW S, NEW q \in Seq(S), q # <<>>, Distinct(q)
    PROVE  /\ Tail(q) \in Seq(S) /\ Len(Tail(q)) = Len(q) - 1
           /\ \A j \in DOMAIN Tail(q) : j + 1 \in DOMAIN q /\ Tail(q)[j] = q[j + 1]
           /\ Distinct(Tail(q)) /\ q[1] \in ToSet(q) /\ ToSet(Tail(q)) = ToSet(q) \ {q[1]}
<1>1. Len(q) \in Nat /\ Len(q) # 0 /\ DOMAIN q = 1 .. Len(q)
  OBVIOUS
<1>2. PICK t : t = Tail(q)
  OBVIOUS
<1>3. t \in Seq(S) /\ Len(t) = Len(q) - 1
  BY <1>2
<1>4. DOMAIN t = 1 .. Len(q) - 1 /\ \A j \in DOMAIN t : t[j] = q[j + 1]
  BY <1>2, <1>3
<1>5. \A j \in DOMAIN t : j + 1 \in DOMAIN q /\ j + 1 # 1
  BY <1>1, <1>4
<1>6. 1 \in DOMAIN q
  BY <1>1
<1>7. Distinct(t)
  <2> SUFFICES ASSUME NEW i \in DOMAIN t, NEW j \in DOMAIN t, t[i] = t[j] PROVE i = j
    BY DEF Distinct
  <2>1. i + 1 = j + 1
    BY <1>4, <1>5 DEF Distinct
  <2> QED BY <1>1, <1>4, <2>1
<1>8. ToSet(t) \subseteq ToSet(q) \ {q[1]}
  BY <1>4, <1>5, <1>6 DEF ToSet, Distinct
<1>9. ToSet(q) \ {q[1]} \subseteq ToSet(t)
  <2> SUFFICES ASSUME NEW k \in DOMAIN q, q[k] # q[1] PROVE \E j \in DOMAIN t : t[j] = q[k]
    BY DEF ToSet
  <2>1. PICK m : m = k - 1
    OBVIOUS
  <2>2. k # 1
    OBVIOUS
  <2>3. m \in DOMAIN t /\ m + 1 = k
    BY <1>1, <1>4, <2>1, <2>2
  <2> QED BY <1>4, <2>3
<1>10. q[1] \in ToSet(q)
  BY <1>6 DEF ToSet
<1>11. /\ t \in Seq(S) /\ Len(t) = Len(q) - 1
       /\ \A j \in DOMAIN t : j + 1 \in DOMAIN q /\ t[j] = q[j + 1]
       /\ Distinct(t) /\ q[1] \in ToSet(q) /\ ToSet(t) = ToSet(q) \ {q[1]}
  <2>1. ToSet(t) = ToSet(q) \ {q[1]}
    BY <1>8, <1>9
  <2>2. \A j \in DOMAIN t : j + 1 \in DOMAIN q /\ t[j] = q[j + 1]
    BY <1>4, <1>5
  <2> QED BY <1>3, <1>7, <1>10, <2>1, <2>2
<1> QED BY <1>2, <1>11, Zenon

\* A sequence without repetitions has as many elements as places.
LEMMA DistinctLen ==
    ASSUME NEW S, NEW q \in Seq(S), Distinct(q)
    PROVE  Cardinality(ToSet(q)) = Len(q)
<1>1. Len(q) \in Nat /\ DOMAIN q = 1 .. Len(q)
  OBVIOUS
<1>2. q \in [1 .. Len(q) -> ToSet(q)]
  BY <1>1 DEF ToSet
<1>3. q \in Injection(1 .. Len(q), ToSet(q)) /\ q \in Surjection(1 .. Len(q), ToSet(q))
  BY <1>1, <1>2 DEF Injection, Surjection, IsInjective, Distinct, ToSet
<1>4. ExistsBijection(1 .. Len(q), ToSet(q))
  BY <1>3 DEF ExistsBijection, Bijection
<1>5. IsFiniteSet(1 .. Len(q)) /\ Cardinality(1 .. Len(q)) = IF 1 > Len(q) THEN 0 ELSE Len(q) - 1 + 1
  BY <1>1, FS_Interval
<1>6. Cardinality(ToSet(q)) = Cardinality(1 .. Len(q))
  BY <1>4, <1>5, FS_Bijection
<1> QED BY <1>1, <1>5, <1>6

\* The types of the scanner's own state.
ScanTypeOK ==
    /\ addrs \in Seq(Masters) /\ iter \in Iters
    /\ err \in BOOLEAN /\ cb \in {"nil", "current", "old"}
    /\ flying \in Seq([addr: Masters, iter: Iters])
    /\ reader \in {"ready", "send", "select", "stopped"} /\ got \in Answers
    /\ page \in [addr: Masters, iter: Iters] \cup {NoPage}
    /\ alive \subseteq Masters /\ wanted \subseteq Masters
    /\ pages \in [Masters -> Seq(Iters)] /\ over \subseteq Masters
    /\ shards \in Seq({"conn", "false", "error"}) /\ paniced \in BOOLEAN

LEMMA IterFacts ==
    /\ NoIter \in Iters /\ LastIter \in Iters /\ NoIter # LastIter
    /\ \A i \in Iters : i < MaxCursor => i + 1 \in Iters
    /\ \A i \in Iters : i \in Int /\ i >= -1
BY ScanAssumption DEF Iters, Cursors, NoIter, LastIter

\* At the start nothing is through and nothing is read.
LEMMA ScanInitInv == ASSUME Init PROVE ScanTypeOK /\ ScanInv
<1>1. addrs \in Seq(Masters) /\ Distinct(addrs) /\ wanted = ToSet(addrs)
      /\ (Scans /\ ~err => addrs # <<>>) /\ (kind = "connscan" => Len(addrs) = 1)
      /\ err \in BOOLEAN
  <2>1. ASSUME addrs \in SetToSeqs(Masters)
        PROVE  addrs \in Seq(Masters) /\ Distinct(addrs) /\ addrs # <<>>
    <3>1. Cardinality(Masters) \in Nat /\ Cardinality(Masters) # 0
      BY ScanAssumption, FS_CardinalityType, FS_EmptySet
    <3>2. addrs \in [1 .. Cardinality(Masters) -> Masters] /\ Distinct(addrs)
      BY <2>1 DEF SetToSeqs, Distinct
    <3>3. 1 \in DOMAIN addrs
      BY <3>1, <3>2
    <3> QED BY <3>1, <3>2, <3>3
  <2>2. ASSUME NEW a \in Masters, addrs = <<a>>
        PROVE  addrs \in Seq(Masters) /\ Distinct(addrs) /\ addrs # <<>> /\ Len(addrs) = 1
    BY <2>2 DEF Distinct
  <2>3. ASSUME addrs = <<>> PROVE addrs \in Seq(Masters) /\ Distinct(addrs)
    BY <2>3 DEF Distinct
  <2> QED BY <2>1, <2>2, <2>3 DEF Init, Scans, CallKinds
<1>2. /\ iter = NoIter /\ cb = "nil" /\ flying = <<>>
      /\ reader = "ready" /\ got = "none" /\ page = NoPage
      /\ pages = [a \in Masters |-> <<>>] /\ over = {} /\ shards = <<>>
      /\ paniced = FALSE /\ alive \in SUBSET Masters
  BY DEF Init
<1>3. wanted \in SUBSET Masters
  BY <1>1 DEF ToSet
<1>4. ScanTypeOK
  <2>1. <<>> \in Seq([addr: Masters, iter: Iters]) /\ <<>> \in Seq({"conn", "false", "error"})
        /\ <<>> \in Seq(Iters)
    OBVIOUS
  <2>2. pages \in [Masters -> Seq(Iters)]
    BY <1>2, <2>1
  <2>3. "ready" \in {"ready", "send", "select", "stopped"} /\ "none" \in Answers
        /\ "nil" \in {"nil", "current", "old"} /\ FALSE \in BOOLEAN
    BY DEF Answers
  <2>4. over \subseteq Masters /\ page \in [addr: Masters, iter: Iters] \cup {NoPage}
    BY <1>2
  <2> QED BY <1>1, <1>2, <1>3, <2>1, <2>2, <2>3, <2>4, IterFacts, Zenon DEF ScanTypeOK
<1>5. TurnInv /\ PagesInOrder
  BY <1>2 DEF TurnInv, PagesInOrder
<1>6. PlaceInv
  <2>1. \A j \in DOMAIN addrs : pages[addrs[j]] = <<>>
    BY <1>1, <1>2
  <2>2. addrs # <<>> => Request = ThisPage
    BY <1>1, <1>2, <2>1 DEF Request, ThisPage
  <2>3. Through(addrs)
    BY <1>1, <1>2 DEF Through
  <2>4. iter # LastIter
    BY <1>2, IterFacts
  <2> QED BY <1>1, <1>2, <2>1, <2>2, <2>3, <2>4 DEF PlaceInv, Distinct
<1>7. ShardsInv
  <2>1. Cardinality(wanted) = Len(addrs)
    BY <1>1, DistinctLen
  <2>2. Len(shards) + Len(addrs) = Len(addrs)
    BY <1>1, <1>2
  <2> QED BY <1>2, <2>1, <2>2 DEF ShardsInv
<1> QED BY <1>4, <1>5, <1>6, <1>7 DEF ScanInv

LEMMA ScannerNextStep ==
    ASSUME ScanTypeOK, ScanInv, ScannerNext, kind' = kind PROVE ScanTypeOK' /\ ScanInv'
<1>1. /\ Scans /\ reader = "ready" /\ Scans' /\ reader' \in {"select", "send"}
      /\ UNCHANGED <<flying, page, alive, wanted, pages, over, shards, paniced>>
  BY DEF ScannerNext, ConnNext, ClusterNext, AtOnce, DoNext, Scans
<1>2. TurnInv /\ PagesInOrder /\ PlaceInv /\ ShardsInv
  BY DEF ScanInv
<1>3. cb = "nil" /\ flying = <<>> /\ ~paniced /\ got # "eof"
  BY <1>1, <1>2 DEF TurnInv, PlaceInv
<1>4. PagesInOrder' /\ kind # "each" /\ kind' # "each"
  BY <1>1, <1>2 DEF PagesInOrder, Scans
<1>5. ShardsInv'
  BY <1>4 DEF ShardsInv
<1>6. ASSUME NEW what \in {"error", "eof"}, AtOnce(what)
      PROVE  TurnInv' /\ reader' = "select" /\ got' = what
  BY <1>1, <1>3, <1>6 DEF AtOnce, TurnInv
<1>7. ASSUME DoNext PROVE TurnInv' /\ reader' = "send" /\ got' = "none"
  BY <1>1, <1>3, <1>7 DEF DoNext, TurnInv
<1>8. addrs \in Seq(Masters) /\ Distinct(addrs)
  BY <1>2 DEF ScanTypeOK, PlaceInv, Distinct
<1>9. CASE err
  <2>1. AtOnce("error") /\ UNCHANGED <<addrs, iter, err>>
    BY <1>9 DEF ScannerNext
  <2>2. TurnInv' /\ reader' = "select" /\ got' = "error"
    BY <1>6, <2>1
  <2>3. PlaceInv'
    BY <1>1, <1>2, <2>1, <2>2 DEF PlaceInv
  <2>4. ScanTypeOK'
    BY <1>1, <2>1, <2>2 DEF AtOnce, ScanTypeOK, Answers
  <2> QED BY <1>4, <1>5, <2>2, <2>3, <2>4 DEF ScanInv
<1>10. CASE ~err /\ kind = "connscan"
  <2>1. ConnNext /\ UNCHANGED <<addrs, iter, err>>
    BY <1>10 DEF ScannerNext, ConnNext
  <2>2. CASE ShardDone
    <3>1. AtOnce("eof")
      BY <2>1, <2>2 DEF ConnNext
    <3>2. TurnInv' /\ reader' = "select" /\ got' = "eof"
      BY <1>6, <3>1
    <3>3. over = wanted
      <4>1. over = (wanted \ ToSet(addrs)) \cup {addrs[1]} /\ Len(addrs) = 1 /\ ToSet(addrs) \subseteq wanted
        BY <1>1, <1>2, <1>10, <2>2 DEF PlaceInv, ShardDone
      <4>2. ToSet(addrs) = {addrs[1]}
        BY <1>8, <4>1 DEF ToSet
      <4> QED BY <4>1, <4>2
    <3>4. PlaceInv'
      BY <1>1, <1>2, <2>1, <3>2, <3>3 DEF PlaceInv
    <3>5. ScanTypeOK'
      BY <1>1, <2>1, <3>1, <3>2 DEF AtOnce, ScanTypeOK, Answers
    <3> QED BY <1>4, <1>5, <3>2, <3>4, <3>5 DEF ScanInv
  <2>3. CASE ~ShardDone
    <3>1. DoNext
      BY <2>1, <2>3 DEF ConnNext
    <3>2. TurnInv' /\ reader' = "send" /\ got' = "none"
      BY <1>7, <3>1
    <3>3. addrs # <<>> /\ Through(addrs) /\ Request = ThisPage
      BY <1>1, <1>2, <1>10, <2>3 DEF PlaceInv, ShardDone
    <3>4. Through(addrs)' /\ Request' = ThisPage'
      BY <1>1, <2>1, <3>3 DEF Through, Request, ThisPage
    <3>5. PlaceInv'
      BY <1>1, <1>2, <2>1, <3>2, <3>3, <3>4 DEF PlaceInv
    <3>6. ScanTypeOK'
      BY <1>1, <2>1, <3>1, <3>2 DEF DoNext, ScanTypeOK, Answers
    <3> QED BY <1>4, <1>5, <3>2, <3>5, <3>6 DEF ScanInv
  <2> QED BY <2>2, <2>3
<1>11. CASE ~err /\ kind # "connscan"
  <2>1. ClusterNext /\ addrs # <<>>
    BY <1>1, <1>2, <1>11 DEF ScannerNext, PlaceInv
  <2>2. PICK rest : rest = IF ShardDone THEN Tail(addrs) ELSE addrs
    OBVIOUS
  <2>3. PICK next : next = IF ShardDone THEN NoIter ELSE iter
    OBVIOUS
  <2>4. addrs' = rest /\ iter' = next
    BY <2>1, <2>2, <2>3 DEF ClusterNext, IterNow
  <2>5. \/ rest = <<>> /\ err' = FALSE /\ AtOnce("eof")
        \/ rest # <<>> /\ err' = TRUE /\ AtOnce("error")
        \/ rest # <<>> /\ err' = FALSE /\ DoNext
    <3>1. rest = <<>> => next = NoIter
      BY <2>1, <2>2, <2>3
    <3> QED BY <2>1, <2>2, <2>3, <3>1 DEF ClusterNext, IterNow
  <2>6. rest \in Seq(Masters) /\ Distinct(rest) /\ ToSet(rest) \subseteq ToSet(addrs)
    BY <1>8, <2>1, <2>2, TailFacts
  <2>7. \A j \in DOMAIN rest : j # 1 \/ ShardDone => pages[rest[j]] = <<>>
    <3>1. \A j \in DOMAIN addrs : j # 1 => pages[addrs[j]] = <<>>
      BY <1>1, <1>2 DEF PlaceInv
    <3>2. CASE ShardDone
      <4> SUFFICES ASSUME NEW j \in DOMAIN rest PROVE pages[rest[j]] = <<>>
        OBVIOUS
      <4>1. j + 1 \in DOMAIN addrs /\ rest[j] = addrs[j + 1]
        BY <1>8, <2>1, <2>2, <3>2, TailFacts
      <4>2. j \in Nat /\ j # 0
        BY <2>6
      <4>3. j + 1 # 1
        BY <4>2
      <4> QED BY <3>1, <4>1, <4>3
    <3>3. CASE ~ShardDone
      BY <2>2, <3>1, <3>3
    <3> QED BY <3>2, <3>3
  <2>8. over = wanted \ ToSet(rest)
    <3>1. CASE ShardDone
      <4>1. over = (wanted \ ToSet(addrs)) \cup {addrs[1]} /\ ToSet(addrs) \subseteq wanted
        BY <1>1, <1>2, <1>11, <3>1 DEF PlaceInv, ShardDone
      <4>2. addrs[1] \in ToSet(addrs) /\ ToSet(rest) = ToSet(addrs) \ {addrs[1]}
        BY <1>8, <2>1, <2>2, <3>1, TailFacts
      <4> QED BY <4>1, <4>2
    <3>2. CASE ~ShardDone
      BY <1>1, <1>2, <1>11, <2>2, <3>2 DEF PlaceInv, ShardDone, Through
    <3> QED BY <3>1, <3>2
  <2>9. rest # <<>> => Request' = ThisPage'
    <3> SUFFICES ASSUME rest # <<>> PROVE Request' = ThisPage'
      OBVIOUS
    <3>1. CASE ShardDone
      <4>1. 1 \in DOMAIN rest
        BY <2>6
      <4>2. pages[rest[1]] = <<>>
        BY <2>7, <3>1, <4>1
      <4> QED BY <1>1, <2>3, <2>4, <3>1, <4>2 DEF Request, ThisPage
    <3>2. CASE ~ShardDone
      <4>1. Request = ThisPage /\ rest = addrs /\ next = iter
        BY <1>1, <1>2, <1>11, <2>2, <2>3, <3>2 DEF PlaceInv, ShardDone
      <4> QED BY <1>1, <2>4, <4>1 DEF Request, ThisPage
    <3> QED BY <3>1, <3>2
  <2>10. TurnInv' /\ (reader' = "send" => got' = "none" /\ rest # <<>>)
         /\ (reader' = "select" => got' \in {"eof", "error"})
         /\ (got' = "eof" => rest = <<>> /\ reader' = "select")
    BY <1>6, <1>7, <2>5 DEF AtOnce, DoNext
  <2>11. next \in Iters
    BY <2>3, IterFacts DEF ScanTypeOK
  <2>12. cb' \in {"nil", "current", "old"} /\ err' \in BOOLEAN /\ got' \in Answers
    BY <1>3, <2>5 DEF AtOnce, DoNext, Answers
  <2>13. ScanTypeOK'
    BY <1>1, <2>4, <2>6, <2>11, <2>12 DEF ScanTypeOK
  <2>14. PlaceInv'
    <3>1. ToSet(<<>>) = {}
      BY DEF ToSet
    <3>2. got' = "eof" => over = wanted
      BY <2>8, <2>10, <3>1
    <3>3. Distinct(addrs') /\ ToSet(addrs') \subseteq wanted
      BY <1>2, <2>4, <2>6 DEF PlaceInv
    <3>4. \A j \in DOMAIN addrs' : j # 1 => pages'[addrs'[j]] = <<>>
      BY <1>1, <2>4, <2>7
    <3>5. Through(addrs)'
      BY <1>1, <2>4, <2>8 DEF Through
    <3>6. reader' \in {"send", "select"} /\ (reader' = "select" => got' \in {"eof", "error"})
      BY <1>1, <2>10
    <3> QED BY <1>1, <1>11, <2>4, <2>9, <2>10, <3>2, <3>3, <3>4, <3>5, <3>6 DEF PlaceInv, Distinct
  <2> QED BY <1>4, <1>5, <2>10, <2>13, <2>14 DEF ScanInv
<1> QED BY <1>9, <1>10, <1>11

\* The first address is one, and its request has a type.
LEMMA HeadFacts ==
    ASSUME ScanTypeOK, addrs # <<>>
    PROVE  /\ 1 \in DOMAIN addrs /\ addrs[1] \in Masters /\ addrs[1] \in ToSet(addrs)
           /\ Request \in [addr: Masters, iter: Iters]
           /\ ThisPage.addr = addrs[1] /\ ThisPage.iter = Len(pages[addrs[1]])
           /\ ThisPage.iter \in Nat /\ ThisPage # NoPage
<1>1. addrs \in Seq(Masters) /\ iter \in Iters /\ pages \in [Masters -> Seq(Iters)]
  BY DEF ScanTypeOK
<1>2. 1 \in DOMAIN addrs /\ addrs[1] \in Masters
  BY <1>1
<1>3. addrs[1] \in ToSet(addrs)
  BY <1>2 DEF ToSet
<1>4. PICK i : i = (IF iter = NoIter THEN 0 ELSE iter)
  OBVIOUS
<1>5. i \in Iters
  BY <1>1, <1>4, IterFacts DEF LastIter
<1>6. Request = [addr |-> addrs[1], iter |-> i]
  BY <1>4 DEF Request
<1>7. ThisPage.addr = addrs[1] /\ ThisPage.iter = Len(pages[addrs[1]]) /\ ThisPage.iter \in Nat
  BY <1>1, <1>2 DEF ThisPage
<1>8. NoPage.iter = -1
  BY DEF NoPage, NoIter
<1>9. ThisPage # NoPage
  BY <1>7, <1>8
<1> QED BY <1>2, <1>3, <1>5, <1>6, <1>7, <1>9

\* The request goes out, or Send finds it cancelled and resolves it.
LEMMA SendScanStep ==
    ASSUME ScanTypeOK, ScanInv, SendScan, kind' = kind PROVE ScanTypeOK' /\ ScanInv'
<1>1. /\ reader = "send" /\ reader' = "select" /\ Scans /\ cb = "current" /\ got = "none"
      /\ flying = <<>> /\ ~paniced /\ addrs # <<>> /\ Through(addrs) /\ Request = ThisPage
  BY DEF SendScan, ScanInv, TurnInv, PlaceInv
<1>2. UNCHANGED <<kind, addrs, alive, wanted, pages, over, shards>> /\ Scans'
  BY <1>1 DEF SendScan, Scans
<1>3. PagesInOrder' /\ ShardsInv' /\ ThisPage' = ThisPage /\ Through(addrs)'
  BY <1>1, <1>2 DEF ScanInv, PagesInOrder, ShardsInv, Scans, ThisPage, Through
<1>4. \/ /\ flying' = <<>> /\ iter' = NoIter /\ err' = TRUE /\ cb' = "nil"
         /\ paniced' = FALSE /\ got' = "error" /\ page' = NoPage
      \/ /\ flying' = <<Request>> /\ UNCHANGED <<iter, err, cb, got, page, paniced>>
  <2>1. Append(<<>>, Request) = <<Request>>
    OBVIOUS
  <2>2. CASE ctxdone
    BY <1>1, <2>2 DEF SendScan, ResolveScan, PassOn, Accepts
  <2>3. CASE ~ctxdone
    BY <1>1, <2>1, <2>3 DEF SendScan, Accepts
  <2> QED BY <2>2, <2>3
<1>5. CASE /\ flying' = <<>> /\ iter' = NoIter /\ err' = TRUE /\ cb' = "nil"
           /\ paniced' = FALSE /\ got' = "error" /\ page' = NoPage
  <2>1. TurnInv'
    BY <1>1, <1>2, <1>5 DEF TurnInv
  <2>2. PlaceInv'
    BY <1>1, <1>2, <1>5 DEF ScanInv, PlaceInv
  <2>3. <<>> \in Seq([addr: Masters, iter: Iters]) /\ got' \in Answers /\ cb' \in {"nil", "current", "old"}
        /\ iter' \in Iters /\ page' \in [addr: Masters, iter: Iters] \cup {NoPage}
    BY <1>5, IterFacts DEF Answers
  <2>4. ScanTypeOK'
    BY <1>1, <1>2, <1>5, <2>3 DEF ScanTypeOK
  <2> QED BY <1>3, <2>1, <2>2, <2>4 DEF ScanInv
<1>6. CASE flying' = <<Request>> /\ UNCHANGED <<iter, err, cb, got, page, paniced>>
  <2>1. flying' = <<ThisPage>> /\ flying' \in Seq([addr: Masters, iter: Iters])
    BY <1>1, <1>6, HeadFacts
  <2>2. Len(flying') = 1 /\ flying'[1] = ThisPage
    BY <2>1
  <2>3. TurnInv'
    BY <1>1, <1>2, <1>6, <2>2 DEF TurnInv
  <2>4. PlaceInv'
    BY <1>1, <1>2, <1>3, <1>6, <2>2 DEF ScanInv, PlaceInv
  <2>5. ScanTypeOK'
    BY <1>1, <1>2, <1>6, <2>1 DEF ScanTypeOK
  <2> QED BY <1>3, <2>3, <2>4, <2>5 DEF ScanInv
<1> QED BY <1>4, <1>5, <1>6

LEMMA FirstAndRest ==
    ASSUME NEW S, NEW q \in Seq(S), q # <<>>
    PROVE  q[1] \in S /\ Tail(q) \in Seq(S)
OBVIOUS

LEMMA OnlyElement ==
    ASSUME NEW S, NEW q \in Seq(S), Len(q) = 1
    PROVE  q[1] \in S /\ Tail(q) = <<>>
<1>1. 1 \in DOMAIN q /\ q # <<>>
  OBVIOUS
<1>2. q[1] \in S
  BY <1>1
<1>3. Tail(q) \in Seq(S) /\ Len(Tail(q)) = 0
  BY <1>1
<1>4. \A t \in Seq(S) : Len(t) = 0 => t = <<>>
  OBVIOUS
<1> QED BY <1>2, <1>3, <1>4

LEMMA AppendFacts ==
    ASSUME NEW S, NEW q \in Seq(S), NEW e \in S
    PROVE  /\ Append(q, e) \in Seq(S) /\ Len(Append(q, e)) = Len(q) + 1 /\ Len(q) \in Nat
           /\ \A j \in DOMAIN Append(q, e) :
                 \/ j \in DOMAIN q /\ j <= Len(q) /\ Append(q, e)[j] = q[j]
                 \/ j = Len(q) + 1 /\ Append(q, e)[j] = e
           /\ Len(q) + 1 \in DOMAIN Append(q, e)
OBVIOUS

\* The answer to a request meets the callback of its own Next.
LEMMA ReplyStep ==
    ASSUME ScanTypeOK, ScanInv, Reply, kind' = kind PROVE ScanTypeOK' /\ ScanInv'
<1>1. TurnInv /\ PagesInOrder /\ PlaceInv /\ ShardsInv
  BY DEF ScanInv
<1>2. flying # <<>> /\ flying' = Tail(flying)
      /\ UNCHANGED <<kind, addrs, reader, alive, wanted, pages, over, shards>>
  BY DEF Reply
<1>3. /\ ~paniced /\ Len(flying) = 1 /\ cb # "nil"
      /\ reader = "select" /\ got = "none" /\ cb = "current" /\ Scans
  BY <1>1, <1>2 DEF TurnInv, ScanTypeOK
<1>4. PICK asked : asked = flying[1]
  OBVIOUS
<1>5. asked \in [addr: Masters, iter: Iters] /\ flying' = <<>>
  <2>1. flying \in Seq([addr: Masters, iter: Iters])
    BY DEF ScanTypeOK
  <2> QED BY <1>2, <1>3, <1>4, <2>1, OnlyElement
<1>6. PICK next, what :
        /\ \/ what = "more" /\ asked.iter < MaxCursor /\ next = asked.iter + 1
           \/ what = "last" /\ next = LastIter
           \/ what = "error" /\ next = NoIter
        /\ ResolveScan(next, what, asked)
  BY <1>4, Zenon DEF Reply
<1>7. /\ iter' = next /\ err' = (what = "error") /\ cb' = "nil" /\ paniced' = FALSE
      /\ IF cb = "current" THEN got' = what /\ page' = asked ELSE UNCHANGED <<got, page>>
  BY <1>3, <1>6 DEF ResolveScan, PassOn
<1>8. next \in Iters /\ what \in {"more", "last", "error"}
  <2>1. asked.iter \in Iters
    BY <1>5
  <2> QED BY <1>6, <2>1, IterFacts
<1>9. ScanTypeOK'
  <2>1. <<>> \in Seq([addr: Masters, iter: Iters])
    OBVIOUS
  <2>2. got' \in Answers /\ page' \in [addr: Masters, iter: Iters] \cup {NoPage}
    BY <1>5, <1>7, <1>8 DEF ScanTypeOK, Answers
  <2>3. err' \in BOOLEAN /\ cb' \in {"nil", "current", "old"} /\ paniced' \in BOOLEAN
    BY <1>7
  <2> QED BY <1>2, <1>5, <1>7, <1>8, <2>1, <2>2, <2>3 DEF ScanTypeOK
<1>10. PagesInOrder' /\ ShardsInv' /\ ThisPage' = ThisPage /\ Scans' = Scans
       /\ Through(addrs)' = Through(addrs)
  BY <1>1, <1>2 DEF PagesInOrder, ShardsInv, ThisPage, Scans, Through
<1>11. CASE reader = "select" /\ got = "none" /\ cb = "current" /\ Scans
  <2>1. got' = what /\ page' = asked /\ reader' = "select" /\ what # "none" /\ what # "eof"
    BY <1>2, <1>7, <1>8, <1>11
  <2>2. TurnInv'
    BY <1>5, <1>7, <1>10, <1>11, <2>1 DEF TurnInv
  <2>3. addrs # <<>> /\ Through(addrs) /\ asked = ThisPage
    BY <1>1, <1>4, <1>11 DEF PlaceInv
  <2>4. what # "error" => err' = FALSE /\ iter' = IF what = "last" THEN LastIter ELSE asked.iter + 1
    BY <1>6, <1>7
  <2>5. PlaceInv'
    BY <1>1, <1>2, <1>10, <1>11, <2>1, <2>3, <2>4 DEF PlaceInv
  <2> QED BY <1>9, <1>10, <2>2, <2>5 DEF ScanInv
<1> QED BY <1>3, <1>11

\* The user takes a page and goes on, or stops at an error or the end.
LEMMA GetKeysStep ==
    ASSUME ScanTypeOK, ScanInv, GetKeys, kind' = kind PROVE ScanTypeOK' /\ ScanInv'
<1>1. TurnInv /\ PagesInOrder /\ PlaceInv /\ ShardsInv
  BY DEF ScanInv
<1>2. /\ reader = "select" /\ got # "none" /\ Scans /\ Scans' /\ cb = "nil" /\ flying = <<>> /\ ~paniced
      /\ UNCHANGED <<kind, addrs, iter, err, cb, flying, got, page, alive, wanted, shards, paniced>>
  BY <1>1 DEF GetKeys, TurnInv, Scans
<1>3. ShardsInv'
  BY <1>2 DEF ShardsInv, Scans
<1>4. CASE got \in {"more", "last"}
  <2>1. /\ addrs # <<>> /\ Through(addrs) /\ page = ThisPage /\ ~err
        /\ iter = IF got = "last" THEN LastIter ELSE page.iter + 1
    BY <1>1, <1>2, <1>4 DEF PlaceInv
  <2>2. PICK h, n : h = addrs[1] /\ n = Len(pages[addrs[1]])
    OBVIOUS
  <2>3. h \in Masters /\ h \in ToSet(addrs) /\ page.addr = h /\ page.iter = n /\ n \in Nat /\ 1 \in DOMAIN addrs
    BY <2>1, <2>2, HeadFacts
  <2>4. n \in Iters
    <3>1. page \in [addr: Masters, iter: Iters]
      BY <2>1, HeadFacts DEF ScanTypeOK
    <3> QED BY <2>3, <3>1
  <2>5. /\ pages' = [pages EXCEPT ![h] = Append(@, n)] /\ reader' = "ready"
        /\ over' = IF got = "last" THEN over \cup {h} ELSE over
    BY <1>4, <2>3 DEF GetKeys
  <2>6. pages \in [Masters -> Seq(Iters)] /\ pages[h] \in Seq(Iters)
    BY <2>3 DEF ScanTypeOK
  <2>7. /\ pages' \in [Masters -> Seq(Iters)] /\ pages'[h] = Append(pages[h], n)
        /\ \A a \in Masters : a # h => pages'[a] = pages[a]
    <3>1. Append(pages[h], n) \in Seq(Iters)
      BY <2>4, <2>6
    <3> HIDE DEF Iters
    <3> QED BY <2>3, <2>5, <2>6, <3>1
  <2>8. Len(pages'[h]) = n + 1
    BY <2>2, <2>4, <2>6, <2>7, AppendFacts
  <2>9. PagesInOrder'
    <3> SUFFICES ASSUME NEW a \in Masters, NEW j \in DOMAIN pages'[a] PROVE pages'[a][j] = j - 1
      BY DEF PagesInOrder
    <3>1. CASE a # h
      BY <1>1, <2>7, <3>1 DEF PagesInOrder
    <3>2. CASE a = h
      <4>1. \/ j \in DOMAIN pages[h] /\ pages'[h][j] = pages[h][j]
            \/ j = n + 1 /\ pages'[h][j] = n
        BY <2>2, <2>4, <2>6, <2>7, <3>2, AppendFacts
      <4>2. ASSUME j = n + 1 PROVE n = j - 1
        BY <2>3, <4>2
      <4> QED BY <1>1, <2>3, <3>2, <4>1, <4>2 DEF PagesInOrder
    <3> QED BY <3>1, <3>2
  <2>10. TurnInv'
    BY <1>2, <2>5 DEF TurnInv
  <2>11. ScanTypeOK'
    BY <1>2, <2>3, <2>5, <2>7 DEF ScanTypeOK
  <2>12. \A j \in DOMAIN addrs : j # 1 => pages'[addrs[j]] = <<>>
    <3>1. \A j \in DOMAIN addrs : j # 1 => addrs[j] # h /\ pages[addrs[j]] = <<>>
      BY <1>1, <1>2, <2>2, <2>3 DEF PlaceInv
    <3>2. \A j \in DOMAIN addrs : addrs[j] \in Masters
      BY DEF ScanTypeOK
    <3> QED BY <2>7, <3>1, <3>2
  <2>13. CASE got = "last"
    <3>1. iter = LastIter /\ over' = (wanted \ ToSet(addrs)) \cup {h}
      BY <2>1, <2>5, <2>13 DEF Through
    <3> QED BY <1>1, <1>2, <1>3, <2>1, <2>2, <2>5, <2>9, <2>10, <2>11, <2>12, <2>13, <3>1 DEF ScanInv, PlaceInv
  <2>14. CASE got = "more"
    <3>1. iter = n + 1 /\ over' = over
      BY <2>1, <2>3, <2>5, <2>14
    <3>2. iter # LastIter /\ iter # NoIter
      BY <2>3, <3>1 DEF LastIter, NoIter
    <3>3. Request' = ThisPage'
      <4>1. Request' = [addr |-> h, iter |-> n + 1]
        BY <1>2, <2>2, <3>1, <3>2 DEF Request
      <4>2. ThisPage' = [addr |-> h, iter |-> n + 1]
        BY <1>2, <2>2, <2>8 DEF ThisPage
      <4> QED BY <4>1, <4>2
    <3>4. Through(addrs)'
      BY <1>2, <2>1, <3>1 DEF Through
    <3> QED BY <1>1, <1>2, <1>3, <2>1, <2>5, <2>9, <2>10, <2>11, <2>12, <2>14, <3>2, <3>3, <3>4 DEF ScanInv, PlaceInv
  <2> QED BY <1>4, <2>13, <2>14
<1>5. CASE got \notin {"more", "last"}
  <2>1. reader' = "stopped" /\ UNCHANGED <<pages, over>>
    BY <1>5 DEF GetKeys
  <2>2. TurnInv' /\ PagesInOrder'
    BY <1>1, <1>2, <2>1 DEF TurnInv, PagesInOrder
  <2>3. PlaceInv'
    BY <1>1, <1>2, <2>1 DEF PlaceInv
  <2>4. ScanTypeOK'
    BY <1>2, <2>1 DEF ScanTypeOK
  <2> QED BY <1>3, <2>2, <2>3, <2>4 DEF ScanInv
<1> QED BY <1>4, <1>5

\* One turn of EachShard.
LEMMA NextShardStep ==
    ASSUME ScanTypeOK, ScanInv, NextShard, kind' = kind PROVE ScanTypeOK' /\ ScanInv'
<1>1. TurnInv /\ PagesInOrder /\ PlaceInv /\ ShardsInv
  BY DEF ScanInv
<1>2. /\ kind = "each" /\ reader = "ready" /\ ~Scans /\ ~Scans' /\ cb = "nil" /\ flying = <<>> /\ ~paniced
      /\ UNCHANGED <<kind, iter, err, cb, flying, got, page, alive, wanted, pages, over, paniced>>
      /\ got # "eof"
  BY <1>1 DEF NextShard, TurnInv, Scans, PlaceInv
<1>3. reader' \in {"ready", "stopped"}
  BY DEF NextShard
<1>4. TurnInv' /\ PagesInOrder'
  BY <1>1, <1>2, <1>3 DEF TurnInv, PagesInOrder
<1>5. CASE addrs = <<>>
  <2>1. reader' = "stopped" /\ UNCHANGED <<addrs, shards>>
    BY <1>5 DEF NextShard
  <2>2. PlaceInv' /\ ShardsInv'
    BY <1>1, <1>2, <1>5, <2>1 DEF PlaceInv, ShardsInv
  <2>3. ScanTypeOK'
    BY <1>2, <2>1 DEF ScanTypeOK
  <2> QED BY <1>4, <2>2, <2>3 DEF ScanInv
<1>6. CASE addrs # <<>>
  <2>1. PICK what \in {"conn", "false", "error"} :
          /\ shards' = Append(shards, what)
          /\ reader' = IF what = "conn" THEN "ready" ELSE "stopped"
    BY <1>6 DEF NextShard, GoesOn
  <2>2. addrs' = Tail(addrs)
    BY <1>6 DEF NextShard
  <2>3. addrs \in Seq(Masters) /\ Distinct(addrs) /\ shards \in Seq({"conn", "false", "error"})
        /\ Len(addrs) \in Nat
    BY <1>1 DEF ScanTypeOK, PlaceInv, Distinct
  <2>4. addrs' \in Seq(Masters) /\ Len(addrs') = Len(addrs) - 1 /\ Distinct(addrs')
        /\ ToSet(addrs') \subseteq ToSet(addrs)
    BY <1>6, <2>2, <2>3, TailFacts
  <2>5. /\ shards' \in Seq({"conn", "false", "error"})
        /\ Len(shards') = Len(shards) + 1 /\ Len(shards) \in Nat
        /\ \A j \in DOMAIN shards' :
              \/ j \in DOMAIN shards /\ j <= Len(shards) /\ shards'[j] = shards[j]
              \/ j = Len(shards) + 1 /\ shards'[j] = what
        /\ Len(shards) + 1 \in DOMAIN shards'
    BY <2>1, <2>3, AppendFacts
  <2>6. Len(shards') + Len(addrs') = Cardinality(wanted)
    <3>1. Len(shards) + Len(addrs) = Cardinality(wanted)
      BY <1>1, <1>2 DEF ShardsInv
    <3> QED BY <2>3, <2>4, <2>5, <3>1
  <2>7. \A j \in DOMAIN shards : shards[j] = "conn"
    BY <1>1, <1>2 DEF ShardsInv
  <2>8. \A j \in DOMAIN shards' : j < Len(shards') => shards'[j] = "conn"
    BY <2>5, <2>7
  <2>9. what = "conn" => \A j \in DOMAIN shards' : shards'[j] = "conn"
    BY <2>5, <2>7
  <2>10. what # "conn" => \E j \in DOMAIN shards' : shards'[j] # "conn"
    <3>1. ~(Len(shards) + 1 <= Len(shards))
      BY <2>5
    <3>2. shards'[Len(shards) + 1] = what
      BY <2>5, <3>1
    <3> QED BY <2>5, <3>2
  <2>11. ShardsInv'
    BY <1>2, <1>3, <2>1, <2>6, <2>8, <2>9, <2>10 DEF ShardsInv
  <2>12. PlaceInv'
    BY <1>1, <1>2, <1>3, <2>4 DEF PlaceInv, Distinct
  <2>13. ScanTypeOK'
    BY <1>2, <1>3, <2>4, <2>5 DEF ScanTypeOK
  <2> QED BY <1>4, <2>11, <2>12, <2>13 DEF ScanInv
<1> QED BY <1>5, <1>6

\* As long as no Next is cancelled there is one request at a time.
LEMMA EarlyStep ==
    ASSUME ScanTypeOK, ScanInv, CursorInv, kind' = kind,
           ScannerNext \/ SendScan \/ Reply \/ GetKeys \/ NextShard
    PROVE  ScanTypeOK' /\ ScanInv' /\ CursorInv' /\ cut' = cut
<1>1. TurnInv /\ PlaceInv /\ ScanTypeOK
  BY DEF ScanInv
<1>2. CASE ScannerNext
  <2>1. flying = <<>> /\ (Scans /\ ~err => addrs # <<>>)
    BY <1>1, <1>2 DEF ScannerNext, TurnInv, PlaceInv
  <2>2. cut' = cut
    BY <1>2, <2>1 DEF ScannerNext, ConnNext, ClusterNext, AtOnce, DoNext
  <2>3. CursorInv'
    <3>1. CASE err
      BY <1>2, <3>1 DEF ScannerNext, AtOnce, CursorInv
    <3>2. CASE ~err /\ kind = "connscan"
      BY <1>2, <3>2 DEF ScannerNext, ConnNext, AtOnce, DoNext, ShardDone, CursorInv
    <3>3. CASE ~err /\ kind # "connscan"
      <4>1. iter' # LastIter
        BY <1>2, <3>3, IterFacts DEF ScannerNext, ClusterNext, IterNow, ShardDone
      <4> QED BY <4>1 DEF CursorInv
    <3> QED BY <3>1, <3>2, <3>3
  <2> QED BY <1>2, <2>2, <2>3, ScannerNextStep
<1>3. CASE SendScan
  <2>1. reader = "send" /\ addrs' = addrs /\ cut' = cut /\ (iter' = iter \/ iter' = NoIter)
    BY <1>3 DEF SendScan, ResolveScan
  <2>2. CursorInv'
    BY <2>1, IterFacts DEF CursorInv
  <2> QED BY <1>3, <2>1, <2>2, SendScanStep
<1>4. CASE Reply
  <2>1. cut' = cut /\ addrs' = addrs /\ reader' = reader
    BY <1>4 DEF Reply
  <2>2. reader = "select" /\ got = "none" /\ cb = "current" /\ addrs # <<>>
    BY <1>1, <1>4 DEF Reply, TurnInv, PlaceInv, ScanTypeOK
  <2>3. got' # "none"
    BY <1>4, <2>2 DEF Reply, ResolveScan, PassOn
  <2>4. CursorInv'
    BY <2>1, <2>2, <2>3 DEF CursorInv
  <2> QED BY <1>4, <2>1, <2>4, ReplyStep
<1>5. CASE GetKeys
  <2>1. UNCHANGED <<cut, addrs, iter>> /\ reader' \in {"ready", "stopped"} /\ Scans' = Scans
    BY <1>5 DEF GetKeys, Scans
  <2>2. CursorInv'
    BY <2>1 DEF CursorInv
  <2> QED BY <1>5, <2>1, <2>2, GetKeysStep
<1>6. CASE NextShard
  <2>1. UNCHANGED <<cut, iter>> /\ reader' \in {"ready", "stopped"}
    BY <1>6 DEF NextShard
  <2>2. ~Scans'
    BY <1>6 DEF NextShard, Scans
  <2>3. CursorInv'
    BY <2>1, <2>2 DEF CursorInv
  <2> QED BY <1>6, <2>1, <2>3, NextShardStep
<1> QED BY <1>2, <1>3, <1>4, <1>5, <1>6

\* A Next is cancelled, the first one or another.
LEMMA GetCancelledStep ==
    ASSUME ScanTypeOK, Phases, cut \in {"no", "cancelled", "overlapped"}, GetCancelled,
           UNCHANGED <<kind, ctxdone>>, ~paniced
    PROVE  ScanTypeOK' /\ Phases' /\ cut' \in {"cancelled", "overlapped"}
<1>1. /\ reader = "select" /\ reader' \in {"ready", "stopped"} /\ ctxdone
      /\ cb' = IF cb = "current" THEN "old" ELSE cb
      /\ cut' = IF cut = "no" THEN "cancelled" ELSE cut
      /\ UNCHANGED <<addrs, iter, err, flying, got, page, alive, wanted, pages, over, shards, paniced>>
  BY DEF GetCancelled
<1>2. Scans' = Scans /\ PagesInOrder' /\ ScanTypeOK'
  BY <1>1 DEF Scans, Phases, ScanInv, PagesInOrder, ScanTypeOK
<1>3. CASE cut = "no"
  <2>1. TurnInv /\ PlaceInv /\ CursorInv
    BY <1>3 DEF Phases, ScanInv
  <2>2. /\ Scans /\ cut' = "cancelled"
        /\ \/ got = "none" /\ cb' = "old" /\ Len(flying) = 1 /\ addrs # <<>> /\ iter # LastIter
           \/ cb' = "nil" /\ flying = <<>>
    BY <1>1, <1>3, <2>1 DEF TurnInv, PlaceInv, CursorInv
  <2>3. iter = LastIter => addrs # <<>>
    BY <2>1, <2>2 DEF CursorInv
  <2>4. LateInv'
    BY <1>1, <1>2, <2>2, <2>3 DEF LateInv
  <2> QED BY <1>2, <2>2, <2>4 DEF Phases
<1>4. CASE cut # "no"
  <2>1. LateInv /\ cut' = cut /\ cb' = cb
    BY <1>1, <1>4 DEF Phases, LateInv
  <2>2. LateInv'
    BY <1>1, <1>2, <1>4, <2>1 DEF LateInv
  <2> QED BY <1>2, <1>4, <2>1, <2>2 DEF Phases
<1> QED BY <1>3, <1>4

\* After that Next sends nothing, and a result meets no callback only if a
\* request was under way when it was called.
LEMMA LateNext ==
    ASSUME ScanTypeOK, LateInv, cut \in {"cancelled", "overlapped"}, ScannerNext, kind' = kind,
           ctxdone' = ctxdone, ~paniced
    PROVE  ScanTypeOK' /\ LateInv' /\ cut' \in {"cancelled", "overlapped"} /\ pages' = pages
<1>1. /\ Scans /\ reader = "ready" /\ ctxdone /\ ctxdone' /\ Scans' /\ cb # "current"
      /\ UNCHANGED <<flying, page, alive, wanted, pages, over, shards, paniced>>
  BY DEF ScannerNext, Scans, LateInv
<1>2. \/ /\ reader' = "select" /\ got' \in {"error", "eof"} /\ UNCHANGED <<cb, cut>>
      \/ /\ reader' = "send" /\ got' = "none" /\ cb' = "current" /\ ~err
         /\ cut' = IF flying = <<>> THEN cut ELSE "overlapped"
  BY DEF ScannerNext, ConnNext, ClusterNext, AtOnce, DoNext
<1>3. \/ UNCHANGED <<addrs, iter, err>>
      \/ /\ cut = "cancelled" /\ iter # LastIter /\ addrs' = addrs /\ iter' = iter /\ err' \in BOOLEAN
      \/ /\ cut = "cancelled" /\ iter = LastIter /\ addrs' = Tail(addrs) /\ iter' = NoIter
         /\ err' \in BOOLEAN
  <2>1. cut = "overlapped" => err
    BY <1>1 DEF LateInv
  <2> QED BY <2>1 DEF ScannerNext, ConnNext, ClusterNext, ShardDone, IterNow
<1>4. iter = LastIter => addrs # <<>>
  BY DEF LateInv
<1>5. addrs' \in Seq(Masters) /\ iter' \in Iters /\ err' \in BOOLEAN
  <2>1. addrs \in Seq(Masters) /\ iter \in Iters /\ err \in BOOLEAN
    BY DEF ScanTypeOK
  <2>2. iter = LastIter => Tail(addrs) \in Seq(Masters)
    BY <1>4, <2>1, FirstAndRest
  <2> QED BY <1>3, <2>1, <2>2, IterFacts
<1>6. got' \in Answers /\ cb' \in {"nil", "current", "old"} /\ reader' \in {"ready", "send", "select", "stopped"}
  BY <1>2 DEF ScanTypeOK, Answers
<1>7. ScanTypeOK'
  BY <1>1, <1>5, <1>6 DEF ScanTypeOK
<1>8. iter' = LastIter \/ flying' # <<>> => addrs' # <<>>
  BY <1>1, <1>3, IterFacts DEF LateInv
<1>9. cut' = "cancelled" =>
        /\ reader' = "send" => cb' = "current"
        /\ flying' # <<>> => Len(flying') = 1 /\ cb' = "old" /\ reader' # "send" /\ iter' # LastIter
  BY <1>1, <1>2, <1>3 DEF LateInv
<1>10. cut' = "overlapped" => IF reader' = "send" THEN cb' # "old" ELSE cb' = "nil" /\ err'
  BY <1>1, <1>2, <1>3 DEF LateInv
<1>11. LateInv'
  BY <1>1, <1>2, <1>8, <1>9, <1>10 DEF LateInv
<1> QED BY <1>1, <1>2, <1>7, <1>11

\* Send finds the request cancelled.
LEMMA LateSend ==
    ASSUME ScanTypeOK, LateInv, cut \in {"cancelled", "overlapped"}, SendScan, kind' = kind,
           ctxdone' = ctxdone, ~paniced
    PROVE  ScanTypeOK' /\ LateInv' /\ cut' = cut /\ pages' = pages
<1>1. /\ Scans /\ reader = "send" /\ reader' = "select" /\ ctxdone /\ ctxdone' /\ Scans' /\ cb # "old"
      /\ UNCHANGED <<addrs, flying, alive, wanted, pages, over, shards, cut>>
  BY DEF SendScan, Scans, LateInv, Accepts
<1>2. \/ cut = "overlapped" /\ paniced' = TRUE /\ UNCHANGED <<iter, err, cb, got, page>>
      \/ /\ iter' = NoIter /\ err' = TRUE /\ cb' = "nil" /\ paniced' = FALSE
         /\ got' = "error" /\ page' = NoPage
  BY <1>1 DEF SendScan, ResolveScan, PassOn, LateInv, ScanTypeOK
<1>3. /\ iter' \in Iters /\ err' \in BOOLEAN /\ cb' \in {"nil", "current", "old"}
      /\ paniced' \in BOOLEAN /\ got' \in Answers
      /\ page' \in [addr: Masters, iter: Iters] \cup {NoPage}
  BY <1>2, IterFacts DEF ScanTypeOK, Answers
<1>4. ScanTypeOK'
  BY <1>1, <1>3 DEF ScanTypeOK
<1>5. LateInv'
  BY <1>1, <1>2, IterFacts DEF LateInv
<1> QED BY <1>1, <1>4, <1>5

\* The answer to the request of the cancelled Next.
LEMMA LateReply ==
    ASSUME ScanTypeOK, LateInv, cut \in {"cancelled", "overlapped"}, Reply, kind' = kind,
           ctxdone' = ctxdone, ~paniced
    PROVE  ScanTypeOK' /\ LateInv' /\ cut' = cut /\ pages' = pages
<1>1. /\ flying # <<>> /\ flying' = Tail(flying) /\ Scans /\ Scans' /\ ctxdone' /\ addrs # <<>>
      /\ UNCHANGED <<addrs, reader, alive, wanted, pages, over, shards, cut>>
  BY DEF Reply, LateInv, Scans
<1>2. PICK asked : asked = flying[1]
  OBVIOUS
<1>3. asked \in [addr: Masters, iter: Iters] /\ flying' \in Seq([addr: Masters, iter: Iters])
  <2>1. flying \in Seq([addr: Masters, iter: Iters])
    BY DEF ScanTypeOK
  <2> HIDE DEF Iters
  <2> QED BY <1>1, <1>2, <2>1, FirstAndRest
<1>4. PICK next, what :
        /\ \/ what = "more" /\ asked.iter < MaxCursor /\ next = asked.iter + 1
           \/ what = "last" /\ next = LastIter
           \/ what = "error" /\ next = NoIter
        /\ ResolveScan(next, what, asked)
  BY <1>2, Zenon DEF Reply
<1>5. /\ iter' = next /\ err' = (what = "error") /\ cb' = "nil" /\ paniced' = (cb = "nil")
      /\ IF cb = "current" THEN got' = what /\ page' = asked ELSE UNCHANGED <<got, page>>
  BY <1>4 DEF ResolveScan, PassOn
<1>6. next \in Iters /\ what \in Answers
  <2>1. asked.iter \in Iters
    BY <1>3
  <2> QED BY <1>4, <2>1, IterFacts DEF Answers
<1>7. ScanTypeOK'
  <2>1. got' \in Answers /\ page' \in [addr: Masters, iter: Iters] \cup {NoPage}
    BY <1>3, <1>5, <1>6 DEF ScanTypeOK
  <2>2. err' \in BOOLEAN /\ cb' \in {"nil", "current", "old"} /\ paniced' \in BOOLEAN
    BY <1>5
  <2> QED BY <1>1, <1>3, <1>5, <1>6, <2>1, <2>2 DEF ScanTypeOK
<1>8. CASE cut = "cancelled"
  <2>1. cb = "old" /\ reader # "send" /\ Len(flying) = 1
    BY <1>1, <1>8 DEF LateInv
  <2>2. flying' = <<>>
    BY <1>1, <2>1, OnlyElement DEF ScanTypeOK
  <2>3. LateInv'
    BY <1>1, <1>5, <1>8, <2>1, <2>2 DEF LateInv
  <2> QED BY <1>1, <1>7, <2>3
<1>9. CASE cut = "overlapped"
  <2>1. reader # "send" => paniced'
    BY <1>5, <1>9 DEF LateInv
  <2>2. LateInv'
    BY <1>1, <1>5, <1>9, <2>1 DEF LateInv
  <2> QED BY <1>1, <1>7, <2>2
<1> QED BY <1>8, <1>9

\* The steps after a Next was cancelled.
LEMMA CancelledStep ==
    ASSUME ScanTypeOK, LateInv, PagesInOrder, cut \in {"cancelled", "overlapped"},
           ScannerNext \/ SendScan \/ Reply \/ GetKeys \/ NextShard,
           kind' = kind, ctxdone' = ctxdone, ~paniced
    PROVE  ScanTypeOK' /\ LateInv' /\ PagesInOrder' /\ cut' \in {"cancelled", "overlapped"}
<1>1. CASE GetKeys
  <2>1. reader = "select" /\ got \notin {"more", "last"} /\ Scans /\ cb # "current"
    BY <1>1 DEF GetKeys, LateInv
  <2>2. /\ reader' = "stopped" /\ Scans'
        /\ UNCHANGED <<addrs, iter, err, cb, flying, got, page, alive, wanted, pages, over, shards, paniced, cut>>
    BY <1>1, <2>1 DEF GetKeys, Scans
  <2>3. ctxdone' /\ LateInv'
    BY <2>1, <2>2 DEF LateInv
  <2>4. ScanTypeOK'
    BY <2>2 DEF ScanTypeOK
  <2>5. PagesInOrder'
    BY <2>2 DEF PagesInOrder
  <2> QED BY <2>2, <2>3, <2>4, <2>5
<1>2. CASE NextShard
  BY <1>2 DEF NextShard, LateInv, Scans
<1>3. ASSUME ScanTypeOK', LateInv', pages' = pages, cut' \in {"cancelled", "overlapped"}
      PROVE  ScanTypeOK' /\ LateInv' /\ PagesInOrder' /\ cut' \in {"cancelled", "overlapped"}
  BY <1>3 DEF PagesInOrder
<1> QED BY <1>1, <1>2, <1>3, LateNext, LateSend, LateReply

\* What an iteration has reached does not depend on the rest.
LEMMA Untouched ==
    ASSUME ScanTypeOK, Phases, kind' = kind, ctxdone => ctxdone', alive' \subseteq Masters,
           UNCHANGED <<addrs, iter, err, cb, flying, reader, got, page, wanted,
                       pages, over, shards, paniced, cut>>
    PROVE  ScanTypeOK' /\ Phases'
<1>1. ScanTypeOK'
  BY DEF ScanTypeOK
<1>2. Scans' = Scans /\ Request' = Request /\ ThisPage' = ThisPage /\ Through(addrs)' = Through(addrs)
  BY DEF Scans, Request, ThisPage, Through
<1>3. PagesInOrder /\ PagesInOrder'
  BY DEF Phases, ScanInv, PagesInOrder
<1>4. CASE cut = "no"
  <2>1. TurnInv /\ PlaceInv /\ ShardsInv /\ CursorInv
    BY <1>4 DEF Phases, ScanInv
  <2>2. TurnInv' /\ ShardsInv' /\ CursorInv'
    BY <1>2, <2>1 DEF TurnInv, ShardsInv, CursorInv
  <2>3. PlaceInv'
    BY <1>2, <2>1 DEF PlaceInv
  <2> QED BY <1>1, <1>3, <1>4, <2>2, <2>3 DEF Phases, ScanInv
<1>5. CASE cut # "no"
  <2>1. LateInv
    BY <1>5 DEF Phases
  <2>2. LateInv'
    BY <1>2, <2>1 DEF LateInv
  <2> QED BY <1>1, <1>3, <1>5, <2>2 DEF Phases
<1> QED BY <1>4, <1>5

-----------------------------------------------------------------------------
(* The theorems *)

\* A blocking call goes on by itself: the iterations leave its state alone.
LEMMA CallKept == ASSUME CallInv, [Next]_vars PROVE CallInv'
<1>1. CASE CallNext
  BY <1>1, CallNextInv
<1>2. CASE UNCHANGED syncVars
  BY <1>2 DEF syncVars, CallInv, CallTypeOK, PcInv, TallyInv, ClosesInv, ResultInv, Size, Requests,
              Goroutines, Working, Closing, Tallies, Settled, At, Arrived
<1> QED BY <1>1, <1>2 DEF Next, vars, Change

LEMMA ScanKept ==
    ASSUME CallInv, ScanTypeOK, Phases, cut \in {"no", "cancelled", "overlapped"}, [Next]_vars
    PROVE  ScanTypeOK' /\ Phases' /\ cut' \in {"no", "cancelled", "overlapped"}
<1>1. alive \subseteq Masters
  BY DEF ScanTypeOK
<1>2. CASE CallNext /\ UNCHANGED scanVars
  <2>1. kind' = kind /\ (ctxdone => ctxdone')
    BY <1>2 DEF CallNext, Caller, SendReturns, WaitGroup, Value, Received, Abandoned, Become, Cancel,
                Begin, Resolving, Write, Count, Close
  <2> QED BY <1>1, <1>2, <2>1, Untouched DEF scanVars
<1>3. CASE ~paniced /\ (User \/ Reply) /\ UNCHANGED syncVars
  <2>1. UNCHANGED <<kind, ctxdone>>
    BY <1>3 DEF syncVars
  <2>2. CASE GetCancelled
    BY <1>3, <2>1, <2>2, GetCancelledStep
  <2>3. CASE ScannerNext \/ SendScan \/ Reply \/ GetKeys \/ NextShard
    <3>1. CASE cut = "no"
      <4>1. ScanTypeOK' /\ ScanInv' /\ CursorInv' /\ cut' = "no"
        BY <2>1, <2>3, <3>1, EarlyStep DEF Phases
      <4> QED BY <4>1 DEF Phases
    <3>2. CASE cut # "no"
      <4>1. LateInv /\ PagesInOrder /\ cut \in {"cancelled", "overlapped"}
        BY <3>2 DEF Phases
      <4>2. ScanTypeOK' /\ LateInv' /\ PagesInOrder' /\ cut' \in {"cancelled", "overlapped"}
        BY <1>3, <2>1, <2>3, <4>1, CancelledStep
      <4> QED BY <4>2 DEF Phases
    <3> QED BY <3>1, <3>2
  <2> QED BY <1>3, <2>2, <2>3 DEF User
<1>4. ASSUME NEW a \in Masters, Change(a)
      PROVE  ScanTypeOK' /\ Phases' /\ cut' \in {"no", "cancelled", "overlapped"}
  <2>1. UNCHANGED <<kind, ctxdone>> /\ alive' \subseteq Masters
    BY <1>1, <1>4 DEF Change, syncVars
  <2> QED BY <1>4, <2>1, Untouched DEF Change
<1>5. CASE UNCHANGED vars
  BY <1>1, <1>5, Untouched DEF vars, syncVars, scanVars
<1> QED BY <1>2, <1>3, <1>4, <1>5 DEF Next

LEMMA TypeParts == TypeOK <=> CallTypeOK /\ ScanTypeOK /\ cut \in {"no", "cancelled", "overlapped"}
BY DEF TypeOK, ScanTypeOK

\* Both invariants together, whatever the user does.
LEMMA Always == Spec => []Inv
<1>1. Init => Inv
  <2> SUFFICES ASSUME Init PROVE Inv
    OBVIOUS
  <2>1. CallInit /\ cut = "no" /\ iter = NoIter /\ reader = "ready"
    BY DEF Init
  <2>2. CursorInv
    BY <2>1, IterFacts DEF CursorInv
  <2> QED BY <2>1, <2>2, CallInitInv, ScanInitInv, TypeParts DEF Inv, CallInv, Phases
<1>2. Inv /\ [Next]_vars => Inv'
  <2> SUFFICES ASSUME Inv, [Next]_vars PROVE Inv'
    OBVIOUS
  <2>1. CallInv /\ ScanTypeOK /\ Phases /\ cut \in {"no", "cancelled", "overlapped"}
    BY TypeParts DEF Inv
  <2>2. CallInv' /\ ScanTypeOK' /\ Phases' /\ cut' \in {"no", "cancelled", "overlapped"}
    BY <2>1, CallKept, ScanKept
  <2>3. TypeOK' <=> CallTypeOK' /\ ScanTypeOK' /\ cut' \in {"no", "cancelled", "overlapped"}
    BY TypeParts DEF TypeOK, ScanTypeOK
  <2> QED BY <2>2, <2>3 DEF Inv, CallInv
<1> QED BY <1>1, <1>2, PTL DEF Spec

\* No wrapper closes a channel twice, for batches of any length and whichever
\* of the resolving goroutines and the cancelled caller comes first (sync.go,
\* sync_context.go, chan_future.go).
THEOREM ChannelsCloseOnce == Spec => []ClosedOnce
<1>1. Init => CallInv
  BY CallInitInv DEF Init
<1>2. CallInv /\ [Next]_vars => CallInv'
  BY CallKept
<1>3. CallInv => ClosedOnce
  <2> SUFFICES ASSUME CallInv, NEW i \in Requests PROVE closes[i] <= 1
    BY DEF ClosedOnce
  <2>1. kind \in CallKinds
    BY DEF Requests, Size, CallKinds
  <2> QED BY <2>1 DEF CallInv, ClosesInv, CallKinds
<1> QED BY <1>1, <1>2, <1>3, PTL DEF Spec

\* Nothing panics, neither a wrapper nor a scanner, for any number of masters
\* and whatever the user, the context and the cluster do, with one exception:
\* Next called after a cancelled one, while that one's request is under way
\* (sender.go, DoNext and Resolve; sync_context.go, Next).
THEOREM NothingPanics == Spec => []NoPanic
<1>1. Inv => HasCallback
  BY DEF Inv, TypeOK, Phases, ScanInv, TurnInv, LateInv, HasCallback
<1> QED BY <1>1, Always, ChannelsCloseOnce, PTL DEF NoPanic

\* A scan hands out the pages of every shard in order and without gaps and ends
\* only when all shards are through, unless a Next was cancelled; after that it
\* hands out nothing out of order.  EachShard calls back once for each
\* shard, for any number of masters, whatever happens to the cluster meanwhile
\* (src/rediscluster/scan.go, src/redis/sender.go).
THEOREM IterationsAreComplete == Spec => []IterationInv
<1>1. Inv => IterationInv
  <2> SUFFICES ASSUME Inv PROVE IterationInv
    OBVIOUS
  <2>1. /\ TypeOK /\ PagesInOrder /\ (cut = "no" => PlaceInv)
        /\ kind = "each" => ShardsInv
    BY DEF Inv, Phases, ScanInv, LateInv, Scans
  <2>2. ScanComplete
    BY <2>1 DEF PagesInOrder, PlaceInv, ScanComplete, Finished
  <2>3. EachShardOnce
    <3> SUFFICES ASSUME kind = "each", reader = "stopped", \A j \in DOMAIN shards : shards[j] = "conn"
                 PROVE  Len(shards) = Cardinality(wanted)
      BY <2>1 DEF EachShardOnce, ShardsInv
    <3>1. addrs = <<>> /\ Len(shards) + Len(addrs) = Cardinality(wanted)
      BY <2>1 DEF ShardsInv
    <3>2. Len(shards) \in Nat /\ Len(<<>>) = 0
      BY <2>1, TypeParts DEF ScanTypeOK
    <3> QED BY <3>1, <3>2
  <2> QED BY <2>1, <2>2, <2>3 DEF IterationInv
<1> QED BY <1>1, Always, PTL

\* Blocking calls keep the safety part of their promise: what they return is
\* one result for each request, the request's own or ErrRequestCancelled, and
\* late answers do not change it, for batches of any length.
THEOREM CallsAreSafe == Spec => Abstract!Safe
<1>1. Init => CallInv /\ Abstract!Init
  <2> SUFFICES ASSUME Init PROVE CallInv /\ Abstract!Init
    OBVIOUS
  <2>1. CallInit
    BY DEF Init
  <2>2. Size \in Nat /\ Goroutines = 0 .. Size /\ Requests = 1 .. Size
    BY SizeFacts
  <2>3. 0 \in Goroutines /\ \A i \in Requests : i \in Goroutines /\ i # 0
    BY <2>2
  <2>4. pc[0] = "call" /\ \A i \in Requests : pc[i] = "idle"
    BY <2>1, <2>3 DEF CallInit
  <2>5. Arrived = {} /\ Returned = <<>> /\ ctxdone = FALSE
    BY <2>1, <2>4 DEF CallInit, Arrived, Returned
  <2> QED BY <2>1, <2>2, <2>5, CallInitInv DEF Abstract!Init
<1>2. CallInv /\ [Next]_vars => CallInv' /\ [Abstract!Next]_(Abstract!vars)
  <2> SUFFICES ASSUME CallInv, [Next]_vars PROVE CallInv' /\ [Abstract!Next]_(Abstract!vars)
    OBVIOUS
  <2>1. CallInv'
    BY CallKept
  <2>2. CASE CallNext
    BY <2>1, <2>2, CallMaps DEF Unnoticed, Abstract!vars
  <2>3. CASE UNCHANGED syncVars
    BY <2>1, <2>3 DEF syncVars, Abstract!vars, Arrived, Returned, Size, Requests
  <2> QED BY <2>2, <2>3 DEF Next, vars, Change
<1> QED BY <1>1, <1>2, PTL DEF Spec, Abstract!Safe

=============================================================================
