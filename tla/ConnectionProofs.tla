-------------------------- MODULE ConnectionProofs --------------------------
(***************************************************************************)
(* Proofs about Connection for all calls, any number of sockets, any       *)
(* channel capacity and all options.                                       *)
(***************************************************************************)
EXTENDS Connection, SequenceTheorems, TLAPS

-----------------------------------------------------------------------------
(* Typing *)

\* The chunk a call hands over consists of futures of that call.
LEMMA ChunkSeqType ==
    ASSUME NEW k \in AllCalls, NEW from \in Nat
    PROVE  /\ ChunkEnd(k, from) \in Nat
           /\ ChunkSeq(k, from) \in Seq(Futs)
           /\ ChunkFuts(k, from) \subseteq Futs
<1>1. k \in CallType
  BY CallsAssumption
<1>2. k.n \in Nat /\ ChunkSize \in Nat
  BY <1>1, BoundsAssumption DEF CallType
<1>3. \A i \in -2 .. k.n : Fut(k, i) \in Futs
  BY DEF Futs
<1>4. ChunkEnd(k, from) \in Nat /\ ChunkEnd(k, from) <= k.n
  BY <1>2 DEF ChunkEnd
<1>5. RequestSeq(k, from) \in Seq(Futs)
  <2>1. CASE ChunkEnd(k, from) - from \in Nat
    <3>1. \A i \in 1 .. ChunkEnd(k, from) - from : Fut(k, from + i - 1) \in Futs
      BY <1>2, <1>3, <1>4
    <3>. QED  BY <2>1, <3>1 DEF RequestSeq
  <2>2. CASE ChunkEnd(k, from) - from \notin Nat
    <3>1. 1 .. ChunkEnd(k, from) - from = 1 .. 0
      BY <1>4, <2>2
    <3>2. [i \in 1 .. 0 |-> Fut(k, from + i - 1)] \in Seq(Futs)
      OBVIOUS
    <3>. QED  BY <3>1, <3>2 DEF RequestSeq
  <2>. QED  BY <2>1, <2>2
<1>6. PrefixSeq(k) \in Seq(Futs)
  BY <1>2, <1>3 DEF PrefixSeq
<1>7. (IF k.kind = "trans" THEN <<Fut(k, k.n)>> ELSE <<>>) \in Seq(Futs)
  BY <1>2, <1>3
<1>8. ChunkSeq(k, from) \in Seq(Futs)
  BY <1>5, <1>6, <1>7 DEF ChunkSeq
<1>9. ChunkFuts(k, from) \subseteq Futs
  BY <1>2, <1>3, <1>4 DEF ChunkFuts
<1>. QED  BY <1>4, <1>8, <1>9

\* Resolving futures with an error keeps the type of their results.
LEMMA ErrorsType ==
    ASSUME res \in [Futs -> Seq(Results)], NEW fs, NEW kind \in ErrKinds
    PROVE  Errors(fs, kind) \in [Futs -> Seq(Results)]
<1>1. \A f \in Futs : [kind |-> kind, of |-> f] \in Results
  BY DEF Results
<1>. QED  BY <1>1 DEF Errors

\* So does resolving one with the reply to some request.
LEMMA ReplyType ==
    ASSUME res \in [Futs -> Seq(Results)], NEW f \in Futs, NEW g \in Futs, NEW kind \in AnswerKinds
    PROVE  Reply(f, g, kind) \in [Futs -> Seq(Results)]
<1>1. [kind |-> kind, of |-> g] \in Results
  BY AnswersAssumption DEF Results, ErrKinds, NotSentKinds
<1>. QED  BY <1>1 DEF Reply

\* What the provers need beside TypeOK: the reader leaves the reply in place
\* while it fetches, and the writer never pushes an empty batch.
BatchInv ==
    \A e \in Epochs : /\ rpc[e] = "fetch" => wire[e] # <<>>
                      /\ \A i \in 1 .. Len(chan[e]) : chan[e][i] # <<>>

TypeInv == TypeOK /\ BatchInv

\* What Connect has built is well-typed and no batch is empty.
LEMMA TypeInit == Init => TypeInv
<1>. SUFFICES ASSUME Init PROVE TypeInv
  OBVIOUS
<1>1. pc \in [Procs -> Pcs]
  BY DEF Init, Pcs, CreatePcs
<1>2. 0 \in 0 .. MaxConns
  BY BoundsAssumption
<1>3. /\ futures \in Seq(Futs) /\ wfut \in [Epochs -> Seq(Futs)]
      /\ chan \in [Epochs -> Seq(Seq(Futs))] /\ wire \in [Epochs -> Seq(Futs)]
      /\ rfut \in [Epochs -> Seq(Futs)] /\ res \in [Futs -> Seq(Results)]
  BY DEF Init
<1>4. at \in [AllCalls -> Nat]
  BY DEF Init
<1>5. BatchInv
  BY DEF Init, BatchInv
<1>6. /\ control \in [Epochs -> BOOLEAN] /\ chclosed \in [Epochs -> BOOLEAN]
      /\ wpc \in [Epochs -> {"none", "wait", "swap", "write", "push", "exit", "done"}]
      /\ rpc \in [Epochs -> {"none", "read", "fetch", "fail", "drain", "done"}]
      /\ sock \in [Epochs -> {"none", "open", "broken", "closed"}]
  BY DEF Init
<1>. QED  BY <1>1, <1>2, <1>3, <1>4, <1>5, <1>6 DEF Init, TypeInv, TypeOK

\* Handing a chunk over, by a caller or by Ping, keeps the types.
LEMMA TypeCalls ==
    ASSUME TypeInv, NEW k \in AllCalls,
           SendRejected(k) \/ SendEmpty(k) \/ Send(k) \/ ControlTick(k)
    PROVE  TypeInv'
<1>. USE DEF TypeInv, TypeOK, BatchInv
<1>1. at[k] \in Nat
  OBVIOUS
<1>2. /\ ChunkEnd(k, at[k]) \in Nat
      /\ ChunkSeq(k, at[k]) \in Seq(Futs)
      /\ ChunkFuts(k, at[k]) \subseteq Futs
  BY <1>1, ChunkSeqType
<1>3. HandOver(k) => todo' \subseteq AllCalls /\ at' \in [AllCalls -> Nat]
  BY <1>2 DEF HandOver, NextChunk
<1>4. \A kind \in ErrKinds : Errors(ChunkFuts(k, at[k]), kind) \in [Futs -> Seq(Results)]
  BY ErrorsType
<1>5. CASE SendRejected(k)
  <2>1. res' \in [Futs -> Seq(Results)]
    BY <1>4, <1>5 DEF SendRejected, ErrKinds
  <2>. QED  BY <1>3, <1>5, <2>1 DEF SendRejected, procVars, queueVars, ioVars, sockVars, writerVars,
                                   readerVars
<1>6. CASE SendEmpty(k)
  <2>1. \A f \in Futs : [kind |-> "empty", of |-> f] \in Results
    BY DEF Results
  <2>2. res' \in [Futs -> Seq(Results)]
    BY <1>6, <2>1 DEF SendEmpty
  <2>. QED  BY <1>3, <1>6, <2>2 DEF SendEmpty, procVars, queueVars, ioVars, sockVars, writerVars,
                                   readerVars
<1>7. ASSUME SendRefused(k) \/ SendQueued(k)
      PROVE  /\ todo' \subseteq AllCalls /\ at' \in [AllCalls -> Nat]
             /\ futures' \in Seq(Futs) /\ signal' \in {"empty", "full", "closed"}
             /\ timer' \in BOOLEAN /\ timerC' \in BOOLEAN
             /\ res' \in [Futs -> Seq(Results)]
  <2>1. CASE SendRefused(k)
    <3>1. res' \in [Futs -> Seq(Results)]
      BY <1>4, <2>1 DEF SendRefused, ErrKinds, NotSentKinds
    <3>. QED  BY <1>3, <2>1, <3>1 DEF SendRefused, queueVars
  <2>2. CASE SendQueued(k)
    <3>1. futures' \in Seq(Futs)
      BY <1>2, <2>2 DEF SendQueued
    <3>2. signal' \in {"empty", "full", "closed"}
      BY <2>2 DEF SendQueued
    <3>3. timer' \in BOOLEAN
      BY <2>2, Zenon DEF SendQueued
    <3>. QED  BY <1>3, <2>2, <3>1, <3>2, <3>3 DEF SendQueued
  <2>. QED  BY <1>7, <2>1, <2>2
<1>8. CASE Send(k)
  BY <1>7, <1>8 DEF Send, procVars, ioVars, sockVars, writerVars, readerVars
<1>9. CASE ControlTick(k)
  <2>1. pc' \in [Procs -> Pcs]
    BY <1>9 DEF ControlTick, Goto, Pcs
  <2>. QED  BY <1>7, <1>9, <2>1 DEF ControlTick, ioVars, sockVars, writerVars, readerVars
<1>. QED  BY <1>5, <1>6, <1>8, <1>9

\* dropFutures keeps the types of the queue, the timer and the results.
LEMMA DropType ==
    ASSUME TypeInv, NEW kind \in ErrKinds, DropFutures(kind)
    PROVE  /\ timer' \in BOOLEAN /\ timerC' \in BOOLEAN
           /\ futures' \in Seq(Futs) /\ res' \in [Futs -> Seq(Results)]
<1>1. timer' \in BOOLEAN /\ timerC' \in BOOLEAN
  BY Zenon DEF TypeInv, TypeOK, DropFutures
<1>2. res' \in [Futs -> Seq(Results)]
  BY ErrorsType DEF TypeInv, TypeOK, DropFutures
<1>. QED  BY <1>1, <1>2 DEF DropFutures

\* The goroutines that dial, close and control.
LEMMA TypeProcs ==
    ASSUME TypeInv, NEW p \in Procs,
           \/ Close \/ TimerFire \/ ConnectError \/ ConnectWait \/ ControlDone \/ ControlPong
           \/ CreateStep(p) \/ SetupOk(p) \/ SetupFail(p) \/ Lock(p) \/ CloseStep(p)
           \/ p \in Epochs /\ ReconnectCheck(p)
    PROVE  TypeInv'
<1>. USE DEF TypeInv, TypeOK, BatchInv, procVars, queueVars, ioVars, sockVars, writerVars,
             readerVars, callVars, dataVars
<1>0. /\ ConnectP \in Procs /\ AsyncP \in Procs /\ ControlP \in Procs
      /\ \A e \in Epochs : e \in Procs /\ e \in 0 .. MaxConns
      /\ 0 \in 0 .. MaxConns
  BY BoundsAssumption DEF Procs, Epochs, ConnectP, AsyncP, ControlP
<1>. USE DEF Goto, Pcs, CreatePcs, ClosePcs
<1>1. CASE Close
  BY <1>1 DEF Close
<1>2. CASE TimerFire
  BY <1>2 DEF TimerFire
<1>3. CASE ConnectError
  BY ZenonT(40), <1>0, <1>3 DEF ConnectError
<1>4. CASE ConnectWait
  BY <1>0, <1>4 DEF ConnectWait
<1>5. CASE ControlDone
  BY <1>0, <1>5 DEF ControlDone
<1>6. CASE ControlPong
  BY <1>0, <1>6 DEF ControlPong
<1>7. ASSUME Leave(p)
      PROVE  pc' \in [Procs -> Pcs] /\ mutex' \in {NoProc} \cup Procs
  BY <1>7 DEF Leave
<1>8. CASE CreateLoop(p)
  <2>1. pc' \in [Procs -> Pcs] /\ mutex' \in {NoProc} \cup Procs
    <3>1. CASE MayDial
      <4>. DEFINE q == [pc EXCEPT ![p] = "cc_dial"]
      <4>1. q \in [Procs -> Pcs]
        OBVIOUS
      <4>2. pc' = [q EXCEPT ![ConnectP] = IF pc[ConnectP] = "wait" THEN "wake" ELSE @]
        BY <1>8, <3>1 DEF CreateLoop
      <4>3. (IF pc[ConnectP] = "wait" THEN "wake" ELSE q[ConnectP]) \in Pcs
        BY <1>0, <4>1
      <4>. HIDE DEF q
      <4>4. pc' \in [Procs -> Pcs]
        BY <4>1, <4>2, <4>3
      <4>. QED  BY <1>8, <3>1, <4>4 DEF CreateLoop
    <3>2. CASE ~MayDial
      BY <1>7, <1>8, <3>2 DEF CreateLoop
    <3>. QED  BY <3>1, <3>2
  <2>. QED  BY <1>8, <2>1 DEF CreateLoop
<1>9. CASE DialTCP(p)
  BY <1>9 DEF DialTCP
<1>10. CASE SetupOk(p)
  <2>1. conns + 1 \in Epochs /\ conns + 1 \in 0 .. MaxConns
    BY <1>10, BoundsAssumption DEF SetupOk, Epochs
  <2>. QED  BY <1>10, <2>1 DEF SetupOk
<1>11. CASE SetupFail(p)
  BY <1>11 DEF SetupFail
<1>12. CASE CreateOk(p)
  BY <1>12 DEF CreateOk
<1>13. CASE CreateReport(p)
  <2>1. pc' \in [Procs -> Pcs] /\ mutex' \in {NoProc} \cup Procs
    BY <1>7, <1>13 DEF CreateReport
  <2>. QED  BY <1>13, <2>1 DEF CreateReport
<1>14. CASE CreateFail(p)
  BY <1>14 DEF CreateFail
<1>15. CASE CreateDrop(p)
  <2>1. /\ timer' \in BOOLEAN /\ timerC' \in BOOLEAN
        /\ futures' \in Seq(Futs) /\ res' \in [Futs -> Seq(Results)]
    BY <1>15, DropType DEF CreateDrop, ErrKinds, NotSentKinds
  <2>2. pc' \in [Procs -> Pcs] /\ mutex' \in {NoProc} \cup Procs
    BY <1>15 DEF CreateDrop
  <2>3. signal' \in {"empty", "full", "closed"}
    BY <1>15 DEF CreateDrop
  <2>. QED  BY <1>15, <2>1, <2>2, <2>3 DEF CreateDrop
<1>16. CASE Lock(p)
  BY <1>16 DEF Lock
<1>17. CASE CloseState(p)
  BY <1>17 DEF CloseState, ClosedAs
<1>18. CASE CloseSocket(p)
  BY <1>0, <1>18 DEF CloseSocket, CloseSock
<1>19. CASE CloseDrop(p)
  <2>1. /\ timer' \in BOOLEAN /\ timerC' \in BOOLEAN
        /\ futures' \in Seq(Futs) /\ res' \in [Futs -> Seq(Results)]
    <3>1. (IF p = ControlP THEN "ctxclosed" ELSE "io") \in ErrKinds
      BY DEF ErrKinds, NotSentKinds
    <3>. QED  BY <1>19, <3>1, DropType DEF CloseDrop
  <2>2. pc' \in [Procs -> Pcs] /\ mutex' \in {NoProc} \cup Procs
    BY <1>19 DEF CloseDrop
  <2>3. signal' \in {"empty", "full", "closed"}
    BY <1>19 DEF CloseDrop
  <2>. QED  BY <1>19, <2>1, <2>2, <2>3 DEF CloseDrop
<1>20. CASE p \in Epochs /\ ReconnectCheck(p)
  <2>1. pc' \in [Procs -> Pcs] /\ mutex' \in {NoProc} \cup Procs
    BY <1>7, <1>20 DEF ReconnectCheck
  <2>2. ctxdone' \in BOOLEAN
    BY <1>20, Zenon DEF ReconnectCheck
  <2>. QED  BY <1>20, <2>1, <2>2 DEF ReconnectCheck
<1>. QED
  BY <1>1, <1>2, <1>3, <1>4, <1>5, <1>6, <1>8, <1>9, <1>10, <1>11, <1>12, <1>13, <1>14, <1>15,
     <1>16, <1>17, <1>18, <1>19, <1>20 DEF CreateStep, CloseStep

\* The writer and the reader of an epoch, and the network.
LEMMA TypeIO ==
    ASSUME TypeInv, NEW e \in Epochs,
           \/ WriterStep(e) \/ WriteOk(e) \/ ReadReply(e) \/ ReadFail(e) \/ ReaderStep(e)
           \/ Break(e)
    PROVE  TypeInv'
<1>. USE DEF TypeInv, TypeOK, BatchInv, procVars, queueVars, ioVars, sockVars, writerVars,
             readerVars, callVars, dataVars
<1>0. e \in Procs
  BY BoundsAssumption DEF Procs, Epochs, ConnectP
<1>1. /\ wfut[e] \in Seq(Futs) /\ rfut[e] \in Seq(Futs) /\ wire[e] \in Seq(Futs)
      /\ chan[e] \in Seq(Seq(Futs))
      /\ Range(wfut[e]) \subseteq Futs
  <2>1. wfut[e] \in Seq(Futs)
    OBVIOUS
  <2>. QED  BY <2>1 DEF Range
<1>2. ASSUME SetErr(e)
      PROVE  /\ control' \in [Epochs -> BOOLEAN] /\ pc' \in [Procs -> Pcs]
             /\ UNCHANGED <<state, c, mutex, ctxdone>>
  BY <1>0, <1>2 DEF SetErr, Pcs
<1>3. CASE WriterWake(e)
  <2>1. timerC' \in BOOLEAN /\ signal' \in {"empty", "full", "closed"}
    BY <1>3, Zenon DEF WriterWake
  <2>. QED  BY <1>3, <2>1 DEF WriterWake
<1>4. CASE WriterStop(e)
  BY <1>4 DEF WriterStop
<1>5. CASE WriterSwap(e)
  BY <1>1, <1>5 DEF WriterSwap, SwapIn
<1>6. CASE WriteOk(e)
  <2>1. wire[e] \o wfut[e] \in Seq(Futs)
    BY <1>1
  <2>2. wire' \in [Epochs -> Seq(Futs)] /\ written' \subseteq Futs
    BY <1>1, <1>6, <2>1 DEF WriteOk
  <2>3. \A d \in Epochs : rpc[d] = "fetch" => wire'[d] # <<>>
    BY <1>1, <1>6 DEF WriteOk
  <2>. QED  BY <1>6, <2>2, <2>3 DEF WriteOk
<1>7. CASE WriteFail(e)
  <2>1. PICK m \in 0 .. Len(wfut[e]) : wire' = [wire EXCEPT ![e] = @ \o SubSeq(wfut[e], 1, m)]
    BY <1>7 DEF WriteFail
  <2>2. SubSeq(wfut[e], 1, m) \in Seq(Futs)
    BY <1>1, SubSeqProperties
  <2>3. wire' \in [Epochs -> Seq(Futs)]
    BY <1>1, <2>1, <2>2
  <2>4. \A d \in Epochs : rpc[d] = "fetch" => wire'[d] # <<>>
    BY <1>1, <2>1, <2>2
  <2>5. written' \subseteq Futs
    BY <1>1, <1>7 DEF WriteFail
  <2>. QED  BY <1>2, <1>7, <2>3, <2>4, <2>5 DEF WriteFail
<1>8. CASE WriterPush(e)
  <2>1. Append(chan[e], wfut[e]) \in Seq(Seq(Futs))
    BY <1>1
  <2>2. \A i \in 1 .. Len(Append(chan[e], wfut[e])) : Append(chan[e], wfut[e])[i] # <<>>
    <3>. DEFINE ch == Append(chan[e], wfut[e])
    <3>1. /\ Len(ch) = Len(chan[e]) + 1 /\ Len(chan[e]) \in Nat
          /\ \A i \in 1 .. Len(chan[e]) : ch[i] = chan[e][i]
          /\ ch[Len(chan[e]) + 1] = wfut[e]
      BY <1>1, AppendProperties, LenProperties
    <3>2. wfut[e] # <<>> /\ \A i \in 1 .. Len(chan[e]) : chan[e][i] # <<>>
      BY <1>8 DEF WriterPush
    <3>. HIDE DEF ch, TypeInv, TypeOK, BatchInv
    <3>3. ASSUME NEW i \in 1 .. Len(ch) PROVE ch[i] # <<>>
      <4>1. i \in 1 .. Len(chan[e]) \/ i = Len(chan[e]) + 1
        BY <3>1
      <4>. QED  BY <3>1, <3>2, <4>1
    <3>. QED  BY <3>3 DEF ch
  <2>3. chan' = [chan EXCEPT ![e] = Append(chan[e], wfut[e])]
    BY <1>8 DEF WriterPush, Pushed
  <2>4. chan' \in [Epochs -> Seq(Seq(Futs))] /\ BatchInv'
    <3>1. chan' \in [Epochs -> Seq(Seq(Futs))]
      BY <2>1, <2>3
    <3>2. ASSUME NEW d \in Epochs, d # e
          PROVE  chan'[d] = chan[d] /\ \A i \in 1 .. Len(chan[d]) : chan[d][i] # <<>>
      BY <2>3, <3>2
    <3>3. chan'[e] = Append(chan[e], wfut[e])
      BY <2>3
    <3>4. \A d \in Epochs : \A i \in 1 .. Len(chan'[d]) : chan'[d][i] # <<>>
      <4>. HIDE DEF TypeInv, TypeOK, BatchInv
      <4>. QED  BY <2>2, <3>2, <3>3
    <3>. QED  BY <1>8, <3>1, <3>4 DEF WriterPush
  <2>. QED  BY <1>8, <2>4 DEF WriterPush
<1>9. CASE WriterClose(e)
  BY <1>9 DEF WriterClose
<1>10. CASE ReadReply(e)
  <2>1. CASE rfut[e] = <<>>
    BY <1>10, <2>1 DEF ReadReply
  <2>2. CASE rfut[e] # <<>>
    <3>1. /\ Head(rfut[e]) \in Futs /\ Head(wire[e]) \in Futs
          /\ Tail(rfut[e]) \in Seq(Futs) /\ Tail(wire[e]) \in Seq(Futs)
      BY <1>1, <1>10, <2>2 DEF ReadReply
    <3>2. res' \in [Futs -> Seq(Results)]
      <4>1. PICK kind \in AnswerKinds : res' = Reply(Head(rfut[e]), Head(wire[e]), kind)
        BY <1>10, <2>2 DEF ReadReply
      <4>2. Reply(Head(rfut[e]), Head(wire[e]), kind) \in [Futs -> Seq(Results)]
        BY <3>1, ReplyType
      <4>. QED  BY <4>1, <4>2
    <3>. QED  BY <1>10, <2>2, <3>1, <3>2 DEF ReadReply, Rest
  <2>. QED  BY <2>1, <2>2
<1>11. ASSUME chan[e] # <<>>
       PROVE  /\ Head(chan[e]) \in Seq(Futs) /\ Head(chan[e]) # <<>>
              /\ Tail(chan[e]) \in Seq(Seq(Futs))
              /\ \A i \in 1 .. Len(Tail(chan[e])) : Tail(chan[e])[i] # <<>>
  <2>1. /\ Head(chan[e]) \in Seq(Futs) /\ Tail(chan[e]) \in Seq(Seq(Futs))
        /\ Len(Tail(chan[e])) = Len(chan[e]) - 1
        /\ \A i \in 1 .. Len(Tail(chan[e])) : Tail(chan[e])[i] = chan[e][i + 1]
    BY <1>1, <1>11, HeadTailProperties
  <2>2. Len(chan[e]) \in Nat /\ Len(chan[e]) >= 1 /\ Head(chan[e]) = chan[e][1]
    BY <1>1, <1>11
  <2>3. \A i \in 1 .. Len(chan[e]) : chan[e][i] # <<>>
    OBVIOUS
  <2>. HIDE DEF TypeInv, TypeOK, BatchInv
  <2>. QED  BY <2>1, <2>2, <2>3
<1>12. CASE ReaderFetch(e)
  <2>1. Head(Head(chan[e])) \in Futs /\ Tail(Head(chan[e])) \in Seq(Futs)
    BY <1>11, <1>12 DEF ReaderFetch
  <2>2. Head(wire[e]) \in Futs /\ Tail(wire[e]) \in Seq(Futs)
    BY <1>1, <1>12 DEF ReaderFetch
  <2>3. res' \in [Futs -> Seq(Results)]
    <3>1. PICK kind \in AnswerKinds : res' = Reply(Head(Head(chan[e])), Head(wire[e]), kind)
      BY <1>12 DEF ReaderFetch
    <3>2. Reply(Head(Head(chan[e])), Head(wire[e]), kind) \in [Futs -> Seq(Results)]
      BY <2>1, <2>2, ReplyType
    <3>. QED  BY <3>1, <3>2
  <2>4. chan' \in [Epochs -> Seq(Seq(Futs))] /\ BatchInv'
    BY <1>11, <1>12 DEF ReaderFetch
  <2>. QED  BY <1>12, <2>1, <2>2, <2>3, <2>4 DEF ReaderFetch, Rest
<1>13. CASE ReadFail(e)
  BY <1>2, <1>13 DEF ReadFail
<1>14. CASE ReaderFail(e)
  <2>1. res' \in [Futs -> Seq(Results)]
    BY <1>14, ErrorsType DEF ReaderFail, OneErr, ErrKinds
  <2>. QED  BY <1>14, <2>1 DEF ReaderFail
<1>15. CASE ReaderDrain(e)
  <2>1. res' \in [Futs -> Seq(Results)]
    BY <1>15, ErrorsType DEF ReaderDrain, OneErr, ErrKinds
  <2>2. chan' \in [Epochs -> Seq(Seq(Futs))] /\ BatchInv'
    BY <1>11, <1>15 DEF ReaderDrain
  <2>. QED  BY <1>15, <2>1, <2>2 DEF ReaderDrain
<1>16. CASE ReaderDone(e)
  BY <1>16 DEF ReaderDone
<1>17. CASE Break(e)
  BY <1>17 DEF Break
<1>. QED
  BY <1>3, <1>4, <1>5, <1>6, <1>7, <1>8, <1>9, <1>10, <1>12, <1>13, <1>14, <1>15, <1>16, <1>17
  DEF WriterStep, ReaderStep

\* Every step keeps the types.
LEMMA TypeStep == TypeInv /\ [Next]_vars => TypeInv'
<1>. SUFFICES ASSUME TypeInv, [Next]_vars PROVE TypeInv'
  OBVIOUS
<1>1. CASE UNCHANGED vars
  BY <1>1 DEF TypeInv, TypeOK, BatchInv, vars, procVars, queueVars, ioVars, sockVars, writerVars,
              readerVars, callVars, dataVars
<1>2. ConnectP \in Procs /\ Epochs \subseteq Procs
  BY BoundsAssumption DEF Procs, Epochs, ConnectP
<1>3. CASE Next
  BY <1>1, <1>2, <1>3, TypeCalls, TypeProcs, TypeIO DEF Next, Stopped, AllCalls
<1>. QED  BY <1>1, <1>3

\* Type correctness of conn.state, conn.c, the queue, the per-socket channels
\* and all results, for every choice of calls, bounds and options.
THEOREM TypeCorrect == Spec => []TypeOK
<1>1. TypeInv => TypeOK
  BY DEF TypeInv
<1>. QED  BY <1>1, TypeInit, TypeStep, PTL DEF Spec

-----------------------------------------------------------------------------
(* The mutex discipline of asynchronous dialling.                          *)
(*                                                                         *)
(* conn.state and conn.c are stored without futmtx, by whoever holds       *)
(* conn.mutex.  LockInv says who that can be, PhaseInv what the holder's   *)
(* program counter implies about them.  With AsyncDial = FALSE Connect     *)
(* dials without the mutex and neither holds.                              *)

Holding == {"cc_loop", "cc_dial", "cc_setup", "cc_ok", "cc_report", "cc_fail", "cc_drop",
            "check", "cl_state", "cl_sock", "cl_drop"}

LockInv ==
    /\ \A p \in Procs : pc[p] \in Holding => mutex = p
    /\ pc[ConnectP] \in {"wait", "wake", "returned"}
    /\ pc[AsyncP] \in {"lock", "done", "crashed"} \cup CreatePcs
    /\ pc[ControlP] \in {"select", "pinging", "lock", "done"} \cup ClosePcs
    /\ \A e \in Epochs : control[e] \/ pc[e] = "idle"

PhaseInv ==
    /\ \A p \in Procs :
          /\ pc[p] \in {"cc_dial", "cc_setup", "cc_fail"} => state = "connecting" /\ c = 0
          /\ pc[p] = "cc_ok" => state = "connecting" /\ c # 0
          /\ pc[p] = "cc_report" => state = "connected"
          /\ pc[p] = "cl_state" => state # "closed"
          /\ pc[p] = "cl_sock" => state # "connected"
    /\ state = "closed" <=> pc[ControlP] \in {"cl_sock", "cl_drop", "done"}
    /\ signal = "closed" <=> pc[ControlP] = "done"
    /\ state = "connected" => c # 0
    /\ c # 0 => c = conns /\ sock[c] # "closed"
    /\ NoLeakedSocket

DialInv == TypeOK /\ LockInv /\ PhaseInv

\* The goroutines that take conn.mutex are pairwise different.
LEMMA ProcFacts ==
    /\ ConnectP \in Procs /\ AsyncP \in Procs /\ ControlP \in Procs
    /\ \A e \in Epochs : e \in Procs /\ e \notin {ConnectP, AsyncP, ControlP} /\ e # 0
    /\ ConnectP # AsyncP /\ ConnectP # ControlP /\ AsyncP # ControlP
    /\ NoProc \notin Procs
    /\ \A p \in Procs : p \in Epochs \/ p \in {ConnectP, AsyncP, ControlP}
BY BoundsAssumption DEF Procs, Epochs, ConnectP, AsyncP, ControlP, NoProc

\* With AsyncDial the invariant holds when Connect has started its goroutine.
LEMMA DialInit == AsyncDial /\ Init => DialInv
<1>. SUFFICES ASSUME AsyncDial, Init PROVE DialInv
  OBVIOUS
<1>1. TypeOK
  BY TypeInit DEF TypeInv
<1>2. \A p \in Procs : pc[p] \in {"wait", "lock", "select", "idle"}
  BY DEF Init
<1>3. LockInv
  BY <1>2, ProcFacts DEF Init, LockInv, Holding, CreatePcs, ClosePcs
<1>4. PhaseInv
  BY <1>2, ProcFacts DEF Init, PhaseInv, NoLeakedSocket
<1>. QED  BY <1>1, <1>3, <1>4 DEF DialInv

\* Steps of callers, writers and readers without an error.
LEMMA DialFrame ==
    ASSUME LockInv, PhaseInv, UNCHANGED <<state, c, mutex, pc, control, conns, sock>>,
           signal' = "closed" <=> signal = "closed"
    PROVE  LockInv' /\ PhaseInv'
BY DEF LockInv, PhaseInv, NoLeakedSocket

\* The first error of an epoch starts its reconnect goroutine, which was idle.
LEMMA DialSetErr ==
    ASSUME TypeOK, LockInv, PhaseInv, NEW e \in Epochs, SetErr(e), UNCHANGED <<conns, sock, signal>>
    PROVE  LockInv' /\ PhaseInv'
<1>1. CASE control[e]
  <2>1. control' = control
    BY <1>1 DEF TypeOK, SetErr
  <2>. QED  BY <1>1, <2>1, DialFrame DEF SetErr
<1>2. CASE ~control[e]
  <2>1. /\ pc[e] = "idle" /\ pc' = [pc EXCEPT ![e] = "lock"]
        /\ control' = [control EXCEPT ![e] = TRUE]
    BY <1>2 DEF LockInv, SetErr
  <2>2. \A p \in Procs : pc'[p] = pc[p] \/ (p = e /\ pc'[p] = "lock")
    BY <2>1 DEF TypeOK
  <2>3. pc'[ConnectP] = pc[ConnectP] /\ pc'[AsyncP] = pc[AsyncP] /\ pc'[ControlP] = pc[ControlP]
    BY <2>1, ProcFacts DEF TypeOK
  <2>4. \A d \in Epochs : control'[d] \/ pc'[d] = "idle"
    BY <2>1, ProcFacts DEF TypeOK, LockInv
  <2>5. LockInv'
    BY <2>2, <2>3, <2>4 DEF LockInv, SetErr, Holding
  <2>6. PhaseInv'
    BY <2>2, <2>3 DEF PhaseInv, SetErr, NoLeakedSocket
  <2>. QED  BY <2>5, <2>6
<1>. QED  BY <1>1, <1>2

\* A step of goroutine p from program counter old to new in which nobody else
\* moves: what is left to check of LockInv.
LEMMA LockMove ==
    ASSUME TypeOK, LockInv, NEW p \in Procs, NEW new \in Pcs,
           pc' = [pc EXCEPT ![p] = new], UNCHANGED control,
           new # "idle", pc[p] # "idle",
           new \in Holding => mutex' = p,
           mutex' = mutex \/ mutex = NoProc \/ pc[p] \in Holding,
           p = ConnectP => new = "returned",
           p = AsyncP => new \in {"lock", "done", "crashed"} \cup CreatePcs,
           p = ControlP => new \in {"select", "pinging", "lock", "done"} \cup ClosePcs
    PROVE  LockInv'
<1>1. pc'[p] = new /\ \A q \in Procs : q # p => pc'[q] = pc[q]
  BY DEF TypeOK
<1>2. ASSUME NEW q \in Procs, pc'[q] \in Holding PROVE mutex' = q
  BY <1>1, <1>2, ProcFacts DEF LockInv
<1>3. \A e \in Epochs : control'[e] \/ pc'[e] = "idle"
  BY <1>1, ProcFacts DEF LockInv
<1>. QED  BY <1>1, <1>2, <1>3, ProcFacts DEF LockInv

\* Nobody but the holder of conn.mutex is inside its critical section.
LEMMA Alone ==
    ASSUME LockInv, NEW p \in Procs, mutex = p \/ mutex = NoProc
    PROVE  \A q \in Procs : q # p => pc[q] \notin Holding
BY ProcFacts DEF LockInv

\* A goroutine that moves on leaves the others where they are.
LEMMA Moved ==
    ASSUME TypeOK, NEW p \in Procs, NEW new, pc' = [pc EXCEPT ![p] = new]
    PROVE  pc'[p] = new /\ \A q \in Procs : q # p => pc'[q] = pc[q]
BY DEF TypeOK

\* createConnection under the mutex.
LEMMA DialCreate ==
    ASSUME TypeOK, LockInv, PhaseInv, NEW p \in Procs,
           CreateStep(p) \/ SetupOk(p) \/ SetupFail(p)
    PROVE  LockInv' /\ PhaseInv'
<1>. USE DEF procVars, queueVars, ioVars, sockVars, writerVars, readerVars, callVars, dataVars
<1>0. pc[p] \in CreatePcs \ {"cc_sleep"} => mutex = p /\ p # ConnectP /\ p # ControlP
  BY DEF LockInv, Holding, CreatePcs, ClosePcs
<1>1. CASE CreateLoop(p) /\ MayDial
  <2>. DEFINE cp == IF pc[ConnectP] = "wait" THEN "wake" ELSE pc[ConnectP]
  <2>1. /\ pc[p] = "cc_loop" /\ mutex = p /\ p # ConnectP /\ p # ControlP
        /\ state = "disconnected" /\ c = 0 /\ state' = "connecting"
        /\ UNCHANGED <<mutex, c, conns, sock, control, signal>>
    BY <1>0, <1>1 DEF CreateLoop, MayDial, CreatePcs
  <2>2. pc' = [pc EXCEPT ![p] = "cc_dial", ![ConnectP] = cp]
    BY <1>1, <2>1 DEF CreateLoop, TypeOK
  <2>3. /\ pc'[p] = "cc_dial" /\ pc'[ConnectP] = cp
        /\ \A q \in Procs : q # p /\ q # ConnectP => pc'[q] = pc[q]
    BY <2>1, <2>2, ProcFacts DEF TypeOK
  <2>4. cp \in {"wake", "returned"} /\ cp \notin Holding
    BY DEF LockInv, Holding
  <2>. HIDE DEF cp
  <2>5. \A q \in Procs : q # p => pc'[q] \notin Holding
    BY <2>1, <2>3, <2>4, Alone
  <2>6. \A e \in Epochs : control'[e] \/ pc'[e] = "idle"
    BY <2>1, <2>3, ProcFacts DEF LockInv
  <2>7. LockInv'
    BY <2>1, <2>3, <2>4, <2>5, <2>6, ProcFacts DEF LockInv, CreatePcs
  <2>8. PhaseInv'
    BY <2>1, <2>3, <2>5, ProcFacts DEF LockInv, PhaseInv, NoLeakedSocket, Holding
  <2>. QED  BY <2>7, <2>8
<1>2. CASE CreateLoop(p) /\ ~MayDial
  <2>1. pc' = [pc EXCEPT ![p] = "done"] /\ pc[p] = "cc_loop"
    BY <1>0, <1>2 DEF CreateLoop, Goto, CreatePcs, Leave
  <2>2. mutex = p /\ p # ConnectP /\ p # ControlP
    BY <1>0, <2>1 DEF CreatePcs
  <2>3. LockInv'
    BY <1>2, <2>1, <2>2, LockMove DEF CreateLoop, Holding, Pcs, CreatePcs, Leave
  <2>4. PhaseInv'
    BY <1>2, <2>1, <2>2, Alone, Moved, ProcFacts
    DEF CreateLoop, TypeOK, LockInv, PhaseInv, NoLeakedSocket, Holding, Leave
  <2>. QED  BY <2>3, <2>4
<1>3. CASE DialTCP(p) /\ pc'[p] = "cc_setup"
  <2>1. pc' = [pc EXCEPT ![p] = "cc_setup"] /\ pc[p] = "cc_dial"
    BY <1>0, <1>3 DEF DialTCP, Goto, CreatePcs
  <2>2. mutex = p /\ p # ConnectP /\ p # ControlP
    BY <1>0, <2>1 DEF CreatePcs
  <2>3. LockInv'
    BY <1>3, <2>1, <2>2, LockMove DEF DialTCP, Holding, Pcs, CreatePcs
  <2>4. PhaseInv'
    BY <1>3, <2>1, <2>2, Alone, Moved, ProcFacts
    DEF DialTCP, TypeOK, LockInv, PhaseInv, NoLeakedSocket, Holding
  <2>. QED  BY <2>3, <2>4
<1>4. CASE DialTCP(p) /\ pc'[p] # "cc_setup"
  <2>1. pc' = [pc EXCEPT ![p] = "cc_fail"] /\ pc[p] = "cc_dial"
    BY <1>0, <1>4 DEF DialTCP, Goto, CreatePcs
  <2>2. mutex = p /\ p # ConnectP /\ p # ControlP
    BY <1>0, <2>1 DEF CreatePcs
  <2>3. LockInv'
    BY <1>4, <2>1, <2>2, LockMove DEF DialTCP, Holding, Pcs, CreatePcs
  <2>4. PhaseInv'
    BY <1>4, <2>1, <2>2, Alone, Moved, ProcFacts
    DEF DialTCP, TypeOK, LockInv, PhaseInv, NoLeakedSocket, Holding
  <2>. QED  BY <2>3, <2>4
<1>5. CASE SetupOk(p)
  <2>1. pc' = [pc EXCEPT ![p] = "cc_ok"] /\ pc[p] = "cc_setup"
    BY <1>0, <1>5 DEF SetupOk, Goto, CreatePcs
  <2>2. mutex = p /\ p # ConnectP /\ p # ControlP
    BY <1>0, <2>1 DEF CreatePcs
  <2>3. LockInv'
    BY <1>5, <2>1, <2>2, LockMove DEF SetupOk, Holding, Pcs, CreatePcs
  <2>4. PhaseInv'
    <3>1. /\ conns + 1 \in Epochs /\ conns + 1 # 0 /\ state = "connecting" /\ c = 0
          /\ c' = conns + 1 /\ conns' = conns + 1 /\ UNCHANGED <<state, signal>>
      BY <1>5, <2>1, BoundsAssumption DEF SetupOk, TypeOK, Epochs, PhaseInv
    <3>2. sock'[c'] = "open" /\ \A e \in Epochs : e # c' => sock'[e] = sock[e]
      BY <1>5, <3>1 DEF SetupOk, TypeOK
    <3>3. NoLeakedSocket'
      BY <3>1, <3>2, ProcFacts DEF PhaseInv, NoLeakedSocket
    <3>4. pc'[p] = "cc_ok" /\ \A q \in Procs : q # p => pc'[q] = pc[q] /\ pc[q] \notin Holding
      BY <2>1, <2>2, Alone, Moved
    <3>. QED  BY <2>2, <3>1, <3>2, <3>3, <3>4, ProcFacts DEF LockInv, PhaseInv, Holding
  <2>. QED  BY <2>3, <2>4
<1>6. CASE SetupFail(p)
  <2>1. pc' = [pc EXCEPT ![p] = "cc_fail"] /\ pc[p] = "cc_setup"
    BY <1>0, <1>6 DEF SetupFail, Goto, CreatePcs
  <2>2. mutex = p /\ p # ConnectP /\ p # ControlP
    BY <1>0, <2>1 DEF CreatePcs
  <2>3. LockInv'
    BY <1>6, <2>1, <2>2, LockMove DEF SetupFail, Holding, Pcs, CreatePcs
  <2>4. PhaseInv'
    BY <1>6, <2>1, <2>2, Alone, Moved, ProcFacts
    DEF SetupFail, TypeOK, LockInv, PhaseInv, NoLeakedSocket, Holding
  <2>. QED  BY <2>3, <2>4
<1>7. CASE CreateOk(p)
  <2>1. pc' = [pc EXCEPT ![p] = "cc_report"] /\ pc[p] = "cc_ok"
    BY <1>0, <1>7 DEF CreateOk, Goto, CreatePcs
  <2>2. mutex = p /\ p # ConnectP /\ p # ControlP
    BY <1>0, <2>1 DEF CreatePcs
  <2>3. LockInv'
    BY <1>7, <2>1, <2>2, LockMove DEF CreateOk, Holding, Pcs, CreatePcs
  <2>4. PhaseInv'
    BY <1>7, <2>1, <2>2, Alone, Moved, ProcFacts
    DEF CreateOk, TypeOK, LockInv, PhaseInv, NoLeakedSocket, Holding
  <2>. QED  BY <2>3, <2>4
<1>8. CASE CreateReport(p)
  <2>1. pc' = [pc EXCEPT ![p] = "done"] /\ pc[p] = "cc_report"
    BY <1>0, <1>8 DEF CreateReport, Goto, CreatePcs, Leave, PhaseInv
  <2>2. mutex = p /\ p # ConnectP /\ p # ControlP
    BY <1>0, <2>1 DEF CreatePcs
  <2>3. LockInv'
    BY <1>8, <2>1, <2>2, LockMove DEF CreateReport, Holding, Pcs, CreatePcs, Leave, PhaseInv
  <2>4. PhaseInv'
    BY <1>8, <2>1, <2>2, Alone, Moved, ProcFacts
    DEF CreateReport, TypeOK, LockInv, PhaseInv, NoLeakedSocket, Holding, Leave, PhaseInv
  <2>. QED  BY <2>3, <2>4
<1>9. CASE CreateFail(p)
  <2>1. pc' = [pc EXCEPT ![p] = "cc_drop"] /\ pc[p] = "cc_fail"
    BY <1>0, <1>9 DEF CreateFail, Goto, CreatePcs
  <2>2. mutex = p /\ p # ConnectP /\ p # ControlP
    BY <1>0, <2>1 DEF CreatePcs
  <2>3. LockInv'
    BY <1>9, <2>1, <2>2, LockMove DEF CreateFail, Holding, Pcs, CreatePcs
  <2>4. PhaseInv'
    BY <1>9, <2>1, <2>2, Alone, Moved, ProcFacts
    DEF CreateFail, TypeOK, LockInv, PhaseInv, NoLeakedSocket, Holding
  <2>. QED  BY <2>3, <2>4
<1>10. CASE CreateDrop(p)
  <2>1. pc' = [pc EXCEPT ![p] = "cc_sleep"] /\ pc[p] = "cc_drop"
    BY <1>0, <1>10 DEF CreateDrop, Goto, CreatePcs
  <2>2. mutex = p /\ p # ConnectP /\ p # ControlP
    BY <1>0, <2>1 DEF CreatePcs
  <2>3. LockInv'
    BY <1>10, <2>1, <2>2, LockMove DEF CreateDrop, Holding, Pcs, CreatePcs
  <2>4. PhaseInv'
    BY <1>10, <2>1, <2>2, Alone, Moved, ProcFacts
    DEF CreateDrop, TypeOK, LockInv, PhaseInv, NoLeakedSocket, Holding
  <2>. QED  BY <2>3, <2>4
<1>. QED
  BY <1>1, <1>2, <1>3, <1>4, <1>5, <1>6, <1>7, <1>8, <1>9, <1>10 DEF CreateStep

\* closeConnection, the check of reconnect, and taking the mutex.
LEMMA DialClose ==
    ASSUME TypeOK, LockInv, PhaseInv, NEW p \in Procs,
           CloseStep(p) \/ Lock(p) \/ (p \in Epochs /\ ReconnectCheck(p))
    PROVE  LockInv' /\ PhaseInv'
<1>. USE DEF procVars, queueVars, ioVars, sockVars, writerVars, readerVars, callVars, dataVars
<1>1. CASE CloseState(p)
  <2>1. pc' = [pc EXCEPT ![p] = "cl_sock"] /\ pc[p] = "cl_state"
    BY <1>1 DEF CloseState, Goto, ClosedAs
  <2>2. mutex = p /\ p \in Epochs \cup {ControlP}
    BY <2>1, ProcFacts DEF LockInv, Holding, CreatePcs
  <2>3. LockInv'
    BY <1>1, <2>1, <2>2, LockMove, ProcFacts
    DEF CloseState, Holding, Pcs, CreatePcs, ClosePcs, ClosedAs
  <2>4. PhaseInv'
    BY <1>1, <2>1, <2>2, Alone, Moved, ProcFacts
    DEF CloseState, TypeOK, LockInv, PhaseInv, NoLeakedSocket, Holding, ClosedAs
  <2>. QED  BY <2>3, <2>4
<1>2. CASE CloseSocket(p)
  <2>1. pc' = [pc EXCEPT ![p] = "cl_drop"] /\ pc[p] = "cl_sock"
    BY <1>2 DEF CloseSocket, Goto, CloseSock
  <2>2. mutex = p /\ p \in Epochs \cup {ControlP}
    BY <2>1, ProcFacts DEF LockInv, Holding, CreatePcs
  <2>3. LockInv'
    BY <1>2, <2>1, <2>2, LockMove, ProcFacts
    DEF CloseSocket, Holding, Pcs, CreatePcs, ClosePcs, CloseSock
  <2>4. PhaseInv'
    BY <1>2, <2>1, <2>2, Alone, Moved, ProcFacts
    DEF CloseSocket, TypeOK, LockInv, PhaseInv, NoLeakedSocket, Holding, CloseSock
  <2>. QED  BY <2>3, <2>4
<1>3. CASE CloseDrop(p) /\ p = ControlP
  <2>1. pc' = [pc EXCEPT ![p] = "done"] /\ pc[p] = "cl_drop"
    BY <1>3 DEF CloseDrop, Goto
  <2>2. mutex = p /\ p \in Epochs \cup {ControlP}
    BY <2>1, ProcFacts DEF LockInv, Holding, CreatePcs
  <2>3. LockInv'
    BY <1>3, <2>1, <2>2, LockMove, ProcFacts
    DEF CloseDrop, Holding, Pcs, CreatePcs, ClosePcs
  <2>4. PhaseInv'
    BY <1>3, <2>1, <2>2, Alone, Moved, ProcFacts
    DEF CloseDrop, TypeOK, LockInv, PhaseInv, NoLeakedSocket, Holding
  <2>. QED  BY <2>3, <2>4
<1>4. CASE CloseDrop(p) /\ p # ControlP
  <2>1. pc' = [pc EXCEPT ![p] = "cc_loop"] /\ pc[p] = "cl_drop"
    BY <1>4 DEF CloseDrop, Goto
  <2>2. mutex = p /\ p \in Epochs \cup {ControlP}
    BY <2>1, ProcFacts DEF LockInv, Holding, CreatePcs
  <2>3. LockInv'
    BY <1>4, <2>1, <2>2, LockMove, ProcFacts
    DEF CloseDrop, Holding, Pcs, CreatePcs, ClosePcs
  <2>4. PhaseInv'
    BY <1>4, <2>1, <2>2, Alone, Moved, ProcFacts
    DEF CloseDrop, TypeOK, LockInv, PhaseInv, NoLeakedSocket, Holding
  <2>. QED  BY <2>3, <2>4
<1>5. CASE p \in Epochs /\ ReconnectCheck(p)
  <2>1. /\ pc[p] = "check" /\ mutex = p /\ p \notin {ConnectP, AsyncP, ControlP}
        /\ UNCHANGED <<state, c, conns, sock, signal, control>>
    BY <1>5, ProcFacts DEF ReconnectCheck, LockInv, Holding
  <2>2. \/ pc' = [pc EXCEPT ![p] = "done"]
        \/ pc' = [pc EXCEPT ![p] = "cl_state"] /\ mutex' = mutex /\ state # "closed"
    BY <1>5, <2>1 DEF ReconnectCheck, Leave, Goto
  <2>3. CASE pc' = [pc EXCEPT ![p] = "done"]
    <3>1. LockInv'
      BY <2>1, <2>3, LockMove DEF Holding, Pcs
    <3>2. PhaseInv'
      BY <2>1, <2>3, Alone, Moved, ProcFacts DEF LockInv, PhaseInv, NoLeakedSocket, Holding
    <3>. QED  BY <3>1, <3>2
  <2>4. CASE pc' = [pc EXCEPT ![p] = "cl_state"] /\ mutex' = mutex /\ state # "closed"
    <3>1. LockInv'
      BY <2>1, <2>4, LockMove DEF Holding, Pcs, ClosePcs
    <3>2. PhaseInv'
      BY <2>1, <2>4, Alone, Moved, ProcFacts DEF LockInv, PhaseInv, NoLeakedSocket, Holding
    <3>. QED  BY <3>1, <3>2
  <2>. QED  BY <2>2, <2>3, <2>4
<1>6. CASE Lock(p)
  <2>1. /\ mutex = NoProc /\ mutex' = p
        /\ UNCHANGED <<state, c, conns, sock, signal, control>>
    BY <1>6 DEF Lock
  <2>2. CASE p = ControlP
    <3>1. pc[p] = "lock" /\ pc' = [pc EXCEPT ![p] = "cl_state"]
      BY <1>6, <2>2, ProcFacts DEF Lock, Goto, LockInv, ClosePcs
    <3>2. LockInv'
      BY <2>1, <2>2, <3>1, LockMove, ProcFacts DEF Holding, Pcs, ClosePcs
    <3>3. PhaseInv'
      BY <2>1, <2>2, <3>1, Alone, Moved, ProcFacts DEF LockInv, PhaseInv, NoLeakedSocket, Holding
    <3>. QED  BY <3>2, <3>3
  <2>3. CASE p # ControlP
    <3>1. /\ p # ConnectP /\ pc[p] \in {"cc_sleep", "lock"}
          /\ \/ pc' = [pc EXCEPT ![p] = "cc_loop"]
             \/ p # AsyncP /\ pc' = [pc EXCEPT ![p] = "check"]
      BY <1>6, <2>3, ProcFacts DEF Lock, Goto, LockInv
    <3>2. LockInv'
      BY <2>1, <2>3, <3>1, LockMove DEF Holding, Pcs, CreatePcs
    <3>3. PhaseInv'
      BY <2>1, <2>3, <3>1, Alone, Moved, ProcFacts DEF LockInv, PhaseInv, NoLeakedSocket, Holding
    <3>. QED  BY <3>2, <3>3
  <2>. QED  BY <2>2, <2>3
<1>. QED  BY <1>1, <1>2, <1>3, <1>4, <1>5, <1>6 DEF CloseStep

\* Connect and control() outside the mutex, callers, writers and readers.
LEMMA DialOthers ==
    ASSUME TypeOK, LockInv, PhaseInv,
           \/ \E k \in AllCalls : SendRejected(k) \/ SendEmpty(k) \/ Send(k) \/ ControlTick(k)
           \/ Close \/ TimerFire \/ ConnectError \/ ConnectWait \/ ControlDone \/ ControlPong
           \/ \E e \in Epochs : \/ WriterStep(e) \/ WriteOk(e) \/ ReadReply(e) \/ ReadFail(e)
                                \/ ReaderStep(e) \/ Break(e)
    PROVE  LockInv' /\ PhaseInv'
<1>. USE DEF procVars, queueVars, ioVars, sockVars, writerVars, readerVars, callVars, dataVars
<1>1. ASSUME NEW k, SendQueued(k) \/ SendRefused(k)
      PROVE  signal' = "closed" <=> signal = "closed"
  BY <1>1 DEF SendQueued, SendRefused
<1>2. CASE \E k \in AllCalls : SendRejected(k) \/ SendEmpty(k) \/ Send(k)
  BY <1>1, <1>2, DialFrame DEF SendRejected, SendEmpty, Send
<1>3. CASE Close \/ TimerFire
  BY <1>3, DialFrame DEF Close, TimerFire
<1>4. CASE ConnectError
  BY <1>4 DEF ConnectError, LockInv
<1>5. ASSUME NEW p \in {ConnectP, ControlP}, NEW new \in {"returned", "lock", "select", "pinging"},
             pc' = [pc EXCEPT ![p] = new], pc[p] \in {"wake", "select", "pinging"},
             new = "returned" <=> p = ConnectP,
             UNCHANGED <<state, c, mutex, control, conns, sock>>,
             signal' = "closed" <=> signal = "closed"
      PROVE  LockInv' /\ PhaseInv'
  <2>1. LockInv'
    BY <1>5, LockMove, ProcFacts DEF Holding, Pcs
  <2>2. PhaseInv'
    BY <1>5, Moved, ProcFacts DEF PhaseInv, NoLeakedSocket
  <2>. QED  BY <2>1, <2>2
<1>6. CASE ConnectWait
  BY <1>5, <1>6, ProcFacts DEF ConnectWait, Goto
<1>7. CASE ControlDone
  BY <1>5, <1>7, ProcFacts DEF ControlDone, Goto
<1>8. CASE ControlPong
  BY <1>5, <1>8, ProcFacts DEF ControlPong, Goto
<1>9. CASE \E k \in AllCalls : ControlTick(k)
  BY <1>1, <1>5, <1>9, ProcFacts DEF ControlTick, Goto
<1>10. ASSUME NEW e \in Epochs, WriteFail(e) \/ ReadFail(e)
       PROVE  LockInv' /\ PhaseInv'
  BY <1>10, DialSetErr DEF WriteFail, ReadFail
<1>11. ASSUME NEW e \in Epochs, Break(e)
       PROVE  LockInv' /\ PhaseInv'
  <2>1. /\ sock[e] = "open" /\ sock' = [sock EXCEPT ![e] = "broken"]
        /\ UNCHANGED <<state, c, mutex, pc, control, conns, signal>>
    BY <1>11 DEF Break
  <2>2. \A d \in Epochs : sock'[d] = sock[d] \/ (d = e /\ sock'[d] = "broken")
    BY <2>1 DEF TypeOK
  <2>3. NoLeakedSocket'
    BY <2>1, <2>2 DEF PhaseInv, NoLeakedSocket
  <2>4. c # 0 => sock'[c] # "closed"
    BY <2>1, <2>2, BoundsAssumption DEF PhaseInv, TypeOK, Epochs
  <2>5. LockInv'
    BY <2>1 DEF LockInv
  <2>6. PhaseInv'
    BY <2>1, <2>3, <2>4 DEF PhaseInv
  <2>. QED  BY <2>5, <2>6
<1>12. ASSUME NEW e \in Epochs,
              \/ WriterWake(e) \/ WriterStop(e) \/ WriterSwap(e) \/ WriterPush(e) \/ WriterClose(e)
              \/ WriteOk(e) \/ ReadReply(e) \/ ReaderStep(e)
       PROVE  LockInv' /\ PhaseInv'
  <2>1. UNCHANGED <<state, c, mutex, pc, control, conns, sock>>
    BY <1>12 DEF WriterWake, WriterStop, WriterSwap, WriterPush, WriterClose, WriteOk, ReadReply,
                 ReaderStep, ReaderFetch, ReaderFail, ReaderDrain, ReaderDone
  <2>2. signal' = "closed" <=> signal = "closed"
    BY <1>12 DEF WriterWake, WriterStop, WriterSwap, WriterPush, WriterClose, WriteOk, ReadReply,
                 ReaderStep, ReaderFetch, ReaderFail, ReaderDrain, ReaderDone
  <2>. QED  BY <2>1, <2>2, DialFrame
<1>. QED
  BY <1>2, <1>3, <1>4, <1>6, <1>7, <1>8, <1>9, <1>10, <1>11, <1>12 DEF WriterStep

\* Every step keeps the mutex discipline of dialling and closing.
LEMMA DialStep == DialInv /\ TypeOK' /\ [Next]_vars => DialInv'
<1>. SUFFICES ASSUME TypeOK, LockInv, PhaseInv, TypeOK', [Next]_vars
              PROVE  LockInv' /\ PhaseInv'
  BY DEF DialInv
<1>1. CASE UNCHANGED vars
  BY <1>1, DialFrame DEF vars, procVars, dataVars, queueVars, ioVars, sockVars
<1>2. CASE Next
  <2>1. Epochs \subseteq Procs /\ Calls \subseteq AllCalls /\ Pings \subseteq AllCalls
    BY ProcFacts DEF AllCalls
  <2>. QED  BY <1>1, <1>2, <2>1, DialCreate, DialClose, DialOthers DEF Next, Stopped
<1>. QED  BY <1>1, <1>2

\* With AsyncDial, conn.state, conn.c and the sockets agree with what the
\* holder of conn.mutex is doing, in every reachable state.
THEOREM DialInvariant == AsyncDial /\ Spec => []DialInv
<1>1. Spec => []TypeOK
  BY TypeCorrect
<1>2. CASE AsyncDial
  <2>1. Init => DialInv
    BY <1>2, DialInit
  <2>. QED  BY <1>1, <2>1, DialStep, PTL DEF Spec
<1>3. CASE ~AsyncDial
  BY <1>3
<1>. QED  BY <1>2, <1>3

\* With asynchronous dialling ConnectedNow() never answers TRUE without an
\* established socket, whatever reconnect goroutines, failures and Close do.
THEOREM ConnectedIsCertain == AsyncDial /\ Spec => []CertainlyConnected
<1>1. DialInv => CertainlyConnected
  BY DEF DialInv, PhaseInv, CertainlyConnected
<1>. QED  BY <1>1, DialInvariant, PTL

\* With asynchronous dialling an established socket is never forgotten: conn.c is
\* replaced only after closeConnection has closed it.
THEOREM SocketsAreClosed == AsyncDial /\ Spec => []NoLeakedSocket
<1>1. DialInv => NoLeakedSocket
  BY DEF DialInv, PhaseInv
<1>. QED  BY <1>1, DialInvariant, PTL

-----------------------------------------------------------------------------
(* Closing for ever, with a synchronous Connect as well *)

\* Whoever is about to store another state.
Storing == {"cc_dial", "cc_setup", "cc_ok", "cc_fail", "cl_state"}

\* Goroutines other than Connect itself hold the mutex where they should;
\* control() starts after Connect; once it has stored connClosed nobody is on
\* the way to another store, and futsignal is closed last.
CloseInv ==
    /\ \A p \in Procs \ {ConnectP} : pc[p] \in Holding => mutex = p
    /\ pc[ControlP] \in {"select", "pinging", "lock", "done"} \cup ClosePcs
    /\ pc[ControlP] # "select" => pc[ConnectP] = "returned"
    /\ pc[ControlP] \in {"cl_sock", "cl_drop", "done"} <=> state = "closed"
    /\ signal = "closed" => pc[ControlP] = "done"
    /\ state = "closed" => \A p \in Procs \ {ControlP} : pc[p] \notin Storing

LEMMA CloseInit == Init => CloseInv
BY ProcFacts DEF Init, CloseInv, Holding, ClosePcs

\* Steps that leave the goroutines alone.
LEMMA CloseFrame ==
    ASSUME CloseInv, UNCHANGED <<state, mutex, pc>>, signal' = "closed" => signal = "closed"
    PROVE  CloseInv'
BY DEF CloseInv

\* A step of a goroutine other than control().
LEMMA CloseMove ==
    ASSUME TypeOK, CloseInv, NEW p \in Procs, p # ControlP, NEW new,
           pc' = [pc EXCEPT ![p] = new],
           p = ConnectP => pc[p] # "returned",
           p # ConnectP /\ new \in Holding => mutex' = p,
           \/ mutex' = mutex
           \/ mutex = NoProc
           \/ p # ConnectP /\ pc[p] \in Holding,
           signal' = "closed" => signal = "closed",
           (state' = "closed") <=> (state = "closed"),
           state = "closed" => new \notin Storing
    PROVE  CloseInv'
<1>1. pc'[p] = new /\ \A q \in Procs : q # p => pc'[q] = pc[q]
  BY Moved
<1>2. pc'[ControlP] = pc[ControlP] /\ (p # ConnectP => pc'[ConnectP] = pc[ConnectP])
  BY <1>1, ProcFacts
<1>3. ASSUME NEW q \in Procs \ {ConnectP}, pc'[q] \in Holding PROVE mutex' = q
  BY <1>1, <1>3, ProcFacts DEF CloseInv
<1>4. ASSUME state' = "closed", NEW q \in Procs \ {ControlP} PROVE pc'[q] \notin Storing
  BY <1>1, <1>4 DEF CloseInv
<1>. QED  BY <1>2, <1>3, <1>4 DEF CloseInv

\* A step of control().
LEMMA CloseControl ==
    ASSUME TypeOK, CloseInv, NEW new \in {"select", "pinging", "lock", "done"} \cup ClosePcs,
           pc' = [pc EXCEPT ![ControlP] = new],
           pc[ConnectP] = "returned",
           new \in Holding => mutex' = ControlP,
           \/ mutex' = mutex
           \/ mutex = NoProc
           \/ pc[ControlP] \in Holding,
           signal' = "closed" => new = "done",
           new \in {"cl_sock", "cl_drop", "done"} <=> state' = "closed",
           state' = "closed" => state = "closed" \/ mutex = ControlP
    PROVE  CloseInv'
<1>1. pc'[ControlP] = new /\ \A q \in Procs : q # ControlP => pc'[q] = pc[q]
  BY Moved, ProcFacts
<1>2. pc'[ConnectP] = "returned"
  BY <1>1, ProcFacts
<1>3. ASSUME NEW q \in Procs \ {ConnectP}, pc'[q] \in Holding PROVE mutex' = q
  BY <1>1, <1>3, ProcFacts DEF CloseInv
<1>4. ASSUME state' = "closed", NEW q \in Procs \ {ControlP} PROVE pc'[q] \notin Storing
  <2>1. CASE state = "closed"
    BY <1>1, <2>1 DEF CloseInv
  <2>2. CASE mutex = ControlP /\ q # ConnectP
    BY <1>1, <2>2 DEF CloseInv, Holding, Storing
  <2>3. CASE q = ConnectP
    BY <1>2, <2>3 DEF Storing
  <2>. QED  BY <1>4, <2>1, <2>2, <2>3
<1>. QED  BY <1>1, <1>2, <1>3, <1>4 DEF CloseInv

\* createConnection.
LEMMA CloseCreate ==
    ASSUME TypeOK, CloseInv, NEW p \in Procs, CreateStep(p) \/ SetupOk(p) \/ SetupFail(p)
    PROVE  CloseInv'
<1>. USE DEF procVars, queueVars, ioVars, sockVars, writerVars, readerVars, callVars, dataVars
<1>1. pc[p] \in {"cc_loop", "cc_dial", "cc_setup", "cc_ok", "cc_report", "cc_fail", "cc_drop"}
  BY DEF CreateStep, CreateLoop, DialTCP, CreateOk, CreateReport, CreateFail, CreateDrop, SetupOk,
         SetupFail
<1>2. p # ControlP /\ pc[p] # "returned" /\ pc[p] \in Holding
  BY <1>1 DEF CloseInv, ClosePcs, Holding
<1>3. p # ConnectP => mutex = p
  BY <1>2 DEF CloseInv
<1>4. state = "closed" => pc[p] \in {"cc_loop", "cc_report", "cc_drop"}
  BY <1>1, <1>2 DEF CloseInv, Storing
<1>5. CASE CreateLoop(p) /\ MayDial
  <2>. DEFINE cp == IF pc[ConnectP] = "wait" THEN "wake" ELSE pc[ConnectP]
  <2>1. state = "disconnected" /\ state' = "connecting" /\ mutex' = mutex /\ signal' = signal
    BY <1>5 DEF CreateLoop, MayDial
  <2>2. /\ pc'[p] = "cc_dial" /\ \A q \in Procs : q # p /\ q # ConnectP => pc'[q] = pc[q]
        /\ p # ConnectP => pc'[ConnectP] = cp
    BY <1>5, <1>2, ProcFacts DEF CreateLoop, TypeOK
  <2>3. pc'[ControlP] = pc[ControlP]
    BY <1>2, <2>2, ProcFacts
  <2>4. pc[ConnectP] = "returned" => pc'[ConnectP] = "returned"
    BY <1>2, <2>2
  <2>5. \A q \in Procs \ {ConnectP} : pc'[q] \in Holding => mutex = q
    BY <1>3, <2>2 DEF CloseInv
  <2>. QED  BY <2>1, <2>3, <2>4, <2>5 DEF CloseInv
<1>6. CASE CreateLoop(p) /\ ~MayDial
  BY <1>2, <1>3, <1>6, CloseMove DEF CreateLoop, Leave, Goto, Storing, Holding
<1>7. CASE DialTCP(p)
  <2>1. PICK new \in {"cc_setup", "cc_fail"} : Goto(p, new)
    BY <1>7 DEF DialTCP
  <2>. QED  BY <1>2, <1>3, <1>4, <1>7, <2>1, CloseMove DEF DialTCP, Goto
<1>8. CASE SetupOk(p)
  BY <1>2, <1>3, <1>4, <1>8, CloseMove DEF SetupOk, Goto
<1>9. CASE SetupFail(p)
  BY <1>2, <1>3, <1>4, <1>9, CloseMove DEF SetupFail, Goto
<1>10. CASE CreateOk(p)
  BY <1>2, <1>3, <1>4, <1>10, CloseMove DEF CreateOk, Goto
<1>11. CASE CreateReport(p)
  <2>1. CASE c = 0
    BY <1>2, <1>3, <1>11, <2>1, CloseMove DEF CreateReport, Goto, Storing, Holding
  <2>2. CASE c # 0
    BY <1>2, <1>3, <1>11, <2>2, CloseMove DEF CreateReport, Leave, Goto, Storing, Holding
  <2>. QED  BY <2>1, <2>2
<1>12. CASE CreateFail(p)
  BY <1>2, <1>3, <1>4, <1>12, CloseMove DEF CreateFail, Goto
<1>13. CASE CreateDrop(p)
  <2>1. signal' = "closed" => signal = "closed"
    BY <1>13 DEF CreateDrop
  <2>2. CASE p = ConnectP
    BY <1>2, <1>13, <2>1, <2>2, CloseMove DEF CreateDrop, Goto, Storing, Holding
  <2>3. CASE p # ConnectP
    BY <1>2, <1>3, <1>13, <2>1, <2>3, CloseMove DEF CreateDrop, Goto, Storing, Holding
  <2>. QED  BY <2>2, <2>3
<1>. QED  BY <1>5, <1>6, <1>7, <1>8, <1>9, <1>10, <1>11, <1>12, <1>13 DEF CreateStep

\* Lock, closeConnection and reconnect.
LEMMA CloseLocked ==
    ASSUME TypeOK, CloseInv, NEW p \in Procs,
           Lock(p) \/ CloseStep(p) \/ (p \in Epochs /\ ReconnectCheck(p))
    PROVE  CloseInv'
<1>. USE DEF procVars, queueVars, ioVars, sockVars, writerVars, readerVars, callVars, dataVars
<1>1. pc[p] \in {"cc_sleep", "lock", "check"} \cup ClosePcs /\ pc[p] # "returned"
  BY DEF Lock, CloseStep, CloseState, CloseSocket, CloseDrop, ReconnectCheck, ClosePcs
<1>2. p = ControlP => pc[p] # "select" /\ pc[p] \in {"lock"} \cup ClosePcs /\ pc[ConnectP] = "returned"
  BY <1>1 DEF CloseInv, ClosePcs
<1>3. p # ConnectP /\ pc[p] \in Holding => mutex = p
  BY DEF CloseInv
<1>4. CASE Lock(p)
  <2>1. CASE p = ControlP
    <3>1. pc' = [pc EXCEPT ![ControlP] = "cl_state"] /\ state # "closed"
      BY <1>2, <1>4, <2>1, ProcFacts DEF Lock, Goto, CloseInv, ClosePcs
    <3>. QED  BY <1>2, <1>4, <2>1, <3>1, CloseControl DEF Lock, CloseInv, ClosePcs
  <2>2. CASE p # ControlP
    <3>1. PICK new \in {"cc_loop", "check"} : Goto(p, new)
      BY <1>4, <2>2 DEF Lock
    <3>. QED  BY <1>1, <1>4, <2>2, <3>1, CloseMove DEF Lock, Goto, Storing
  <2>. QED  BY <2>1, <2>2
<1>5. CASE CloseState(p)
  <2>1. pc[p] \in Holding /\ "cl_sock" \in Holding /\ state' = ClosedAs(p) /\ Goto(p, "cl_sock")
    BY <1>5 DEF CloseState, Holding
  <2>2. CASE p = ControlP
    <3>1. state' = "closed" /\ mutex = ControlP /\ mutex' = mutex /\ signal' = signal
      BY <1>3, <1>5, <2>1, <2>2, ProcFacts DEF CloseState, ClosedAs
    <3>2. signal # "closed"
      BY <1>5, <2>2 DEF CloseState, CloseInv
    <3>. QED  BY <1>2, <2>1, <2>2, <3>1, <3>2, CloseControl DEF Goto, ClosePcs
  <2>3. CASE p # ControlP
    <3>1. state' # "closed" /\ state # "closed"
      BY <1>5, <2>1, <2>3 DEF CloseState, ClosedAs, CloseInv, Storing
    <3>. QED  BY <1>1, <1>3, <1>5, <2>1, <2>3, <3>1, CloseMove DEF CloseState, Goto
  <2>. QED  BY <2>2, <2>3
<1>6. CASE CloseSocket(p)
  <2>1. pc[p] \in Holding /\ Goto(p, "cl_drop") /\ UNCHANGED <<state, mutex, signal>>
    BY <1>6 DEF CloseSocket, Holding
  <2>2. CASE p = ControlP
    <3>1. state = "closed" /\ mutex = ControlP /\ signal # "closed"
      BY <1>3, <1>6, <2>1, <2>2, ProcFacts DEF CloseSocket, CloseInv
    <3>. QED  BY <1>2, <2>1, <2>2, <3>1, CloseControl DEF Goto, ClosePcs
  <2>3. CASE p # ControlP
    BY <1>1, <1>3, <2>1, <2>3, CloseMove DEF Goto, Storing
  <2>. QED  BY <2>2, <2>3
<1>7. CASE CloseDrop(p)
  <2>1. pc[p] \in Holding /\ pc[p] = "cl_drop" /\ state' = state
    BY <1>7 DEF CloseDrop, Holding
  <2>2. CASE p = ControlP
    <3>1. state = "closed" /\ pc' = [pc EXCEPT ![ControlP] = "done"] /\ "done" \notin Holding
      BY <1>7, <2>1, <2>2 DEF CloseDrop, CloseInv, Goto, Holding
    <3>. QED  BY <1>2, <2>1, <2>2, <3>1, CloseControl
  <2>3. CASE p # ControlP
    <3>1. pc' = [pc EXCEPT ![p] = "cc_loop"] /\ mutex' = mutex /\ (signal' = "closed" => signal = "closed")
      BY <1>7, <2>3 DEF CloseDrop, Goto
    <3>. QED  BY <1>1, <1>3, <2>1, <2>3, <3>1, CloseMove DEF Storing
  <2>. QED  BY <2>2, <2>3
<1>8. CASE p \in Epochs /\ ReconnectCheck(p)
  <2>1. p # ConnectP /\ p # ControlP /\ pc[p] \in Holding /\ UNCHANGED <<state, signal>>
    BY <1>8, ProcFacts DEF ReconnectCheck, Holding
  <2>2. CASE Leave(p)
    BY <2>1, <2>2, CloseMove DEF Leave, Goto, Holding, Storing
  <2>3. CASE ~Leave(p)
    <3>1. Goto(p, "cl_state") /\ mutex' = mutex /\ state # "closed"
      BY <1>8, <2>3 DEF ReconnectCheck
    <3>. QED  BY <1>3, <2>1, <3>1, CloseMove DEF Goto
  <2>. QED  BY <2>2, <2>3
<1>. QED  BY <1>4, <1>5, <1>6, <1>7, <1>8 DEF CloseStep

LEMMA CloseInvStep == ASSUME TypeOK, CloseInv, Next PROVE CloseInv'
<1>. USE DEF procVars, queueVars, ioVars, sockVars, writerVars, readerVars, callVars, dataVars
<1>1. ASSUME NEW k, SendRejected(k) \/ SendEmpty(k) \/ Send(k) PROVE CloseInv'
  BY <1>1, CloseFrame DEF SendRejected, SendEmpty, Send, SendRefused, SendQueued
<1>2. ASSUME Close \/ TimerFire \/ Stopped PROVE CloseInv'
  BY <1>2, CloseFrame DEF Close, TimerFire, Stopped, vars
<1>3. ASSUME ConnectWait PROVE CloseInv'
  BY <1>3, ProcFacts, CloseMove DEF ConnectWait, Goto, Storing
<1>4. ASSUME ConnectError PROVE CloseInv'
  <2>1. pc[ConnectP] = "error" /\ UNCHANGED <<state, mutex, signal>>
    BY <1>4 DEF ConnectError
  <2>2. pc[ControlP] = "select" /\ state # "closed" /\ signal # "closed"
    BY <2>1 DEF CloseInv
  <2>3. \A q \in Procs : \/ pc'[q] = pc[q] \/ (q # ControlP /\ pc'[q] \in {"failed", "returned", "lock"})
    BY <1>4, ProcFacts DEF ConnectError, Goto, TypeOK
  <2>4. pc'[ControlP] = "select"
    BY <2>2, <2>3, ProcFacts
  <2>5. \A q \in Procs \ {ConnectP} : pc'[q] \in Holding => mutex = q
    BY <2>3 DEF CloseInv, Holding
  <2>. QED  BY <2>1, <2>2, <2>4, <2>5 DEF CloseInv
<1>5. ASSUME NEW k, ControlTick(k) PROVE CloseInv'
  <2>1. /\ pc[ControlP] = "select" /\ pc[ConnectP] = "returned" /\ UNCHANGED <<state, mutex>>
        /\ signal' = "closed" => signal = "closed"
        /\ pc' = [pc EXCEPT ![ControlP] = "pinging"]
    BY <1>5 DEF ControlTick, SendRefused, SendQueued, Goto
  <2>. QED  BY <2>1, CloseControl DEF CloseInv, Holding
<1>6. ASSUME ControlDone \/ ControlPong PROVE CloseInv'
  <2>1. PICK new \in {"lock", "select"} : pc' = [pc EXCEPT ![ControlP] = new]
    BY <1>6 DEF ControlDone, ControlPong, Goto
  <2>2. /\ pc[ControlP] \in {"select", "pinging"} /\ pc[ConnectP] = "returned"
        /\ UNCHANGED <<state, mutex, signal>>
    BY <1>6 DEF ControlDone, ControlPong, CloseInv
  <2>. QED  BY <2>1, <2>2, CloseControl DEF CloseInv, Holding
<1>7. ASSUME NEW p \in Procs, CreateStep(p) \/ SetupOk(p) \/ SetupFail(p) \/ CloseStep(p) \/ Lock(p)
      PROVE  CloseInv'
  BY <1>7, CloseCreate, CloseLocked
<1>8. ASSUME NEW e \in Epochs, ReconnectCheck(e) PROVE CloseInv'
  BY <1>8, CloseLocked, ProcFacts
<1>9. ASSUME NEW e \in Epochs, SetErr(e), UNCHANGED signal PROVE CloseInv'
  <2>1. CASE control[e]
    BY <1>9, <2>1, CloseFrame DEF SetErr
  <2>2. CASE ~control[e]
    BY <1>9, <2>2, CloseMove, ProcFacts DEF SetErr, Holding, Storing
  <2>. QED  BY <2>1, <2>2
<1>10. ASSUME NEW e \in Epochs, WriteFail(e) \/ ReadFail(e) PROVE CloseInv'
  BY <1>9, <1>10 DEF WriteFail, ReadFail
<1>11. ASSUME NEW e \in Epochs,
              \/ WriterWake(e) \/ WriterStop(e) \/ WriterSwap(e) \/ WriterPush(e) \/ WriterClose(e)
              \/ WriteOk(e) \/ ReadReply(e) \/ ReaderStep(e) \/ Break(e)
       PROVE  CloseInv'
  BY <1>11, CloseFrame
  DEF WriterWake, WriterStop, WriterSwap, WriterPush, WriterClose, WriteOk, ReadReply, ReaderStep,
      ReaderFetch, ReaderFail, ReaderDrain, ReaderDone, Break
<1>. QED  BY <1>1, <1>2, <1>3, <1>4, <1>5, <1>6, <1>7, <1>8, <1>10, <1>11 DEF Next, WriterStep

\* The inductive invariant behind the next theorems, for every option.
THEOREM CloseInvariant == Spec => [](TypeOK /\ CloseInv)
<1>1. TypeOK /\ CloseInv /\ [Next]_vars => CloseInv'
  BY CloseInvStep, CloseFrame DEF vars, procVars, dataVars, queueVars
<1>. QED  BY <1>1, CloseInit, TypeCorrect, PTL DEF Spec

\* doSend never sends on the closed futsignal, even if Connect dials itself.
THEOREM SignalIsOpen == Spec => []NoSendOnClosedSignal
<1>1. CloseInv => NoSendOnClosedSignal
  BY DEF CloseInv, NoSendOnClosedSignal
<1>. QED  BY <1>1, CloseInvariant, PTL

\* Nobody is on the way to a store over connClosed.
LEMMA ClosedStep == ASSUME CloseInv, Next, state = "closed" PROVE state' = "closed"
<1>. USE DEF procVars, queueVars, ioVars, sockVars, writerVars, readerVars, callVars, dataVars
<1>0. \A p \in Procs : pc[p] \notin Storing
  BY DEF CloseInv, Storing, ClosePcs
<1>1. ASSUME NEW p \in Procs, CreateStep(p) \/ SetupOk(p) \/ SetupFail(p) \/ CloseStep(p) \/ Lock(p)
      PROVE  state' = "closed"
  BY <1>0, <1>1
  DEF Storing, CreateStep, CloseStep, CreateLoop, MayDial, DialTCP, SetupOk, SetupFail, CreateOk,
      CreateReport, CreateFail, CreateDrop, CloseState, CloseSocket, CloseDrop, Lock
<1>2. ASSUME NEW k, SendRejected(k) \/ SendEmpty(k) \/ Send(k) \/ ControlTick(k)
      PROVE  state' = "closed"
  BY <1>2 DEF SendRejected, SendEmpty, Send, ControlTick
<1>3. ASSUME Close \/ TimerFire \/ ConnectError \/ ConnectWait \/ ControlDone \/ ControlPong \/ Stopped
      PROVE  state' = "closed"
  BY <1>3
  DEF Close, TimerFire, ConnectError, ConnectWait, ControlDone, ControlPong, Stopped, vars
<1>4. ASSUME NEW e \in Epochs,
             \/ ReconnectCheck(e) \/ WriterStep(e) \/ WriteOk(e) \/ ReadReply(e) \/ ReadFail(e)
             \/ ReaderStep(e) \/ Break(e)
      PROVE  state' = "closed"
  BY <1>4
  DEF ReconnectCheck, WriterStep, WriterWake, WriterStop, WriterSwap, WriteFail, WriterPush,
      WriterClose, WriteOk, ReadReply, ReadFail, ReaderStep, ReaderFetch, ReaderFail, ReaderDrain,
      ReaderDone, Break, SetErr
<1>. QED  BY <1>1, <1>2, <1>3, <1>4 DEF Next

\* A closed connection stays closed: no reconnect goroutine, and no Connect
\* that dials without the mutex, stores another state over connClosed.
THEOREM ClosedStaysClosed == Spec => ClosedIsFinal
<1>1. CloseInv /\ [Next]_vars => [state = "closed" => state' = "closed"]_state
  BY ClosedStep DEF vars, procVars
<1>. QED  BY <1>1, CloseInvariant, PTL DEF Spec, ClosedIsFinal

-----------------------------------------------------------------------------
(* No lost wake-up *)

\* A writer swaps only with an empty buffer of its own.
BufferInv ==
    \A e \in Epochs : /\ wpc[e] \in {"none", "wait", "swap"} => wfut[e] = <<>>
                      /\ e > conns => wpc[e] = "none"

WakeInv == BufferInv /\ NoLostWakeup

\* The queue is empty when Connect has built the struct.
LEMMA WakeInit == Init => WakeInv
BY DEF Init, WakeInv, BufferInv, NoLostWakeup

\* A step that leaves the queue and the notifications alone and lets no
\* writer leave "swap".
LEMMA WakeFrame ==
    ASSUME WakeInv, UNCHANGED <<futures, signal, timer, timerC, wpc, wfut, conns>>
    PROVE  WakeInv'
BY DEF WakeInv, BufferInv, NoLostWakeup

\* Every step that consumes a notification leaves the queue empty or a writer
\* about to swap.
LEMMA WakeStep ==
    ASSUME TypeOK, CloseInv, WakeInv, Next
    PROVE  WakeInv'
<1>. USE DEF procVars, queueVars, ioVars, sockVars, writerVars, readerVars, callVars, dataVars
<1>1. ASSUME NEW k, SendQueued(k), UNCHANGED <<wpc, wfut, conns>>
      PROVE  WakeInv'
  <2>1. signal # "closed"
    BY <1>1 DEF SendQueued, Accepting, CloseInv
  <2>2. signal \in {"empty", "full", "closed"}
    BY DEF TypeOK
  <2>. QED  BY <1>1, <2>1, <2>2 DEF SendQueued, MustNotify, WakeInv, BufferInv, NoLostWakeup
<1>2. ASSUME NEW k, SendRejected(k) \/ SendEmpty(k) \/ Send(k) \/ ControlTick(k)
      PROVE  WakeInv'
  BY <1>1, <1>2, WakeFrame DEF SendRejected, SendEmpty, Send, ControlTick, SendRefused
<1>3. ASSUME Close \/ ConnectError \/ ConnectWait \/ ControlDone \/ ControlPong \/ Stopped
      PROVE  WakeInv'
  BY <1>3, WakeFrame DEF Close, ConnectError, ConnectWait, ControlDone, ControlPong, Stopped, vars
<1>4. CASE TimerFire
  BY <1>4 DEF TimerFire, WakeInv, BufferInv, NoLostWakeup
<1>5. ASSUME NEW p \in Procs, CreateDrop(p) \/ CloseDrop(p)
      PROVE  WakeInv'
  BY <1>5 DEF CreateDrop, CloseDrop, DropFutures, WakeInv, BufferInv, NoLostWakeup
<1>6. ASSUME NEW p \in Procs, SetupOk(p)
      PROVE  WakeInv'
  <2>1. /\ wpc' = [wpc EXCEPT ![conns + 1] = "wait"]
        /\ UNCHANGED <<futures, signal, timer, timerC, wfut>>
        /\ conns + 1 \in Epochs /\ conns' = conns + 1
    BY <1>6, BoundsAssumption DEF SetupOk, TypeOK, Epochs
  <2>2. conns \in Nat /\ Epochs \subseteq Int
    BY BoundsAssumption DEF TypeOK, Epochs
  <2>3. wpc[conns + 1] = "none"
    BY <2>1, <2>2 DEF WakeInv, BufferInv
  <2>4. BufferInv'
    BY <2>1, <2>2, <2>3 DEF WakeInv, BufferInv, TypeOK
  <2>5. \A e \in Epochs : wpc[e] = "swap" => wpc'[e] = "swap"
    BY <2>1, <2>3 DEF TypeOK
  <2>6. NoLostWakeup'
    BY <2>1, <2>5 DEF WakeInv, NoLostWakeup
  <2>. QED  BY <2>4, <2>6 DEF WakeInv
<1>7. ASSUME NEW p \in Procs,
             \/ CreateLoop(p) \/ DialTCP(p) \/ CreateOk(p) \/ CreateReport(p) \/ CreateFail(p)
             \/ SetupFail(p) \/ Lock(p) \/ CloseState(p) \/ CloseSocket(p)
      PROVE  WakeInv'
  BY <1>7, WakeFrame
  DEF CreateLoop, DialTCP, CreateOk, CreateReport, CreateFail, SetupFail, Lock, CloseState,
      CloseSocket
<1>8. ASSUME NEW e \in Epochs,
             \/ ReconnectCheck(e) \/ ReadReply(e) \/ ReadFail(e) \/ ReaderStep(e) \/ Break(e)
      PROVE  WakeInv'
  BY <1>8, WakeFrame
  DEF ReconnectCheck, ReadReply, ReadFail, ReaderStep, ReaderFetch, ReaderFail, ReaderDrain,
      ReaderDone, Break
<1>9. ASSUME NEW e \in Epochs,
             \/ WriterWake(e) \/ WriterStop(e) \/ WriterSwap(e) \/ WriteOk(e) \/ WriteFail(e)
             \/ WriterPush(e) \/ WriterClose(e)
      PROVE  WakeInv'
  <2>. USE DEF TypeOK, WakeInv, BufferInv, NoLostWakeup
  <2>1. CASE WriterWake(e)
    BY <2>1 DEF WriterWake
  <2>2. CASE WriterStop(e)
    BY <2>2 DEF WriterStop
  <2>6. CASE WriterClose(e)
    BY <2>6 DEF WriterClose
  <2>3. CASE WriterSwap(e)
    BY <2>3 DEF WriterSwap, SwapIn
  <2>4. CASE WriteOk(e) \/ WriteFail(e)
    BY <2>4 DEF WriteOk, WriteFail
  <2>5. CASE WriterPush(e)
    BY <2>5 DEF WriterPush
  <2>. QED  BY <1>9, <2>1, <2>2, <2>3, <2>4, <2>5, <2>6
<1>. QED
  BY <1>2, <1>3, <1>4, <1>5, <1>6, <1>7, <1>8, <1>9
  DEF Next, CreateStep, CloseStep, WriterStep

\* A non-empty queue always has a wake-up under way, although only the first
\* request of a queue notifies and every writer, obsolete ones included, may
\* consume a notification.
THEOREM NoWakeupIsLost == Spec => []NoLostWakeup
<1>1. TypeOK /\ CloseInv /\ WakeInv /\ [Next]_vars => WakeInv'
  BY WakeStep, WakeFrame DEF vars, procVars, dataVars, queueVars, ioVars, sockVars, writerVars
<1>2. WakeInv => NoLostWakeup
  BY DEF WakeInv
<1>. QED  BY <1>1, <1>2, WakeInit, CloseInvariant, PTL DEF Spec

=============================================================================
