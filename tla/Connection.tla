----------------------------- MODULE Connection -----------------------------
(***************************************************************************)
(* One pipelined connection of redispipe (src/redisconn/conn.go).          *)
(*                                                                         *)
(* Callers append requests to a shared queue.  For every socket that gets  *)
(* established (an "epoch" 1, 2, ...) a writer goroutine swaps the queue   *)
(* out, writes it and hands the batch over a bounded channel to a reader   *)
(* goroutine, which pairs replies with requests in FIFO order.  The first  *)
(* I/O error of an epoch starts one reconnect goroutine; a control         *)
(* goroutine pings the server and closes everything when the context ends. *)
(*                                                                         *)
(* Sections guarded by conn.futmtx are single steps.  conn.state, conn.c   *)
(* and the socket are written outside futmtx, so each store is a step.     *)
(***************************************************************************)
EXTENDS Integers, Sequences, FiniteSets, Functions

CONSTANTS
    Calls,      \* what callers will hand over, each once: records of CallType
    Pings,      \* the calls control() makes through Ping()
    MaxConns,   \* bound: how many sockets get established
    ChanCap,    \* capacity of oneconn.futures (64 in the code)
    ChunkSize,  \* chunk of SendMany (16 in the code)
    AsyncDial,  \* Opts.AsyncDial
    WritePause, \* Opts.WritePause > 0: wake the writer by timer, not by signal
    IOTimeout,  \* Opts.IOTimeout is not disabled
    Reconnect,  \* Opts.ReconnectPause >= 0
    AnswerKinds \* what ReadResponse makes of the servers' answers: "loading",
                \* an ErrLoading, while a server still loads its data and executes
                \* nothing; "reply", any other answer, other Redis errors included

\* kind "send": Send/SendAsk, "batch": SendBatch(Flags), "many": SendMany,
\* "trans": SendBatchFlags with DoTransaction (SendTransaction).
CallType == [id: Nat, kind: {"send", "batch", "many", "trans"}, n: Nat, asking: BOOLEAN]

AllCalls == Calls \cup Pings

ASSUME CallsAssumption ==
    /\ AllCalls \subseteq CallType
    /\ Calls \cap Pings = {}
    /\ \A k \in AllCalls : k.kind = "send" => k.n = 1
    /\ \A k \in AllCalls : k.kind = "many" => ~k.asking
    /\ \A k \in Pings : k.kind = "send" /\ ~k.asking

ASSUME BoundsAssumption ==
    MaxConns \in Nat /\ ChanCap \in Nat \ {0} /\ ChunkSize \in Nat \ {0}

ASSUME OptsAssumption ==
    /\ AsyncDial \in BOOLEAN /\ WritePause \in BOOLEAN
    /\ IOTimeout \in BOOLEAN /\ Reconnect \in BOOLEAN

ASSUME AnswersAssumption == "reply" \in AnswerKinds /\ AnswerKinds \subseteq {"reply", "loading"}

-----------------------------------------------------------------------------
(* Futures: a queued command is named by its call and index.  ASKING and   *)
(* MULTI carry the dumb callback and get the indices -2 and -1; EXEC has   *)
(* the index after the last request.                                       *)

Fut(k, i) == [call |-> k, n |-> i]
Futs == UNION {{Fut(k, i) : i \in -2 .. k.n} : k \in AllCalls}

\* Fault: the last chunk is not clipped to the number of requests.
ChunkEndUnclipped(k, from) == from + ChunkSize

\* j of SendMany's loop; the other calls are one chunk.
ChunkEnd(k, from) ==
    IF k.kind = "many" /\ from + ChunkSize < k.n THEN from + ChunkSize ELSE k.n

\* The callbacks a caller sees for the chunk of call k that starts at from.
ChunkFuts(k, from) ==
    {Fut(k, i) : i \in from .. ChunkEnd(k, from) - 1}
        \cup (IF k.kind = "trans" THEN {Fut(k, k.n)} ELSE {})

\* Fault: neither ASKING nor MULTI is sent.
PrefixSeqEmpty(k) == <<>>

\* ASKING and MULTI, which carry the dumb callback.
PrefixSeq(k) ==
    (IF k.asking THEN <<Fut(k, -2)>> ELSE <<>>)
        \o (IF k.kind = "trans" THEN <<Fut(k, -1)>> ELSE <<>>)

RequestSeq(k, from) == [i \in 1 .. ChunkEnd(k, from) - from |-> Fut(k, from + i - 1)]

\* What doSend and doSendBatch append to conn.futures for that chunk.
ChunkSeq(k, from) ==
    PrefixSeq(k) \o RequestSeq(k, from) \o (IF k.kind = "trans" THEN <<Fut(k, k.n)>> ELSE <<>>)

\* Error kinds carrying ErrTraitNotSent: ErrNotConnected, ErrDial and the
\* other ErrConnection types, ErrContextClosed; and ErrLoading.
NotSentKinds == {"notconnected", "dial", "ctxclosed", "loading"}
ErrKinds == NotSentKinds \cup {"io", "cancelled", "format"}
Results == [kind: ErrKinds \cup {"reply", "empty"}, of: Futs]

-----------------------------------------------------------------------------
Epochs == 1 .. MaxConns

\* Goroutines that take conn.mutex; the goroutine reconnect(c) started for
\* epoch e has number e.
NoProc == -3
ConnectP == -2
AsyncP == -1
ControlP == 0
Procs == ConnectP .. MaxConns

VARIABLES
    state,     \* conn.state
    c,         \* conn.c: an epoch, or 0 for nil
    mutex,     \* holder of conn.mutex
    pc,        \* pc[p]: where goroutine p is
    ctxdone,   \* conn.ctx is cancelled
    futures,   \* conn.futures
    signal,    \* conn.futsignal: "empty", "full" or "closed"
    timer,     \* conn.futtimer is armed
    timerC,    \* conn.futtimer.C holds a tick
    conns,     \* number of sockets established so far
    control,   \* control[e]: oneconn.control is closed
    sock,      \* sock[e]: "none", "open", "broken" (may fail any time), "closed"
    wpc, wfut, \* writer of e: program counter, local futures
    chan,      \* oneconn.futures of e
    chclosed,  \* ... is closed
    wire,      \* requests of e the server has got, whose replies are unread
    rpc, rfut, \* reader of e: program counter, local futures[i:]
    todo, at,  \* calls not completely handed over, and their position
    written,   \* history: futures some writer attempted to write
    res        \* history: res[f] lists the results f was resolved with

procVars == <<state, c, mutex, pc, ctxdone>>
queueVars == <<futures, signal, timer, timerC>>
sockVars == <<conns, control, sock>>
writerVars == <<wpc, wfut, chclosed, written>>
readerVars == <<rpc, rfut, wire>>
callVars == <<todo, at>>
ioVars == <<sockVars, writerVars, readerVars, chan>>
dataVars == <<queueVars, ioVars, callVars, res>>
vars == <<procVars, dataVars>>

CreatePcs == {"cc_loop", "cc_dial", "cc_setup", "cc_ok", "cc_report", "cc_fail",
              "cc_drop", "cc_sleep"}
ClosePcs == {"cl_state", "cl_sock", "cl_drop"}
Pcs == {"idle", "lock", "done", "check", "wait", "wake", "error", "returned", "failed", "crashed",
        "select", "pinging"} \cup CreatePcs \cup ClosePcs

TypeOK ==
    /\ state \in {"disconnected", "connecting", "connected", "closed"}
    /\ c \in 0 .. MaxConns
    /\ mutex \in {NoProc} \cup Procs
    /\ pc \in [Procs -> Pcs]
    /\ ctxdone \in BOOLEAN
    /\ futures \in Seq(Futs)
    /\ signal \in {"empty", "full", "closed"}
    /\ timer \in BOOLEAN
    /\ timerC \in BOOLEAN
    /\ conns \in 0 .. MaxConns
    /\ control \in [Epochs -> BOOLEAN]
    /\ sock \in [Epochs -> {"none", "open", "broken", "closed"}]
    /\ wpc \in [Epochs -> {"none", "wait", "swap", "write", "push", "exit", "done"}]
    /\ wfut \in [Epochs -> Seq(Futs)]
    /\ chan \in [Epochs -> Seq(Seq(Futs))]
    /\ chclosed \in [Epochs -> BOOLEAN]
    /\ wire \in [Epochs -> Seq(Futs)]
    /\ rpc \in [Epochs -> {"none", "read", "fetch", "fail", "drain", "done"}]
    /\ rfut \in [Epochs -> Seq(Futs)]
    /\ todo \subseteq AllCalls
    /\ at \in [AllCalls -> Nat]
    /\ written \subseteq Futs
    /\ res \in [Futs -> Seq(Results)]

\* Connect has built the struct; with AsyncDial it waits for the goroutine it
\* started to reach connConnecting, otherwise it dials itself.
Init ==
    /\ state = "disconnected" /\ c = 0 /\ mutex = NoProc /\ ctxdone = FALSE
    /\ pc = [p \in Procs |->
                IF p = ConnectP THEN (IF AsyncDial THEN "wait" ELSE "cc_loop")
                ELSE IF p = AsyncP /\ AsyncDial THEN "lock"
                ELSE IF p = ControlP THEN "select" ELSE "idle"]
    /\ futures = <<>> /\ signal = "empty" /\ timer = FALSE /\ timerC = FALSE
    /\ conns = 0
    /\ control = [e \in Epochs |-> FALSE]
    /\ sock = [e \in Epochs |-> "none"]
    /\ wpc = [e \in Epochs |-> "none"] /\ wfut = [e \in Epochs |-> <<>>]
    /\ chan = [e \in Epochs |-> <<>>] /\ chclosed = [e \in Epochs |-> FALSE]
    /\ wire = [e \in Epochs |-> <<>>]
    /\ rpc = [e \in Epochs |-> "none"] /\ rfut = [e \in Epochs |-> <<>>]
    /\ todo = AllCalls /\ at = [k \in AllCalls |-> 0]
    /\ written = {} /\ res = [f \in Futs |-> <<>>]

-----------------------------------------------------------------------------
(* Resolving futures *)

Errors(fs, kind) ==
    [f \in Futs |-> IF f \in fs THEN Append(res[f], [kind |-> kind, of |-> f]) ELSE res[f]]

Reply(f, from, kind) == [res EXCEPT ![f] = Append(@, [kind |-> kind, of |-> from])]

\* Fault: the revoked requests stay queued.
DropFuturesKept(kind) ==
    /\ timer' = FALSE /\ timerC' \in {FALSE, timer}
    /\ res' = Errors(Range(futures), kind)
    /\ UNCHANGED futures

\* dropFutures.  futtimer.Stop() does not recall a tick whose delivery has
\* already begun, and that tick may arrive after the channel was drained.
DropFutures(kind) ==
    /\ timer' = FALSE
    /\ timerC' \in {FALSE, timer}
    /\ res' = Errors(Range(futures), kind)
    /\ futures' = <<>>

-----------------------------------------------------------------------------
(* Handing calls over: Send, SendAsk, SendMany, SendBatch, SendTransaction *)

\* Fault: the stride of SendMany's loop is one larger than its chunks.
NextChunkSkipping(k, from) == IF ChunkEnd(k, from) = k.n THEN k.n ELSE ChunkEnd(k, from) + 1

NextChunk(k, from) == ChunkEnd(k, from)

\* The caller goes on to the next chunk, if any.
HandOver(k) ==
    /\ at' = [at EXCEPT ![k] = NextChunk(k, @)]
    /\ todo' = IF NextChunk(k, at[k]) = k.n THEN todo \ {k} ELSE todo

\* The callback is cancelled already, or a request cannot be serialised.
SendRejected(k) ==
    /\ pc[ConnectP] = "returned" /\ k \in todo
    /\ \E kind \in {"cancelled", "format"} : res' = Errors(ChunkFuts(k, at[k]), kind)
    /\ HandOver(k)
    /\ UNCHANGED <<procVars, queueVars, ioVars>>

\* doSendBatch without requests: an empty transaction has an empty result.
SendEmpty(k) ==
    /\ pc[ConnectP] = "returned" /\ k \in todo /\ k.n = 0
    /\ res' = [f \in Futs |-> IF f \in ChunkFuts(k, 0)
                              THEN Append(res[f], [kind |-> "empty", of |-> f]) ELSE res[f]]
    /\ HandOver(k)
    /\ UNCHANGED <<procVars, queueVars, ioVars>>

SendRefused(k) ==
    /\ k.n > 0 /\ state \in {"closed", "disconnected"}
    /\ res' = Errors(ChunkFuts(k, at[k]),
                     IF state = "closed" THEN "ctxclosed" ELSE "notconnected")
    /\ HandOver(k)
    /\ UNCHANGED queueVars

\* Fault: the state check overlooks connClosed.
AcceptingClosed == state # "disconnected"

\* The state check of doSend and doSendBatch.
Accepting == state \in {"connecting", "connected"}

\* Fault: while connecting no wake-up is sent, the new writer being expected
\* to look at the queue when it starts.
MustNotifyLate == futures = <<>> /\ state = "connected"

\* Only the request that finds the queue empty wakes the writer.
MustNotify == futures = <<>>

SendQueued(k) ==
    /\ k.n > 0 /\ Accepting
    /\ futures' = futures \o ChunkSeq(k, at[k])
    /\ IF ~MustNotify THEN UNCHANGED <<signal, timer>>
       ELSE IF WritePause THEN timer' = TRUE /\ UNCHANGED signal
       ELSE signal' = (IF signal = "empty" THEN "full" ELSE signal) /\ UNCHANGED timer
    /\ HandOver(k)
    /\ UNCHANGED <<timerC, res>>

Send(k) ==
    /\ pc[ConnectP] = "returned" /\ k \in todo
    /\ SendRefused(k) \/ SendQueued(k)
    /\ UNCHANGED <<procVars, ioVars>>

\* Connection.Close, or the caller's context ends.
Close ==
    /\ ~ctxdone /\ ctxdone' = TRUE
    /\ UNCHANGED <<state, c, mutex, pc, dataVars>>

TimerFire ==
    /\ timer /\ timer' = FALSE /\ timerC' = TRUE
    /\ UNCHANGED <<procVars, futures, signal, ioVars, callVars, res>>

-----------------------------------------------------------------------------
(* createConnection, run by Connect itself (without the mutex), by the     *)
(* goroutine Connect starts, and by reconnect.                             *)

Goto(p, label) == pc' = [pc EXCEPT ![p] = label]

\* createConnection returns to p's goroutine: Connect goes on without a mutex,
\* the others run their deferred unlock and end.
Leave(p) ==
    IF p = ConnectP THEN Goto(p, "returned") /\ UNCHANGED mutex
                    ELSE Goto(p, "done") /\ mutex' = NoProc

\* Fault: the loop redials without looking at the state.
MayDialBlind == c = 0

\* Fault: once connected, the loop does not dial again.
MayDialOnce == c = 0 /\ state = "disconnected" /\ conns = 0

\* The loop condition.
MayDial == c = 0 /\ state = "disconnected"

\* Entering the loop body starts accepting requests and, the first time, runs
\* wg.Done().
CreateLoop(p) ==
    /\ pc[p] = "cc_loop"
    /\ IF MayDial
       THEN /\ state' = "connecting" /\ UNCHANGED mutex
            /\ pc' = [pc EXCEPT ![p] = "cc_dial",
                                ![ConnectP] = IF pc[ConnectP] = "wait" THEN "wake" ELSE @]
       ELSE Leave(p) /\ UNCHANGED state
    /\ UNCHANGED <<c, ctxdone, dataVars>>

\* dial: the TCP connect, which a cancelled context aborts.
DialTCP(p) ==
    /\ pc[p] = "cc_dial"
    /\ \/ ~ctxdone /\ conns < MaxConns /\ Goto(p, "cc_setup")
       \/ Goto(p, "cc_fail")
    /\ UNCHANGED <<state, c, mutex, ctxdone, dataVars>>

\* dial: AUTH, PING and SELECT went through; conn.c is set and the writer and
\* the reader of the new epoch start.
SetupOk(p) ==
    /\ pc[p] = "cc_setup" /\ conns < MaxConns
    /\ conns' = conns + 1 /\ c' = conns + 1
    /\ sock' = [sock EXCEPT ![conns + 1] = "open"]
    /\ wpc' = [wpc EXCEPT ![conns + 1] = "wait"]
    /\ rpc' = [rpc EXCEPT ![conns + 1] = "read"]
    /\ Goto(p, "cc_ok")
    /\ UNCHANGED <<state, mutex, ctxdone, queueVars, control, wfut, chclosed, written, rfut, wire,
                   chan, callVars, res>>

\* dial: a handshake request failed; the socket never becomes visible.
SetupFail(p) ==
    /\ pc[p] = "cc_setup" /\ Goto(p, "cc_fail")
    /\ UNCHANGED <<state, c, mutex, ctxdone, dataVars>>

CreateOk(p) ==
    /\ pc[p] = "cc_ok" /\ state' = "connected" /\ Goto(p, "cc_report")
    /\ UNCHANGED <<c, mutex, ctxdone, dataVars>>

\* report(LogConnected{conn.c.LocalAddr()...}) dereferences conn.c.
CreateReport(p) ==
    /\ pc[p] = "cc_report"
    /\ IF c = 0 THEN Goto(p, "crashed") /\ UNCHANGED mutex ELSE Leave(p)
    /\ UNCHANGED <<state, c, ctxdone, dataVars>>

CreateFail(p) ==
    /\ pc[p] = "cc_fail" /\ state' = "disconnected" /\ Goto(p, "cc_drop")
    /\ UNCHANGED <<c, mutex, ctxdone, dataVars>>

\* Requests accepted while connecting are revoked; Connect's own attempt
\* (reconnect = false) returns the error, the others unlock and sleep.
CreateDrop(p) ==
    /\ pc[p] = "cc_drop" /\ DropFutures("dial")
    /\ signal' = (IF signal = "full" THEN "empty" ELSE signal)
    /\ IF p = ConnectP THEN Goto(p, "error") /\ UNCHANGED mutex
                       ELSE Goto(p, "cc_sleep") /\ mutex' = NoProc
    /\ UNCHANGED <<state, c, ctxdone, ioVars, callVars>>

\* conn.mutex.Lock(): after the pause, or at the start of a goroutine.
Lock(p) ==
    /\ mutex = NoProc /\ mutex' = p
    /\ \/ pc[p] = "cc_sleep" /\ Goto(p, "cc_loop")
       \/ pc[p] = "lock" /\ Goto(p, IF p = AsyncP THEN "cc_loop"
                                    ELSE IF p = ControlP THEN "cl_state" ELSE "check")
    /\ UNCHANGED <<state, c, ctxdone, dataVars>>

-----------------------------------------------------------------------------
(* Connect *)

\* The synchronous dial failed: Connect fails when reconnection is disabled or
\* the error is permanent (authentication, wrong database), else the dialling
\* goroutine takes over.
ConnectError ==
    /\ pc[ConnectP] = "error"
    /\ \/ Goto(ConnectP, "failed")
       \/ Reconnect /\ pc' = [pc EXCEPT ![ConnectP] = "returned", ![AsyncP] = "lock"]
    /\ UNCHANGED <<state, c, mutex, ctxdone, dataVars>>

\* wg.Wait() is over: the dialling goroutine has entered the loop.
ConnectWait ==
    /\ pc[ConnectP] = "wake"
    /\ Goto(ConnectP, "returned")
    /\ UNCHANGED <<state, c, mutex, ctxdone, dataVars>>

-----------------------------------------------------------------------------
(* closeConnection, run under the mutex by control() for ever and by       *)
(* reconnect with the I/O error of its epoch.                              *)

\* Fault: the flag forever is ignored.
ClosedAsNotForever(p) == "disconnected"

\* Fault: the state is only stored when closing for ever.
ClosedAsKept(p) == IF p = ControlP THEN "closed" ELSE state

\* Only control() closes with forever = true.
ClosedAs(p) == IF p = ControlP THEN "closed" ELSE "disconnected"

CloseState(p) ==
    /\ pc[p] = "cl_state" /\ state' = ClosedAs(p) /\ Goto(p, "cl_sock")
    /\ UNCHANGED <<c, mutex, ctxdone, dataVars>>

\* Fault: conn.c is set to nil but the socket is not closed.
CloseSockForgotten == sock

CloseSock == [e \in Epochs |-> IF e = c THEN "closed" ELSE sock[e]]

CloseSocket(p) ==
    /\ pc[p] = "cl_sock"
    /\ sock' = CloseSock
    /\ c' = 0
    /\ Goto(p, "cl_drop")
    /\ UNCHANGED <<state, mutex, ctxdone, queueVars, conns, control, writerVars, readerVars, chan,
                   callVars, res>>

\* The futmtx section; reconnect goes on into createConnection(true).
CloseDrop(p) ==
    /\ pc[p] = "cl_drop"
    /\ DropFutures(IF p = ControlP THEN "ctxclosed" ELSE "io")
    /\ signal' = (IF p = ControlP THEN "closed" ELSE IF signal = "full" THEN "empty" ELSE signal)
    /\ IF p = ControlP THEN Goto(p, "done") /\ mutex' = NoProc
                       ELSE Goto(p, "cc_loop") /\ UNCHANGED mutex
    /\ UNCHANGED <<state, c, ctxdone, ioVars, callVars>>

\* reconnect(neterr, c) of epoch e, after taking the mutex.
ReconnectCheck(e) ==
    /\ pc[e] = "check"
    /\ \/ /\ state = "closed" /\ Leave(e) /\ UNCHANGED ctxdone
       \/ /\ state # "closed" /\ ~Reconnect /\ ctxdone' = TRUE /\ Leave(e)
       \/ /\ state # "closed" /\ Reconnect /\ UNCHANGED ctxdone
          /\ IF c = e THEN Goto(e, "cl_state") /\ UNCHANGED mutex ELSE Leave(e)
    /\ UNCHANGED <<state, c, dataVars>>

-----------------------------------------------------------------------------
(* control() *)

ControlDone ==
    /\ pc[ControlP] = "select" /\ pc[ConnectP] = "returned" /\ ctxdone
    /\ Goto(ControlP, "lock")
    /\ UNCHANGED <<state, c, mutex, ctxdone, dataVars>>

\* The ticker fires: Ping() sends PING and blocks until it is resolved.
ControlTick(k) ==
    /\ pc[ControlP] = "select" /\ pc[ConnectP] = "returned" /\ k \in todo
    /\ SendRefused(k) \/ SendQueued(k)
    /\ Goto(ControlP, "pinging")
    /\ UNCHANGED <<state, c, mutex, ctxdone, ioVars>>

ControlPong ==
    /\ pc[ControlP] = "pinging"
    /\ \A k \in Pings \ todo : res[Fut(k, 0)] # <<>>
    /\ Goto(ControlP, "select")
    /\ UNCHANGED <<state, c, mutex, ctxdone, dataVars>>

-----------------------------------------------------------------------------
(* writer(one) of epoch e *)

\* setErr: only the first error of an epoch closes one.control and starts
\* the reconnect goroutine.
SetErr(e) ==
    /\ control' = [control EXCEPT ![e] = TRUE]
    /\ pc' = (IF control[e] THEN pc ELSE [pc EXCEPT ![e] = "lock"])
    /\ UNCHANGED <<state, c, mutex, ctxdone>>

\* The select: any ready alternative, so an obsolete writer may still take a
\* wake-up meant for its successor.
WriterWake(e) ==
    /\ wpc[e] = "wait"
    /\ \/ signal = "full" /\ signal' = "empty" /\ UNCHANGED timerC
       \/ timerC /\ timerC' = FALSE /\ UNCHANGED signal
    /\ wpc' = [wpc EXCEPT ![e] = "swap"]
    /\ UNCHANGED <<procVars, futures, timer, sockVars, wfut, chclosed, written, readerVars, chan,
                   callVars, res>>

WriterStop(e) ==
    /\ wpc[e] = "wait" /\ (signal = "closed" \/ control[e])
    /\ wpc' = [wpc EXCEPT ![e] = "exit"]
    /\ UNCHANGED <<procVars, queueVars, sockVars, wfut, chclosed, written, readerVars, chan,
                   callVars, res>>

\* The buffer the writer leaves in exchange: empty after a push.
SwapIn(e) == wfut[e]

WriterSwap(e) ==
    /\ wpc[e] = "swap"
    /\ wfut' = [wfut EXCEPT ![e] = futures] /\ futures' = SwapIn(e)
    /\ wpc' = [wpc EXCEPT ![e] = IF futures = <<>> THEN "wait" ELSE "write"]
    /\ UNCHANGED <<procVars, signal, timer, timerC, sockVars, chclosed, written, readerVars, chan,
                   callVars, res>>

\* On a breaking socket the kernel may still accept the packet; that its
\* replies get lost is ReadFail happening before they are read.
WriteOk(e) ==
    /\ wpc[e] = "write" /\ sock[e] \in {"open", "broken"}
    /\ wire' = [wire EXCEPT ![e] = @ \o wfut[e]]
    /\ written' = written \cup Range(wfut[e])
    /\ wpc' = [wpc EXCEPT ![e] = "push"]
    /\ UNCHANGED <<procVars, queueVars, sockVars, wfut, chclosed, rpc, rfut, chan, callVars, res>>

\* Part of the packet may have been transmitted before the error.
WriteFail(e) ==
    /\ wpc[e] = "write" /\ sock[e] \in {"broken", "closed"}
    /\ \E m \in 0 .. Len(wfut[e]) : wire' = [wire EXCEPT ![e] = @ \o SubSeq(wfut[e], 1, m)]
    /\ written' = written \cup Range(wfut[e])
    /\ SetErr(e)
    /\ wpc' = [wpc EXCEPT ![e] = "exit"]
    /\ UNCHANGED <<queueVars, conns, sock, wfut, chclosed, rpc, rfut, chan, callVars, res>>

\* Fault: a written batch is not handed to the reader.
PushedLost(e) == chan[e]

Pushed(e) == Append(chan[e], wfut[e])

\* one.futures <- futures, in the loop or on exit.  The writer goes on with
\* an empty buffer.
WriterPush(e) ==
    /\ wpc[e] \in {"push", "exit"} /\ wfut[e] # <<>> /\ Len(chan[e]) < ChanCap
    /\ chan' = [chan EXCEPT ![e] = Pushed(e)]
    /\ wfut' = [wfut EXCEPT ![e] = <<>>]
    /\ wpc' = [wpc EXCEPT ![e] = IF @ = "push" THEN "wait" ELSE "exit"]
    /\ UNCHANGED <<procVars, queueVars, sockVars, chclosed, written, readerVars, callVars, res>>

WriterClose(e) ==
    /\ wpc[e] = "exit" /\ wfut[e] = <<>>
    /\ chclosed' = [chclosed EXCEPT ![e] = TRUE]
    /\ wpc' = [wpc EXCEPT ![e] = "done"]
    /\ UNCHANGED <<procVars, queueVars, sockVars, wfut, written, readerVars, chan, callVars, res>>

-----------------------------------------------------------------------------
(* reader(r, one) of epoch e *)

\* Fault: the index into the batch is not advanced.
RestStuck(batch) == batch

\* futures[i:] after i++.
Rest(batch) == Tail(batch)

\* A reply arrives.  With requests of the current batch left it answers the
\* first of them, else the next batch has to be fetched.  Replies already in
\* the bufio buffer are read even from a closed socket.
ReadReply(e) ==
    /\ rpc[e] = "read" /\ wire[e] # <<>>
    /\ IF rfut[e] = <<>>
       THEN rpc' = [rpc EXCEPT ![e] = "fetch"] /\ UNCHANGED <<rfut, wire, res>>
       ELSE /\ \E kind \in AnswerKinds : res' = Reply(Head(rfut[e]), Head(wire[e]), kind)
            /\ rfut' = [rfut EXCEPT ![e] = Rest(@)]
            /\ wire' = [wire EXCEPT ![e] = Tail(@)]
            /\ UNCHANGED rpc
    /\ UNCHANGED <<procVars, queueVars, sockVars, writerVars, chan, callVars>>

ReaderFetch(e) ==
    /\ rpc[e] = "fetch" /\ chan[e] # <<>>
    /\ \E kind \in AnswerKinds : res' = Reply(Head(Head(chan[e])), Head(wire[e]), kind)
    /\ rfut' = [rfut EXCEPT ![e] = Rest(Head(chan[e]))]
    /\ wire' = [wire EXCEPT ![e] = Tail(@)]
    /\ chan' = [chan EXCEPT ![e] = Tail(@)]
    /\ rpc' = [rpc EXCEPT ![e] = "read"]
    /\ UNCHANGED <<procVars, queueVars, sockVars, writerVars, callVars>>

\* A read error, a timeout, or a reply that does not parse.
ReadFail(e) ==
    /\ rpc[e] = "read" /\ (sock[e] \in {"broken", "closed"} \/ IOTimeout)
    /\ SetErr(e)
    /\ rpc' = [rpc EXCEPT ![e] = "fail"]
    /\ UNCHANGED <<queueVars, conns, sock, writerVars, rfut, wire, chan, callVars, res>>

\* Fault: after Close unanswered requests get ErrContextClosed.
OneErrClosed == IF state = "closed" THEN "ctxclosed" ELSE "io"

\* one.err: the read or write error, as ErrIO.
OneErr == "io"

ReaderFail(e) ==
    /\ rpc[e] = "fail"
    /\ res' = Errors(Range(rfut[e]), OneErr)
    /\ rfut' = [rfut EXCEPT ![e] = <<>>]
    /\ rpc' = [rpc EXCEPT ![e] = "drain"]
    /\ UNCHANGED <<procVars, queueVars, sockVars, writerVars, wire, chan, callVars>>

\* The last loop: batches are failed until the writer closes the channel.
ReaderDrain(e) ==
    /\ rpc[e] = "drain" /\ chan[e] # <<>>
    /\ res' = Errors(Range(Head(chan[e])), OneErr)
    /\ chan' = [chan EXCEPT ![e] = Tail(@)]
    /\ UNCHANGED <<procVars, queueVars, sockVars, writerVars, readerVars, callVars>>

ReaderDone(e) ==
    /\ rpc[e] \in {"fetch", "drain"} /\ chan[e] = <<>> /\ chclosed[e]
    /\ rpc' = [rpc EXCEPT ![e] = "done"]
    /\ UNCHANGED <<procVars, queueVars, sockVars, writerVars, rfut, wire, chan, callVars, res>>

\* The environment: the peer or the network breaks an established socket.
Break(e) ==
    /\ sock[e] = "open" /\ sock' = [sock EXCEPT ![e] = "broken"]
    /\ UNCHANGED <<procVars, queueVars, conns, control, writerVars, readerVars, chan, callVars,
                   res>>

-----------------------------------------------------------------------------
\* Every goroutine has ended.  Until the context is cancelled Close is enabled,
\* so a state without a step is a leak unless this holds.
Terminated ==
    /\ \A p \in Procs \ {ConnectP, ControlP} : pc[p] \in {"idle", "done"}
    /\ \/ pc[ConnectP] = "failed"
       \/ pc[ConnectP] = "returned" /\ pc[ControlP] = "done"
    /\ \A e \in 1 .. conns : wpc[e] = "done" /\ rpc[e] = "done"

Stopped == Terminated /\ ctxdone /\ UNCHANGED vars

CreateStep(p) ==
    \/ CreateLoop(p) \/ DialTCP(p) \/ CreateOk(p) \/ CreateReport(p)
    \/ CreateFail(p) \/ CreateDrop(p)

CloseStep(p) == CloseState(p) \/ CloseSocket(p) \/ CloseDrop(p)

\* Steps of the writer that need nobody else; WriteOk may block for ever.
WriterStep(e) ==
    \/ WriterWake(e) \/ WriterStop(e) \/ WriterSwap(e) \/ WriteFail(e)
    \/ WriterPush(e) \/ WriterClose(e)

ReaderStep(e) == ReaderFetch(e) \/ ReaderFail(e) \/ ReaderDrain(e) \/ ReaderDone(e)

Next ==
    \/ \E k \in Calls : SendRejected(k) \/ SendEmpty(k) \/ Send(k)
    \/ Close \/ TimerFire \/ ConnectError \/ ConnectWait
    \/ \E p \in Procs : CreateStep(p) \/ SetupOk(p) \/ SetupFail(p) \/ Lock(p) \/ CloseStep(p)
    \/ ControlDone \/ (\E k \in Pings : ControlTick(k)) \/ ControlPong
    \/ \E e \in Epochs :
          \/ ReconnectCheck(e) \/ WriterStep(e) \/ WriteOk(e)
          \/ ReadReply(e) \/ ReadFail(e) \/ ReaderStep(e) \/ Break(e)
    \/ Stopped

Spec == Init /\ [][Next]_vars

\* Runnable goroutines run, a mutex is not withheld from a waiter for ever, a
\* select does not ignore ctx.Done() for ever, dialling ends within its 5
\* seconds and a handshake within IOTimeout.  No fairness on replies, on
\* accepted writes, on callers or on the network.
Fairness ==
    /\ WF_vars(TimerFire) /\ WF_vars(ConnectError) /\ WF_vars(ConnectWait)
    /\ WF_vars(ControlPong) /\ SF_vars(ControlDone)
    /\ \A p \in Procs : WF_vars(CreateStep(p)) /\ WF_vars(CloseStep(p)) /\ SF_vars(Lock(p))
    /\ \A p \in Procs : WF_vars(IOTimeout /\ (SetupOk(p) \/ SetupFail(p)))
    /\ \A e \in Epochs : /\ WF_vars(ReconnectCheck(e)) /\ WF_vars(WriterStep(e))
                         /\ WF_vars(ReadFail(e)) /\ WF_vars(ReaderStep(e))

FairSpec == Spec /\ Fairness

\* The same on a network whose socket buffers never stay full.
AcceptingSpec == FairSpec /\ \A e \in Epochs : WF_vars(WriteOk(e))

-----------------------------------------------------------------------------
(* Properties *)

\* Callbacks of user calls that have been handed over so far.
HandedOver == {f \in Futs : f.n >= 0 /\ (f.n < at[f.call] \/ f.call \notin todo)
                            /\ (f.n = f.call.n => f.call.kind = "trans")}

\* Places where requests wait: the queue, the buffer of a writer, what a reader
\* has left of a batch, and a batch b in transit from writer to reader.
QueuePlaces == {<<"queue", 0, 0, i>> : i \in DOMAIN futures}
WriterPlaces == UNION {{<<"writer", e, 0, i>> : i \in DOMAIN wfut[e]} : e \in Epochs}
ReaderPlaces == UNION {{<<"reader", e, 0, i>> : i \in DOMAIN rfut[e]} : e \in Epochs}
ChanPlaces ==
    UNION {UNION {{<<"chan", e, b, i>> : i \in DOMAIN chan[e][b]} : b \in DOMAIN chan[e]} :
               e \in Epochs}
Places == QueuePlaces \cup WriterPlaces \cup ReaderPlaces \cup ChanPlaces

Waiting(l) ==
    CASE l[1] = "queue"  -> futures[l[4]]
      [] l[1] = "writer" -> wfut[l[2]][l[4]]
      [] l[1] = "reader" -> rfut[l[2]][l[4]]
      [] l[1] = "chan"   -> chan[l[2]][l[3]][l[4]]

Held(f) == {l \in Places : Waiting(l) = f}

\* Between callers, dropFutures, obsolete writers and dying readers no request
\* is lost and none is resolved twice: every request handed over either waits
\* in exactly one place or has been resolved exactly once (Send's contract).
Conserved ==
    \A f \in HandedOver : \/ res[f] = <<>> /\ \E l \in Places : Held(f) = {l}
                          \/ Len(res[f]) = 1 /\ Held(f) = {}

\* Replies are paired with the requests that caused them although batches are
\* handed to the reader after they were written (writer line "one.futures <-").
RightReply == \A f \in Futs : \A i \in DOMAIN res[f] : res[f][i].of = f

\* A request that may have reached a server gets no error with ErrTraitNotSent,
\* which says that retrying is safe, whatever becomes of its socket, the queue
\* and Close; except ErrLoading, and that only when the server itself refused
\* this very request ("not written to wire", redis/error.go, is not true then).
NotSentHonest ==
    \A f \in written : \A i \in DOMAIN res[f] :
        res[f][i].kind \in NotSentKinds => res[f][i] = [kind |-> "loading", of |-> f]

\* The command that must directly precede f on the wire, if any.
HasPrev(f) == f.n > 0 \/ (f.n = 0 /\ (f.call.asking \/ f.call.kind = "trans"))
                      \/ (f.n = -1 /\ f.call.asking)
Prev(f) == Fut(f.call, IF f.n = 0 /\ f.call.kind # "trans" THEN -2 ELSE f.n - 1)

\* ASKING directly precedes its request and nothing gets between MULTI and
\* EXEC or inside a batch (SendBatch: "requests in preserved order").  Chunks
\* of SendMany may be separated.
BatchesContiguous ==
    \A e \in Epochs : \A i \in 2 .. Len(wire[e]) :
        LET f == wire[e][i] IN
        HasPrev(f) /\ ~(f.call.kind = "many" /\ f.n % ChunkSize = 0)
            => wire[e][i - 1] = Prev(f)

\* Batches and chunks of SendMany arrive whole: contiguous, with no request left
\* out between two chunks and none twice.
BatchesWhole == BatchesContiguous /\ Conserved

\* A queue with requests in it has a wake-up under way: a signal, an armed
\* timer, an undelivered tick or a writer about to swap.  Only the request
\* that finds the queue empty notifies, and obsolete writers, dropFutures and
\* late ticks all consume notifications.
NoLostWakeup ==
    futures # <<>> => \/ signal = "full" \/ timer \/ timerC
                      \/ \E e \in Epochs : wpc[e] = "swap"

\* A sender that passed its state check never meets a closed futsignal, which
\* would be a panic in doSend.
NoSendOnClosedSignal == state \in {"connecting", "connected"} => signal # "closed"

\* ConnectedNow: "answers if connection is certainly connected": in that state
\* conn.c is the latest socket and this side has not closed it.
CertainlyConnected == state = "connected" => c # 0 /\ c = conns /\ sock[c] # "closed"

\* No established socket is forgotten: one this side has not closed is conn.c,
\* so the next closeConnection closes it.
NoLeakedSocket == \A e \in Epochs : sock[e] \in {"open", "broken"} => e = c

\* Close closes for ever: no reconnect goroutine revives a closed connection.
ClosedIsFinal == [][state = "closed" => state' = "closed"]_state

\* Every request handed over is eventually resolved, whatever the server, the
\* network and Close do.
EventuallyResolved ==
    \A f \in {g \in Futs : g.n >= 0 /\ g.call \in Calls} :
        (f \in HandedOver) ~> (res[f] # <<>>)

\* Once the context is cancelled every goroutine of the connection ends.
CloseTakesEffect == (ctxdone /\ pc[ConnectP] = "returned") ~> Terminated

\* A lost connection is redialled for as long as it is not closed.
KeepsReconnecting == state = "disconnected" ~> (state # "disconnected" \/ Terminated)

=============================================================================
