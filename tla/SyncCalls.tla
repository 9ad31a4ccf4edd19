----------------------------- MODULE SyncCalls ------------------------------
(***************************************************************************)
(* A call through one of the blocking wrappers of src/redis: Sync          *)
(* (sync.go), SyncCtx (sync_context.go) or ChanFutured (chan_future.go).   *)
(*                                                                         *)
(* The Sender below calls Resolve once for each request, from any          *)
(* goroutine and possibly before Send returns.  For SyncCtx the caller     *)
(* itself also resolves what is missing when its context is cancelled.     *)
(***************************************************************************)
EXTENDS Integers, Sequences, FiniteSets

CONSTANTS
    Kinds,   \* what is called, see below
    BatchLen \* requests of a SendMany

CallKinds == {
    "sync",     \* Sync.Send, SendTransaction: syncRes
    "syncmany", \* Sync.SendMany: syncBatch
    "chan",     \* ChanFutured.Send, SendTransaction: ChanFuture
    "chanmany", \* ChanFutured.SendMany: ChanFutures, taken one after another
    "ctx",      \* SyncCtx.Send, SendTransaction: ctxRes
    "ctxmany"}  \* SyncCtx.SendMany: ctxBatch

ASSUME CallsAssumption == BatchLen \in Nat \ {0}

VARIABLES
    kind,    \* what is called
    pc,      \* pc[0]: the caller; pc[i]: the goroutine that resolves request i
    pos,     \* the caller's loop over the requests
    r,       \* results; res.r is returned itself, not a copy of it
    o,       \* ctxBatch.o: requests that somebody claimed
    cnt,     \* ctxBatch.cnt; for Sync, how far the WaitGroup was counted down
    closes,  \* how often each channel was closed; one channel except for "chanmany"
    ctxdone, \* the context is cancelled
    gaveup   \* SyncCtx.Send returns ErrRequestCancelled instead of res.r

syncVars == <<kind, pc, pos, r, o, cnt, closes, ctxdone, gaveup>>

Unset == 0
ErrRequestCancelled == -1

\* Number of requests.
Size == IF kind \in {"syncmany", "chanmany", "ctxmany"} THEN BatchLen
        ELSE IF kind \in CallKinds THEN 1 ELSE 0

Requests == 1 .. Size
Goroutines == 0 .. Size

CallTypeOK ==
    /\ kind \in Kinds
    /\ pc \in [Goroutines -> {"call", "select", "fill", "wait", "returned",
                              "idle", "claimed", "written", "closing", "end"}]
    /\ pos \in 1 .. Size + 1
    /\ r \in [Requests -> Requests \cup {Unset, ErrRequestCancelled}]
    /\ o \subseteq Requests /\ cnt \in 0 .. Size
    /\ closes \in [Requests -> Nat]
    /\ ctxdone \in BOOLEAN /\ gaveup \in BOOLEAN

CallInit ==
    /\ kind \in Kinds
    /\ pc = [g \in Goroutines |-> IF g = 0 THEN "call" ELSE "idle"]
    /\ pos = 1
    /\ r = [i \in Requests |-> Unset] /\ o = {} /\ cnt = 0
    /\ closes = [i \in Requests |-> 0]
    /\ ctxdone = FALSE /\ gaveup = FALSE

-----------------------------------------------------------------------------
(* Resolve of the six futures.  The caller takes part while it fills in    *)
(* cancellation errors.                                                    *)

At(g) == IF g = 0 THEN pos ELSE g

\* Fault: the filled-in batch is returned without waiting for the channel.
LeaveEarly(g) ==
    IF g # 0 THEN pc' = [pc EXCEPT ![g] = "end"] /\ UNCHANGED pos
    ELSE /\ pc' = [pc EXCEPT ![0] = IF pos < Size THEN "fill" ELSE "returned"]
         /\ pos' = pos + 1

\* After its Resolve the goroutine is done; the caller goes on to the next
\* request, or waits for the channel.
Leave(g) ==
    IF g # 0 THEN pc' = [pc EXCEPT ![g] = "end"] /\ UNCHANGED pos
    ELSE /\ pc' = [pc EXCEPT ![0] = IF pos < Size THEN "fill" ELSE "wait"]
         /\ pos' = pos + 1

\* The compare-and-swap of ctxBatch.Resolve has failed.
Claimed(i) == kind = "ctxmany" /\ i \in o

\* Resolve is called.  Nothing obliges a server to answer.
Begin(g) ==
    /\ \/ g \in Requests /\ pc[g] = "idle"
       \/ g = 0 /\ pc[0] = "fill"
    /\ IF Claimed(At(g)) THEN Leave(g) /\ UNCHANGED o
       ELSE /\ pc' = [pc EXCEPT ![g] = "claimed"]
            /\ o' = o \cup {At(g)}
            /\ UNCHANGED pos
    /\ UNCHANGED <<kind, r, cnt, closes, ctxdone, gaveup>>

\* A Sender that sees Cancelled() resolves with the same error as the caller.
Values(g) ==
    (IF g = 0 THEN {} ELSE {g}) \cup (IF ctxdone THEN {ErrRequestCancelled} ELSE {})

Write(g) ==
    /\ pc[g] = "claimed"
    /\ \E v \in Values(g) : r' = [r EXCEPT ![At(g)] = v]
    /\ pc' = [pc EXCEPT ![g] = "written"]
    /\ UNCHANGED <<kind, pos, o, cnt, closes, ctxdone, gaveup>>

\* ctxRes and ChanFuture close their channel, the others count.
Count(g) ==
    /\ pc[g] = "written"
    /\ IF kind \in {"ctx", "chan", "chanmany"}
       THEN pc' = [pc EXCEPT ![g] = "closing"] /\ UNCHANGED <<pos, cnt>>
       ELSE /\ cnt' = cnt + 1
            /\ IF kind = "ctxmany" /\ cnt' = Size
               THEN pc' = [pc EXCEPT ![g] = "closing"] /\ UNCHANGED pos
               ELSE Leave(g)
    /\ UNCHANGED <<kind, r, o, closes, ctxdone, gaveup>>

\* ChanFutures.Resolve picks the future with the index.
Channel(g) == IF kind = "chanmany" THEN g ELSE 1

Close(g) ==
    /\ pc[g] = "closing"
    /\ closes' = [closes EXCEPT ![Channel(g)] = @ + 1]
    /\ Leave(g)
    /\ UNCHANGED <<kind, r, o, cnt, ctxdone, gaveup>>

-----------------------------------------------------------------------------
(* The caller *)

Become(next) ==
    /\ pc' = [pc EXCEPT ![0] = next]
    /\ UNCHANGED <<kind, r, o, cnt, closes, ctxdone>>

SendReturns ==
    /\ pc[0] = "call" /\ Size > 0
    /\ Become("select") /\ UNCHANGED <<pos, gaveup>>

\* Sync: Wait.
WaitGroup ==
    /\ pc[0] = "select" /\ kind \in {"sync", "syncmany"} /\ cnt = Size
    /\ Become("returned") /\ UNCHANGED <<pos, gaveup>>

\* ChanFuture.Value, ChanTransaction.Results, for one future after another.
Value ==
    /\ pc[0] = "select" /\ kind \in {"chan", "chanmany"} /\ closes[pos] > 0
    /\ Become(IF pos < Size THEN "select" ELSE "returned")
    /\ pos' = pos + 1 /\ UNCHANGED gaveup

\* SyncCtx: case <-res.ch, also after the results were filled in.
Received ==
    /\ pc[0] \in {"select", "wait"} /\ kind \in {"ctx", "ctxmany"} /\ closes[1] > 0
    /\ Become("returned") /\ UNCHANGED <<pos, gaveup>>

\* SyncCtx: case <-ctx.Done().
Abandoned ==
    /\ pc[0] = "select" /\ ctxdone
    /\ \/ kind = "ctx" /\ Become("returned") /\ gaveup' = TRUE /\ UNCHANGED pos
       \/ kind = "ctxmany" /\ Become("fill") /\ pos' = 1 /\ UNCHANGED gaveup

Cancel ==
    /\ kind \notin {"sync", "syncmany", "chan", "chanmany"} /\ ~ctxdone
    /\ ctxdone' = TRUE
    /\ UNCHANGED <<kind, pc, pos, r, o, cnt, closes, gaveup>>

Caller == SendReturns \/ WaitGroup \/ Value \/ Received \/ Abandoned
Resolving(g) == Write(g) \/ Count(g) \/ Close(g)

CallNext ==
    \/ Caller \/ Cancel
    \/ \E g \in Goroutines : Begin(g) \/ Resolving(g)

\* A goroutine that has begun goes on; the caller is never blocked in a Resolve.
CallFairness ==
    /\ WF_syncVars(Caller)
    /\ WF_syncVars(Begin(0))
    /\ \A g \in 0 .. BatchLen : WF_syncVars(g <= Size /\ Resolving(g))

-----------------------------------------------------------------------------
(* Properties *)

\* Closing a channel twice panics: each is closed once at most, although the
\* cancelled caller and late replies resolve the same requests.
ClosedOnce == \A i \in Requests : closes[i] <= 1

Arrived == {i \in Requests : pc[i] \in {"written", "closing", "end"}}

Returned ==
    IF pc[0] # "returned" THEN <<>>
    ELSE IF gaveup THEN <<ErrRequestCancelled>> ELSE r

Abstract == INSTANCE BlockingCall
    WITH size <- Size, answered <- Arrived, cancelled <- ctxdone, results <- Returned

\* A blocking call returns its own results or ErrRequestCancelled, returns when
\* it is cancelled, and late replies do not change the slice it has returned.
ImplementsBlockingCall == Abstract!Spec

=============================================================================
