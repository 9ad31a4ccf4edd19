-------------------------- MODULE ConnectionSender --------------------------
(***************************************************************************)
(* A Connection is a Sender.  SendTransaction wraps the callback in a      *)
(* transactionFuture (src/redisconn/conn.go), so of a transaction only the *)
(* result of EXEC is visible to the caller.                                *)
(***************************************************************************)
EXTENDS Connection

\* transactionFuture.Resolve passes on index len(reqs) only.
CallerSees(f) ==
    /\ f.call \in Calls /\ f.n >= 0
    /\ IF f.call.kind = "trans" THEN f.n = f.call.n ELSE f.n < f.call.n

SenderCallbacks == {f \in Futs : CallerSees(f)}

SenderOut(f) ==
    IF res[f] = <<>> THEN (IF f \in HandedOver THEN "pending" ELSE "none")
    ELSE IF Len(res[f]) > 1 \/ res[f][1].of # f THEN "wrong"
    ELSE IF res[f][1].kind \in ErrKinds THEN "error" ELSE "reply"

Abstract == INSTANCE Sender WITH
    Callbacks <- SenderCallbacks,
    Vacuous <- {f \in SenderCallbacks : f.call.n = 0},
    closing <- ctxdone,
    closed <- (state = "closed"),
    out <- [f \in SenderCallbacks |-> SenderOut(f)]

\* A connection keeps the contract of redis.Sender through reconnects, dropped
\* queues and Close: results come once, from the right reply.  Close() only
\* cancels the context: requests are taken on until control() has stored
\* connClosed, which it does only after a Close, and none after that.
ImplementsSender == Abstract!Spec

=============================================================================
