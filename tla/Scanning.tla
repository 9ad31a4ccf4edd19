------------------------------ MODULE Scanning ------------------------------
(***************************************************************************)
(* Iterating over keys and shards: ScannerBase (src/redis/sender.go), the  *)
(* scanners of a cluster and of a connection, EachShard, and the blocking  *)
(* iterators SyncIterator and SyncCtxIterator.                             *)
(*                                                                         *)
(* A scanner keeps its cursor and its callback in fields without a lock:   *)
(* it relies on one Next at a time, but a Next that was cancelled returns  *)
(* while its request is under way, and the user may call Next again.  The  *)
(* cluster goes on changing below it.  What is called is chosen with the   *)
(* kinds of SyncCalls; ctxdone, the context of SyncCtx, is shared with it. *)
(***************************************************************************)
EXTENDS SyncCalls, SequencesExt

CONSTANTS
    Masters,     \* addresses of masters
    MaxCursor    \* bound: cursors a server hands out

ScanKinds == {
    "scan",     \* SCAN over all masters of a cluster
    "keyscan",  \* HSCAN, SSCAN, ZSCAN: the master of the key
    "connscan", \* the Scanner of a single Connection
    "each"}     \* EachShard

ASSUME ScanAssumption ==
    /\ Kinds \subseteq CallKinds \cup ScanKinds
    /\ Masters # {} /\ IsFiniteSet(Masters) /\ MaxCursor \in Nat

VARIABLES
    addrs,   \* Scanner.addrs, the shards still to be scanned
    iter,    \* ScannerBase.Iter
    err,     \* ScannerBase.Err is set
    cb,      \* ScannerBase.cb: "nil", "current" (of the waiting Next) or "old"
    flying,  \* SCAN requests the Sender has accepted: a bag by cursor and address
    reader,  \* the user: "ready", "send" (in DoNext), "select", "stopped"
    got,     \* what the current Next was resolved with
    page,    \* history: the SCAN request that got is the answer to
    alive,   \* addresses with a node and a connection that may be connected
    wanted,  \* history: the addresses the iteration began with
    pages,   \* history: the cursors whose keys the user got, by address
    over,    \* history: addresses whose last keys the user got
    shards,  \* history: how EachShard called back
    paniced, \* a nil callback was used
    cut      \* history: "no"; "cancelled", a Next was; "overlapped", and another
             \* Next sent a request while that of the cancelled one was under way

scanVars == <<addrs, iter, err, cb, flying, reader, got, page, alive, wanted,
              pages, over, shards, paniced, cut>>
vars == <<syncVars, scanVars>>

\* Iter: nil at the start of a shard, "0" at its end, a cursor in between.
NoIter == -1
LastIter == 0
Cursors == 1 .. MaxCursor
Iters == Cursors \cup {NoIter, LastIter}

Answers == {"none", "more", "last", "error", "eof"}
NoPage == [iter |-> NoIter]

TypeOK ==
    /\ CallTypeOK
    /\ addrs \in Seq(Masters) /\ iter \in Iters
    /\ err \in BOOLEAN /\ cb \in {"nil", "current", "old"}
    /\ flying \in Seq([addr: Masters, iter: Iters])
    /\ reader \in {"ready", "send", "select", "stopped"} /\ got \in Answers
    /\ page \in [addr: Masters, iter: Iters] \cup {NoPage}
    /\ alive \subseteq Masters /\ wanted \subseteq Masters
    /\ pages \in [Masters -> Seq(Iters)] /\ over \subseteq Masters
    /\ shards \in Seq({"conn", "false", "error"}) /\ paniced \in BOOLEAN
    /\ cut \in {"no", "cancelled", "overlapped"}

\* Cluster.Scanner and Connection.Scanner.  Go ranges over the masters in any
\* order; a cluster that knows none of them yet gives a scanner with an error.
Init ==
    /\ CallInit
    /\ alive \in SUBSET Masters
    /\ \/ kind \in {"scan", "each"} /\ addrs \in SetToSeqs(Masters) /\ err = FALSE
       \/ kind = "scan" /\ addrs = <<>> /\ err = TRUE
       \/ kind \in {"keyscan", "connscan"} /\ err = FALSE
          /\ \E a \in Masters : addrs = <<a>>
       \/ kind \in CallKinds /\ addrs = <<>> /\ err = FALSE
    /\ wanted = ToSet(addrs)
    /\ iter = NoIter /\ cb = "nil" /\ flying = <<>>
    /\ reader = "ready" /\ got = "none" /\ page = NoPage
    /\ pages = [a \in Masters |-> <<>>] /\ over = {} /\ shards = <<>>
    /\ paniced = FALSE /\ cut = "no"

-----------------------------------------------------------------------------
(* Next of the scanners *)

Scans == kind \in {"scan", "keyscan", "connscan"}

\* Next resolves the user's future itself.
AtOnce(what) == reader' = "select" /\ got' = what /\ UNCHANGED <<cb, cut>>

\* DoNext, up to the call of Send.
DoNext ==
    /\ reader' = "send" /\ got' = "none" /\ cb' = "current"
    /\ cut' = IF flying = <<>> THEN cut ELSE "overlapped"

\* Fault: any cursor is taken for the last one.
ShardDoneEarly == iter # NoIter

\* IterLast
ShardDone == iter = LastIter

IterNow == IF ShardDone THEN NoIter ELSE iter

\* The scanner of a cluster.
ClusterNext ==
    LET rest == IF ShardDone THEN Tail(addrs) ELSE addrs
        end  == rest = <<>> /\ IterNow = NoIter
        dead == ~end /\ rest[1] \notin alive
    IN
    /\ addrs' = rest /\ iter' = IterNow
    /\ err' = dead
    /\ IF end THEN AtOnce("eof") ELSE IF dead THEN AtOnce("error") ELSE DoNext

\* The scanner of a connection.
ConnNext ==
    /\ IF ShardDone THEN AtOnce("eof") ELSE DoNext
    /\ UNCHANGED <<addrs, iter, err>>

ScannerNext ==
    /\ Scans /\ reader = "ready"
    /\ IF err THEN AtOnce("error") /\ UNCHANGED <<addrs, iter, err>>
       ELSE IF kind = "connscan" THEN ConnNext ELSE ClusterNext
    /\ UNCHANGED <<flying, page, alive, wanted, pages, over, shards, paniced>>

\* Fault: an error is remembered but not passed on.
PassOnSilent(what, asked) ==
    IF cb = "current" /\ what # "error" THEN got' = what /\ page' = asked
    ELSE UNCHANGED <<got, page>>

\* The user's future is resolved; a future nobody waits for takes it too.
PassOn(what, asked) ==
    IF cb = "current" THEN got' = what /\ page' = asked ELSE UNCHANGED <<got, page>>

\* ScannerBase.Resolve: the cursor, the error, then the callback.
ResolveScan(next, what, asked) ==
    /\ iter' = next /\ err' = (what = "error")
    /\ cb' = "nil" /\ paniced' = (cb = "nil")
    /\ PassOn(what, asked)

\* ScanOpts.Request: a nil cursor is sent as "0".
Request == [addr |-> addrs[1], iter |-> IF iter = NoIter THEN 0 ELSE iter]

\* Fault: a request found cancelled is resolved and sent nevertheless.
AcceptsAll == TRUE

\* Send asks the scanner, which asks its callback, whether it is cancelled.
Accepts == ~ctxdone

SendScan ==
    /\ reader = "send" /\ reader' = "select"
    /\ flying' = IF cb # "nil" /\ Accepts THEN Append(flying, Request) ELSE flying
    /\ IF cb = "nil" THEN paniced' = TRUE /\ UNCHANGED <<iter, err, cb, got, page>>
       ELSE IF ctxdone THEN ResolveScan(NoIter, "error", NoPage)
       ELSE UNCHANGED <<iter, err, cb, got, page, paniced>>
    /\ UNCHANGED <<addrs, alive, wanted, pages, over, shards, cut>>

\* The Sender resolves a request: keys and a cursor, or an error, which may be
\* an answer with elements of another type.  Servers answer SCAN with arrays
\* of two elements; ScanResponse does not check that.
Reply ==
    /\ flying # <<>> /\ flying' = Tail(flying)
    /\ LET asked == flying[1] IN
       \/ asked.iter < MaxCursor /\ ResolveScan(asked.iter + 1, "more", asked)
       \/ ResolveScan(LastIter, "last", asked)
       \/ ResolveScan(NoIter, "error", asked)
    /\ UNCHANGED <<addrs, reader, alive, wanted, pages, over, shards, cut>>

-----------------------------------------------------------------------------
(* The user, through SyncIterator or SyncCtxIterator *)

\* case <-res.ch
GetKeys ==
    /\ reader = "select" /\ got # "none"
    /\ IF got \in {"more", "last"}
       THEN /\ pages' = [pages EXCEPT ![page.addr] = Append(@, page.iter)]
            /\ over' = IF got = "last" THEN over \cup {page.addr} ELSE over
            /\ reader' = "ready"
       ELSE reader' = "stopped" /\ UNCHANGED <<pages, over>>
    /\ UNCHANGED <<addrs, iter, err, cb, flying, got, page, alive, wanted, shards, paniced, cut>>

\* case <-ctx.Done(): the request may still be under way.  The user stops or
\* calls Next again.
GetCancelled ==
    /\ reader = "select" /\ ctxdone
    /\ reader' \in {"ready", "stopped"}
    /\ cut' = IF cut = "no" THEN "cancelled" ELSE cut
    /\ cb' = IF cb = "current" THEN "old" ELSE cb
    /\ UNCHANGED <<addrs, iter, err, flying, got, page, alive, wanted, pages, over, shards, paniced>>

-----------------------------------------------------------------------------
(* EachShard *)

GoesOn(what) == what = "conn"

\* One turn of the loop: the callback gets a connection or an error, and may
\* answer false.
NextShard ==
    /\ kind = "each" /\ reader = "ready"
    /\ IF addrs = <<>> THEN reader' = "stopped" /\ UNCHANGED <<addrs, shards>>
       ELSE /\ addrs' = Tail(addrs)
            /\ \E what \in {"conn", "false", "error"} :
                /\ (what = "error") <=> (addrs[1] \notin alive)
                /\ shards' = Append(shards, what)
                /\ reader' = IF GoesOn(what) THEN "ready" ELSE "stopped"
    /\ UNCHANGED <<iter, err, cb, flying, got, page, alive, wanted, pages, over, paniced, cut>>

-----------------------------------------------------------------------------

\* Reloads and failures: an address loses its node or connections, or regains.
Change(a) ==
    /\ kind \in ScanKinds
    /\ alive' = IF a \in alive THEN alive \ {a} ELSE alive \cup {a}
    /\ UNCHANGED <<syncVars, addrs, iter, err, cb, flying, reader, got, page, wanted,
                   pages, over, shards, paniced, cut>>

User == ScannerNext \/ SendScan \/ GetKeys \/ GetCancelled \/ NextShard

Next ==
    \/ CallNext /\ UNCHANGED scanVars
    \/ ~paniced /\ (User \/ Reply) /\ UNCHANGED syncVars
    \/ \E a \in Masters : Change(a)

Spec == Init /\ [][Next]_vars

\* The user goes on reading and Senders resolve what they accepted.
FairSpec ==
    /\ Spec /\ CallFairness
    /\ WF_vars(~paniced /\ User /\ UNCHANGED syncVars)
    /\ WF_vars(~paniced /\ Reply /\ UNCHANGED syncVars)

-----------------------------------------------------------------------------
(* Properties *)

Finished == reader = "stopped" /\ got = "eof"

\* The keys of a shard come in order, without a gap and a repetition, and
\* ScanEOF is not reported before every shard the scan began with is through,
\* whatever happened to the cluster in between; unless a Next was cancelled,
\* whose keys are lost.
ScanComplete ==
    /\ \A a \in Masters : \A j \in DOMAIN pages[a] : pages[a][j] = j - 1
    /\ Finished /\ cut = "no" => over = wanted

\* A scan ends, with ScanEOF, with an error or because a Next was cancelled.
ScanEnds == [](Scans => <>(reader = "stopped" \/ cut # "no"))

\* ScannerBase.Resolve "calls Resolve on underlying future" (sender.go:114): a
\* result meets a scanner without a callback in one case only, when Next sends
\* another request before that of a cancelled Next is answered.
HasCallback == paniced => cut = "overlapped"

\* Nothing a wrapper or a scanner does panics, whichever goroutine comes first,
\* except in that case.
NoPanic == ClosedOnce /\ HasCallback

\* EachShard: "If callback is called with error, it will not be called again.
\* If callback returns false, iteration stops" (sender.go:29); otherwise it is
\* called for every shard.
EachShardOnce ==
    kind = "each" =>
        /\ \A j \in DOMAIN shards : j < Len(shards) => shards[j] = "conn"
        /\ reader = "stopped" /\ (\A j \in DOMAIN shards : shards[j] = "conn")
            => Len(shards) = Cardinality(wanted)

\* An iteration over keys or shards leaves nothing out and visits nothing twice.
IterationInv == TypeOK /\ ScanComplete /\ EachShardOnce

=============================================================================
