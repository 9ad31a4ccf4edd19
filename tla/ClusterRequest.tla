--------------------------- MODULE ClusterRequest ---------------------------
(***************************************************************************)
(* The life of one request or transaction sent through a Cluster           *)
(* (request and transaction of src/rediscluster/cluster.go): where it is   *)
(* sent, what its Resolve makes of an error, and what the caller sees.     *)
(*                                                                         *)
(* The connections keep the contract of module Sender: what is sent on one *)
(* comes back once, with a reply or an error.  They go up and down, slots  *)
(* move and servers redirect at any time.                                  *)
(***************************************************************************)
EXTENDS Integers, Sequences, FiniteSets

CONSTANTS
    Hosts,        \* the instances serving the slot, one of them its master
    Kinds,        \* which requests are tried, see below
    ConnsPerHost, \* Opts.ConnsPerHost
    MovedRetries, \* Opts.MovedRetries
    TransLen      \* requests of a transaction

\* "write": changes data and goes to the master; "read": goes to the master,
\* but may be repeated; "replica": a policy sends it to replicas too;
\* "trans": SendTransaction.
AllKinds == {"write", "read", "replica", "trans"}

ASSUME RequestAssumption ==
    /\ Kinds \subseteq AllKinds /\ Hosts # {}
    /\ ConnsPerHost \in Nat \ {0} /\ MovedRetries \in Nat /\ TransLen \in Nat

Conns == Hosts \X (1 .. ConnsPerHost)

\* Errors a connection may resolve with: ErrIO; anything with ErrTraitNotSent,
\* LOADING included; a result error that is no redirect, a request that cannot
\* be serialised.
PlainErrors == {"io", "notsent", "result"}
Redirects == [kind: {"moved", "ask"}, addr: Hosts]

\* What the caller's callback gets; "number" is an integer, not a reply.
Results == {"reply", "io", "notsent", "result", "noalive", "cancelled", "number"}

VARIABLES
    kind,      \* kind of the request
    st,        \* "new", "sent", "executed" (and unanswered), "await" (a connection
               \* to target), "sleepsame", "sleepmoved" (WaitToMigrate), "done"
    lastconn,  \* r.lastconn: a set of at most one connection
    seen,      \* r.seen
    hardErrs,  \* r.hardErrs
    redir,     \* r.redir
    target,    \* where the last redirect points
    master,    \* the client's idea of the slot's master
    up,        \* connections in state connecting or connected
    ctxdone,   \* the cluster is closed
    cancelled, \* cb.Cancelled() reports an error
    sends,     \* history: how often the request was sent
    execs,     \* history: how often a server executed it
    result     \* history: what the callback was resolved with

reqVars == <<kind, lastconn, seen, hardErrs, redir, target>>
envVars == <<master, up, ctxdone, cancelled>>
vars == <<reqVars, st, envVars, sends, execs, result>>

TypeOK ==
    /\ kind \in Kinds
    /\ st \in {"new", "sent", "executed", "await", "sleepsame", "sleepmoved", "done"}
    /\ lastconn \subseteq Conns /\ seen \subseteq Conns
    /\ hardErrs \in Nat /\ redir \in 0 .. MovedRetries
    /\ target \in Hosts
    /\ master \in Hosts /\ up \subseteq Conns
    /\ ctxdone \in BOOLEAN /\ cancelled \in BOOLEAN
    /\ sends \in Nat /\ execs \in Nat
    /\ result \in Seq(Results)

Init ==
    /\ kind \in Kinds /\ st = "new"
    /\ lastconn = {} /\ seen = {} /\ hardErrs = 0 /\ redir = 0
    /\ master \in Hosts /\ target = master /\ up = Conns
    /\ ctxdone = FALSE /\ cancelled = FALSE
    /\ sends = 0 /\ execs = 0 /\ result = <<>>

-----------------------------------------------------------------------------
(* Resolving and sending *)

\* r.resolve, t.resolve
Done(what) ==
    /\ st' = "done" /\ result' = Append(result, what)
    /\ UNCHANGED <<sends, execs>>

\* Bounds of the histories: more is not counted.
MaxSends == (MovedRetries + 1) * (2 * ConnsPerHost + 1)
Count(n, max) == IF n > max THEN n ELSE n + 1

SendTo(conn) ==
    /\ st' = "sent" /\ lastconn' = {conn} /\ sends' = Count(sends, MaxSends)
    /\ UNCHANGED <<execs, result>>

\* connForSlot: a live connection that was not tried yet.  The replicas'
\* health bits may exclude some of them, the master's bit is always set.
Eligible(tried) ==
    {conn \in up \ tried : kind # "replica" => conn[1] = master}

\* Either such a connection is used, or there is none and the request fails
\* with ErrNoAliveConnection.
SendForSlot(tried) ==
    \/ \E conn \in Eligible(tried) : SendTo(conn)
    \/ /\ \A conn \in Eligible(tried) : conn[1] # master
       /\ Done("noalive") /\ UNCHANGED lastconn

Empty == kind = "trans" /\ TransLen = 0

\* SendWithPolicy, SendTransaction
Start ==
    /\ st = "new" /\ ~cancelled /\ ~Empty
    /\ SendForSlot({})
    /\ UNCHANGED <<kind, seen, hardErrs, redir, target, envVars>>

StartCancelled ==
    /\ st = "new" /\ cancelled
    /\ Done("cancelled")
    /\ UNCHANGED <<reqVars, envVars>>

\* The keys give no slot, or a transaction is empty.
StartRefused ==
    /\ st = "new" /\ ~cancelled
    /\ Done(IF Empty THEN "reply" ELSE "result")
    /\ UNCHANGED <<reqVars, envVars>>

-----------------------------------------------------------------------------
(* request.Resolve and transaction.Resolve *)

\* Fault: a write is repeated although it may have been executed.
MayRetryAny == TRUE

\* r.mayRetry; redis treats all transactions as writes.
MayRetry == kind \in {"read", "replica"}

Retries == IF MayRetry THEN 2 * ConnsPerHost ELSE ConnsPerHost

\* Fault: the connection that failed is not remembered.
SeenBefore == seen

SeenNow == seen \cup lastconn

\* An ErrIO that may be repeated, or an error with ErrTraitNotSent.
Retry(err) ==
    IF hardErrs >= Retries
    THEN Done(err) /\ UNCHANGED <<lastconn, seen, hardErrs>>
    ELSE /\ hardErrs' = hardErrs + 1 /\ seen' = SeenNow
         /\ SendForSlot(SeenNow)

Plain(err) ==
    /\ IF err = "notsent" \/ (err = "io" /\ MayRetry)
       THEN Retry(err)
       ELSE Done(err) /\ UNCHANGED <<lastconn, seen, hardErrs>>
    /\ UNCHANGED <<redir, target>>

\* Fault: redirects are not counted.
RedirStuck == redir

RedirNow == redir + 1

\* A counted redirect or wait: another shard is another chance.
Restart(where, then) ==
    /\ redir' = RedirNow /\ hardErrs' = 0 /\ seen' = {}
    /\ target' = where /\ st' = then
    /\ UNCHANGED <<lastconn, sends, execs, result>>

GiveUp == Done("result") /\ UNCHANGED <<lastconn, seen, hardErrs, redir, target>>

\* MOVED or ASK for a single request.  Whether ASKING goes with it is left to
\* the connection.
Redirected(to) ==
    IF redir < MovedRetries THEN Restart(to.addr, "await") ELSE GiveUp

\* What the answers inside an aborted transaction say: prefix is the part of
\* them up to the first that is no redirect.
Aborted(prefix) ==
    LET moving == \E j \in DOMAIN prefix : prefix[j].kind = "moved"
        asking == \E j \in DOMAIN prefix : prefix[j].kind = "ask"
        to == prefix[Len(prefix)].addr
    IN
    IF prefix # <<>> /\ moving # asking /\ redir < MovedRetries
    THEN \/ Len(prefix) = TransLen /\ Restart(to, "await")
         \/ Len(prefix) < TransLen /\ asking /\ Restart(to, "sleepmoved")
         \/ Len(prefix) < TransLen /\ moving /\ GiveUp
    ELSE GiveUp

\* EXEC says TRYAGAIN: the same connection again, later.
TryAgain ==
    IF redir < MovedRetries THEN Restart(target, "sleepsame") ELSE GiveUp

StillWanted == ~ctxdone /\ ~cancelled

\* Resolve with an error on a closed cluster, or after the caller lost
\* interest.  The request of a closed cluster is resolved with r.off.
Unwanted(err) ==
    /\ ctxdone \/ cancelled
    /\ Done(IF ~ctxdone THEN "cancelled" ELSE IF kind = "trans" THEN err ELSE "number")
    /\ UNCHANGED <<reqVars, envVars>>

-----------------------------------------------------------------------------
(* What connections do to a request that was sent on them *)

\* External: the server executes it, possibly with an error as its answer.  A
\* request that is executed after its ErrIO was reported counts as executed
\* before.
Execute ==
    /\ st = "sent" /\ st' = "executed" /\ execs' = Count(execs, 1)
    /\ UNCHANGED <<reqVars, envVars, sends, result>>

\* The answer of an executed request.
Replied ==
    /\ st = "executed" /\ Done("reply")
    /\ UNCHANGED <<reqVars, envVars>>

\* An error; only ErrTraitNotSent tells that nothing was executed.
Failed(err) ==
    /\ st = "sent" \/ (st = "executed" /\ err # "notsent")
    /\ \/ Unwanted(err)
       \/ StillWanted /\ Plain(err) /\ UNCHANGED <<kind, envVars>>

\* A redirect; for a transaction EXEC itself is answered with MOVED.
Redirect(to) ==
    /\ st = "sent" /\ (kind = "trans" => to.kind = "moved")
    /\ \/ Unwanted("result")
       \/ StillWanted /\ Redirected(to) /\ UNCHANGED <<kind, envVars>>

\* EXECABORT.
Abort(prefix) ==
    /\ st = "sent" /\ kind = "trans"
    /\ \/ Unwanted("result")
       \/ StillWanted /\ Aborted(prefix) /\ UNCHANGED <<kind, envVars>>

MustWait ==
    /\ st = "sent" /\ kind = "trans"
    /\ \/ Unwanted("result")
       \/ StillWanted /\ TryAgain /\ UNCHANGED <<kind, envVars>>

\* Fault: without a live connection sendMoved does not resolve the request.
GrantedSilent ==
    /\ st = "await"
    /\ \E conn \in up : conn[1] = target /\ SendTo(conn)
    /\ UNCHANGED <<kind, seen, hardErrs, redir, target, envVars>>

\* ensureConnForAddress calls back, with a live connection or without.
Granted ==
    /\ st = "await"
    /\ IF \E conn \in up : conn[1] = target
       THEN \E conn \in up : conn[1] = target /\ SendTo(conn)
       ELSE Done("noalive") /\ UNCHANGED lastconn
    /\ UNCHANGED <<kind, seen, hardErrs, redir, target, envVars>>

\* The timer of addWaitToMigrate fires.
WakeUp ==
    /\ \/ st = "sleepmoved" /\ st' = "await" /\ UNCHANGED sends
       \/ st = "sleepsame" /\ st' = "sent" /\ sends' = Count(sends, MaxSends)
    /\ UNCHANGED <<reqVars, envVars, execs, result>>

-----------------------------------------------------------------------------
(* The environment *)

Toggle(conn) ==
    /\ up' = IF conn \in up THEN up \ {conn} ELSE up \cup {conn}
    /\ UNCHANGED <<reqVars, st, master, ctxdone, cancelled, sends, execs, result>>

\* A reload or a "moved" command changes the slot table.
Remap(h) ==
    /\ h # master /\ master' = h
    /\ UNCHANGED <<reqVars, st, up, ctxdone, cancelled, sends, execs, result>>

Close ==
    /\ ~ctxdone /\ ctxdone' = TRUE
    /\ UNCHANGED <<reqVars, st, master, up, cancelled, sends, execs, result>>

Cancel ==
    /\ ~cancelled /\ cancelled' = TRUE
    /\ UNCHANGED <<reqVars, st, master, up, ctxdone, sends, execs, result>>

Prefixes == UNION {[1 .. n -> Redirects] : n \in 0 .. TransLen}

Answered ==
    \/ Replied
    \/ \E err \in PlainErrors : Failed(err)
    \/ \E to \in Redirects : Redirect(to)
    \/ \E prefix \in Prefixes : Abort(prefix)
    \/ MustWait

Next ==
    \/ Start \/ StartCancelled \/ StartRefused
    \/ Execute \/ Answered \/ Granted \/ WakeUp
    \/ \E conn \in Conns : Toggle(conn)
    \/ \E h \in Hosts : Remap(h)
    \/ Close \/ Cancel

Spec == Init /\ [][Next]_vars

\* Connections resolve what they take on (EventuallyResolved of Connection),
\* callbacks of ensureConnForAddress run (CallbackRuns of ClusterNodes) and
\* timers fire.
FairSpec == Spec /\ WF_vars(Answered) /\ WF_vars(Granted) /\ WF_vars(WakeUp)

-----------------------------------------------------------------------------
(* Properties *)

\* However often it is retried, redirected and delayed, a request that may
\* change data is executed at most once ("It is not safe to retry read-write
\* operation", cluster.go:551).
AtMostOnce == ~(kind \in {"read", "replica"}) => execs <= 1

\* An error that promises that nothing was sent, and ErrNoAliveConnection, is
\* the truth for a request that may change data: the caller may repeat it.
WritesNotSentHonest ==
    kind \in {"write", "trans"} =>
        \A j \in DOMAIN result : result[j] \in {"notsent", "noalive"} => execs = 0

\* What a caller may conclude at any time: a write was executed at most once, and
\* not at all if the error says so.
RequestInv == TypeOK /\ AtMostOnce /\ WritesNotSentHonest

\* A connection resolves dropped requests while it holds its queue's lock
\* (dropFutures), so a retry must not come back to that connection.
RetriesElsewhere ==
    [][\A err \in PlainErrors : Failed(err) /\ st' = "sent" => lastconn' # lastconn]_vars

\* The retries are bounded, also when every shard keeps pointing elsewhere.
BoundedEffort == sends <= MaxSends

\* A request that was sent is resolved in the end.
EventuallyResolved == (st # "new") ~> (result # <<>>)

\* Close: "All following requests will be immediately resolved with error"
\* (redis/sender.go:32); no request gets something that is neither an error
\* nor a reply.
ReplyOrError == \A j \in DOMAIN result : result[j] # "number"

=============================================================================
