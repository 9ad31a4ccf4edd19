----------------------------- MODULE RetryLocks -----------------------------
(***************************************************************************)
(* Several connections of a cluster and the requests that move between     *)
(* them.  A connection that goes down revokes its queue while it holds     *)
(* futmtx (dropFutures of src/redisconn/conn.go); the callbacks are        *)
(* request.Resolve and transaction.Resolve of src/rediscluster/cluster.go, *)
(* which send the request on another connection and so take that one's     *)
(* futmtx as well.  Connections that go down together must not end up      *)
(* waiting for each other.                                                 *)
(*                                                                         *)
(* Module Connection describes one connection in detail, ClusterRequest    *)
(* one request; here they are reduced to what takes and waits for locks.   *)
(***************************************************************************)
EXTENDS Integers, FiniteSets

CONSTANTS
    Conns,    \* the connections
    Reqs,     \* the requests
    NoConn,   \* no connection
    MaxDowns  \* bound: how often connections go down, altogether

ASSUME LocksAssumption == NoConn \notin Conns /\ MaxDowns \in Nat

VARIABLES
    state,  \* conn.state: "up" (connecting or connected) or "down"
            \* (disconnected; also closed, which never comes up again)
    drop,   \* the goroutine that closes the connection, under conn.mutex:
            \* "no", "want" (the state is stored, futmtx is next), "holding" futmtx
    phase,  \* of a request: "new", "wait" (for futmtx of conn), "queued" on conn,
            \* "wire" (written), "failed" (Resolve is next), "done"
    conn,   \* r.lastconn
    seen,   \* r.seen
    under,  \* the connection whose dropFutures runs this request's callback
    clock,  \* history: how many times a connection went down
    downAt  \* history: the clock when the connection that is being closed did

connVars == <<state, drop, clock, downAt>>
reqVars == <<phase, conn, seen, under>>
vars == <<connVars, reqVars>>

Phases == {"new", "wait", "queued", "wire", "failed", "done"}

TypeOK ==
    /\ state \in [Conns -> {"up", "down"}]
    /\ drop \in [Conns -> {"no", "want", "holding"}]
    /\ phase \in [Reqs -> Phases]
    /\ conn \in [Reqs -> Conns \cup {NoConn}]
    /\ seen \in [Reqs -> SUBSET (Conns \cup {NoConn})]
    /\ under \in [Reqs -> Conns \cup {NoConn}]
    /\ clock \in Nat /\ downAt \in [Conns -> Nat]
    /\ \A r \in Reqs : conn[r] = NoConn <=> phase[r] \in {"new", "done"}

Init ==
    /\ state = [c \in Conns |-> "up"]
    /\ drop = [c \in Conns |-> "no"]
    /\ phase = [r \in Reqs |-> "new"]
    /\ conn = [r \in Reqs |-> NoConn]
    /\ seen = [r \in Reqs |-> {}]
    /\ under = [r \in Reqs |-> NoConn]
    /\ clock = 0 /\ downAt = [c \in Conns |-> 0]

-----------------------------------------------------------------------------
(* A request and the goroutine that handles it: the caller's, a reader's,  *)
(* or the one that closes the connection under[r].                         *)

\* MayBeConnected; what else makes a connection eligible is left open.
Usable == {c \in Conns : state[c] = "up"}

\* request.resolve: the caller has its result and the request is cleared.
Finish(r) ==
    /\ phase' = [phase EXCEPT ![r] = "done"]
    /\ conn' = [conn EXCEPT ![r] = NoConn]
    /\ seen' = [seen EXCEPT ![r] = {}]
    /\ under' = [under EXCEPT ![r] = NoConn]

\* Fault: connections that were tried are not excluded.
PickAgain(r, tried) ==
    /\ \E c \in Usable : conn' = [conn EXCEPT ![r] = c]
    /\ phase' = [phase EXCEPT ![r] = "wait"]
    /\ UNCHANGED <<seen, under>>

\* connForSlot, then Send as far as futmtx.Lock.
Pick(r, tried) ==
    /\ \E c \in Usable \ tried : conn' = [conn EXCEPT ![r] = c]
    /\ phase' = [phase EXCEPT ![r] = "wait"]
    /\ seen' = [seen EXCEPT ![r] = tried]
    /\ UNCHANGED under

\* SendWithPolicy, SendTransaction.
Start(r) ==
    /\ phase[r] = "new"
    /\ Pick(r, {}) \/ (Usable = {} /\ Finish(r))
    /\ UNCHANGED connVars

\* doSend and doSendBatch under futmtx: nothing in there waits, so it is one
\* step.  What is refused is resolved after Unlock, by the same goroutine.
Enter(r) ==
    /\ phase[r] = "wait" /\ drop[conn[r]] # "holding"
    /\ IF state[conn[r]] = "up"
       THEN /\ phase' = [phase EXCEPT ![r] = "queued"]
            /\ under' = [under EXCEPT ![r] = NoConn]
       ELSE /\ phase' = [phase EXCEPT ![r] = "failed"]
            /\ UNCHANGED under
    /\ UNCHANGED <<conn, seen, connVars>>

\* Resolve with an error of the connection: another connection, or the end.
\* The request ends without a try when the cluster is closed, the caller has
\* cancelled, the limit is reached, or a write failed with ErrIO.
Resolve(r) ==
    /\ phase[r] = "failed"
    /\ Pick(r, seen[r] \cup {conn[r]}) \/ Finish(r)
    /\ UNCHANGED connVars

\* The writer swaps the queue under futmtx.
Fetch(c) ==
    /\ drop[c] # "holding"
    /\ \E r \in Reqs : phase[r] = "queued" /\ conn[r] = c
    /\ phase' = [r \in Reqs |-> IF phase[r] = "queued" /\ conn[r] = c
                                THEN "wire" ELSE phase[r]]
    /\ UNCHANGED <<conn, seen, under, connVars>>

\* The reader resolves without a lock, with a reply or with its error.
Answer(r) ==
    /\ phase[r] = "wire"
    /\ \/ Finish(r)
       \/ phase' = [phase EXCEPT ![r] = "failed"] /\ UNCHANGED <<conn, seen, under>>
    /\ UNCHANGED connVars

-----------------------------------------------------------------------------
(* A connection goes down *)

\* Fault: the state is stored after the queue was revoked.
StateFirstLate == "up"

\* What conn.state is while the queue is being revoked.
StateFirst == "down"

\* closeConnection and a failed dial of createConnection store the state
\* before they lock futmtx.  conn.mutex admits one of them at a time; control
\* closes a connection for good also when it is down already.
GoDown(c) ==
    /\ clock < MaxDowns
    /\ drop[c] = "no"
    /\ state' = [state EXCEPT ![c] = StateFirst]
    /\ drop' = [drop EXCEPT ![c] = "want"]
    /\ clock' = clock + 1 /\ downAt' = [downAt EXCEPT ![c] = clock + 1]
    /\ UNCHANGED reqVars

LockQueue(c) ==
    /\ drop[c] = "want" /\ drop' = [drop EXCEPT ![c] = "holding"]
    /\ UNCHANGED <<state, clock, downAt, reqVars>>

Busy(c) == \E r \in Reqs : under[r] = c
Queued(c) == {r \in Reqs : phase[r] = "queued" /\ conn[r] = c}

\* dropFutures calls the next callback.
DropNext(c) ==
    /\ drop[c] = "holding" /\ ~Busy(c)
    /\ \E r \in Queued(c) :
        /\ phase' = [phase EXCEPT ![r] = "failed"]
        /\ under' = [under EXCEPT ![r] = c]
    /\ UNCHANGED <<conn, seen, connVars>>

UnlockQueue(c) ==
    /\ drop[c] = "holding" /\ ~Busy(c) /\ Queued(c) = {}
    /\ drop' = [drop EXCEPT ![c] = "no"]
    /\ downAt' = [downAt EXCEPT ![c] = 0]
    /\ UNCHANGED <<state, clock, reqVars>>

\* createConnection accepts requests again.
Redial(c) ==
    /\ state[c] = "down" /\ drop[c] = "no"
    /\ state' = [state EXCEPT ![c] = "up"]
    /\ UNCHANGED <<drop, clock, downAt, reqVars>>

-----------------------------------------------------------------------------

Handle(r) == Start(r) \/ Enter(r) \/ Resolve(r) \/ Answer(r)
Revoke(c) == LockQueue(c) \/ DropNext(c) \/ UnlockQueue(c)

\* Everything is resolved and no connection goes down any more.
Quiet ==
    /\ \A r \in Reqs : phase[r] = "done"
    /\ \A c \in Conns : drop[c] = "no"
    /\ UNCHANGED vars

Next ==
    \/ \E r \in Reqs : Handle(r)
    \/ \E c \in Conns : Revoke(c) \/ Fetch(c) \/ Redial(c) \/ GoDown(c)
    \/ Quiet

Spec == Init /\ [][Next]_vars

\* Goroutines run and sync.Mutex does not starve a waiter; sockets answer or
\* time out.  Nothing says that a connection is dialled again.
FairSpec ==
    /\ Spec
    /\ \A r \in Reqs : WF_vars(Handle(r))
    /\ \A c \in Conns : WF_vars(Revoke(c)) /\ WF_vars(Fetch(c))

-----------------------------------------------------------------------------
(* Properties *)

\* dropFutures of c is stuck until dropFutures of d ends.
WaitsFor(c, d) ==
    \E r \in Reqs :
        under[r] = c /\ phase[r] = "wait" /\ conn[r] = d /\ drop[d] = "holding"

\* Connections that revoke their queues never wait for each other's futmtx in
\* a circle, nor one of them for its own (conn.go:660 runs callbacks under it).
NoLockCycle ==
    \A S \in (SUBSET Conns) \ {{}} : \E c \in S : \A d \in S : ~WaitsFor(c, d)

\* Why that is so: a callback picks a connection that is up while its own one
\* already is not, hence the one it waits for went down later.
WaitsForLater ==
    \A c, d \in Conns : WaitsFor(c, d) => downAt[c] < downAt[d]

\* A request that wanders from one failing connection to another is resolved.
EventuallyResolved ==
    \A r \in Reqs : phase[r] # "new" ~> phase[r] = "done"

=============================================================================
