-------------------------- MODULE RetryLocksProofs --------------------------
(***************************************************************************)
(* Proofs about RetryLocks: whatever the connections and requests, no      *)
(* goroutine that revokes a queue waits for itself, directly or through    *)
(* others.                                                                 *)
(***************************************************************************)
EXTENDS RetryLocks, WellFoundedInduction, TLAPS

\* A queue is revoked only after the state is stored.
StateStored == \A c \in Conns : drop[c] # "no" => state[c] = "down"

ClockBounds == \A c \in Conns : downAt[c] <= clock

\* A callback that runs under a lock runs under one that is held.
UnderHeld ==
    \A r \in Reqs : under[r] # NoConn =>
        drop[under[r]] = "holding" /\ phase[r] \in {"failed", "wait"}

\* The target of such a callback is up, or went down after its own connection.
TargetLater ==
    \A r \in Reqs :
        (under[r] # NoConn /\ phase[r] = "wait" /\ drop[conn[r]] # "no")
            => downAt[under[r]] < downAt[conn[r]]

\* The inductive invariant.
LockInv == TypeOK /\ StateStored /\ ClockBounds /\ UnderHeld /\ TargetLater

\* The invariant holds before any request is sent.
LEMMA LockInit == Init => LockInv
<1> SUFFICES ASSUME Init PROVE LockInv
    OBVIOUS
<1> QED
    BY LocksAssumption
    DEF Init, LockInv, TypeOK, StateStored, ClockBounds, UnderHeld, TargetLater, Phases

\* A request that ends leaves the locks of all others as they were.
LEMMA FinishLock ==
    ASSUME LockInv, NEW r \in Reqs, phase[r] # "new" \/ under[r] = NoConn,
           Finish(r), UNCHANGED connVars
    PROVE  LockInv'
<1> USE LocksAssumption DEF LockInv, connVars
<1>1. TypeOK'
    BY DEF Finish, TypeOK, Phases
<1>2. StateStored' /\ ClockBounds'
    BY DEF StateStored, ClockBounds
<1>3. UnderHeld'
    BY DEF Finish, UnderHeld, TypeOK
<1>4. TargetLater'
    BY DEF Finish, TargetLater, TypeOK
<1> QED
    BY <1>1, <1>2, <1>3, <1>4

\* A picked connection is up, so nobody revokes its queue yet.
LEMMA PickLock ==
    ASSUME LockInv, NEW r \in Reqs, NEW tried \in SUBSET (Conns \cup {NoConn}),
           phase[r] \in {"new", "failed"}, Pick(r, tried), UNCHANGED connVars
    PROVE  LockInv'
<1> USE LocksAssumption DEF LockInv, connVars
<1> PICK c \in Usable \ tried : conn' = [conn EXCEPT ![r] = c]
    BY DEF Pick
<1>1. c \in Conns /\ drop[c] = "no"
    BY DEF Usable, StateStored
<1>2. TypeOK'
    BY <1>1 DEF Pick, TypeOK, Phases
<1>3. StateStored' /\ ClockBounds'
    BY DEF StateStored, ClockBounds
<1>4. UnderHeld'
    BY DEF Pick, UnderHeld, TypeOK
<1>5. TargetLater'
    BY <1>1 DEF Pick, TargetLater, TypeOK
<1> QED
    BY <1>2, <1>3, <1>4, <1>5

\* Every step keeps the invariant.
LEMMA LockNext == LockInv /\ [Next]_vars => LockInv'
<1> SUFFICES ASSUME LockInv, [Next]_vars PROVE LockInv'
    OBVIOUS
<1> USE LocksAssumption DEF LockInv
<1>1. ASSUME NEW r \in Reqs, Start(r) PROVE LockInv'
  <2>1. under[r] = NoConn
    BY <1>1 DEF Start, UnderHeld
  <2> QED
    BY <1>1, <2>1, PickLock, FinishLock DEF Start
<1>2. ASSUME NEW r \in Reqs, Enter(r) PROVE LockInv'
  <2>1. TypeOK'
    BY <1>2 DEF Enter, connVars, TypeOK, Phases
  <2>2. StateStored' /\ ClockBounds'
    BY <1>2 DEF Enter, connVars, StateStored, ClockBounds
  <2>3. UnderHeld'
    BY <1>2 DEF Enter, connVars, UnderHeld, TypeOK
  <2>4. TargetLater'
    BY <1>2 DEF Enter, connVars, TargetLater, TypeOK
  <2> QED
    BY <2>1, <2>2, <2>3, <2>4
<1>3. ASSUME NEW r \in Reqs, Resolve(r) PROVE LockInv'
  <2>1. seen[r] \cup {conn[r]} \in SUBSET (Conns \cup {NoConn})
    BY DEF TypeOK
  <2> QED
    BY <1>3, <2>1, PickLock, FinishLock DEF Resolve
<1>4. ASSUME NEW r \in Reqs, Answer(r) PROVE LockInv'
  <2>1. CASE Finish(r)
    BY <1>4, <2>1, FinishLock DEF Answer
  <2>2. CASE phase' = [phase EXCEPT ![r] = "failed"] /\ UNCHANGED <<conn, seen, under>>
    <3>1. TypeOK'
      BY <1>4, <2>2 DEF Answer, connVars, TypeOK, Phases
    <3>2. StateStored' /\ ClockBounds'
      BY <1>4 DEF Answer, connVars, StateStored, ClockBounds
    <3>3. UnderHeld'
      BY <1>4, <2>2 DEF Answer, connVars, UnderHeld, TypeOK
    <3>4. TargetLater'
      BY <1>4, <2>2 DEF Answer, connVars, TargetLater, TypeOK
    <3> QED
      BY <3>1, <3>2, <3>3, <3>4
  <2> QED
    BY <1>4, <2>1, <2>2 DEF Answer
<1>5. ASSUME NEW c \in Conns, Fetch(c) PROVE LockInv'
  <2>1. TypeOK'
    BY <1>5 DEF Fetch, connVars, TypeOK, Phases
  <2>2. StateStored' /\ ClockBounds'
    BY <1>5 DEF Fetch, connVars, StateStored, ClockBounds
  <2>3. UnderHeld'
    BY <1>5 DEF Fetch, connVars, UnderHeld, TypeOK
  <2>4. TargetLater'
    BY <1>5 DEF Fetch, connVars, TargetLater, TypeOK
  <2> QED
    BY <2>1, <2>2, <2>3, <2>4
<1>6. ASSUME NEW c \in Conns, GoDown(c) PROVE LockInv'
  <2>1. TypeOK'
    BY <1>6 DEF GoDown, StateFirst, reqVars, TypeOK
  <2>2. StateStored' /\ ClockBounds'
    BY <1>6 DEF GoDown, StateFirst, StateStored, ClockBounds, TypeOK
  <2>3. UnderHeld'
    BY <1>6 DEF GoDown, reqVars, UnderHeld, TypeOK
  <2>4. TargetLater'
    <3> SUFFICES ASSUME NEW r \in Reqs, under'[r] # NoConn, phase'[r] = "wait",
                        drop'[conn'[r]] # "no"
                 PROVE  downAt'[under'[r]] < downAt'[conn'[r]]
      BY DEF TargetLater
    <3>1. under[r] \in Conns /\ conn[r] \in Conns /\ under[r] # c
      BY <1>6 DEF GoDown, reqVars, UnderHeld, TypeOK
    <3>2. CASE conn[r] = c
      BY <1>6, <3>1, <3>2 DEF GoDown, reqVars, ClockBounds, TypeOK
    <3>3. CASE conn[r] # c
      BY <1>6, <3>1, <3>3 DEF GoDown, reqVars, TargetLater, TypeOK
    <3> QED
      BY <3>2, <3>3
  <2> QED
    BY <2>1, <2>2, <2>3, <2>4
<1>7. ASSUME NEW c \in Conns, LockQueue(c) PROVE LockInv'
  <2>1. TypeOK'
    BY <1>7 DEF LockQueue, reqVars, TypeOK
  <2>2. StateStored' /\ ClockBounds'
    BY <1>7 DEF LockQueue, StateStored, ClockBounds, TypeOK
  <2>3. UnderHeld'
    BY <1>7 DEF LockQueue, reqVars, UnderHeld, TypeOK
  <2>4. TargetLater'
    BY <1>7 DEF LockQueue, reqVars, TargetLater, TypeOK
  <2> QED
    BY <2>1, <2>2, <2>3, <2>4
<1>8. ASSUME NEW c \in Conns, DropNext(c) PROVE LockInv'
  <2> PICK r \in Queued(c) : /\ phase' = [phase EXCEPT ![r] = "failed"]
                             /\ under' = [under EXCEPT ![r] = c]
    BY <1>8 DEF DropNext
  <2>1. TypeOK'
    BY <1>8 DEF DropNext, Queued, connVars, TypeOK, Phases
  <2>2. StateStored' /\ ClockBounds'
    BY <1>8 DEF DropNext, connVars, StateStored, ClockBounds
  <2>3. UnderHeld'
    BY <1>8 DEF DropNext, Queued, connVars, UnderHeld, TypeOK
  <2>4. TargetLater'
    BY <1>8 DEF DropNext, Queued, connVars, TargetLater, TypeOK
  <2> QED
    BY <2>1, <2>2, <2>3, <2>4
<1>9. ASSUME NEW c \in Conns, UnlockQueue(c) PROVE LockInv'
  <2>1. TypeOK'
    BY <1>9 DEF UnlockQueue, reqVars, TypeOK
  <2>2. StateStored' /\ ClockBounds'
    BY <1>9 DEF UnlockQueue, StateStored, ClockBounds, TypeOK
  <2>3. UnderHeld'
    BY <1>9 DEF UnlockQueue, Busy, reqVars, UnderHeld, TypeOK
  <2>4. TargetLater'
    BY <1>9 DEF UnlockQueue, Busy, reqVars, TargetLater, TypeOK
  <2> QED
    BY <2>1, <2>2, <2>3, <2>4
<1>10. ASSUME NEW c \in Conns, Redial(c) PROVE LockInv'
  <2>1. TypeOK'
    BY <1>10 DEF Redial, reqVars, TypeOK
  <2>2. StateStored' /\ ClockBounds'
    BY <1>10 DEF Redial, StateStored, ClockBounds, TypeOK
  <2>3. UnderHeld' /\ TargetLater'
    BY <1>10 DEF Redial, reqVars, UnderHeld, TargetLater
  <2> QED
    BY <2>1, <2>2, <2>3
<1>11. CASE UNCHANGED vars
    BY <1>11 DEF vars, connVars, reqVars, TypeOK, StateStored, ClockBounds,
                 UnderHeld, TargetLater
<1> QED
    BY <1>1, <1>2, <1>3, <1>4, <1>5, <1>6, <1>7, <1>8, <1>9, <1>10, <1>11
    DEF Next, Handle, Revoke, Quiet

\* RetryLocks always satisfies its inductive invariant, TypeOK included.
THEOREM LockInvariant == Spec => []LockInv
    BY LockInit, LockNext, PTL DEF Spec

\* The goroutine closing a connection only ever waits for the futmtx of a
\* connection that went down later than its own.
THEOREM WaitsAreOrdered == Spec => []WaitsForLater
<1>1. LockInv => WaitsForLater
    BY LocksAssumption DEF LockInv, TargetLater, WaitsForLater, WaitsFor, TypeOK
<1> QED
    BY <1>1, LockInvariant, PTL

\* Of any connections, the one that went down last waits for none of them.
LEMMA NoCycle == LockInv /\ WaitsForLater => NoLockCycle
<1> SUFFICES ASSUME LockInv, WaitsForLater, NEW S \in (SUBSET Conns) \ {{}}
             PROVE  \E c \in S : \A d \in S : ~WaitsFor(c, d)
    BY DEF NoLockCycle
<1> DEFINE T == {clock - downAt[c] : c \in S}
<1>1. T \subseteq Nat /\ T # {}
    BY DEF LockInv, TypeOK, ClockBounds
<1>2. PICK x \in T : \A y \in T : ~(<<y, x>> \in OpToRel(<, Nat))
    BY <1>1, NatLessThanWellFounded, WFMin
<1>3. PICK c \in S : x = clock - downAt[c]
    OBVIOUS
<1>4. ASSUME NEW d \in S, WaitsFor(c, d) PROVE FALSE
  <2>1. downAt[c] < downAt[d]
    BY <1>4 DEF WaitsForLater
  <2>2. clock - downAt[d] \in T /\ clock - downAt[d] \in Nat /\ x \in Nat
    BY <1>1
  <2>3. clock - downAt[d] < x
    BY <2>1, <2>2, <1>3 DEF LockInv, TypeOK
  <2>4. <<clock - downAt[d], x>> \in OpToRel(<, Nat)
    BY <2>2, <2>3 DEF OpToRel
  <2> QED
    BY <1>2, <2>2, <2>4
<1> QED
    BY <1>4

\* Connections that revoke their queues never wait for each other in a circle,
\* however many there are and whatever requests they hold.
THEOREM NoLockCycles == Spec => []NoLockCycle
    BY NoCycle, LockInvariant, WaitsAreOrdered, PTL

=============================================================================
