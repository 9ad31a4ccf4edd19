---------------------------- MODULE BlockingCall ----------------------------
(***************************************************************************)
(* What a blocking call over a redis.Sender promises (the methods of Sync, *)
(* SyncCtx and ChanFutured, src/redis): it returns one result for each     *)
(* request, the request's own one or, once the context is cancelled,       *)
(* ErrRequestCancelled; and what it returned does not change any more.     *)
(***************************************************************************)
EXTENDS Integers

VARIABLES
    size,      \* number of requests of the call; 0 if there is no call
    answered,  \* requests whose result has arrived
    cancelled, \* the context is cancelled
    results    \* what the caller holds; empty before the call returns

vars == <<size, answered, cancelled, results>>

\* The result of request i is written i.
ErrRequestCancelled == -1

Init ==
    /\ size \in Nat /\ answered = {} /\ cancelled = FALSE
    /\ results = <<>>

Arrive ==
    /\ \E i \in (1 .. size) \ answered : answered' = answered \cup {i}
    /\ UNCHANGED <<size, cancelled, results>>

Cancel ==
    /\ cancelled' = TRUE
    /\ UNCHANGED <<size, answered, results>>

Allowed(i) ==
    (IF i \in answered THEN {i} ELSE {})
        \cup (IF cancelled THEN {ErrRequestCancelled} ELSE {})

Return ==
    /\ size > 0 /\ results = <<>>
    /\ \A i \in 1 .. size : Allowed(i) # {}
    /\ results' \in [1 .. size -> 1 .. size \cup {ErrRequestCancelled}]
    /\ \A i \in 1 .. size : results'[i] \in Allowed(i)
    /\ UNCHANGED <<size, answered, cancelled>>

Next == Arrive \/ Cancel \/ Return

\* What never happens ...
Safe == Init /\ [][Next]_vars

\* ... and what does: a call returns when all results are there, or when it is
\* cancelled.
Spec == Safe /\ WF_vars(Return)

=============================================================================
