------------------------ MODULE ClusterRequestProofs ------------------------
(***************************************************************************)
(* Proofs about ClusterRequest: a write is executed at most once and its   *)
(* errors are honest, the effort is bounded, and a retry goes elsewhere,   *)
(* for any number of hosts, connections, redirects and requests.           *)
(***************************************************************************)
EXTENDS ClusterRequest, TLAPS

MayChange == ~(kind \in {"read", "replica"})

\* Only a request that some server may have executed is kept in a state where
\* it cannot be sent again.
ExecsInv == MayChange => execs <= 1 /\ (st \notin {"executed", "done"} => execs = 0)

\* The callback is resolved by the step that ends the request.
ResultInv == st # "done" => result = <<>>

\* Sends that one shard may see: the first one and the retries.
PerShard == 2 * ConnsPerHost + 1

Spent == redir * PerShard

\* Every redirect buys another PerShard sends, every hard error uses one up.
EffortInv ==
    /\ hardErrs <= 2 * ConnsPerHost
    /\ st = "new" => sends = 0
    /\ st \in {"await", "sleepsame", "sleepmoved"} => hardErrs = 0 /\ sends <= Spent
    /\ st # "new" => sends <= Spent + hardErrs + 1

Inv == TypeOK /\ ExecsInv /\ ResultInv /\ WritesNotSentHonest /\ EffortInv

-----------------------------------------------------------------------------
(* Arithmetic of the bound *)

\* One more redirect is worth one more batch of sends.
LEMMA OneMore ==
    ASSUME NEW a \in Nat, NEW k \in Nat
    PROVE  a * k \in Nat /\ (a + 1) * k = a * k + k
BY SMT

\* Fewer redirects are worth fewer sends.
LEMMA Fewer ==
    ASSUME NEW a \in Nat, NEW b \in Nat, NEW k \in Nat, a <= b
    PROVE  a * k <= b * k
BY SMT

\* The histories are numbers, and stay as they are once they pass their bound.
LEMMA CountFacts ==
    ASSUME NEW n \in Nat, NEW max \in Nat
    PROVE  Count(n, max) \in Nat /\ Count(n, max) <= n + 1
BY DEF Count

\* A request is repeated at most 2 * ConnsPerHost times on one shard.
LEMMA RetriesFacts == Retries \in Nat /\ Retries <= 2 * ConnsPerHost
BY RequestAssumption DEF Retries, MayRetry

LEMMA PerShardFacts == PerShard \in Nat /\ MaxSends \in Nat /\ MaxSends = MovedRetries * PerShard + PerShard
<1>1. PerShard \in Nat /\ MovedRetries \in Nat
  BY RequestAssumption DEF PerShard
<1> QED BY <1>1, OneMore DEF MaxSends, PerShard

-----------------------------------------------------------------------------
(* What the steps of a request come down to *)

\* The request ends with an answer from a set; nothing was sent.
Ends(whats) ==
    /\ \E what \in whats : st' = "done" /\ result' = Append(result, what)
    /\ lastconn' = lastconn /\ sends' = sends /\ execs' = execs
    /\ redir' = redir /\ target' = target
    /\ seen' \in SUBSET Conns
    /\ hardErrs' \in {hardErrs, hardErrs + 1}
    /\ hardErrs' # hardErrs => hardErrs < Retries

\* It is sent to a connection; hardErrs counts the error before, if any.
Goes(n) ==
    /\ st' = "sent" /\ lastconn' \in SUBSET Conns
    /\ sends' = Count(sends, MaxSends) /\ execs' = execs /\ result' = result
    /\ redir' = redir /\ target' = target
    /\ seen' \in SUBSET Conns
    /\ hardErrs' = hardErrs + n

\* It waits for another chance that a redirect gives it.
Waits ==
    /\ st' \in {"await", "sleepsame", "sleepmoved"}
    /\ redir < MovedRetries /\ redir' = redir + 1
    /\ hardErrs' = 0 /\ seen' = {} /\ target' \in Hosts
    /\ lastconn' = lastconn /\ sends' = sends /\ execs' = execs /\ result' = result

EnvSame == kind' = kind /\ envVars' = envVars

LEMMA EndsKeeps ==
    ASSUME Inv, EnvSame, NEW whats \in SUBSET Results, Ends(whats), st # "done",
           MayChange /\ whats \cap {"notsent", "noalive"} # {} => execs = 0
    PROVE  Inv'
<1>1. TypeOK'
  BY RequestAssumption, RetriesFacts DEF Inv, TypeOK, Ends, EnvSame, envVars
<1>2. ExecsInv' /\ ResultInv'
  BY DEF Inv, TypeOK, ExecsInv, ResultInv, Ends, EnvSame, MayChange
<1>3. PICK what \in whats : result' = <<what>>
  BY DEF Inv, TypeOK, ResultInv, Ends
<1>4. WritesNotSentHonest'
  <2>1. kind' \in {"write", "trans"} /\ what \in {"notsent", "noalive"} => execs' = 0
    BY DEF Inv, Ends, EnvSame, MayChange
  <2>2. \A j \in DOMAIN result' : result'[j] = what
    BY <1>3
  <2> QED BY <2>1, <2>2 DEF WritesNotSentHonest
<1>5. EffortInv'
  <2>1. Spent' = Spent /\ Spent \in Nat
    <3>1. Spent \in Nat
      BY PerShardFacts, OneMore DEF Spent, Inv, TypeOK
    <3> QED BY <3>1 DEF Spent, Ends
  <2>2. hardErrs' <= 2 * ConnsPerHost
    BY RetriesFacts, RequestAssumption DEF Inv, TypeOK, EffortInv, Ends
  <2>3. sends' <= Spent + hardErrs' + 1
    <3>1. hardErrs' \in Nat /\ hardErrs <= hardErrs' /\ hardErrs \in Nat /\ sends' = sends
      BY DEF Inv, TypeOK, Ends
    <3>2. sends \in Nat /\ (sends = 0 \/ sends <= Spent + hardErrs + 1)
      BY DEF Inv, TypeOK, EffortInv
    <3>3. \A s, m, h, k \in Nat : h <= k /\ (s = 0 \/ s <= m + h + 1) => s <= m + k + 1
      OBVIOUS
    <3> QED BY <2>1, <3>1, <3>2, <3>3
  <2> QED BY <2>1, <2>2, <2>3 DEF EffortInv, Ends
<1> QED BY <1>1, <1>2, <1>4, <1>5 DEF Inv

LEMMA GoesKeeps ==
    ASSUME Inv, EnvSame, NEW n \in {0, 1}, Goes(n),
           st # "done", MayChange => execs = 0,
           n = 1 => hardErrs < Retries,
           n = 0 => st \in {"new", "await", "sleepsame"}
    PROVE  Inv'
<1>1. TypeOK'
  <2>1. sends' \in Nat /\ hardErrs' \in Nat
    BY CountFacts, PerShardFacts DEF Inv, TypeOK, Goes
  <2> QED BY <2>1 DEF Inv, TypeOK, Goes, EnvSame, envVars
<1>2. ExecsInv' /\ ResultInv' /\ WritesNotSentHonest'
  BY DEF Inv, TypeOK, ExecsInv, ResultInv, WritesNotSentHonest, Goes, EnvSame, MayChange
<1>3. EffortInv'
  <2>1. Spent' = Spent /\ Spent \in Nat
    <3>1. Spent \in Nat
      BY PerShardFacts, OneMore DEF Spent, Inv, TypeOK
    <3> QED BY <3>1 DEF Spent, Goes
  <2>2. hardErrs' <= 2 * ConnsPerHost
    BY RetriesFacts, RequestAssumption DEF Inv, TypeOK, EffortInv, Goes
  <2>3. sends' <= sends + 1 /\ sends' \in Nat
    BY CountFacts, PerShardFacts DEF Inv, TypeOK, Goes
  <2>4. sends <= Spent + hardErrs + n
    BY <2>1 DEF Inv, TypeOK, EffortInv
  <2>5. sends' <= Spent + hardErrs' + 1
    BY <2>1, <2>3, <2>4 DEF Inv, TypeOK, Goes
  <2> QED BY <2>1, <2>2, <2>5 DEF EffortInv, Goes
<1> QED BY <1>1, <1>2, <1>3 DEF Inv

LEMMA WaitsKeeps ==
    ASSUME Inv, EnvSame, Waits, st \in {"sent", "executed"}, MayChange => execs = 0
    PROVE  Inv'
<1>1. TypeOK'
  BY RequestAssumption DEF Inv, TypeOK, Waits, EnvSame, envVars
<1>2. ExecsInv' /\ ResultInv' /\ WritesNotSentHonest'
  BY DEF Inv, TypeOK, ExecsInv, ResultInv, WritesNotSentHonest, Waits, EnvSame, MayChange
<1>3. EffortInv'
  <2>1. Spent' = Spent + PerShard /\ Spent \in Nat /\ PerShard' = PerShard
    BY PerShardFacts, OneMore DEF Spent, Inv, TypeOK, Waits, PerShard
  <2>2. sends <= Spent + hardErrs + 1 /\ hardErrs <= 2 * ConnsPerHost
    BY DEF Inv, EffortInv
  <2>3. sends' <= Spent'
    BY <2>1, <2>2, RequestAssumption DEF Inv, TypeOK, Waits, PerShard
  <2>4. Spent' \in Nat /\ sends' \in Nat
    BY <2>1, PerShardFacts, <1>1 DEF TypeOK
  <2> QED BY <2>1, <2>3, <2>4, RequestAssumption DEF EffortInv, Waits
<1> QED BY <1>1, <1>2, <1>3 DEF Inv

-----------------------------------------------------------------------------
(* The invariant *)

\* A new request has neither been sent nor resolved.
LEMMA InitInv == Init => Inv
<1> SUFFICES ASSUME Init PROVE Inv
  OBVIOUS
<1>1. TypeOK
  <2>1. redir \in 0 .. MovedRetries /\ hardErrs \in Nat /\ sends \in Nat /\ execs \in Nat
    BY RequestAssumption DEF Init
  <2>2. result \in Seq(Results)
    BY DEF Init
  <2>3. kind \in Kinds /\ target \in Hosts /\ master \in Hosts /\ st = "new"
        /\ lastconn = {} /\ seen = {} /\ up = Conns /\ ctxdone = FALSE /\ cancelled = FALSE
    BY DEF Init
  <2> QED BY <2>1, <2>2, <2>3 DEF TypeOK
<1>2. ExecsInv /\ ResultInv /\ WritesNotSentHonest
  BY DEF Init, ExecsInv, ResultInv, WritesNotSentHonest
<1>3. EffortInv
  BY RequestAssumption DEF Init, EffortInv
<1> QED BY <1>1, <1>2, <1>3 DEF Inv

\* connForSlot gives a connection that was not tried, or the request ends.
LEMMA SendForSlotFacts ==
    ASSUME TypeOK, NEW tried, SendForSlot(tried)
    PROVE  \/ /\ st' = "sent" /\ sends' = Count(sends, MaxSends)
              /\ \E conn \in Conns \ tried : lastconn' = {conn}
              /\ execs' = execs /\ result' = result
           \/ /\ st' = "done" /\ result' = Append(result, "noalive")
              /\ lastconn' = lastconn /\ sends' = sends /\ execs' = execs
BY DEF SendForSlot, Eligible, SendTo, Done, TypeOK

LEMMA StartStep == ASSUME Inv, Start PROVE Inv'
<1> USE DEF Start
<1>1. EnvSame /\ TypeOK
  BY DEF EnvSame, Inv
<1>2. CASE st' = "sent"
  <2>1. Goes(0)
    BY <1>1, <1>2, SendForSlotFacts DEF Goes, TypeOK
  <2>2. MayChange => execs = 0
    BY DEF Inv, ExecsInv
  <2> QED BY <1>1, <2>1, <2>2, GoesKeeps
<1>3. CASE st' = "done"
  <2>1. Ends({"noalive"})
    BY <1>1, <1>3, SendForSlotFacts DEF Ends, TypeOK
  <2> QED BY <1>1, <2>1, EndsKeeps DEF Inv, ExecsInv, Results
<1> QED BY <1>1, <1>2, <1>3, SendForSlotFacts

LEMMA RefusedStep == ASSUME Inv, StartCancelled \/ StartRefused PROVE Inv'
<1>1. EnvSame /\ st = "new" /\ TypeOK
  BY DEF EnvSame, Inv, StartCancelled, StartRefused, reqVars
<1>2. Ends({"cancelled", "reply", "result"})
  BY <1>1 DEF Ends, StartCancelled, StartRefused, Done, reqVars, TypeOK
<1> QED BY <1>1, <1>2, EndsKeeps DEF Results

LEMMA ExecuteStep == ASSUME Inv, Execute PROVE Inv'
<1>1. TypeOK'
  BY CountFacts DEF Inv, TypeOK, Execute, reqVars, envVars
<1>2. ExecsInv' /\ ResultInv' /\ WritesNotSentHonest'
  BY DEF Inv, TypeOK, ExecsInv, ResultInv, WritesNotSentHonest, Execute, Count, MayChange,
         reqVars
<1>3. EffortInv'
  BY DEF Inv, EffortInv, Spent, Execute, reqVars
<1> QED BY <1>1, <1>2, <1>3 DEF Inv

LEMMA RepliedStep == ASSUME Inv, Replied PROVE Inv'
<1>1. EnvSame /\ st = "executed" /\ TypeOK
  BY DEF EnvSame, Inv, Replied, reqVars
<1>2. Ends({"reply"})
  BY <1>1 DEF Ends, Replied, Done, reqVars, TypeOK
<1> QED BY <1>1, <1>2, EndsKeeps DEF Results

\* A closed cluster or a caller that lost interest ends the request.
LEMMA UnwantedStep ==
    ASSUME Inv, NEW err \in PlainErrors, Unwanted(err),
           st = "sent" \/ (st = "executed" /\ err # "notsent")
    PROVE  Inv'
<1>1. EnvSame /\ TypeOK
  BY DEF EnvSame, Inv, Unwanted, reqVars
<1>2. Ends({"cancelled", err, "number"})
  BY <1>1 DEF Ends, Unwanted, Done, reqVars, TypeOK
<1>3. MayChange /\ {"cancelled", err, "number"} \cap {"notsent", "noalive"} # {} => execs = 0
  BY DEF Inv, ExecsInv, PlainErrors
<1> QED BY <1>1, <1>2, <1>3, EndsKeeps DEF Results, PlainErrors

LEMMA RetryStep ==
    ASSUME Inv, NEW err \in PlainErrors, Retry(err), EnvSame, UNCHANGED <<redir, target>>,
           st \in {"sent", "executed"}, MayChange => execs = 0
    PROVE  Inv'
<1>1. CASE hardErrs >= Retries
  <2>1. Ends({err})
    BY <1>1 DEF Retry, Ends, Done, Inv, TypeOK
  <2> QED BY <2>1, EndsKeeps DEF Results, PlainErrors
<1>2. CASE ~(hardErrs >= Retries)
  <2>1. hardErrs < Retries
    BY <1>2, RetriesFacts DEF Inv, TypeOK
  <2>2. hardErrs' = hardErrs + 1 /\ seen' = SeenNow /\ SendForSlot(SeenNow)
    BY <1>2 DEF Retry
  <2>3. seen' \in SUBSET Conns
    BY <2>2 DEF SeenNow, Inv, TypeOK
  <2>4. CASE st' = "sent"
    <3>1. Goes(1)
      BY <2>2, <2>3, <2>4, SendForSlotFacts DEF Goes, Inv
    <3> QED BY <2>1, <3>1, GoesKeeps
  <2>5. CASE st' = "done"
    <3>1. Ends({"noalive"})
      BY <2>1, <2>2, <2>3, <2>5, SendForSlotFacts DEF Ends, Inv
    <3> QED BY <3>1, EndsKeeps DEF Results
  <2> QED BY <2>2, <2>4, <2>5, SendForSlotFacts DEF Inv
<1> QED BY <1>1, <1>2

LEMMA FailedStep == ASSUME Inv, NEW err \in PlainErrors, Failed(err) PROVE Inv'
<1>1. st = "sent" \/ (st = "executed" /\ err # "notsent")
  BY DEF Failed
<1>2. CASE Unwanted(err)
  BY <1>1, <1>2, UnwantedStep
<1>3. CASE StillWanted /\ Plain(err) /\ UNCHANGED <<kind, envVars>>
  <2>1. EnvSame /\ UNCHANGED <<redir, target>>
    BY <1>3 DEF EnvSame, Plain
  <2>2. CASE err = "notsent" \/ (err = "io" /\ MayRetry)
    <3>1. MayChange => execs = 0
      BY <1>1, <2>2 DEF Inv, ExecsInv, MayChange, MayRetry
    <3> QED BY <1>1, <1>3, <2>1, <2>2, <3>1, RetryStep DEF Plain
  <2>3. CASE ~(err = "notsent" \/ (err = "io" /\ MayRetry))
    <3>1. Ends({err})
      BY <1>3, <2>1, <2>3 DEF Plain, Ends, Done, Inv, TypeOK
    <3> QED BY <1>1, <2>1, <2>3, <3>1, EndsKeeps DEF Results, PlainErrors
  <2> QED BY <2>2, <2>3
<1> QED BY <1>2, <1>3 DEF Failed

\* A redirect, an aborted transaction and TRYAGAIN give another chance or end
\* the request with its error.
LEMMA RedirectedFacts ==
    ASSUME Inv,
           \/ \E to \in Redirects : Redirected(to)
           \/ \E prefix \in Prefixes : Aborted(prefix)
           \/ TryAgain
    PROVE  Waits \/ Ends({"result"})
<1>1. GiveUp => Ends({"result"})
  BY DEF GiveUp, Done, Ends, Inv, TypeOK
<1>2. ASSUME NEW where \in Hosts, NEW then \in {"await", "sleepsame", "sleepmoved"},
             Restart(where, then), redir < MovedRetries
      PROVE  Waits
  BY <1>2 DEF Restart, RedirNow, Waits
<1>3. ASSUME NEW to \in Redirects, Redirected(to) PROVE Waits \/ Ends({"result"})
  BY <1>1, <1>2, <1>3 DEF Redirected, Redirects
<1>4. ASSUME NEW prefix \in Prefixes, Aborted(prefix) PROVE Waits \/ Ends({"result"})
  <2>1. PICK n \in 0 .. TransLen : prefix \in [1 .. n -> Redirects]
    BY DEF Prefixes
  <2>2. n \in Nat /\ Len(prefix) = n
    BY <2>1, RequestAssumption
  <2>3. prefix # <<>> => prefix[Len(prefix)].addr \in Hosts
    <3>1. SUFFICES ASSUME prefix # <<>> PROVE prefix[n].addr \in Hosts
      BY <2>2
    <3>2. n # 0
      BY <2>1, <3>1
    <3>3. prefix[n] \in Redirects
      BY <2>1, <2>2, <3>2
    <3> QED BY <3>3 DEF Redirects
  <2> QED BY <1>1, <1>2, <1>4, <2>3 DEF Aborted
<1>5. ASSUME TryAgain PROVE Waits \/ Ends({"result"})
  BY <1>1, <1>2, <1>5 DEF TryAgain, Inv, TypeOK
<1> QED BY <1>3, <1>4, <1>5

LEMMA RedirectStep ==
    ASSUME Inv,
           \/ \E to \in Redirects : Redirect(to)
           \/ \E prefix \in Prefixes : Abort(prefix)
           \/ MustWait
    PROVE  Inv'
<1>1. st = "sent"
  BY DEF Redirect, Abort, MustWait
<1>2. CASE Unwanted("result")
  BY <1>1, <1>2, UnwantedStep DEF PlainErrors
<1>3. CASE ~Unwanted("result")
  <2>1. EnvSame
    BY <1>3 DEF EnvSame, Redirect, Abort, MustWait
  <2>2. Waits \/ Ends({"result"})
    BY <1>3, RedirectedFacts DEF Redirect, Abort, MustWait
  <2>3. MayChange => execs = 0
    BY <1>1 DEF Inv, ExecsInv
  <2> QED BY <1>1, <2>1, <2>2, <2>3, WaitsKeeps, EndsKeeps DEF Results
<1> QED BY <1>2, <1>3

LEMMA GrantedStep == ASSUME Inv, Granted PROVE Inv'
<1>1. EnvSame /\ st = "await" /\ (MayChange => execs = 0) /\ TypeOK
  BY DEF EnvSame, Granted, Inv, ExecsInv
<1>2. CASE \E conn \in up : conn[1] = target
  <2>1. Goes(0)
    BY <1>1, <1>2 DEF Granted, SendTo, Goes, TypeOK
  <2> QED BY <1>1, <2>1, GoesKeeps
<1>3. CASE ~\E conn \in up : conn[1] = target
  <2>1. Ends({"noalive"})
    BY <1>1, <1>3 DEF Granted, Done, Ends, TypeOK
  <2> QED BY <1>1, <2>1, EndsKeeps DEF Results
<1> QED BY <1>2, <1>3

LEMMA WakeUpStep == ASSUME Inv, WakeUp PROVE Inv'
<1>1. EnvSame /\ TypeOK
  BY DEF EnvSame, WakeUp, reqVars, Inv
<1>2. CASE st = "sleepsame"
  <2>1. Goes(0)
    BY <1>1, <1>2 DEF WakeUp, Goes, TypeOK, reqVars
  <2>2. MayChange => execs = 0
    BY <1>2 DEF Inv, ExecsInv
  <2> QED BY <1>1, <1>2, <2>1, <2>2, GoesKeeps
<1>3. CASE st = "sleepmoved"
  <2>1. TypeOK'
    BY <1>1, <1>3 DEF WakeUp, TypeOK, reqVars, envVars
  <2>2. ExecsInv' /\ ResultInv' /\ WritesNotSentHonest'
    BY <1>3 DEF WakeUp, Inv, ExecsInv, ResultInv, WritesNotSentHonest, MayChange, reqVars
  <2>3. EffortInv'
    BY <1>3 DEF WakeUp, Inv, EffortInv, Spent, reqVars
  <2> QED BY <2>1, <2>2, <2>3 DEF Inv
<1> QED BY <1>2, <1>3 DEF WakeUp

LEMMA EnvironmentStep ==
    ASSUME Inv, \/ \E conn \in Conns : Toggle(conn)
                \/ \E h \in Hosts : Remap(h)
                \/ Close \/ Cancel
    PROVE  Inv'
<1>1. UNCHANGED <<reqVars, st, sends, execs, result>>
  BY DEF Toggle, Remap, Close, Cancel
<1>2. TypeOK'
  <2>1. master' \in Hosts /\ up' \in SUBSET Conns /\ ctxdone' \in BOOLEAN /\ cancelled' \in BOOLEAN
    BY DEF Toggle, Remap, Close, Cancel, Inv, TypeOK
  <2> QED BY <1>1, <2>1 DEF Inv, TypeOK, reqVars
<1>3. ExecsInv' /\ ResultInv' /\ WritesNotSentHonest' /\ EffortInv'
  BY <1>1 DEF Inv, ExecsInv, ResultInv, WritesNotSentHonest, EffortInv, Spent, MayChange, reqVars
<1> QED BY <1>2, <1>3 DEF Inv

LEMMA NextInv == Inv /\ [Next]_vars => Inv'
<1> SUFFICES ASSUME Inv, [Next]_vars PROVE Inv'
  OBVIOUS
<1>1. CASE Start
  BY <1>1, StartStep
<1>2. CASE StartCancelled \/ StartRefused
  BY <1>2, RefusedStep
<1>3. CASE Execute
  BY <1>3, ExecuteStep
<1>4. CASE Answered
  BY <1>4, RepliedStep, FailedStep, RedirectStep DEF Answered
<1>5. CASE Granted
  BY <1>5, GrantedStep
<1>6. CASE WakeUp
  BY <1>6, WakeUpStep
<1>7. CASE \/ \E conn \in Conns : Toggle(conn)
           \/ \E h \in Hosts : Remap(h)
           \/ Close \/ Cancel
  BY <1>7, EnvironmentStep
<1>8. CASE UNCHANGED vars
  BY <1>8 DEF vars, reqVars, envVars, Inv, TypeOK, ExecsInv, ResultInv, WritesNotSentHonest,
              EffortInv, Spent, MayChange
<1> QED BY <1>1, <1>2, <1>3, <1>4, <1>5, <1>6, <1>7, <1>8 DEF Next

\* At no time has a request that may change data been executed twice, and none
\* was executed whose error says that nothing was sent, whatever redirects,
\* retries, closing and cancelling do to it (request.Resolve,
\* transaction.Resolve).
THEOREM WritesAreSafe == Spec => []RequestInv
<1>1. Inv => RequestInv
  BY DEF Inv, RequestInv, AtMostOnce, ExecsInv, MayChange
<1> QED BY InitInv, NextInv, <1>1, PTL DEF Spec

\* hardErrs and redir bound how often request.Resolve and transaction.Resolve
\* send a request, whatever the servers answer.
THEOREM EffortIsBounded == Spec => []BoundedEffort
<1>1. Inv => BoundedEffort
  <2> SUFFICES ASSUME Inv PROVE sends <= MaxSends
    BY DEF BoundedEffort
  <2>1. redir \in Nat /\ MovedRetries \in Nat /\ redir <= MovedRetries
    BY RequestAssumption DEF Inv, TypeOK
  <2>2. Spent <= MovedRetries * PerShard /\ Spent \in Nat /\ MovedRetries * PerShard \in Nat
    BY <2>1, Fewer, OneMore, PerShardFacts DEF Spent
  <2>3. hardErrs + 1 <= PerShard /\ hardErrs \in Nat
    BY RequestAssumption DEF Inv, TypeOK, EffortInv, PerShard
  <2>4. sends \in Nat /\ (sends = 0 \/ sends <= Spent + hardErrs + 1)
    BY DEF Inv, TypeOK, EffortInv
  <2> HIDE DEF Inv
  <2> QED BY <2>2, <2>3, <2>4, PerShardFacts
<1> QED BY InitInv, NextInv, <1>1, PTL DEF Spec

\* A retry after an error does not go to the connection that is just resolving
\* the request, possibly from within dropFutures with its lock held.
THEOREM RetriesGoElsewhere == Spec => RetriesElsewhere
<1>1. ASSUME Inv, [Next]_vars, NEW err \in PlainErrors, Failed(err), st' = "sent"
      PROVE  lastconn' # lastconn
  <2>1. Retry(err)
    BY <1>1 DEF Failed, Unwanted, Plain, Done
  <2>2. SendForSlot(SeenNow)
    BY <1>1, <2>1 DEF Retry, Done
  <2>3. \E conn \in Conns \ SeenNow : lastconn' = {conn}
    BY <1>1, <2>2, SendForSlotFacts DEF Inv
  <2> QED BY <2>3 DEF SeenNow
<1>2. Inv /\ [Next]_vars =>
        [\A err \in PlainErrors : Failed(err) /\ st' = "sent" => lastconn' # lastconn]_vars
  BY <1>1
<1> QED BY InitInv, NextInv, <1>2, PTL DEF Spec, RetriesElsewhere

=============================================================================
