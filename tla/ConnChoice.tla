----------------------------- MODULE ConnChoice -----------------------------
(***************************************************************************)
(* Which connection a request goes to: connForSlot and getConn of          *)
(* src/rediscluster/mapping.go, as functions of what they read, against    *)
(* what may be expected of the choice.                                     *)
(*                                                                         *)
(* Replicas and connections are tried in the order of a pseudo-random      *)
(* walk, which ends only after it has hit every index that is still to be  *)
(* tried.  Its generator has 32 bits in the code and Width bits here; the  *)
(* multiplier is the same, modulo 2^Width.                                 *)
(***************************************************************************)
EXTENDS Integers, Sequences, FiniteSets

CONSTANTS
    Width,    \* bits of the generator's state
    XorTable, \* the operator "^" of the language
    Shapes    \* shards to be looked at: the numbers of hosts and of their connections

Powers == LET power[i \in 0 .. Width] == IF i = 0 THEN 1 ELSE 2 * power[i - 1] IN power
Period == Powers[Width]        \* 2^Width
Upper == Powers[Width \div 2]  \* 1 << 16

States == 0 .. Period - 1

ASSUME WidthAssumption == Width \in Nat \ {0} /\ Width % 2 = 0

\* "^" is undone by itself, and changes no bit above those of its second operand.
ASSUME XorAssumption ==
    /\ XorTable \in [States \X States -> States]
    /\ \A x, y \in States :
          /\ XorTable[<<XorTable[<<x, y>>], y>>] = x
          /\ y < Upper => XorTable[<<x, y>>] \div Upper = x \div Upper

\* The masks of hosts and of connections are as wide as the generator's state
\* (uint32), so what is beyond the last bit is never tried: the sets of this
\* module stand for masks in which every index has its bit.
ASSUME ShapesAssumption ==
    \A shape \in Shapes : /\ shape[1] \in 1 .. Width /\ shape[1] * 3 <= Period
                          /\ shape[2] \in 1 .. Width /\ shape[2] <= Period

NoConn == <<>>
Endless == <<-1>> \* a walk that does not end

-----------------------------------------------------------------------------
(* nextRng *)

\* Fault: the increment is lost.
StepWithout(v) == (v * 74565) % Period

\* v*0x12345 + 1
Step(v) == (v * 74565 + 1) % Period

\* v ^ v>>16
Mixed(v) == XorTable[<<v, v \div Upper>>]

-----------------------------------------------------------------------------
(* The loops "for mask != 0", which try the index hit[off] if it is in the  *)
(* mask.                                                                    *)

Ended(walk) == walk.mask = {} \/ walk.conn # NoConn

\* One iteration.
Turn(walk, hit, try) ==
    LET k == hit[walk.off] IN
    IF Ended(walk) THEN walk
    ELSE IF k \notin walk.mask THEN [walk EXCEPT !.off = Step(@)]
    ELSE [off |-> Step(walk.off), mask |-> walk.mask \ {k}, conn |-> try[k]]

\* The variables of the loop after each iteration of a whole period; if it has not
\* ended by then it will not end.
Turns(off, mask, hit, try) ==
    LET turns[i \in 0 .. Period] ==
            IF i = 0 THEN [off |-> off, mask |-> mask, conn |-> NoConn]
            ELSE Turn(turns[i - 1], hit, try)
    IN turns

Walk(off, mask, hit, try) ==
    LET end == Turns(off, mask, hit, try)[Period]
    IN IF Ended(end) THEN end ELSE [end EXCEPT !.conn = Endless]

-----------------------------------------------------------------------------
(* Connections of a host.  What is read: the status of each connection, the *)
(* connections seen by earlier tries of the request, and n.rr.              *)

\* connHealthy and isSeen
Usable(view, c, need) == view.status[c] \in need /\ c \notin view.seen

NeedConnected == {"connected"}               \* ConnectedNow
MayBeConnected == {"connected", "connecting"}

FirstOf(f, n) ==
    LET found == {j \in 0 .. n - 1 : f[j] # NoConn}
    IN IF found = {} THEN NoConn ELSE f[CHOOSE j \in found : \A l \in found : j <= l]

\* getConnConcreteNeed
ConcreteNeed(view, h, n, policy, need, rr) ==
    LET try == [j \in 0 .. n - 1 |-> IF Usable(view, <<h, j>>, need) THEN <<h, j>> ELSE NoConn]
    IN IF policy = "PreferFirst" THEN FirstOf(try, n)
       ELSE Walk(rr, 0 .. n - 1, [v \in States |-> Mixed(v) % n], try).conn

\* getConn with needConnected or mayBeConnected.  With n = 1 both policies agree
\* with the shortcut of the code.
GetConn(view, h, n, policy, need) ==
    IF h \notin view.nodes THEN NoConn ELSE ConcreteNeed(view, h, n, policy, need, view.rr)

\* getConn with preferConnected
GetPreferred(view, h, n, policy) ==
    LET conn == GetConn(view, h, n, policy, NeedConnected)
    IN IF conn # NoConn THEN conn
       ELSE GetConn([view EXCEPT !.rr = (@ + 1) % Period], h, n, policy, MayBeConnected)

-----------------------------------------------------------------------------
(* connForSlot *)

\* The walk over the hosts: three places for each, one for the master if slaves
\* are preferred.
Places(hosts, policy) ==
    LET a == IF policy = "PreferSlaves" THEN 2 ELSE 0
    IN [v \in States |-> ((Mixed(v) % (hosts * 3 - a)) + a) \div 3]

\* What getConn gives for each host.
ConnsOf(view, shape, need) ==
    [h \in 0 .. shape[1] - 1 |-> GetConn(view, h, shape[2], view.hostpolicy, need)]

\* The two rounds of the loop over needState.  Before the second one getConn has
\* been called once for every healthy host, and has advanced its n.rr.
ForNeeds(view, shape, policy) ==
    LET places == Places(shape[1], policy)
        next == [view EXCEPT !.rr = (@ + 1) % Period]
        first == Walk(view.off, view.good, places, ConnsOf(view, shape, NeedConnected))
        second == Walk(first.off, view.good, places, ConnsOf(next, shape, MayBeConnected))
    IN IF first.conn # NoConn THEN first.conn ELSE second.conn

ConnForSlot(view, shape, policy) ==
    IF policy = "MasterOnly" THEN GetPreferred(view, 0, shape[2], view.hostpolicy)
    ELSE ForNeeds(view, shape, policy)

-----------------------------------------------------------------------------
(* What is expected *)

\* The master's bit is always set.
Masks(hosts) == {g \in SUBSET (0 .. hosts - 1) : 0 \in g}

\* Everything the choice can read, with at most one node missing and at most one
\* connection seen, and four values of n.rr.
Views(shape) ==
    LET hosts == 0 .. shape[1] - 1
        conns == hosts \X (0 .. shape[2] - 1)
    IN [off: States, rr: IF shape[2] = 1 THEN {0} ELSE 0 .. 3,
        good: Masks(shape[1]),
        nodes: IF shape[2] = 1 THEN {hosts} \cup {hosts \ {h} : h \in hosts} ELSE {hosts},
        status: [conns -> {"connected", "connecting", "down"}],
        seen: {{}} \cup {{c} : c \in conns},
        hostpolicy: IF shape[2] = 1 THEN {"PreferFirst"} ELSE {"PreferFirst", "RoundRobin"}]

Candidates(view, policy, need) ==
    {c \in DOMAIN view.status :
        /\ c[1] \in view.nodes /\ c \notin view.seen /\ view.status[c] \in need
        /\ c[1] \in (IF policy = "MasterOnly" THEN {0} ELSE view.good)}

Policies == {"MasterOnly", "MasterAndSlaves", "PreferSlaves"}

ChoiceRightFor(view, shape, policy) ==
    LET conn == ConnForSlot(view, shape, policy)
        may == Candidates(view, policy, MayBeConnected)
        established == Candidates(view, policy, NeedConnected)
    IN IF established # {} THEN conn \in established
       ELSE IF may # {} THEN conn \in may ELSE conn = NoConn

EveryChoiceRight ==
    \A shape \in Shapes : \A view \in Views(shape), policy \in Policies :
        ChoiceRightFor(view, shape, policy)

=============================================================================
