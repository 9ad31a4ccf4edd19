---------------------------- MODULE ClusterSlots ----------------------------
(***************************************************************************)
(* The slot table of a Cluster and its control goroutine                   *)
(* (src/rediscluster/cluster.go, mapping.go, slotrange.go).                *)
(*                                                                         *)
(* Requests load the configuration without a lock and tell control() about *)
(* MOVED and ASK answers through the bounded channel c.commands.  control()*)
(* reloads the whole mapping or changes single slots; meanwhile addNode    *)
(* (see ClusterNodes) may replace the configuration by a copy, under c.m,  *)
(* which marking a slot as asking does not take.                           *)
(***************************************************************************)
EXTENDS Integers, Sequences, FiniteSets

CONSTANTS
    Addrs,      \* addresses of redis instances
    InitAddrs,  \* addresses passed to NewCluster
    Slots,      \* slot numbers
    Topologies, \* what CLUSTER SLOTS may say: records of TopologyType
    CmdCap,     \* capacity of c.commands (4 in the code)
    MaxReloads, \* bound: successful reloads
    MaxMoved    \* bound: MOVED answers met by clients

\* shards[k] lists the addresses of a shard, master first; slots[s] is the
\* shard the slot is reported for, 0 when no range covers it.
TopologyType == [shards: Seq(Seq(Addrs)), slots: [Slots -> Nat]]

\* ParseSlotsInfo rejects an empty answer and ranges without addresses;
\* updateMappings keys the shards by their masters.
ASSUME TopologiesAssumption ==
    /\ \A t \in Topologies :
          /\ t \in TopologyType
          /\ t.shards # <<>> /\ \A k \in DOMAIN t.shards : t.shards[k] # <<>>
          /\ \A s \in Slots : t.slots[s] \in 0 .. Len(t.shards)
          /\ \A k, m \in DOMAIN t.shards : t.shards[k][1] = t.shards[m][1] => k = m

ASSUME SlotBoundsAssumption ==
    /\ InitAddrs \subseteq Addrs
    /\ CmdCap \in Nat \ {0} /\ MaxReloads \in Nat /\ MaxMoved \in Nat

-----------------------------------------------------------------------------
SlotEntry == [shard: Nat, asking: BOOLEAN]
Commands == [cmd: {"moved"}, slot: Slots, addr: Addrs] \cup [cmd: {"asking"}, slot: Slots]

VARIABLES
    nodes,     \* addresses in c.config.nodes
    shards,    \* c.config.shards, and thereby c.config.masters
    slots,     \* c.config.slots
    reloads,   \* successful reloads so far
    ctxdone,   \* c.ctx is cancelled
    control,   \* control(): "init" while NewCluster runs, "select",
               \* "reload" while it asks for the mapping, "ended"
    asking,    \* the slot execCommand has yet to mark, if any
    stale,     \* ... in a configuration that was replaced since it was loaded
    armed,     \* control() listens to c.forceReload
    forced,    \* c.forceReload holds a token
    commands,  \* c.commands
    movedLeft, \* MOVED answers that may still be met
    migrating, \* external: slots whose requests are answered with ASK
    force      \* c.internallyForceMasterOnly

cfgVars == <<nodes, shards, slots, reloads>>
ctlVars == <<ctxdone, control, asking, stale>>
forceVars == <<armed, forced>>
cmdVars == <<commands, movedLeft, migrating>>
vars == <<cfgVars, ctlVars, forceVars, cmdVars, force>>

TypeOK ==
    /\ nodes \subseteq Addrs
    /\ shards \in Seq(Seq(Addrs))
    /\ slots \in [Slots -> SlotEntry]
    /\ reloads \in 0 .. MaxReloads
    /\ control \in {"init", "select", "reload", "ended"}
    /\ asking \subseteq Slots
    /\ ctxdone \in BOOLEAN /\ stale \in BOOLEAN /\ armed \in BOOLEAN /\ forced \in BOOLEAN
    /\ commands \in Seq(Commands) /\ Len(commands) <= CmdCap
    /\ movedLeft \in 0 .. MaxMoved
    /\ migrating \subseteq Slots /\ force \subseteq Slots

\* NewCluster up to its first reload.
Init ==
    /\ nodes = InitAddrs /\ shards = <<>> /\ reloads = 0
    /\ slots = [s \in Slots |-> [shard |-> 0, asking |-> FALSE]]
    /\ ctxdone = FALSE /\ control = "init" /\ asking = {} /\ stale = FALSE
    /\ armed = TRUE /\ forced = FALSE
    /\ commands = <<>> /\ movedLeft = MaxMoved /\ migrating = {} /\ force = {}

-----------------------------------------------------------------------------
(* Reloading the mapping *)

\* Fault: only masters get nodes.
ReportedMasters(t) == {t.shards[k][1] : k \in DOMAIN t.shards}

\* addrs of updateMappings.
Reported(t) == UNION {{t.shards[k][j] : j \in DOMAIN t.shards[k]} : k \in DOMAIN t.shards}

\* The new table: a slot no range covers goes to the shard "random"; slots of
\* internallyForceMasterOnly are flagged.
SlotTable(t, random, forceMaster) ==
    [s \in Slots |-> [shard |-> IF t.slots[s] = 0 THEN random ELSE t.slots[s],
                      asking |-> s \in forceMaster]]

\* reloadMapping succeeds: some connection answered CLUSTER SLOTS with t, the
\* key CLUSTER_SELF:MASTER_ONLY held f or could not be read.
Reload(t, f) ==
    /\ reloads < MaxReloads /\ reloads' = reloads + 1
    /\ force' = f
    /\ nodes' = Reported(t) /\ shards' = t.shards
    /\ \E random \in DOMAIN t.shards : slots' = SlotTable(t, random, f)

\* NewCluster's own reload; afterwards control() starts.  The key cannot be
\* read yet: the table that is needed to send the request is empty.
FirstReload ==
    /\ control = "init" /\ control' = "select"
    /\ \E t \in Topologies : Reload(t, force)
    /\ UNCHANGED <<ctxdone, asking, stale, forceVars, cmdVars>>

\* ... or NewCluster gives up.
FirstReloadFails ==
    /\ control = "init" /\ control' = "ended" /\ ctxdone' = TRUE
    /\ UNCHANGED <<cfgVars, asking, stale, forceVars, cmdVars, force>>

InSelect == control = "select" /\ asking = {}

\* case <-t.C
TickReload ==
    /\ InSelect /\ control' = "reload"
    /\ UNCHANGED <<cfgVars, ctxdone, asking, stale, forceVars, cmdVars, force>>

\* Fault: sendCommand waits for room in the channel.
ReceivesIfRoom == Len(commands) < CmdCap

\* control() gets the answers it waits for.  The key is read by a request through
\* this cluster; when that is redirected it sends commands to control() itself,
\* and these are dropped if the channel is full.
Receives == TRUE

\* slotRangesAndInternalMasterOnly and updateMappings end, or no connection
\* answers and nothing changes.
EndReload ==
    /\ control = "reload" /\ Receives /\ control' = "select"
    /\ \/ \E t \in Topologies, f \in {force, {}, migrating} : Reload(t, f)
       \/ UNCHANGED <<cfgVars, force>>
    /\ UNCHANGED <<ctxdone, asking, stale, forceVars, cmdVars>>

\* Fault: the channel is not listened to again.
RearmedNever == FALSE

\* forceReload = c.forceReload
Rearmed == TRUE

\* case <-forceReload: not listened to until ft fires.
ForcedReload ==
    /\ InSelect /\ armed /\ forced /\ armed' = FALSE /\ forced' = FALSE
    /\ control' = "reload"
    /\ UNCHANGED <<cfgVars, ctxdone, asking, stale, cmdVars, force>>

\* case <-ft.C
AllowForced ==
    /\ InSelect /\ ~armed /\ armed' = Rearmed
    /\ UNCHANGED <<cfgVars, ctlVars, forced, cmdVars, force>>

ForceReloading ==
    /\ control # "init" /\ ~forced /\ forced' = TRUE
    /\ UNCHANGED <<cfgVars, ctlVars, armed, cmdVars, force>>

-----------------------------------------------------------------------------
(* Commands to the control goroutine *)

HasRoom == Len(commands) < CmdCap

\* sendCommand: does not block, drops the command when the channel is full.
SendCommand(cmd) ==
    /\ control # "init" /\ HasRoom
    /\ commands' = Append(commands, cmd)
    /\ UNCHANGED <<cfgVars, ctlVars, forceVars, migrating, force>>

SendMoved(s, a) ==
    /\ movedLeft > 0 /\ movedLeft' = movedLeft - 1
    /\ SendCommand([cmd |-> "moved", slot |-> s, addr |-> a])

\* Not sent for a slot that is known to be asking.
SendAsking(s) ==
    /\ s \in migrating /\ ~slots[s].asking
    /\ SendCommand([cmd |-> "asking", slot |-> s])
    /\ UNCHANGED movedLeft

\* External: an operator starts or ends the migration of a slot.
Migrate(s) ==
    /\ migrating' = IF s \in migrating THEN migrating \ {s} ELSE migrating \cup {s}
    /\ UNCHANGED <<cfgVars, ctlVars, forceVars, commands, movedLeft, force>>

MastersOf(sh) == {sh[k][1] : k \in DOMAIN sh}

\* config.masters[a]
ShardOf(a) == CHOOSE k \in DOMAIN shards : shards[k][1] = a

\* execCommand "moved", under c.m: the slot goes to the shard the address is
\* master of, if there is one, and loses its flag.
ExecMoved ==
    /\ InSelect /\ commands # <<>> /\ Head(commands).cmd = "moved"
    /\ commands' = Tail(commands)
    /\ LET cmd == Head(commands) IN
       IF cmd.addr \in MastersOf(shards) /\ ShardOf(cmd.addr) # slots[cmd.slot].shard
       THEN slots' = [slots EXCEPT ![cmd.slot] = [shard |-> ShardOf(cmd.addr), asking |-> FALSE]]
       ELSE UNCHANGED slots
    /\ UNCHANGED <<nodes, shards, reloads, ctlVars, forceVars, movedLeft, migrating, force>>

\* execCommand "asking" loads the configuration without a lock ...
ExecAsking ==
    /\ InSelect /\ commands # <<>> /\ Head(commands).cmd = "asking"
    /\ commands' = Tail(commands)
    /\ asking' = {Head(commands).slot} /\ stale' = FALSE
    /\ UNCHANGED <<cfgVars, ctxdone, control, forceVars, movedLeft, migrating, force>>

\* Fault: the flag is never stored.
MarkedNot(s) == slots[s]

\* slotMarkAsking
Marked(s) == [slots[s] EXCEPT !.asking = TRUE]

\* ... and marks the slot in it, to no effect if it was replaced meanwhile.
MarkAsking ==
    /\ asking # {} /\ asking' = {}
    /\ slots' = [s \in Slots |-> IF s \in asking /\ ~stale THEN Marked(s) ELSE slots[s]]
    /\ UNCHANGED <<nodes, shards, reloads, ctxdone, control, stale, forceVars, cmdVars, force>>

\* addNode stores a copy of the configuration with one more node.
AddNode(a) ==
    /\ control # "init" /\ a \notin nodes
    /\ nodes' = nodes \cup {a} /\ stale' = (asking # {})
    /\ UNCHANGED <<shards, slots, reloads, ctxdone, control, asking, forceVars, cmdVars, force>>

Close ==
    /\ control # "init" /\ ~ctxdone /\ ctxdone' = TRUE
    /\ UNCHANGED <<cfgVars, control, asking, stale, forceVars, cmdVars, force>>

ControlDone ==
    /\ InSelect /\ ctxdone /\ control' = "ended"
    /\ UNCHANGED <<cfgVars, ctxdone, asking, stale, forceVars, cmdVars, force>>

-----------------------------------------------------------------------------
Next ==
    \/ FirstReload \/ FirstReloadFails \/ TickReload \/ EndReload
    \/ ForcedReload \/ AllowForced \/ ForceReloading
    \/ \E s \in Slots : SendAsking(s) \/ Migrate(s) \/ \E a \in Addrs : SendMoved(s, a)
    \/ ExecMoved \/ ExecAsking \/ MarkAsking
    \/ \E a \in Addrs : AddNode(a)
    \/ Close \/ ControlDone

Spec == Init /\ [][Next]_vars

\* Go's select picks among its ready cases at random, so none of them is
\* passed over for ever; timers fire; requests are resolved, those of a reload
\* too; requests to a migrating slot keep coming and keep being answered with ASK.
Fairness ==
    /\ SF_vars(ExecMoved) /\ SF_vars(ExecAsking) /\ SF_vars(ForcedReload)
    /\ SF_vars(AllowForced) /\ SF_vars(ControlDone) /\ WF_vars(MarkAsking) /\ WF_vars(EndReload)
    /\ \A s \in Slots : SF_vars(SendAsking(s))

FairSpec == Spec /\ Fairness

-----------------------------------------------------------------------------
(* Properties *)

\* connForSlot finds a shard for every slot, and a node for every address of
\* that shard, at any moment after NewCluster has succeeded (a missing node is
\* "strange a bit", mapping.go:238).
SlotsServed ==
    reloads > 0 => \A s \in Slots :
        /\ slots[s].shard \in DOMAIN shards
        /\ \A j \in DOMAIN shards[slots[s].shard] : shards[slots[s].shard][j] \in nodes

\* What a request may rely on when it reads the table without a lock: the types,
\* the limit of c.commands included, and a shard and its nodes for every slot.
SlotsInv == TypeOK /\ SlotsServed

\* A slot that stays in migration gets its master-only flag although single
\* marks are lost to addNode, dropped from a full channel or wiped out by a
\* reload: "any updates will be retried with redis responses" (mapping.go:178).
AskingLearned ==
    \A s \in Slots : (s \in migrating /\ control \in {"select", "reload"})
                        ~> (slots[s].asking \/ s \notin migrating \/ ctxdone)

\* A reload asked for while reloads are throttled still takes place.
ForcedReloadRuns == forced ~> (~forced \/ ctxdone)

\* control() ends after Close, although it may be waiting for answers that come
\* through the very cluster it controls.
ControlEnds == (ctxdone /\ control # "init") ~> control = "ended"

=============================================================================
