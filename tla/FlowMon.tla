------------------------------ MODULE FlowMon ------------------------------
(***************************************************************************)
(* The server's flow table: goroutines that forward packets count them in  *)
(* shards with a lock each, and a new flow takes all the locks to keep its *)
(* account below the limit, while the console lists the table.  Lengths    *)
(* add up like packets do, and a direction only chooses the counter.       *)
(***************************************************************************)
EXTENDS Integers, FiniteSets

CONSTANTS Flows,        \* Key: the five-tuples, each with its account
          UserOfFlow,   \* Key.UserID
          ShardOf,      \* shardIndex
          LastShard,    \* the shards are 0..LastShard
          Forwarders,   \* goroutines in HandleInbound or sendToAccount
          MaxPerUser,
          FlowTTL,      \* ticks without a packet after which a flow goes
          Every,        \* observeTTLEvery
          MaxPackets,   \* bound: packets of a behaviour
          MaxTime       \* bound: ticks of the clock

ASSUME FlowAssumption ==
    /\ IsFiniteSet(Flows) /\ MaxPerUser \in Nat \ {0} /\ LastShard \in Nat
    /\ ShardOf \in [Flows -> 0..LastShard] /\ Every \in Nat \ {0}

VARIABLES
    fmTable,    \* the flows of all shards: when last seen, packets
    fmSeen,     \* observeN of a shard, modulo Every
    fmWork,     \* what a forwarder is doing with its packet
    fmHeld,     \* the shards whose lock a forwarder holds
    fmList,     \* List: the shard it comes to next, its cutoff, its rows
    fmTime, fmPackets,
    fmCounted   \* packets observed of a flow since it last went

fmVars == <<fmTable, fmSeen, fmWork, fmHeld, fmList, fmTime, fmPackets, fmCounted>>

Shards == 0..LastShard
NoFlow == [packets |-> 0, last |-> 0]
NoPacket == [pc |-> "idle", flow |-> "none", now |-> 0]
NotListing == [shard |-> LastShard + 1, cutoff |-> 0, rows |-> {}]
LiveFlows == {k \in Flows : fmTable[k].packets > 0}
FlowsOf(u) == {k \in LiveFlows : UserOfFlow[k] = u}
InShard(i) == {k \in LiveFlows : ShardOf[k] = i}
Unlocked(i) == \A f \in Forwarders : i \notin fmHeld[f]

FmTypeOK ==
    /\ fmTable \in [Flows -> [packets : Nat, last : Nat]]
    /\ fmSeen \in [Shards -> 0..Every - 1]
    /\ fmWork \in [Forwarders -> [pc : {"idle", "hot", "lock", "recheck", "evict", "put"},
                                  flow : Flows \cup {"none"}, now : Nat]]
    /\ fmHeld \in [Forwarders -> SUBSET Shards]
    /\ fmList \in [shard : 0..LastShard + 1, cutoff : Nat, rows : SUBSET Flows]
    /\ fmTime \in Nat /\ fmPackets \in Nat /\ fmCounted \in [Flows -> Nat]

FmInit ==
    /\ fmTable = [k \in Flows |-> NoFlow] /\ fmSeen = [i \in Shards |-> 0]
    /\ fmWork = [f \in Forwarders |-> NoPacket] /\ fmHeld = [f \in Forwarders |-> {}]
    /\ fmList = NotListing
    /\ fmTime = 0 /\ fmPackets = 0 /\ fmCounted = [k \in Flows |-> 0]

-----------------------------------------------------------------------------
FmGoto(f, label) == fmWork' = [fmWork EXCEPT ![f].pc = label]

(* The table without some flows.                                           *)
FlowsGone(gone) ==
    /\ fmTable' = [k \in Flows |-> IF k \in gone THEN NoFlow ELSE fmTable[k]]
    /\ fmCounted' = [k \in Flows |-> IF k \in gone THEN 0 ELSE fmCounted[k]]

(* bumpFlowLocked: LastSeen is the time read before the lock was taken.    *)
Bumped(table, k, now) == [table EXCEPT ![k] = [packets |-> @.packets + 1, last |-> now]]

Stale(i, now) == {k \in InShard(i) : fmTable[k].last < now - FlowTTL}

(* ObservePacket: the packet is parsed and the clock read.                 *)
Observe(f) ==
    /\ fmWork[f].pc = "idle" /\ fmPackets < MaxPackets
    /\ \E k \in Flows : fmWork' = [fmWork EXCEPT ![f] = [pc |-> "hot", flow |-> k, now |-> fmTime]]
    /\ fmPackets' = fmPackets + 1
    /\ UNCHANGED <<fmTable, fmSeen, fmHeld, fmList, fmTime, fmCounted>>

(* The flow's shard alone: every so often its stale flows go, and a flow   *)
(* that is there counts the packet.                                        *)
HotPath(f) ==
    LET k == fmWork[f].flow  i == ShardOf[k]  now == fmWork[f].now
        gone == IF (fmSeen[i] + 1) % Every = 0 THEN Stale(i, now) ELSE {}
        table == [j \in Flows |-> IF j \in gone THEN NoFlow ELSE fmTable[j]]
        counted == [j \in Flows |-> IF j \in gone THEN 0 ELSE fmCounted[j]]
    IN  /\ fmWork[f].pc = "hot" /\ Unlocked(i)
        /\ fmSeen' = [fmSeen EXCEPT ![i] = (@ + 1) % Every]
        /\ IF table[k].packets > 0
           THEN /\ fmTable' = Bumped(table, k, now)
                /\ fmCounted' = [counted EXCEPT ![k] = @ + 1]
                /\ fmWork' = [fmWork EXCEPT ![f] = NoPacket]
           ELSE fmTable' = table /\ fmCounted' = counted /\ FmGoto(f, "lock")
        /\ UNCHANGED <<fmHeld, fmList, fmTime, fmPackets>>

(* Mutant of Wanted: a new flow takes the lock of its own shard.           *)
OwnShard(f) == {ShardOf[fmWork[f].flow]}

Wanted(f) == Shards

(* lockAllShards: in ascending order.                                      *)
LockNext(f) ==
    /\ fmWork[f].pc = "lock"
    /\ \E i \in Wanted(f) \ fmHeld[f] :
          /\ \A j \in Wanted(f) \ fmHeld[f] : i <= j
          /\ Unlocked(i)
          /\ fmHeld' = [fmHeld EXCEPT ![f] = @ \cup {i}]
          /\ IF fmHeld'[f] = Wanted(f) THEN FmGoto(f, "recheck") ELSE UNCHANGED fmWork
    /\ UNCHANGED <<fmTable, fmSeen, fmList, fmTime, fmPackets, fmCounted>>

CountPacket(f) ==
    /\ fmTable' = Bumped(fmTable, fmWork[f].flow, fmWork[f].now)
    /\ fmCounted' = [fmCounted EXCEPT ![fmWork[f].flow] = @ + 1]
    /\ fmWork' = [fmWork EXCEPT ![f] = NoPacket]
    /\ fmHeld' = [fmHeld EXCEPT ![f] = {}]

(* Someone else's packet of the flow may have come first.                  *)
Recheck(f) ==
    /\ fmWork[f].pc = "recheck"
    /\ IF fmTable[fmWork[f].flow].packets > 0
       THEN CountPacket(f)
       ELSE FmGoto(f, "evict") /\ UNCHANGED <<fmTable, fmCounted, fmHeld>>
    /\ UNCHANGED <<fmSeen, fmList, fmTime, fmPackets>>

(* evictOldestUserLocked, of the account's flows.                          *)
Evict(f) ==
    LET u == UserOfFlow[fmWork[f].flow] IN
    /\ fmWork[f].pc = "evict"
    /\ IF Cardinality(FlowsOf(u)) >= MaxPerUser
       THEN /\ \E k \in FlowsOf(u) : /\ \A j \in FlowsOf(u) : fmTable[k].last <= fmTable[j].last
                                     /\ FlowsGone({k})
            /\ UNCHANGED fmWork
       ELSE FmGoto(f, "put") /\ UNCHANGED <<fmTable, fmCounted>>
    /\ UNCHANGED <<fmSeen, fmHeld, fmList, fmTime, fmPackets>>

(* The flow is new: what was there under its key is replaced.              *)
Put(f) ==
    /\ fmWork[f].pc = "put"
    /\ fmTable' = [fmTable EXCEPT ![fmWork[f].flow] = [packets |-> 1, last |-> fmWork[f].now]]
    /\ fmCounted' = [fmCounted EXCEPT ![fmWork[f].flow] = @ + 1]
    /\ fmWork' = [fmWork EXCEPT ![f] = NoPacket]
    /\ fmHeld' = [fmHeld EXCEPT ![f] = {}]
    /\ UNCHANGED <<fmSeen, fmList, fmTime, fmPackets>>

(* List: shard after shard, removing what is stale by its own clock.       *)
ListStarts ==
    /\ fmList.shard > LastShard
    /\ fmList' = [shard |-> 0, cutoff |-> fmTime, rows |-> {}]
    /\ UNCHANGED <<fmTable, fmSeen, fmWork, fmHeld, fmTime, fmPackets, fmCounted>>

ListShard ==
    LET i == fmList.shard  gone == Stale(i, fmList.cutoff) IN
    /\ i <= LastShard /\ Unlocked(i)
    /\ FlowsGone(gone)
    /\ fmList' = [fmList EXCEPT !.shard = i + 1, !.rows = @ \cup (InShard(i) \ gone)]
    /\ UNCHANGED <<fmSeen, fmWork, fmHeld, fmTime, fmPackets>>

FlowClock ==
    /\ fmTime < MaxTime
    /\ fmTime' = fmTime + 1
    /\ UNCHANGED <<fmTable, fmSeen, fmWork, fmHeld, fmList, fmPackets, fmCounted>>

Forwarding(f) == Observe(f) \/ HotPath(f) \/ LockNext(f) \/ Recheck(f) \/ Evict(f) \/ Put(f)

FmNext == (\E f \in Forwarders : Forwarding(f)) \/ ListStarts \/ ListShard \/ FlowClock

FmSpec == FmInit /\ [][FmNext]_fmVars

-----------------------------------------------------------------------------
(* flowmon/tracker.go, ObservePacket: counting, evicting and inserting are *)
(* one, so no account ever has more flows than the limit.                  *)
FlowLimit == \A u \in {UserOfFlow[k] : k \in Flows} : Cardinality(FlowsOf(u)) <= MaxPerUser

(* Every packet is counted once, by the flow that was there or the new     *)
(* one: none is lost to a flow that another goroutine has just put in.     *)
PacketsCounted == \A k \in Flows : fmTable[k].packets = fmCounted[k]

(* Whoever waits for a lock holds only locks of lower shards: the order in *)
(* which all of them are taken never makes forwarders wait for each other. *)
LocksAscend ==
    \A f \in Forwarders : \E n \in 0..LastShard + 1 : fmHeld[f] = 0..n - 1

FlowsTrue == FlowLimit /\ PacketsCounted /\ LocksAscend
=============================================================================
