------------------------------ MODULE MCMachine ------------------------------
(***************************************************************************)
(* One run for the models of processes, of the machines they run on, and   *)
(* of the prefixes that decide about packets, routes and adapters,         *)
(* which share no variable: scene says which of them this behaviour is     *)
(* about, and the variables of the others keep their initial values.       *)
(***************************************************************************)
EXTENDS FlowMon, ServerLife, ClientHost, NetShare, Prefixes, TLC

CONSTANTS w1, w2, n1, n2, v1, v2, s1, s2

VARIABLE scene

vars == <<fmVars, slVars, hostVars, netVars, pxVars, scene>>

(* Three flows of one account in two shards.                               *)
FlowUser == [k \in {"a", "b", "d"} |-> "v"]
FlowShard == [k \in {"a", "b", "d"} |-> IF k = "b" THEN 1 ELSE 0]

(* client.yaml's local_lans.                                               *)
TwoLans == <<"l1", "l2">>

Prefix(a, l) == [ip |-> a, len |-> l]

(* Four bits: the pool is 4..7, 0..7 and 8..11 are private.                *)
PoolNet == Prefix(4, 2)
SomePrivate == {Prefix(0, 1), Prefix(8, 2)}
Addressed == [x \in PxAccounts |-> IF x = Member THEN 6 ELSE 5]

(* A default route, the pool, the gateway alone, half the pool, part of a  *)
(* LAN, a prefix written with host bits, one that does not parse, and the  *)
(* pool's neighbour.                                                       *)
SomeRules == {Prefix(0, 0), Prefix(4, 2), Prefix(4, 4), Prefix(4, 3),
              Prefix(9, 3), Prefix(12, 1), Prefix(3, 9), Prefix(2, 3)}

(* A LAN, its half, a host of it, one too wide, one with host bits, one    *)
(* inside the pool, and one that is not private.                           *)
SomeLans == {Prefix(8, 2), Prefix(8, 3), Prefix(10, 4), Prefix(0, 1),
             Prefix(3, 2), Prefix(6, 3), Prefix(12, 2)}

SomeRoutes == {Prefix(0, 0), Prefix(8, 2), Prefix(8, 3), Prefix(8, 1), Prefix(12, 2)}

Init ==
    /\ scene \in {"flows", "process", "host", "net", "paths", "egress"}
    /\ FmInit /\ SlInit /\ HostInit /\ NetInit /\ PxInit
    /\ scene # "process" => slCfg = [history |-> FALSE, requireTun |-> FALSE, nat |-> FALSE]
    /\ scene # "host" => hRejected /\ ~hScm.installed
    /\ scene # "net" => host.edition = "home" /\ host.natural = [l \in Lans |-> n1]

Flow(A) == scene = "flows" /\ A /\ UNCHANGED <<slVars, hostVars, netVars, pxVars, scene>>
Process(A) == scene = "process" /\ A /\ UNCHANGED <<fmVars, hostVars, netVars, pxVars, scene>>
(* A bound of five starts, orders and forms.                               *)
Host(A) == scene = "host" /\ A /\ UNCHANGED <<fmVars, slVars, netVars, pxVars, scene>>
           /\ hStarts' + hForms' <= 5
Net(A) == scene = "net" /\ A /\ UNCHANGED <<fmVars, slVars, hostVars, pxVars, scene>>
Path(A) == scene = "paths" /\ A /\ UNCHANGED <<fmVars, slVars, hostVars, netVars, scene>>
Wire(A) == scene = "egress" /\ A /\ UNCHANGED <<fmVars, slVars, hostVars, netVars, scene>>

Next == Flow(FmNext) \/ Process(SlNext) \/ Host(HostNext) \/ Net(NetNext) \/ Path(Policies) \/ Wire(Egress)

Spec == Init /\ [][Next]_vars

Symmetry == Permutations({n1, n2})
              \cup Permutations({v1, v2}) \cup Permutations({s1, s2})
=============================================================================
