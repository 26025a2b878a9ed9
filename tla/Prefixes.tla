------------------------------ MODULE Prefixes ------------------------------
(***************************************************************************)
(* What the prefixes of a policy stand for in the places that compute with *)
(* them (netutil): the server, which merges them (vpnaccount) and checks   *)
(* packets against them (sessionmgr); the client, which makes routes and   *)
(* filters of them (clientapp, netstack); the LANs that a client           *)
(* advertises (tunnel, persist); and the choice of the adapter that leads  *)
(* to a LAN (winnet).                                                      *)
(*                                                                         *)
(* An address has Width bits instead of 32, an octet too.  A login is one  *)
(* action here: its interleavings are those of SessionMgr and LanRegistry, *)
(* and routes that cannot be changed are those of ClientPolicy.            *)
(***************************************************************************)
EXTENDS Integers, Sequences, FiniteSets, SequencesExt, FiniteSetsExt

CONSTANTS Width,          \* bits of an address
          Pool, Gateway,  \* vpn.subnet and vpn.gateway_ip
          PrivateNets,    \* 10/8, 172.16/12 and 192.168/16
          MinAdvertised,  \* MinAdvertisedLANPrefix, 16
          Member, Exit,   \* two accounts; the second may advertise LANs
          AddressOf,      \* their VPN addresses
          BaseRules,      \* allowed_ips of the member that an administrator may enter
          LanRules,       \* local_lans that may be in the exit's client.yaml
          Wires,          \* adapters of the exit's machine
          SystemNets,     \* prefixes of its routing table
          MaxRoutes       \* bound: its routes

VARIABLES
    pxTables,  \* the member's row and routes: base, access, dests
    pxRows,    \* client_lan_registry of the exit
    pxSess,    \* each account's session: up, allowed, vias, exitLans
    pxRt,      \* each client's runtime: allowed, routes, lans
    pxSystem   \* the exit's machine: addrs and routes

pxVars == <<pxTables, pxRows, pxSess, pxRt, pxSystem>>

Addresses == 0 .. 2^Width - 1
PxAccounts == {Member, Exit}
NoSession == [up |-> FALSE, allowed |-> {}, vias |-> <<>>, exitLans |-> {}]
NoRuntime == [allowed |-> {}, routes |-> {}, lans |-> {}]

----------------------------------------------------------------------------
(* netutil.  A rule is what somebody wrote: an address and a length, which *)
(* is Width for a bare address and may be too long.                        *)

Block(a, len) == a \div 2^(Width - len)
Start(a, len) == Block(a, len) * 2^(Width - len)
Parses(r) == r.len <= Width
ParseCIDROrHost(r) == [ip |-> Start(r.ip, r.len), len |-> r.len]
Covers(n, a) == Block(n.ip, n.len) = Block(a, n.len)               \* IPNet.Contains
IPInAnyNet(nets, a) == \E n \in nets : Covers(n, a)
ParseCIDRListToNets(rules) == {ParseCIDROrHost(r) : r \in {q \in rules : Parses(q)}}
HostNet(a) == [ip |-> a, len |-> Width]

NoFullTunnel(r) == Parses(r) /\ r.len # 0
Overlap(m, n) == Covers(m, n.ip) \/ Covers(n, m.ip)

(* ValidateAdvertisedLAN: not too wide, and its first address is private.  *)
Advertisable(r) ==
    /\ Parses(r) /\ r.len # 0 /\ r.len >= MinAdvertised
    /\ IPInAnyNet(PrivateNets, ParseCIDROrHost(r).ip)

NotForbidden(r) == Advertisable(r) /\ ~Overlap(ParseCIDROrHost(r), Pool)

(* ValidateIPInSubnet and ValidateSubnetGateway.                           *)
MayHave(a) == Covers(Pool, a) /\ a # Gateway
ASSUME SubnetAssumption ==
    /\ Covers(Pool, Gateway)
    /\ \A x \in PxAccounts : MayHave(AddressOf[x])
    /\ \A p \in PrivateNets : p.len <= MinAdvertised

(* Mutant of AppendCIDRUnique: whatever is entered may count as covered.   *)
SkipCovered(nets, n, skip) == IF IPInAnyNet(nets, n.ip) THEN nets ELSE nets \cup {n}

(* The host route of a peer or via is left out if a prefix contains it.    *)
AppendCIDRUnique(nets, n, skip) ==
    IF skip /\ IPInAnyNet(nets, n.ip) THEN nets ELSE nets \cup {n}

VPNIPOrInNets(x, nets, a) == a = AddressOf[x] \/ IPInAnyNet(nets, a)

----------------------------------------------------------------------------
(* The server *)

(* An account without prefixes has the default of server.yaml: the pool.   *)
ResolveAllowedIPs(base) == IF base = {} THEN {Pool} ELSE base

(* ResolveClientPolicy: the account's prefixes, the peer it may reach, and *)
(* the LANs of its managed routes that the exit has registered just so,    *)
(* with the exit's address after the first of them.                        *)
Resolve(t, rows) ==
    LET base == ParseCIDRListToNets(ResolveAllowedIPs(t.base))
        peers == IF t.access THEN AppendCIDRUnique(base, HostNet(AddressOf[Exit]), TRUE) ELSE base
        valid == SelectSeq(t.dests, LAMBDA d : d \in rows)
        addRoute(nets, d) ==
            LET routed == AppendCIDRUnique(nets, d, FALSE)
            IN  IF d = Head(valid) THEN AppendCIDRUnique(routed, HostNet(AddressOf[Exit]), TRUE)
                ELSE routed
    IN  [allowed |-> FoldLeft(addRoute, peers, valid), vias |-> valid]

(* HandleInbound: what the session takes (SessionTraffic has the rest).    *)
SourceIPAllowed(x, src) == VPNIPOrInNets(x, pxSess[x].exitLans, src)
DstAllowed(x, dst) == VPNIPOrInNets(x, pxSess[x].allowed, dst)
LookupViaSession(x, dst) ==
    pxSess[Exit].up /\ \E i \in DOMAIN pxSess[x].vias : Covers(pxSess[x].vias[i], dst)

----------------------------------------------------------------------------
(* The client *)

(* desiredClientRoutes: the gateway's host route if no prefix contains the *)
(* gateway, and every prefix but that one.                                 *)
DesiredRoutes(allowed) ==
    (allowed \ {HostNet(Gateway)})
      \cup (IF IPInAnyNet(allowed, Gateway) THEN {} ELSE {HostNet(Gateway)})

(* routeSetDiff: what syncRoutesDiffLocked adds and deletes.               *)
ToAdd(installed, desired) == desired \ installed
ToDelete(installed, desired) == installed \ desired
SyncRoutes(installed, desired) ==
    (installed \ ToDelete(installed, desired)) \cup ToAdd(installed, desired)

ShouldUploadTUN(x, src, dst) ==
    /\ VPNIPOrInNets(x, pxRt[x].lans, src)
    /\ VPNIPOrInNets(x, pxRt[x].allowed, dst)

(* addBlockFilter: an address and a mask for each prefix of the policy.    *)
Filtered(x, dst) == \E n \in pxRt[x].allowed : Start(dst, n.len) = Start(n.ip, n.len)

----------------------------------------------------------------------------
(* Sessions *)

PxInit ==
    /\ pxTables = [base |-> {}, access |-> FALSE, dests |-> <<>>]
    /\ pxRows = {}
    /\ pxSess = [x \in PxAccounts |-> NoSession]
    /\ pxRt = [x \in PxAccounts |-> NoRuntime]
    /\ pxSystem = [addrs |-> {}, routes |-> <<>>]

(* Logs in, or again: the client's runtime keeps its routes meanwhile.     *)
LogsIn(x, policy, exitLans, lans) ==
    /\ pxSess' = [pxSess EXCEPT ![x] = [up |-> TRUE, allowed |-> policy.allowed,
                                        vias |-> policy.vias, exitLans |-> exitLans]]
    /\ pxRt' = [pxRt EXCEPT ![x] =
                  [allowed |-> policy.allowed, lans |-> lans,
                   routes |-> SyncRoutes(pxRt[x].routes, DesiredRoutes(policy.allowed))]]

(* The member, after an administrator's edits (which kick it).  The dest   *)
(* of a managed route is stored as it parses.                              *)
MemberLogin(base, access, dests) ==
    /\ \A r \in base : NoFullTunnel(r)
    /\ \A i \in DOMAIN dests : NoFullTunnel(dests[i])
    /\ pxTables' = [base |-> base, access |-> access,
                    dests |-> [i \in DOMAIN dests |-> ParseCIDROrHost(dests[i])]]
    /\ LogsIn(Member, Resolve(pxTables', pxRows), {}, {})
    /\ UNCHANGED <<pxRows, pxSystem>>

(* The exit: client.yaml is refused unless every LAN of it may be          *)
(* advertised; the server keeps those that do not touch the pool.  Its     *)
(* policy is the default: the pool.                                        *)
ExitLogin(lans) ==
    /\ ~pxSess[Exit].up
    /\ \A r \in lans : Advertisable(r)
    /\ pxRows' = ParseCIDRListToNets({r \in lans : NotForbidden(r)})
    /\ LogsIn(Exit, [allowed |-> {Pool}, vias |-> <<>>], pxRows', ParseCIDRListToNets(lans))
    /\ UNCHANGED <<pxTables, pxSystem>>

(* The exit's connection is lost: its rows are cleared, and the vias that  *)
(* lead to it stay.                                                        *)
Lost ==
    /\ pxSess[Exit].up
    /\ pxSess' = [pxSess EXCEPT ![Exit] = NoSession]
    /\ pxRows' = {}
    /\ UNCHANGED <<pxTables, pxRt, pxSystem>>

----------------------------------------------------------------------------
(* The adapter that leads to a LAN *)

(* ProbeIPForCIDR: the second address of the prefix, but of the last two.  *)
ProbeIP(n) == IF n.ip < 2^Width - 2 THEN n.ip + 1 ELSE n.ip

NoRoute == [net |-> HostNet(0), metric |-> 0, wire |-> "none"]

(* Mutant of Better: the metric decides.                                   *)
Cheaper(r, best) == best = NoRoute \/ r.metric < best.metric

Better(r, best) ==
    \/ best = NoRoute \/ r.net.len > best.net.len
    \/ r.net.len = best.net.len /\ r.metric < best.metric

(* ResolveOutboundNatural: an adapter with an address in the LAN, the best *)
(* route to the probe, or the default route with the least metric.         *)
ResolveOutbound(lan) ==
    LET own == {h \in pxSystem.addrs : Covers(lan, h.ip)}
        pick(best, r) == IF Better(r, best) THEN r ELSE best
        special == SelectSeq(pxSystem.routes,
                             LAMBDA r : r.net.len # 0 /\ Covers(r.net, ProbeIP(lan)))
        default == SelectSeq(pxSystem.routes, LAMBDA r : r.net.len = 0)
    IN  IF own # {} THEN {h.wire : h \in own}                     \* the first of them
        ELSE {FoldLeft(pick, NoRoute, IF special # <<>> THEN special ELSE default).wire}

RouteAppears(n, metric, w) ==
    /\ Len(pxSystem.routes) < MaxRoutes
    /\ pxSystem' = [pxSystem EXCEPT !.routes = Append(@, [net |-> n, metric |-> metric, wire |-> w])]
    /\ UNCHANGED <<pxTables, pxRows, pxSess, pxRt>>

(* An address comes with the on-link route of its prefix.                  *)
AddressAppears(n, a, w) ==
    /\ pxSystem.addrs = {} /\ pxSystem.routes = <<>> /\ Covers(n, a) /\ n.len # 0
    /\ pxSystem' = [addrs |-> {[ip |-> a, wire |-> w]},
                    routes |-> <<[net |-> n, metric |-> 1, wire |-> w]>>]
    /\ UNCHANGED <<pxTables, pxRows, pxSess, pxRt>>

(* A bound: a policy has two entries (prefixes, managed routes, a peer).   *)
Sized(p) == Cardinality(p.base) + Len(p.dests) + (IF p.access THEN 1 ELSE 0) <= 2

SmallPolicies ==
    {p \in [base : UNION {kSubset(k, BaseRules) : k \in 0..2}, access : BOOLEAN,
            dests : BoundedSeq(LanRules, 2)] : Sized(p)}

SmallLans == UNION {kSubset(k, LanRules) : k \in 0..2}

Policies ==
    \/ \E p \in SmallPolicies : MemberLogin(p.base, p.access, p.dests)
    \/ \E lans \in SmallLans : ExitLogin(lans)
    \/ Lost

Egress ==
    \E n \in SystemNets, w \in Wires :
        \/ \E metric \in 1..2 : RouteAppears(n, metric, w)
        \/ \E a \in Addresses : AddressAppears(n, a, w)

----------------------------------------------------------------------------
(* Properties *)

(* The reference: the addresses a rule is about agree with it in as many   *)
(* bits as its length says.                                                *)
Bit(a, i) == (a \div 2^(Width - i)) % 2
SpanOf == [r \in [ip : Addresses, len : 0..Width] |->
             {a \in Addresses : \A i \in 1 .. r.len : Bit(a, i) = Bit(r.ip, i)}]
Span(r) == SpanOf[r]
Spans(rules) == UNION {Span(r) : r \in rules}

(* What the administrator means the member to reach: the addresses of its  *)
(* prefixes, a peer, the managed LANs and the account that leads to them.  *)
Meant(x) ==
    IF x = Exit THEN Span(Pool)
    ELSE (IF pxTables.base = {} THEN Span(Pool) ELSE Spans(pxTables.base)) \cup Spans(Range(pxSess[x].vias))
           \cup (IF pxTables.access \/ pxSess[x].vias # <<>> THEN {AddressOf[Exit]} ELSE {})

(* Routes, the client's filter, the server's check and the kill switch all *)
(* stand for the addresses that are meant, whatever prefixes were merged,  *)
(* skipped and left from the policy before.  The client routes them and    *)
(* the gateway into the tunnel (not a gateway that has a rule of its own,  *)
(* and no wider one: desiredClientRoutes); it uploads, and the server      *)
(* takes, those that are meant; the kill switch blocks just them.          *)
RoutesAsMeant(x) ==
    LET routed == {a \in Addresses : IPInAnyNet(pxRt[x].routes, a)}
        named == HostNet(Gateway) \in pxRt[x].allowed
    IN  /\ routed \ {Gateway} = Meant(x) \ {Gateway}
        /\ named \/ Gateway \in routed
        /\ \A a \in Addresses : a # AddressOf[x] =>
             /\ ShouldUploadTUN(x, AddressOf[x], a) <=> a \in Meant(x)
             /\ SourceIPAllowed(x, AddressOf[x])
             /\ DstAllowed(x, a) <=> a \in Meant(x)
             /\ Filtered(x, a) <=> a \in Meant(x)

(* The exit speaks for its own address and for private ones that it has in *)
(* client.yaml, never for an address of the pool, and the server takes     *)
(* from it what its client uploads, unless the LAN touches the pool.       *)
SourcesAsAdvertised ==
    \A src \in Addresses \ {AddressOf[Exit]} :
        /\ SourceIPAllowed(Exit, src)
             => src \in Spans(PrivateNets) \ Span(Pool) /\ IPInAnyNet(pxRt[Exit].lans, src)
        /\ IPInAnyNet({n \in pxRt[Exit].lans : Span(n) \cap Span(Pool) = {}}, src)
             => SourceIPAllowed(Exit, src)

PathsTrue ==
    /\ \A x \in PxAccounts : pxSess[x].up => RoutesAsMeant(x)
    /\ pxSess[Exit].up => SourcesAsAdvertised
    (* A managed route never takes packets for addresses of the pool.      *)
    /\ pxSess[Member].vias # <<>> => \A a \in Span(Pool) : ~LookupViaSession(Member, a)

(* Windows' choice for an address is among these: between routes of one    *)
(* length it adds the adapter's metric, which the snapshot does not have.  *)
Longest(a) ==
    LET match == {r \in Range(pxSystem.routes) : a \in Span(r.net)}
    IN  {r.wire : r \in {q \in match : \A r \in match : r.net.len <= q.net.len}}

(* The adapter that is shared for a LAN is one that Windows may send       *)
(* packets through, for every address of it, unless a route divides the    *)
(* LAN, the machine has an address in it (which wins, whatever the         *)
(* routes), or the LAN is a single address: the probe is its neighbour     *)
(* then.                                                                   *)
OutboundTrue ==
  pxSystem.routes # <<>> =>
    \A lan \in ParseCIDRListToNets({r \in LanRules : NotForbidden(r)}) :
        \/ lan.len = Width
        \/ \E r \in Range(pxSystem.routes) : r.net.len > lan.len /\ Overlap(r.net, lan)
        \/ \E h \in pxSystem.addrs : h.ip \in Span(lan)
        \/ \A a \in Span(lan) : Longest(a) # {} => ResolveOutbound(lan) \subseteq Longest(a)
=============================================================================
