---------------------------- MODULE ClientPolicy ----------------------------
(***************************************************************************)
(* runtime.applyPolicy and what undoes it: the TUN address, the split      *)
(* routes, the adapter's DNS and the via exit (NAT or Windows ICS) that a  *)
(* pushed policy asks for, against what is really installed in the system. *)
(* applyPolicy holds rt.mu throughout; it is cut at its stages, because a  *)
(* Stop may cancel it between two of them.  A route is the prefix it is    *)
(* for: on Windows routes are on-link and the gateway is not part of them. *)
(***************************************************************************)
EXTENDS Naturals, FiniteSets

CONSTANTS Cidrs,      \* prefixes of AllowedIPs
          Addresses,  \* VPN addresses
          Gateways,   \* gateway addresses; a gateway is also its /32 route
          Servers,    \* lists of DNS servers
          Subnets,    \* vpn_subnet
          Covers      \* Covers[p]: the gateways inside prefix p

(* No subnet is the empty text, and what residue calls the rest is no route.*)
ASSUME PolicyAssumption ==
    /\ "none" \notin Subnets
    /\ {"dns", "nat", "reset"} \cap (Cidrs \cup Gateways) = {}

VARIABLES
    rt,       \* the runtime: tun, ip, gw, routes, dns, via (the stack's subnet), fp (viaFP)
    sys,      \* the system: routes, dns, saved and applied of netstack's DNS table, nat
    policy,   \* the policy being applied, or applied last
    lans,     \* local_lans is not empty
    stage,    \* where applyPolicy is, or how it ended
    defer,    \* deferRoutes
    count,    \* [add, fail]: the routes installed and those that failed
    residue   \* what the system kept because a call to it failed half way

polVars == <<rt, sys, policy, lans, stage, defer, count, residue>>

None == "none"
Policies == [ip : Addresses, gw : Gateways, allowed : SUBSET Cidrs,
             dns : Servers \cup {None}, subnet : Subnets]

NoPolicy == [ip |-> None, gw |-> None, allowed |-> {}, dns |-> None, subnet |-> None]
NoCount == [add |-> {}, fail |-> {}]
Fresh == [tun |-> FALSE, ip |-> None, gw |-> None, routes |-> {}, dns |-> None,
          via |-> None, fp |-> "unknown"]

PolInit ==
    /\ rt = Fresh
    /\ sys = [routes |-> {}, dns |-> None, saved |-> FALSE, applied |-> None, nat |-> FALSE]
    /\ policy = NoPolicy
    /\ lans \in BOOLEAN
    /\ stage = "idle"
    /\ defer = FALSE
    /\ count = NoCount
    /\ residue = {}

----------------------------------------------------------------------------
(* Operators *)

(* desiredClientRoutes: the gateway's /32 unless a prefix contains it; a   *)
(* prefix that is that very /32 is not added a second time.                *)
Desired(p) == (p.allowed \ {p.gw})
                \cup (IF \E q \in p.allowed : p.gw \in Covers[q] THEN {} ELSE {p.gw})

(* viaFingerprint has no address in it; empty without local_lans.          *)
Fingerprint(p) == IF lans THEN p.subnet ELSE None

WillSetUp(p) == lans /\ ~(rt.fp = Fingerprint(p) /\ rt.via # None)

(* Mutant of RestoreDNS: the adapter is forgotten and not reset. *)
ForgetDNS(ok) == [sys EXCEPT !.saved = FALSE, !.applied = None]

(* RestoreDNS forgets the adapter before it resets it, which may fail.     *)
RestoreDNS(ok) == [sys EXCEPT !.saved = FALSE, !.applied = None,
                              !.dns = IF sys.saved /\ ok THEN None ELSE @]
DnsResidue(ok) == IF sys.saved /\ ~ok /\ sys.dns # None THEN {"dns"} ELSE {}

(* ApplyDNS saves what was there before it writes for the first time, and  *)
(* skips a list that it has written already.                               *)
ApplyDNS(list) == IF sys.applied = list THEN sys
                  ELSE [sys EXCEPT !.dns = list, !.saved = TRUE, !.applied = list]

(* What Stack.Setup leaves on, with NAT, ICS or only forwarding, and what  *)
(* its teardown does.                                                      *)
NatAfterSetup == {sys.nat, TRUE}
NatAfterTeardown(preserve) == sys.nat /\ (rt.via = None \/ preserve)

(* Which routes a policy deletes, keeps and adds: none is kept on a new    *)
(* device or behind a new gateway, and while the via exit is still to be   *)
(* set up nothing is added.                                                *)
Change(p) ==
    LET want == Desired(p)
        same == [del |-> {}, keep |-> rt.routes, add |-> {}]
        all(old) == [del |-> old, keep |-> {}, add |-> IF WillSetUp(p) THEN {} ELSE want]
        moved == rt.ip # p.ip
    IN  CASE ~rt.tun -> all({})
          [] rt.tun /\ moved /\ (WillSetUp(p) \/ (rt.gw = p.gw /\ rt.routes = want)) -> same
          [] rt.tun /\ moved /\ ~WillSetUp(p) /\ ~(rt.gw = p.gw /\ rt.routes = want) -> all(rt.routes)
          [] rt.tun /\ ~moved /\ rt.gw # p.gw -> all(rt.routes)
          [] rt.tun /\ ~moved /\ rt.gw = p.gw /\ WillSetUp(p) -> same
          [] rt.tun /\ ~moved /\ rt.gw = p.gw /\ ~WillSetUp(p) ->
                [del |-> rt.routes \ want, keep |-> rt.routes \cap want, add |-> want \ rt.routes]

(* The system after a change: some deletions and additions fail.  On       *)
(* Windows DelClientRoute reports no failure, AddClientRoute none for a    *)
(* route that exists.                                                      *)
Left(from, c, stays) == (from \ c.del) \cup stays
Changes(from, c) ==
    {[stays |-> x, fail |-> f] : x \in SUBSET (c.del \cap from), f \in SUBSET (c.add \ from)}

----------------------------------------------------------------------------
(* applyPolicy, stages 1 and 2: the device and, unless deferred, routes.   *)
(* The new address is set on the open device after its DNS was reset.      *)

Forget == policy' = NoPolicy /\ defer' = FALSE /\ count' = NoCount

Moves(p) == rt.tun /\ rt.ip # p.ip

ApplyPolicy(p) ==
    /\ stage \in {"idle", "ok", "warn"}
    /\ policy' = p
    /\ defer' = WillSetUp(p)
    /\ \E ok \in BOOLEAN :
          LET c == Change(p)
              base == IF Moves(p) THEN RestoreDNS(ok) ELSE sys
              dns == CASE ~rt.tun \/ (Moves(p) /\ p.dns # None /\ rt.dns # p.dns) -> None
                       [] OTHER -> rt.dns
              slips == IF Moves(p) THEN DnsResidue(ok) \cup {"reset"} ELSE {}
          IN  \/ /\ Moves(p) \/ ~rt.tun                    \* Replace or Open fails
                 /\ stage' = "failed"
                 /\ rt' = [rt EXCEPT !.dns = dns]
                 /\ sys' = base
                 /\ residue' = residue \cup slips
                 /\ UNCHANGED count
              \/ \E x \in Changes(base.routes, c) :
                    /\ stage' = "dns"
                    /\ rt' = [rt EXCEPT !.tun = TRUE, !.ip = p.ip, !.gw = p.gw, !.dns = dns,
                                        !.routes = c.keep \cup (c.add \ x.fail),
                                        !.fp = IF rt.tun THEN @ ELSE "unknown"]
                    /\ sys' = [base EXCEPT !.routes = Left(@, c, x.stays) \cup (c.add \ x.fail)]
                    /\ count' = [add |-> c.add \ x.fail, fail |-> x.fail]
                    /\ residue' = (residue \cup slips \cup x.stays) \ rt'.routes
    /\ UNCHANGED lans

(* Stop has cancelled: before the new address, before DNS, before via.     *)
Abort ==
    /\ stage \in {"dns", "via"}
    /\ stage' = "aborted"
    /\ Forget
    /\ UNCHANGED <<rt, sys, lans, residue>>

(* Stage 4.                                                                *)
DnsStage ==
    /\ stage = "dns"
    /\ stage' = "via"
    /\ \/ /\ policy.dns = None \/ rt.dns = policy.dns
          /\ UNCHANGED <<rt, sys, residue>>
       \/ /\ policy.dns # None /\ rt.dns # policy.dns
          /\ rt' = [rt EXCEPT !.dns = policy.dns]
          /\ sys' = ApplyDNS(policy.dns)
          /\ residue' = residue \ {"dns", "reset"}
       \/ /\ policy.dns # None /\ rt.dns # policy.dns /\ sys.applied # policy.dns
          /\ sys' = [sys EXCEPT !.saved = TRUE]            \* the write fails
          /\ UNCHANGED <<rt, residue>>
    /\ UNCHANGED <<policy, lans, defer, count>>

(* Stage 5.  What an engine before it has left is cleaned up when this one *)
(* has no local_lans; otherwise it is used again.                          *)
ViaOff ==
    /\ stage = "via" /\ ~lans
    /\ stage' = "routes"
    /\ rt' = [rt EXCEPT !.fp = None, !.via = None]
    /\ sys' \in IF rt.fp = None THEN {sys} ELSE {sys, [sys EXCEPT !.nat = FALSE]}
    /\ residue' = IF sys'.nat THEN residue ELSE residue \ {"nat"}
    /\ UNCHANGED <<policy, lans, defer, count>>

ViaKept ==
    /\ stage = "via" /\ lans /\ rt.fp = Fingerprint(policy) /\ rt.via # None
    /\ stage' = "routes"
    /\ UNCHANGED <<rt, sys, policy, lans, defer, count, residue>>

(* Stack.Setup succeeds, with NAT or only forwarding, and may flush the    *)
(* routes; they are deleted and installed again.                           *)
ViaSetUp ==
    /\ stage = "via" /\ lans /\ ~(rt.fp = Fingerprint(policy) /\ rt.via # None)
    /\ \E nat \in NatAfterSetup, flushed \in {{}, rt.routes} :
          LET c == [del |-> rt.routes, keep |-> {}, add |-> Desired(policy)]
              from == sys.routes \ flushed
          IN  \E x \in Changes(from, c) :
                /\ rt' = [rt EXCEPT !.via = policy.subnet, !.fp = Fingerprint(policy),
                                    !.routes = c.add \ x.fail]
                /\ sys' = [sys EXCEPT !.nat = nat,
                                      !.routes = Left(from, c, x.stays) \cup (c.add \ x.fail)]
                /\ count' = [add |-> c.add \ x.fail, fail |-> x.fail]
                /\ residue' = ((residue \ {"nat"}) \cup x.stays) \ rt'.routes
    /\ stage' = "routes"
    /\ UNCHANGED <<policy, lans, defer>>

(* Setup fails, or is cancelled when sharing may be enabled already; then  *)
(* nobody owns it.  Deferred routes are installed all the same.            *)
ViaFails ==
    /\ stage = "via" /\ lans /\ ~(rt.fp = Fingerprint(policy) /\ rt.via # None)
    /\ \E nat \in NatAfterSetup :
          LET c == [del |-> {}, keep |-> rt.routes,
                    add |-> IF defer /\ rt.routes = {} THEN Desired(policy) ELSE {}]
          IN  \E x \in Changes(sys.routes, c) :
                /\ rt' = [rt EXCEPT !.via = None, !.fp = "unknown",
                                    !.routes = c.keep \cup (c.add \ x.fail)]
                /\ sys' = [sys EXCEPT !.nat = nat, !.routes = @ \cup (c.add \ x.fail)]
                /\ residue' = (residue \cup (IF nat THEN {"nat"} ELSE {})) \ rt'.routes
                /\ stage' = IF nat # sys.nat THEN "aborted" ELSE "failed"
    /\ Forget
    /\ UNCHANGED lans

(* checkRouteInstallResult: nothing installed is an error, some a warning. *)
Installed == count.add # {} \/ (count.fail = {} /\ rt.routes # {})

(* Mutant of RouteCheck: failures are not looked at when a route was installed. *)
AnyRoute ==
    /\ stage = "routes"
    /\ stage' = IF Installed THEN "ok" ELSE "failed"
    /\ defer' = FALSE /\ count' = NoCount
    /\ UNCHANGED <<rt, sys, policy, lans, residue>>

RouteCheck ==
    /\ stage = "routes"
    /\ stage' = CASE ~Installed -> "failed"
                  [] Installed /\ count.fail # {} -> "warn"
                  [] Installed /\ count.fail = {} -> "ok"
    /\ defer' = FALSE /\ count' = NoCount
    /\ UNCHANGED <<rt, sys, policy, lans, residue>>

----------------------------------------------------------------------------
(* clearRoutesLocked: via, DNS, then the routes *)

Undo(preserve, r) ==
    \E ok \in BOOLEAN, stays \in SUBSET rt.routes :
        /\ sys' = [IF rt.tun THEN RestoreDNS(ok) ELSE sys EXCEPT
                     !.nat = NatAfterTeardown(preserve),
                     !.routes = IF rt.tun THEN (@ \ rt.routes) \cup (@ \cap stays) ELSE @]
        /\ rt' = r
        /\ residue' = ((residue \ {"reset"})
                         \cup (IF rt.tun THEN DnsResidue(ok) \cup (sys.routes \cap stays) ELSE {})
                         \cup (IF rt.via # None /\ preserve /\ sys.nat THEN {"nat"} ELSE {}))

(* dataplaneFailed, with the kill switch in place. *)
ClearRoutes ==
    /\ stage = "failed"
    /\ Undo(FALSE, [rt EXCEPT !.via = None, !.fp = "unknown", !.dns = None, !.routes = {}])
    /\ stage' = "cleared"
    /\ Forget
    /\ UNCHANGED lans

(* Stop or StopKeepICS; the next engine has a new runtime.                 *)
CloseRuntime ==
    /\ stage \in {"idle", "ok", "warn", "failed", "aborted", "cleared"} /\ rt.tun
    /\ \E preserve \in BOOLEAN : Undo(preserve, Fresh)
    /\ stage' = "idle"
    /\ lans' \in BOOLEAN
    /\ Forget

(* A policy that failed before there was a device.                         *)
CloseNothing ==
    /\ stage = "failed" /\ ~rt.tun
    /\ stage' = "idle"
    /\ Forget
    /\ UNCHANGED <<rt, sys, lans, residue>>

PolNext ==
    \/ \E p \in Policies : ApplyPolicy(p)
    \/ Abort \/ DnsStage \/ ViaOff \/ ViaKept \/ ViaSetUp \/ ViaFails \/ RouteCheck
    \/ ClearRoutes \/ CloseRuntime \/ CloseNothing

PolSpec == PolInit /\ [][PolNext]_polVars

----------------------------------------------------------------------------
(* Properties *)

Routes == Cidrs \cup Gateways

PolTypeOK ==
    /\ rt \in [tun : BOOLEAN, ip : Addresses \cup {None}, gw : Gateways \cup {None},
               routes : SUBSET Routes, dns : Servers \cup {None}, via : Subnets \cup {None},
               fp : Subnets \cup {None, "unknown"}]
    /\ sys \in [routes : SUBSET Routes, dns : Servers \cup {None}, saved : BOOLEAN,
                applied : Servers \cup {None}, nat : BOOLEAN]
    /\ policy \in Policies \cup {NoPolicy}
    /\ {lans, defer} \subseteq BOOLEAN
    /\ stage \in {"idle", "dns", "via", "routes", "ok", "warn", "failed", "aborted", "cleared"}
    /\ count \in [add : SUBSET Routes, fail : SUBSET Routes]
    /\ residue \subseteq Routes \cup {"dns", "nat", "reset"}

(* After a policy was applied, the routes the client counts on are in the  *)
(* system and are the policy's, every one of them unless a warning says    *)
(* so; the via exit is the policy's; and the DNS servers it takes for      *)
(* written are.  The exception: a new address on the open device resets    *)
(* DNS and does not write an unchanged list again.                         *)
AppliedAsPolicy ==
    stage \in {"ok", "warn"} =>
        /\ rt.routes \subseteq sys.routes \cap Desired(policy)
        /\ stage = "ok" => rt.routes = Desired(policy)
        /\ lans => rt.via = policy.subnet
        /\ rt.dns # None => sys.dns = rt.dns \/ "reset" \in residue

(* Without a device nothing of any policy is left in the system but what a *)
(* failed call left there, or NAT that StopKeepICS or a Setup cut short    *)
(* did: after a failure at any stage, and after any sequence of policies.  *)
PolicyUndone ==
    ~rt.tun => /\ sys.routes \subseteq residue
               /\ sys.dns # None => "dns" \in residue
               /\ sys.nat => "nat" \in residue
=============================================================================
