---------------------------- MODULE ClientProofs ----------------------------
(***************************************************************************)
(* The client for any policies, routes, connections, callers of Stop and   *)
(* requests of its user: what an applied policy has installed is known stage *)
(* by stage (PolInv), what is clean when Stop returns is clean from the    *)
(* statement of Stop on that cleans it (EngInv), and every engine of the   *)
(* desktop has one owner (OwnInv).                                         *)
(***************************************************************************)
EXTENDS ClientPolicy, ClientEngine, ClientGui, FiniteSetTheorems, TLAPS

----------------------------------------------------------------------------
(***************************************************************************)
(* Applied policies: what of the policy is where, stage by stage.          *)
(***************************************************************************)
RtSet == [tun : BOOLEAN, ip : Addresses \cup {None}, gw : Gateways \cup {None},
          routes : SUBSET Routes, dns : Servers \cup {None}, via : Subnets \cup {None},
          fp : Subnets \cup {None, "unknown"}]
SysSet == [routes : SUBSET Routes, dns : Servers \cup {None}, saved : BOOLEAN,
           applied : Servers \cup {None}, nat : BOOLEAN]
Ended == {"ok", "warn"}
Applying == {"dns", "via", "routes"} \cup Ended

(* There is a device while a policy is being applied, and nothing without. *)
DeviceThere ==
    /\ stage \in Applying => rt.tun /\ policy \in Policies
    /\ ~rt.tun => rt.routes = {} /\ rt.via = None /\ ~sys.saved

(* The runtime knows what it has installed, or residue does.               *)
RoutesKnown == rt.routes \subseteq sys.routes /\ sys.routes \subseteq rt.routes \cup residue
DnsKnown ==
    /\ rt.dns # None => sys.dns = rt.dns \/ "reset" \in residue
    /\ sys.applied # None => sys.dns = sys.applied /\ sys.saved
    /\ sys.dns # None => sys.saved \/ "dns" \in residue
ViaKnown ==
    /\ rt.via # None => rt.fp = rt.via /\ lans
    /\ sys.nat => rt.via # None \/ "nat" \in residue

(* The routes are the policy's, all of them or the count says which not.   *)
RoutesAre(p, r, failed) == r \subseteq Desired(p) /\ Desired(p) \ r \subseteq failed
ViaIs(p) == lans => rt.via = p.subnet

(* Until the via exit is there, deferred routes may be an older policy's.  *)
Staged ==
    /\ stage \in {"dns", "via"} => (WillSetUp(policy) \/ RoutesAre(policy, rt.routes, count.fail))
    /\ stage = "routes" => RoutesAre(policy, rt.routes, count.fail) /\ ViaIs(policy)
    /\ stage \in Ended => rt.routes \subseteq Desired(policy) /\ ViaIs(policy)
    /\ stage = "ok" => rt.routes = Desired(policy)

PolInv == PolTypeOK /\ DeviceThere /\ RoutesKnown /\ DnsKnown /\ ViaKnown /\ Staged

LEMMA PolTyped ==
  ASSUME PolTypeOK
  PROVE  /\ rt \in RtSet /\ sys \in SysSet /\ residue \subseteq Routes \cup {"dns", "nat", "reset"}
         /\ lans \in BOOLEAN /\ rt.tun \in BOOLEAN /\ rt.routes \subseteq Routes
         /\ sys.routes \subseteq Routes /\ sys.saved \in BOOLEAN /\ sys.nat \in BOOLEAN
<1>1. rt \in RtSet /\ sys \in SysSet
  BY DEF PolTypeOK, RtSet, SysSet
<1>2. residue \subseteq Routes \cup {"dns", "nat", "reset"} /\ lans \in BOOLEAN
  BY DEF PolTypeOK
<1>3. rt.tun \in BOOLEAN /\ rt.routes \subseteq Routes
  BY <1>1 DEF RtSet
<1>4. sys.routes \subseteq Routes /\ sys.saved \in BOOLEAN /\ sys.nat \in BOOLEAN
  BY <1>1 DEF SysSet
<1>. QED BY <1>1, <1>2, <1>3, <1>4

LEMMA NoNames == Routes \cap {"dns", "nat", "reset"} = {}
BY PolicyAssumption DEF Routes

LEMMA DesiredIs == \A p \in Policies : Desired(p) \in SUBSET Routes
BY DEF Desired, Policies, Routes

(* Nothing of what is installed is left out by a change.                   *)
LEMMA ChangeIs ==
  ASSUME PolInv, NEW p \in Policies, NEW c, c = Change(p)
  PROVE  /\ c.del \subseteq rt.routes /\ c.keep = rt.routes \ c.del /\ c.add \subseteq Desired(p)
         /\ ~WillSetUp(p) => c.keep \cup c.add = Desired(p)
<1>1. ~rt.tun => rt.routes = {}
  BY DEF PolInv, DeviceThere
<1>2. rt.tun \in BOOLEAN
  BY PolTyped DEF PolInv
<1>. QED BY <1>1, <1>2 DEF Change

(* RestoreDNS and ApplyDNS, by what they leave. *)
LEMMA RestoreIs ==
  ASSUME sys \in SysSet, NEW ok \in BOOLEAN, NEW s, s = RestoreDNS(ok)
  PROVE  /\ s \in SysSet /\ s.routes = sys.routes /\ s.nat = sys.nat /\ s.saved = FALSE /\ s.applied = None
         /\ s.dns = IF sys.saved /\ ok THEN None ELSE sys.dns
BY DEF SysSet, RestoreDNS

LEMMA DnsApplied ==
  ASSUME PolInv, NEW list \in Servers, list # None, NEW s, s = ApplyDNS(list)
  PROVE  /\ s \in SysSet /\ s.routes = sys.routes /\ s.nat = sys.nat /\ s.saved = TRUE
         /\ s.applied = list /\ s.dns = list
<1>1. sys \in SysSet /\ sys.saved \in BOOLEAN
  BY PolTyped DEF PolInv
<1>2. CASE sys.applied = list
  BY <1>1, <1>2 DEF PolInv, DnsKnown, ApplyDNS
<1>3. CASE sys.applied # list
  BY <1>1, <1>3 DEF SysSet, ApplyDNS
<1>. QED BY <1>2, <1>3

(* The steps that change nothing that is installed. *)
LEMMA AbortIs ==
  ASSUME PolInv, Abort
  PROVE  PolInv'
<1>1. stage' = "aborted" /\ Forget /\ UNCHANGED <<rt, sys, lans, residue>>
  BY DEF Abort
<1>2. PolTypeOK'
  BY <1>1 DEF PolInv, PolTypeOK, Forget, NoCount
<1>. QED BY <1>1, <1>2
   DEF PolInv, DeviceThere, RoutesKnown, DnsKnown, ViaKnown, Staged, Applying, Ended

LEMMA NothingIs ==
  ASSUME PolInv, CloseNothing
  PROVE  PolInv'
<1>1. stage' = "idle" /\ Forget /\ UNCHANGED <<rt, sys, lans, residue>>
  BY DEF CloseNothing
<1>2. PolTypeOK'
  BY <1>1 DEF PolInv, PolTypeOK, Forget, NoCount
<1>. QED BY <1>1, <1>2
   DEF PolInv, DeviceThere, RoutesKnown, DnsKnown, ViaKnown, Staged, Applying, Ended

LEMMA CheckIs ==
  ASSUME PolInv, RouteCheck
  PROVE  PolInv'
<1>1. stage = "routes" /\ defer' = FALSE /\ count' = NoCount /\ UNCHANGED <<rt, sys, policy, lans, residue>>
  BY DEF RouteCheck
<1>2. stage' \in {"failed", "warn", "ok"} /\ (stage' = "ok" => count.fail = {})
  BY DEF RouteCheck
<1>3. PolTypeOK'
  <2>1. count' \in [add : SUBSET Routes, fail : SUBSET Routes]
    BY <1>1 DEF NoCount
  <2>2. {lans', defer'} \subseteq BOOLEAN
    BY <1>1 DEF PolInv, PolTypeOK
  <2>. QED BY <1>1, <1>2, <2>1, <2>2 DEF PolInv, PolTypeOK
<1>4. DeviceThere' /\ RoutesKnown' /\ DnsKnown' /\ ViaKnown'
  BY <1>1, <1>2 DEF PolInv, DeviceThere, RoutesKnown, DnsKnown, ViaKnown, Applying, Ended
<1>5. RoutesAre(policy, rt.routes, count.fail) /\ ViaIs(policy)
  BY <1>1 DEF PolInv, Staged
<1>6. Staged'
  <2>1. rt.routes \subseteq Desired(policy)
    BY <1>5 DEF RoutesAre
  <2>2. stage' = "ok" => rt.routes = Desired(policy)
    BY <1>2, <1>5 DEF RoutesAre
  <2>3. rt' = rt /\ Desired(policy)' = Desired(policy) /\ ViaIs(policy)'
    BY <1>1, <1>5 DEF ViaIs, Desired
  <2>. QED BY <1>2, <2>1, <2>2, <2>3 DEF Staged, Ended
<1>. QED BY <1>3, <1>4, <1>6 DEF PolInv

LEMMA KeptIs ==
  ASSUME PolInv, ViaKept
  PROVE  PolInv'
<1>1. /\ stage = "via" /\ stage' = "routes" /\ lans /\ rt.fp = Fingerprint(policy) /\ rt.via # None
      /\ UNCHANGED <<rt, sys, policy, lans, defer, count, residue>>
  BY DEF ViaKept
<1>2. PolTypeOK'
  BY <1>1 DEF PolInv, PolTypeOK
<1>3. DeviceThere' /\ RoutesKnown' /\ DnsKnown' /\ ViaKnown'
  BY <1>1 DEF PolInv, DeviceThere, RoutesKnown, DnsKnown, ViaKnown, Applying, Ended
<1>4. ~WillSetUp(policy)
  BY <1>1 DEF WillSetUp
<1>5. RoutesAre(policy, rt.routes, count.fail)
  BY <1>1, <1>4 DEF PolInv, Staged
<1>6. ViaIs(policy)
  BY <1>1 DEF PolInv, ViaKnown, ViaIs, Fingerprint
<1>7. Staged'
  BY <1>1, <1>5, <1>6 DEF Staged, RoutesAre, ViaIs, Desired, Ended
<1>. QED BY <1>2, <1>3, <1>7 DEF PolInv

(* Stage 4: the list is written, or was, or the write fails.               *)
LEMMA DnsIs ==
  ASSUME PolInv, DnsStage
  PROVE  PolInv'
<1>0. /\ rt \in RtSet /\ sys \in SysSet /\ sys.saved \in BOOLEAN
      /\ residue \subseteq Routes \cup {"dns", "nat", "reset"}
  BY PolTyped DEF PolInv
<1>1. stage = "dns" /\ stage' = "via" /\ UNCHANGED <<policy, lans, defer, count>>
  BY DEF DnsStage
<1>2. policy \in Policies
  BY <1>1 DEF PolInv, DeviceThere, Applying
<1>3. /\ rt' \in RtSet /\ sys' \in SysSet
      /\ rt'.tun = rt.tun /\ rt'.routes = rt.routes /\ rt'.via = rt.via /\ rt'.fp = rt.fp
      /\ sys'.routes = sys.routes /\ sys'.nat = sys.nat
      /\ residue' \in {residue, residue \ {"dns", "reset"}} /\ DnsKnown'
  <2>1. CASE UNCHANGED <<rt, sys, residue>>
    BY <1>0, <2>1 DEF PolInv, DnsKnown
  <2>2. CASE /\ policy.dns # None /\ rt' = [rt EXCEPT !.dns = policy.dns]
             /\ sys' = ApplyDNS(policy.dns) /\ residue' = residue \ {"dns", "reset"}
    <3>1. policy.dns \in Servers
      BY <1>2, <2>2 DEF Policies
    <3>2. /\ sys' \in SysSet /\ sys'.routes = sys.routes /\ sys'.nat = sys.nat /\ sys'.saved = TRUE
          /\ sys'.applied = policy.dns /\ sys'.dns = policy.dns
      BY <2>2, <3>1, DnsApplied
    <3>3. /\ rt' \in RtSet /\ rt'.dns = policy.dns
          /\ rt'.tun = rt.tun /\ rt'.routes = rt.routes /\ rt'.via = rt.via /\ rt'.fp = rt.fp
      BY <1>0, <2>2, <3>1 DEF RtSet
    <3>. QED BY <2>2, <3>2, <3>3 DEF DnsKnown
  <2>3. CASE sys' = [sys EXCEPT !.saved = TRUE] /\ UNCHANGED <<rt, residue>>
    <3>1. /\ sys' \in SysSet /\ sys'.routes = sys.routes /\ sys'.nat = sys.nat /\ sys'.saved = TRUE
          /\ sys'.applied = sys.applied /\ sys'.dns = sys.dns
      BY <1>0, <2>3 DEF SysSet
    <3>. QED BY <1>0, <2>3, <3>1 DEF PolInv, DnsKnown
  <2>. QED BY <2>1, <2>2, <2>3 DEF DnsStage
<1>4. PolTypeOK'
  BY <1>0, <1>1, <1>3 DEF PolInv, PolTypeOK, RtSet, SysSet
<1>5. DeviceThere'
  BY <1>1, <1>2, <1>3 DEF PolInv, DeviceThere, Applying
<1>6. RoutesKnown'
  <2>1. sys.routes \cap {"dns", "reset"} = {}
    BY NoNames, PolTyped DEF PolInv
  <2>. QED BY <1>3, <2>1 DEF PolInv, RoutesKnown
<1>7. ViaKnown'
  BY <1>1, <1>3 DEF PolInv, ViaKnown
<1>8. Staged'
  <2>1. WillSetUp(policy) \/ RoutesAre(policy, rt.routes, count.fail)
    BY <1>1 DEF PolInv, Staged
  <2>. QED BY <1>1, <1>3, <2>1 DEF Staged, WillSetUp, Fingerprint, RoutesAre, Desired, Ended
<1>. QED BY <1>3, <1>4, <1>5, <1>6, <1>7, <1>8 DEF PolInv

LEMMA OffIs ==
  ASSUME PolInv, ViaOff
  PROVE  PolInv'
<1>0. /\ rt \in RtSet /\ sys \in SysSet /\ lans \in BOOLEAN
      /\ residue \subseteq Routes \cup {"dns", "nat", "reset"}
  BY PolTyped DEF PolInv
<1>1. /\ stage = "via" /\ stage' = "routes" /\ ~lans /\ UNCHANGED <<policy, lans, defer, count>>
      /\ rt' = [rt EXCEPT !.fp = None, !.via = None]
      /\ sys' \in {sys, [sys EXCEPT !.nat = FALSE]}
      /\ residue' \in {residue, residue \ {"nat"}} /\ (sys'.nat => residue' = residue)
  BY DEF ViaOff
<1>2. /\ rt' \in RtSet /\ rt'.tun = rt.tun /\ rt'.routes = rt.routes /\ rt'.dns = rt.dns /\ rt'.via = None
  BY <1>0, <1>1 DEF RtSet
<1>3. /\ sys' \in SysSet /\ sys'.routes = sys.routes /\ sys'.dns = sys.dns /\ sys'.saved = sys.saved
      /\ sys'.applied = sys.applied /\ (sys'.nat => sys.nat)
  BY <1>0, <1>1 DEF SysSet
<1>4. PolTypeOK'
  BY <1>0, <1>1, <1>2, <1>3 DEF PolInv, PolTypeOK, RtSet, SysSet
<1>5. DeviceThere'
  BY <1>1, <1>2, <1>3 DEF PolInv, DeviceThere, Applying
<1>6. RoutesKnown'
  <2>1. sys.routes \cap {"nat"} = {}
    BY NoNames, PolTyped DEF PolInv
  <2>. QED BY <1>1, <1>2, <1>3, <2>1 DEF PolInv, RoutesKnown
<1>7. DnsKnown'
  BY <1>1, <1>2, <1>3 DEF PolInv, DnsKnown
<1>8. ViaKnown'
  BY <1>1, <1>2, <1>3 DEF PolInv, ViaKnown
<1>9. Staged'
  <2>1. RoutesAre(policy, rt.routes, count.fail)
    BY <1>1 DEF PolInv, Staged, WillSetUp
  <2>. QED BY <1>1, <1>2, <2>1 DEF Staged, RoutesAre, ViaIs, Desired, Ended
<1>. QED BY <1>4, <1>5, <1>6, <1>7, <1>8, <1>9 DEF PolInv

(* A change of routes that may fail here and there.                        *)
LEMMA SlipIs ==
  ASSUME NEW from, NEW c, NEW x \in Changes(from, c)
  PROVE  x.stays \subseteq c.del \cap from /\ x.fail \subseteq c.add \ from
BY DEF Changes

LEMMA RoutesAfter ==
  ASSUME RoutesKnown, NEW from, NEW c, NEW x \in Changes(from, c), NEW held \in SUBSET residue,
         sys.routes \cap residue \subseteq held,
         from \subseteq sys.routes, c.keep \subseteq from, rt.routes \subseteq c.keep \cup c.del,
         rt'.routes = c.keep \cup (c.add \ x.fail),
         sys'.routes = Left(from, c, x.stays) \cup (c.add \ x.fail),
         (held \cup x.stays) \ rt'.routes \subseteq residue', c.keep \cap c.del = {}
  PROVE  RoutesKnown'
BY SlipIs DEF RoutesKnown, Left

(* What ApplyPolicy does to DNS before it looks at the routes.             *)
SysReset(p, ok) == IF Moves(p) THEN RestoreDNS(ok) ELSE sys
DnsCounted(p)   == CASE ~rt.tun \/ (Moves(p) /\ p.dns # None /\ rt.dns # p.dns) -> None
                     [] OTHER -> rt.dns
Slips(p, ok)    == IF Moves(p) THEN DnsResidue(ok) \cup {"reset"} ELSE {}

LEMMA DnsBefore ==
  ASSUME PolInv, NEW p \in Policies, NEW ok \in BOOLEAN, NEW base, NEW dns, NEW leftover,
         base = SysReset(p, ok), dns = DnsCounted(p), leftover = Slips(p, ok)
  PROVE  /\ base \in SysSet /\ base.routes = sys.routes /\ base.nat = sys.nat
         /\ dns \in Servers \cup {None} /\ leftover \subseteq {"dns", "reset"}
         /\ ~rt.tun => base = sys
         /\ dns # None => base.dns = dns \/ "reset" \in residue \cup leftover
         /\ base.applied # None => base.dns = base.applied /\ base.saved
         /\ base.dns # None => base.saved \/ "dns" \in residue \cup leftover
<1>0. /\ rt \in RtSet /\ sys \in SysSet /\ sys.saved \in BOOLEAN /\ rt.tun \in BOOLEAN /\ DnsKnown
  BY PolTyped DEF PolInv
<1>1. dns \in {None, rt.dns} /\ (~rt.tun => dns = None)
  BY DEF DnsCounted
<1>2. dns \in Servers \cup {None}
  BY <1>0, <1>1 DEF RtSet
<1>3. CASE Moves(p)
  <2>1. base = RestoreDNS(ok) /\ leftover = DnsResidue(ok) \cup {"reset"} /\ rt.tun
    BY <1>3 DEF Moves, SysReset, Slips
  <2>2. /\ base \in SysSet /\ base.routes = sys.routes /\ base.nat = sys.nat /\ base.saved = FALSE
        /\ base.applied = None /\ base.dns = IF sys.saved /\ ok THEN None ELSE sys.dns
    BY <1>0, <2>1, RestoreIs
  <2>3. base.dns # None => "dns" \in residue \cup leftover
    BY <1>0, <2>1, <2>2 DEF DnsKnown, DnsResidue
  <2>4. leftover \subseteq {"dns", "reset"} /\ "reset" \in leftover
    BY <2>1 DEF DnsResidue
  <2>. QED BY <1>2, <2>1, <2>2, <2>3, <2>4
<1>4. CASE ~Moves(p)
  BY <1>0, <1>1, <1>2, <1>4 DEF DnsKnown, SysReset, DnsCounted, Slips
<1>. QED BY <1>3, <1>4

LEMMA ApplyIs ==
  ASSUME PolInv, NEW p \in Policies, ApplyPolicy(p)
  PROVE  PolInv'
<1>0. /\ rt \in RtSet /\ sys \in SysSet /\ lans \in BOOLEAN /\ rt.tun \in BOOLEAN
      /\ residue \subseteq Routes \cup {"dns", "nat", "reset"}
      /\ PolTypeOK /\ DeviceThere /\ RoutesKnown /\ DnsKnown /\ ViaKnown
  BY PolTyped DEF PolInv
<1>1. stage \in {"idle", "ok", "warn"} /\ policy' = p /\ defer' = WillSetUp(p) /\ lans' = lans
  BY DEF ApplyPolicy
<1>2. PICK ok \in BOOLEAN :
        \/ /\ stage' = "failed" /\ rt' = [rt EXCEPT !.dns = DnsCounted(p)] /\ sys' = SysReset(p, ok)
           /\ residue' = residue \cup Slips(p, ok) /\ UNCHANGED count
        \/ \E x \in Changes(SysReset(p, ok).routes, Change(p)) :
              /\ stage' = "dns"
              /\ rt' = [rt EXCEPT !.tun = TRUE, !.ip = p.ip, !.gw = p.gw, !.dns = DnsCounted(p),
                                  !.routes = Change(p).keep \cup (Change(p).add \ x.fail),
                                  !.fp = IF rt.tun THEN @ ELSE "unknown"]
              /\ sys' = [SysReset(p, ok) EXCEPT
                            !.routes = Left(@, Change(p), x.stays) \cup (Change(p).add \ x.fail)]
              /\ count' = [add |-> Change(p).add \ x.fail, fail |-> x.fail]
              /\ residue' = (residue \cup Slips(p, ok) \cup x.stays) \ rt'.routes
  BY ZenonT(60) DEF ApplyPolicy, SysReset, DnsCounted, Slips
<1>change. PICK c : c = Change(p)
  OBVIOUS
<1>base. PICK base : base = SysReset(p, ok)
  OBVIOUS
<1>dns. PICK dns : dns = DnsCounted(p)
  OBVIOUS
<1>leftover. PICK leftover : leftover = Slips(p, ok)
  OBVIOUS
<1>ends. \/ /\ stage' = "failed" /\ rt' = [rt EXCEPT !.dns = dns] /\ sys' = base
            /\ residue' = residue \cup leftover /\ UNCHANGED count
         \/ \E x \in Changes(base.routes, c) :
               /\ stage' = "dns"
               /\ rt' = [rt EXCEPT !.tun = TRUE, !.ip = p.ip, !.gw = p.gw, !.dns = dns,
                                   !.routes = c.keep \cup (c.add \ x.fail),
                                   !.fp = IF rt.tun THEN rt.fp ELSE "unknown"]
               /\ sys' = [base EXCEPT !.routes = Left(base.routes, c, x.stays) \cup (c.add \ x.fail)]
               /\ count' = [add |-> c.add \ x.fail, fail |-> x.fail]
            /\ residue' = (residue \cup leftover \cup x.stays) \ rt'.routes
  BY <1>2, <1>change, <1>base, <1>dns, <1>leftover
<1>3. /\ base \in SysSet /\ base.routes = sys.routes /\ base.nat = sys.nat
      /\ dns \in Servers \cup {None} /\ leftover \subseteq {"dns", "reset"}
      /\ ~rt.tun => base = sys
      /\ dns # None => base.dns = dns \/ "reset" \in residue \cup leftover
      /\ base.applied # None => base.dns = base.applied /\ base.saved
      /\ base.dns # None => base.saved \/ "dns" \in residue \cup leftover
  BY <1>base, <1>dns, <1>leftover, DnsBefore
<1>4. defer' \in BOOLEAN
  BY <1>1 DEF WillSetUp
<1>5. CASE /\ stage' = "failed" /\ rt' = [rt EXCEPT !.dns = dns] /\ sys' = base
           /\ residue' = residue \cup leftover /\ UNCHANGED count
  <2>1. /\ rt' \in RtSet /\ rt'.tun = rt.tun /\ rt'.routes = rt.routes /\ rt'.dns = dns
        /\ rt'.via = rt.via /\ rt'.fp = rt.fp
    BY <1>0, <1>3, <1>5 DEF RtSet
  <2>2. PolTypeOK'
    <3>1. rt' \in RtSet /\ sys' \in SysSet /\ residue' \subseteq Routes \cup {"dns", "nat", "reset"}
      BY <1>0, <1>3, <1>5, <2>1
    <3>. QED BY <1>0, <1>1, <1>4, <1>5, <3>1 DEF PolTypeOK, RtSet, SysSet
  <2>3. DeviceThere' /\ Staged'
    BY <1>0, <1>3, <1>5, <2>1 DEF DeviceThere, Staged, Applying, Ended
  <2>4. RoutesKnown' /\ DnsKnown' /\ ViaKnown'
    BY <1>0, <1>1, <1>3, <1>5, <2>1 DEF RoutesKnown, DnsKnown, ViaKnown
  <2>. QED BY <2>2, <2>3, <2>4 DEF PolInv
<1>6. ASSUME NEW x \in Changes(base.routes, c),
             /\ stage' = "dns"
             /\ rt' = [rt EXCEPT !.tun = TRUE, !.ip = p.ip, !.gw = p.gw, !.dns = dns,
                                 !.routes = c.keep \cup (c.add \ x.fail),
                                 !.fp = IF rt.tun THEN rt.fp ELSE "unknown"]
             /\ sys' = [base EXCEPT !.routes = Left(base.routes, c, x.stays) \cup (c.add \ x.fail)]
             /\ count' = [add |-> c.add \ x.fail, fail |-> x.fail]
             /\ residue' = (residue \cup leftover \cup x.stays) \ rt'.routes
      PROVE  PolInv'
  <2>1. /\ c.del \subseteq rt.routes /\ c.keep = rt.routes \ c.del /\ c.add \subseteq Desired(p)
        /\ ~WillSetUp(p) => c.keep \cup c.add = Desired(p)
    BY <1>change, ChangeIs
  <2>2. x.stays \subseteq c.del /\ x.fail \subseteq c.add
    BY <1>6, SlipIs
  <2>3. c.keep \subseteq Routes /\ c.add \subseteq Routes /\ x.fail \subseteq Routes /\ x.stays \subseteq Routes
    <3>1. rt.routes \subseteq Routes
      BY PolTyped, <1>0
    <3>. QED BY <2>1, <2>2, <3>1, DesiredIs
  <2>4. PICK routes \in SUBSET Routes : routes = c.keep \cup (c.add \ x.fail)
    BY <2>3
  <2>5. PICK fp \in Subnets \cup {None, "unknown"} : fp = IF rt.tun THEN rt.fp ELSE "unknown"
    BY <1>0 DEF RtSet
  <2>6. rt' = [rt EXCEPT !.tun = TRUE, !.ip = p.ip, !.gw = p.gw, !.dns = dns, !.routes = routes, !.fp = fp]
    BY <1>6, <2>4, <2>5
  <2>7. p.ip \in Addresses /\ p.gw \in Gateways
    BY DEF Policies
  <2>8. /\ rt' \in RtSet /\ rt'.tun = TRUE /\ rt'.routes = routes /\ rt'.dns = dns
        /\ rt'.via = rt.via /\ rt'.fp = fp
    BY <1>0, <1>3, <2>6, <2>7 DEF RtSet
  <2>9. PICK left \in SUBSET Routes : left = Left(base.routes, c, x.stays) \cup (c.add \ x.fail)
    <3>1. base.routes \subseteq Routes
      BY <1>3 DEF SysSet
    <3>. QED BY <2>3, <3>1 DEF Left
  <2>10. /\ sys' \in SysSet /\ sys'.routes = left /\ sys'.dns = base.dns /\ sys'.saved = base.saved
         /\ sys'.applied = base.applied /\ sys'.nat = base.nat
    BY <1>3, <1>6, <2>9 DEF SysSet
  <2>11. residue' = (residue \cup leftover \cup x.stays) \ routes
    BY <1>6, <2>8
  <2>12. routes \cap {"dns", "nat", "reset"} = {}
    BY NoNames
  <2>13. PolTypeOK'
    <3>1. count' \in [add : SUBSET Routes, fail : SUBSET Routes]
      BY <1>6, <2>3
    <3>2. residue' \subseteq Routes \cup {"dns", "nat", "reset"}
      BY <1>0, <1>3, <2>3, <2>11
    <3>3. {lans', defer'} \subseteq BOOLEAN /\ policy' \in Policies
      BY <1>0, <1>1, <1>4
    <3>. QED BY <1>6, <2>8, <2>10, <3>1, <3>2, <3>3 DEF PolTypeOK, RtSet, SysSet
  <2>14. DeviceThere'
    BY <1>1, <2>8 DEF DeviceThere
  <2>15. RoutesKnown'
    <3>1. c.keep \subseteq base.routes
      BY <1>0, <1>3, <2>1 DEF RoutesKnown
    <3>2. (residue \cup x.stays) \ rt'.routes \subseteq residue'
      BY <1>6
    <3>3. rt'.routes = c.keep \cup (c.add \ x.fail)
      BY <2>4, <2>8
    <3>4. sys'.routes = Left(base.routes, c, x.stays) \cup (c.add \ x.fail)
      BY <2>9, <2>10
    <3>. QED BY <1>0, <1>3, <2>1, <3>1, <3>2, <3>3, <3>4, RoutesAfter
  <2>16. DnsKnown'
    BY <1>3, <2>8, <2>10, <2>11, <2>12 DEF DnsKnown
  <2>17. ViaKnown'
    <3>1. ~rt.tun => rt.via = None
      BY <1>0 DEF DeviceThere
    <3>2. sys.nat => rt.via # None \/ "nat" \in residue'
      BY <1>0, <2>11, <2>12 DEF ViaKnown
    <3>. QED BY <1>0, <1>1, <1>3, <2>5, <2>8, <2>10, <3>1, <3>2 DEF ViaKnown
  <2>18. Staged'
    <3>1. WillSetUp(p) => WillSetUp(p)'
      <4>1. ~rt.tun => rt.via = None
        BY <1>0 DEF DeviceThere
      <4>. QED BY <1>1, <2>5, <2>8, <4>1 DEF WillSetUp, Fingerprint
    <3>2. ~WillSetUp(p) => RoutesAre(p, routes, x.fail)
      BY <2>1, <2>4 DEF RoutesAre
    <3>3. count'.fail = x.fail
      BY <1>6
    <3>4. WillSetUp(policy)' \/ RoutesAre(policy, rt.routes, count.fail)'
      BY <1>1, <2>8, <3>1, <3>2, <3>3 DEF WillSetUp, Fingerprint, RoutesAre, Desired
    <3>. QED BY <1>6, <3>4 DEF Staged, Ended
  <2>. QED BY <2>13, <2>14, <2>15, <2>16, <2>17, <2>18 DEF PolInv
<1>. QED BY <1>ends, <1>5, <1>6

(* Stage 5: the exit is set up and the routes installed anew behind it.    *)
Reinstalled(p) == [del |-> rt.routes, keep |-> {}, add |-> Desired(p)]

LEMMA SetUpIs ==
  ASSUME PolInv, ViaSetUp
  PROVE  PolInv'
<1>0. /\ rt \in RtSet /\ sys \in SysSet /\ lans \in BOOLEAN
      /\ rt.routes \subseteq Routes /\ sys.routes \subseteq Routes /\ sys.nat \in BOOLEAN
      /\ residue \subseteq Routes \cup {"dns", "nat", "reset"}
      /\ PolTypeOK /\ DeviceThere /\ RoutesKnown /\ DnsKnown /\ ViaKnown
  BY PolTyped DEF PolInv
<1>1. stage = "via" /\ stage' = "routes" /\ lans /\ UNCHANGED <<policy, lans, defer>>
  BY DEF ViaSetUp
<1>2. policy \in Policies /\ policy.subnet \in Subnets /\ rt.tun
  BY <1>0, <1>1 DEF DeviceThere, Applying, Policies
<1>3. PICK want \in SUBSET Routes : want = Desired(policy)
  BY <1>2, DesiredIs
<1>change. PICK c : c = [del |-> rt.routes, keep |-> {}, add |-> want]
  OBVIOUS
<1>4. PICK nat \in BOOLEAN, flushed \in {{}, rt.routes} :
        \E x \in Changes(sys.routes \ flushed, c) :
             /\ rt' = [rt EXCEPT !.via = policy.subnet, !.fp = policy.subnet, !.routes = c.add \ x.fail]
             /\ sys' = [sys EXCEPT !.nat = nat,
                                   !.routes = Left(sys.routes \ flushed, c, x.stays) \cup (c.add \ x.fail)]
             /\ count' = [add |-> c.add \ x.fail, fail |-> x.fail]
             /\ residue' = ((residue \ {"nat"}) \cup x.stays) \ rt'.routes
  <2>1. NatAfterSetup \subseteq BOOLEAN /\ Fingerprint(policy) = policy.subnet
    BY <1>0, <1>1 DEF NatAfterSetup, Fingerprint
  <2>2. PICK nat \in NatAfterSetup, flushed \in {{}, rt.routes} :
          \E x \in Changes(sys.routes \ flushed, Reinstalled(policy)) :
             /\ rt' = [rt EXCEPT !.via = policy.subnet, !.fp = Fingerprint(policy),
                                 !.routes = Reinstalled(policy).add \ x.fail]
             /\ sys' = [sys EXCEPT !.nat = nat,
                                   !.routes = Left(sys.routes \ flushed, Reinstalled(policy), x.stays)
                                                \cup (Reinstalled(policy).add \ x.fail)]
             /\ count' = [add |-> Reinstalled(policy).add \ x.fail, fail |-> x.fail]
             /\ residue' = ((residue \ {"nat"}) \cup x.stays) \ rt'.routes
    BY Zenon DEF ViaSetUp, Reinstalled
  <2>3. c = Reinstalled(policy)
    BY <1>3, <1>change DEF Reinstalled
  <2>. QED BY <2>1, <2>2, <2>3
<1>5. PICK from : from = sys.routes \ flushed
  OBVIOUS
<1>6. PICK x \in Changes(from, c) :
        /\ rt' = [rt EXCEPT !.via = policy.subnet, !.fp = policy.subnet, !.routes = c.add \ x.fail]
        /\ sys' = [sys EXCEPT !.nat = nat, !.routes = Left(from, c, x.stays) \cup (c.add \ x.fail)]
        /\ count' = [add |-> c.add \ x.fail, fail |-> x.fail]
        /\ residue' = ((residue \ {"nat"}) \cup x.stays) \ rt'.routes
  BY <1>4, <1>5
<1>7. c.del = rt.routes /\ c.keep = {} /\ c.add = want
  BY <1>change
<1>8. x.stays \subseteq c.del /\ x.fail \subseteq c.add
  BY <1>6, SlipIs
<1>9. PICK routes \in SUBSET Routes : routes = c.add \ x.fail
  BY <1>7
<1>10. PICK left \in SUBSET Routes : left = Left(from, c, x.stays) \cup (c.add \ x.fail)
  <2>1. from \subseteq Routes /\ x.stays \subseteq Routes
    BY <1>0, <1>5, <1>7, <1>8
  <2>. QED BY <1>7, <2>1 DEF Left
<1>11. /\ rt' \in RtSet /\ rt'.tun = rt.tun /\ rt'.routes = routes /\ rt'.dns = rt.dns
       /\ rt'.via = policy.subnet /\ rt'.fp = policy.subnet
  BY <1>0, <1>2, <1>6, <1>9 DEF RtSet
<1>12. /\ sys' \in SysSet /\ sys'.routes = left /\ sys'.dns = sys.dns /\ sys'.saved = sys.saved
       /\ sys'.applied = sys.applied
  BY <1>0, <1>6, <1>10 DEF SysSet
<1>13. residue' = ((residue \ {"nat"}) \cup x.stays) \ routes
  BY <1>6, <1>11
<1>14. routes \cap {"dns", "nat", "reset"} = {} /\ sys.routes \cap {"dns", "nat", "reset"} = {}
  BY <1>0, NoNames
<1>15. PolTypeOK'
  <2>1. count' \in [add : SUBSET Routes, fail : SUBSET Routes]
    BY <1>6, <1>7, <1>8
  <2>2. residue' \subseteq Routes \cup {"dns", "nat", "reset"}
    BY <1>0, <1>7, <1>8, <1>13
  <2>. QED BY <1>0, <1>1, <1>11, <1>12, <2>1, <2>2 DEF PolTypeOK, RtSet, SysSet
<1>16. DeviceThere'
  BY <1>1, <1>2, <1>11 DEF DeviceThere
<1>17. RoutesKnown'
  <2>1. rt'.routes = c.keep \cup (c.add \ x.fail)
    BY <1>7, <1>9, <1>11
  <2>2. sys'.routes = Left(from, c, x.stays) \cup (c.add \ x.fail)
    BY <1>10, <1>12
  <2>3. /\ (residue \ {"nat"}) \in SUBSET residue /\ sys.routes \cap residue \subseteq residue \ {"nat"}
        /\ ((residue \ {"nat"}) \cup x.stays) \ rt'.routes \subseteq residue'
    BY <1>6, <1>14
  <2>4. from \subseteq sys.routes /\ c.keep \subseteq from /\ rt.routes \subseteq c.keep \cup c.del /\ c.keep \cap c.del = {}
    BY <1>5, <1>7
  <2>. QED BY <1>0, <2>1, <2>2, <2>3, <2>4, RoutesAfter
<1>18. DnsKnown'
  BY <1>0, <1>11, <1>12, <1>13, <1>14 DEF DnsKnown
<1>19. ViaKnown'
  BY <1>1, <1>2, <1>11, PolicyAssumption DEF ViaKnown, None
<1>20. Staged'
  <2>1. RoutesAre(policy, routes, x.fail)
    BY <1>3, <1>7, <1>9 DEF RoutesAre
  <2>2. count'.fail = x.fail
    BY <1>6
  <2>. QED BY <1>1, <1>11, <2>1, <2>2 DEF Staged, RoutesAre, ViaIs, Desired, Ended
<1>. QED BY <1>15, <1>16, <1>17, <1>18, <1>19, <1>20 DEF PolInv

LEMMA FailsIs ==
  ASSUME PolInv, ViaFails
  PROVE  PolInv'
<1>0. /\ rt \in RtSet /\ sys \in SysSet /\ lans \in BOOLEAN
      /\ rt.routes \subseteq Routes /\ sys.routes \subseteq Routes /\ sys.nat \in BOOLEAN
      /\ residue \subseteq Routes \cup {"dns", "nat", "reset"}
      /\ PolTypeOK /\ DeviceThere /\ RoutesKnown /\ DnsKnown /\ ViaKnown
  BY PolTyped DEF PolInv
<1>1. stage = "via" /\ stage' \in {"aborted", "failed"} /\ Forget /\ UNCHANGED lans
  BY DEF ViaFails
<1>2. policy \in Policies /\ rt.tun
  BY <1>0, <1>1 DEF DeviceThere, Applying
<1>3. PICK add \in SUBSET Routes : add = IF defer /\ rt.routes = {} THEN Desired(policy) ELSE {}
  BY <1>2, DesiredIs
<1>change. PICK c : c = [del |-> {}, keep |-> rt.routes, add |-> add]
  OBVIOUS
<1>4. PICK nat \in BOOLEAN :
        \E x \in Changes(sys.routes, c) :
             /\ rt' = [rt EXCEPT !.via = None, !.fp = "unknown", !.routes = c.keep \cup (c.add \ x.fail)]
             /\ sys' = [sys EXCEPT !.nat = nat, !.routes = sys.routes \cup (c.add \ x.fail)]
             /\ residue' = (residue \cup (IF nat THEN {"nat"} ELSE {})) \ rt'.routes
  BY <1>0, <1>3, <1>change DEF ViaFails, NatAfterSetup
<1>5. PICK x \in Changes(sys.routes, c) :
        /\ rt' = [rt EXCEPT !.via = None, !.fp = "unknown", !.routes = c.keep \cup (c.add \ x.fail)]
        /\ sys' = [sys EXCEPT !.nat = nat, !.routes = sys.routes \cup (c.add \ x.fail)]
        /\ residue' = (residue \cup (IF nat THEN {"nat"} ELSE {})) \ rt'.routes
  BY <1>4
<1>6. c.del = {} /\ c.keep = rt.routes /\ c.add = add
  BY <1>change
<1>7. PICK routes \in SUBSET Routes : routes = c.keep \cup (c.add \ x.fail)
  BY <1>0, <1>6
<1>8. PICK left \in SUBSET Routes : left = sys.routes \cup (c.add \ x.fail)
  BY <1>0, <1>6
<1>9. PICK more \in SUBSET {"nat"} : more = IF nat THEN {"nat"} ELSE {}
  OBVIOUS
<1>10. /\ rt' \in RtSet /\ rt'.tun = rt.tun /\ rt'.routes = routes /\ rt'.dns = rt.dns /\ rt'.via = None
  BY <1>0, <1>5, <1>7 DEF RtSet
<1>11. /\ sys' \in SysSet /\ sys'.routes = left /\ sys'.dns = sys.dns /\ sys'.saved = sys.saved
       /\ sys'.applied = sys.applied /\ (sys'.nat => "nat" \in more)
  BY <1>0, <1>5, <1>8, <1>9 DEF SysSet
<1>12. residue' = (residue \cup more) \ routes
  BY <1>5, <1>9, <1>10
<1>13. routes \cap {"dns", "nat", "reset"} = {}
  BY NoNames
<1>14. PolTypeOK'
  <2>1. residue' \subseteq Routes \cup {"dns", "nat", "reset"}
    BY <1>0, <1>12
  <2>. QED BY <1>0, <1>1, <1>10, <1>11, <2>1 DEF PolTypeOK, RtSet, SysSet, Forget, NoCount
<1>15. DeviceThere' /\ Staged'
  BY <1>1, <1>2, <1>10 DEF DeviceThere, Staged, Applying, Ended
<1>16. RoutesKnown'
  BY <1>0, <1>6, <1>7, <1>8, <1>10, <1>11, <1>12 DEF RoutesKnown
<1>17. DnsKnown'
  BY <1>0, <1>10, <1>11, <1>12, <1>13 DEF DnsKnown
<1>18. ViaKnown'
  BY <1>10, <1>11, <1>12, <1>13 DEF ViaKnown
<1>. QED BY <1>14, <1>15, <1>16, <1>17, <1>18 DEF PolInv

(* What is undone: the exit, DNS and the routes.                           *)
LEMMA UndoIs ==
  ASSUME PolInv, NEW preserve \in BOOLEAN, NEW r \in RtSet, Undo(preserve, r),
         r.routes = {}, r.via = None, r.dns = None, rt.tun \/ ~r.tun
  PROVE  /\ rt' = r /\ sys' \in SysSet /\ residue' \subseteq Routes \cup {"dns", "nat", "reset"}
         /\ RoutesKnown' /\ DnsKnown' /\ ViaKnown' /\ ~sys'.saved
<1>0. /\ rt \in RtSet /\ sys \in SysSet /\ sys.nat \in BOOLEAN /\ rt.tun \in BOOLEAN /\ sys.saved \in BOOLEAN
      /\ rt.routes \subseteq Routes /\ sys.routes \subseteq Routes
      /\ residue \subseteq Routes \cup {"dns", "nat", "reset"}
      /\ DeviceThere /\ RoutesKnown /\ DnsKnown /\ ViaKnown
  BY PolTyped DEF PolInv
<1>1. PICK ok \in BOOLEAN, stays \in SUBSET rt.routes :
        /\ sys' = [IF rt.tun THEN RestoreDNS(ok) ELSE sys EXCEPT
                     !.nat = NatAfterTeardown(preserve),
                     !.routes = IF rt.tun THEN (@ \ rt.routes) \cup (@ \cap stays) ELSE @]
        /\ rt' = r
        /\ residue' = ((residue \ {"reset"})
                         \cup (IF rt.tun THEN DnsResidue(ok) \cup (sys.routes \cap stays) ELSE {})
                         \cup (IF rt.via # None /\ preserve /\ sys.nat THEN {"nat"} ELSE {}))
  BY DEF Undo
<1>2. PICK base : base = IF rt.tun THEN RestoreDNS(ok) ELSE sys
  OBVIOUS
<1>3. /\ base \in SysSet /\ base.routes = sys.routes /\ base.saved = FALSE
      /\ base.applied # None => base.dns = base.applied /\ base.saved
      /\ base.dns # None => "dns" \in residue \cup (IF rt.tun THEN DnsResidue(ok) ELSE {})
  <2>1. CASE rt.tun
    <3>1. /\ base \in SysSet /\ base.routes = sys.routes /\ base.saved = FALSE /\ base.applied = None
          /\ base.dns = IF sys.saved /\ ok THEN None ELSE sys.dns
      BY <1>0, <1>2, <2>1, RestoreIs
    <3>. QED BY <1>0, <2>1, <3>1 DEF DnsKnown, DnsResidue
  <2>2. CASE ~rt.tun
    <3>1. base = sys /\ ~sys.saved
      BY <1>0, <1>2, <2>2 DEF DeviceThere
    <3>. QED BY <1>0, <3>1 DEF DnsKnown
  <2>. QED BY <2>1, <2>2
<1>4. PICK nat \in BOOLEAN : nat = NatAfterTeardown(preserve)
  BY DEF NatAfterTeardown
<1>5. PICK left \in SUBSET Routes :
        left = IF rt.tun THEN (base.routes \ rt.routes) \cup (base.routes \cap stays) ELSE base.routes
  BY <1>0, <1>3
<1>6. sys' = [base EXCEPT !.nat = nat, !.routes = left]
  BY <1>1, <1>2, <1>4, <1>5
<1>7. /\ sys' \in SysSet /\ sys'.routes = left /\ sys'.dns = base.dns /\ sys'.saved = base.saved
      /\ sys'.applied = base.applied /\ sys'.nat = nat
  BY <1>3, <1>6 DEF SysSet
<1>8. sys.routes \cap {"reset"} = {}
  BY <1>0, NoNames
<1>9. residue' \subseteq Routes \cup {"dns", "nat", "reset"}
  BY <1>0, <1>1 DEF DnsResidue
<1>10. RoutesKnown'
  <2>1. left \subseteq residue'
    <3>1. CASE rt.tun
      BY <1>0, <1>1, <1>3, <1>5, <1>8, <3>1 DEF RoutesKnown
    <3>2. CASE ~rt.tun
      <4>1. rt.routes = {}
        BY <1>0, <3>2 DEF DeviceThere
      <4>. QED BY <1>0, <1>1, <1>3, <1>5, <1>8, <3>2, <4>1 DEF RoutesKnown
    <3>. QED BY <1>0, <3>1, <3>2
  <2>. QED BY <1>1, <1>7, <2>1 DEF RoutesKnown
<1>11. DnsKnown'
  <2>1. base.dns # None => "dns" \in residue'
    BY <1>1, <1>3
  <2>. QED BY <1>1, <1>3, <1>7, <2>1 DEF DnsKnown
<1>12. ViaKnown'
  <2>1. nat => "nat" \in residue'
    <3>1. nat => sys.nat /\ (rt.via = None \/ preserve)
      BY <1>4 DEF NatAfterTeardown
    <3>2. sys.nat => rt.via # None \/ "nat" \in residue
      BY <1>0 DEF ViaKnown
    <3>. QED BY <1>1, <3>1, <3>2
  <2>. QED BY <1>1, <1>7, <2>1 DEF ViaKnown
<1>. QED BY <1>1, <1>3, <1>7, <1>9, <1>10, <1>11, <1>12

LEMMA ClearIs ==
  ASSUME PolInv, ClearRoutes
  PROVE  PolInv'
<1>1. stage' = "cleared" /\ Forget /\ UNCHANGED lans
  BY DEF ClearRoutes
<1>2. PICK r : r = [rt EXCEPT !.via = None, !.fp = "unknown", !.dns = None, !.routes = {}]
  OBVIOUS
<1>3. r \in RtSet /\ r.routes = {} /\ r.via = None /\ r.dns = None /\ r.tun = rt.tun
  BY <1>2, PolTyped DEF PolInv, RtSet
<1>4. Undo(FALSE, r)
  BY <1>2 DEF ClearRoutes
<1>5. rt.tun \in BOOLEAN
  BY PolTyped DEF PolInv
<1>6. /\ rt' = r /\ sys' \in SysSet /\ residue' \subseteq Routes \cup {"dns", "nat", "reset"}
      /\ RoutesKnown' /\ DnsKnown' /\ ViaKnown' /\ ~sys'.saved
  BY <1>3, <1>4, <1>5, UndoIs
<1>7. PolTypeOK'
  BY <1>1, <1>3, <1>6 DEF PolInv, PolTypeOK, RtSet, SysSet, Forget, NoCount
<1>8. DeviceThere' /\ Staged'
  BY <1>1, <1>3, <1>6 DEF DeviceThere, Staged, Applying, Ended
<1>. QED BY <1>6, <1>7, <1>8 DEF PolInv

LEMMA CloseIs ==
  ASSUME PolInv, CloseRuntime
  PROVE  PolInv'
<1>1. stage' = "idle" /\ Forget /\ lans' \in BOOLEAN /\ rt.tun
  BY DEF CloseRuntime
<1>2. PICK preserve \in BOOLEAN : Undo(preserve, Fresh)
  BY DEF CloseRuntime
<1>3. Fresh \in RtSet /\ Fresh.routes = {} /\ Fresh.via = None /\ Fresh.dns = None /\ Fresh.tun = FALSE
  BY DEF Fresh, RtSet
<1>4. /\ rt' = Fresh /\ sys' \in SysSet /\ residue' \subseteq Routes \cup {"dns", "nat", "reset"}
      /\ RoutesKnown' /\ DnsKnown' /\ ViaKnown' /\ ~sys'.saved
  BY <1>1, <1>2, <1>3, UndoIs
<1>5. PolTypeOK'
  <2>1. {lans', defer'} \subseteq BOOLEAN /\ policy' = NoPolicy /\ count' \in [add : SUBSET Routes, fail : SUBSET Routes]
    BY <1>1 DEF Forget, NoCount
  <2>. QED BY <1>1, <1>3, <1>4, <2>1 DEF PolTypeOK, RtSet, SysSet
<1>6. DeviceThere' /\ Staged'
  BY <1>1, <1>3, <1>4 DEF DeviceThere, Staged, Applying, Ended
<1>. QED BY <1>4, <1>5, <1>6 DEF PolInv

LEMMA PolStarts == PolInit => PolInv
<1>. SUFFICES ASSUME PolInit PROVE PolInv
  OBVIOUS
<1>1. Fresh \in RtSet /\ Fresh.routes = {} /\ Fresh.via = None /\ Fresh.dns = None /\ Fresh.tun = FALSE
  BY DEF Fresh, RtSet
<1>2. PICK s : s = [routes |-> {}, dns |-> None, saved |-> FALSE, applied |-> None, nat |-> FALSE]
  OBVIOUS
<1>3. /\ s \in SysSet /\ s.routes = {} /\ s.dns = None /\ s.saved = FALSE
      /\ s.applied = None /\ s.nat = FALSE
  BY <1>2 DEF SysSet
<1>4. rt = Fresh /\ sys = s /\ stage = "idle" /\ residue = {} /\ lans \in BOOLEAN /\ defer = FALSE
  BY <1>2 DEF PolInit
<1>5. policy = NoPolicy /\ count \in [add : SUBSET Routes, fail : SUBSET Routes]
  BY DEF PolInit, NoCount
<1>6. PolTypeOK
  BY <1>1, <1>3, <1>4, <1>5 DEF PolTypeOK, RtSet, SysSet
<1>. QED BY <1>1, <1>3, <1>4, <1>6
   DEF PolInv, DeviceThere, RoutesKnown, DnsKnown, ViaKnown, Staged, Applying, Ended

LEMMA PolSteps == PolInv /\ [PolNext]_polVars => PolInv'
<1>. SUFFICES ASSUME PolInv, [PolNext]_polVars PROVE PolInv'
  OBVIOUS
<1>1. CASE UNCHANGED polVars
  BY <1>1 DEF polVars, PolInv, PolTypeOK, DeviceThere, RoutesKnown, DnsKnown, ViaKnown, Staged,
              WillSetUp, Fingerprint, RoutesAre, ViaIs, Desired
<1>2. CASE PolNext
  BY <1>2, ApplyIs, AbortIs, DnsIs, OffIs, KeptIs, SetUpIs, FailsIs, CheckIs, ClearIs, CloseIs, NothingIs
     DEF PolNext
<1>. QED BY <1>1, <1>2

(* runtime.applyPolicy, after any sequence of policies of which calls fail *)
(* and stages are cut short: a policy reported as applied is the one the   *)
(* system has, its routes, its via exit and its DNS servers.               *)
THEOREM AppliedKept == PolSpec => []AppliedAsPolicy
<1>1. PolInv => AppliedAsPolicy
  BY DEF PolInv, AppliedAsPolicy, RoutesKnown, DnsKnown, Staged, Ended, ViaIs
<1>. QED BY PolStarts, PolSteps, <1>1, PTL DEF PolSpec

(* clearRoutesLocked and Close: once there is no device, nothing of any    *)
(* policy is left but what a failed call or a preserved NAT left there.    *)
THEOREM UndoneKept == PolSpec => []PolicyUndone
<1>1. PolInv => PolicyUndone
  <2>. SUFFICES ASSUME PolInv, ~rt.tun
                PROVE  /\ sys.routes \subseteq residue
                       /\ sys.dns # None => "dns" \in residue
                       /\ sys.nat => "nat" \in residue
    BY DEF PolicyUndone
  <2>1. rt.routes = {} /\ rt.via = None /\ ~sys.saved
    BY DEF PolInv, DeviceThere
  <2>. QED BY <2>1 DEF PolInv, RoutesKnown, DnsKnown, ViaKnown
<1>. QED BY PolStarts, PolSteps, <1>1, PTL DEF PolSpec

----------------------------------------------------------------------------
(***************************************************************************)
(* One engine.  Which callers of Stop are still to come past a statement   *)
(* says what of the machine is clean already: the first one, which waits   *)
(* for the loop, is among them until the loop cannot touch anything.       *)
(***************************************************************************)
FlagSet == [stopping : BOOLEAN, cancelled : BOOLEAN, authOK : BOOLEAN, failFast : BOOLEAN,
            rejects : 0..MaxRejects, reconnect : BOOLEAN, ksOK : BOOLEAN]
LoopSet == [pc : LoopPCs, conn : 0..MaxConn, mine : 0..MaxConn]
ConnStates == {"none", "open", "begun", "held", "over"}
StopPCs == {"idle", "cancel", "clear", "clear2", "halt", "lock", "close",
            "wait", "dataplane", "filters", "stopped"}
FirstPCs == {"cancel", "clear", "halt", "lock", "close", "wait"}

(* Where the loop has a connection that it serves; where it has kept one;  *)
(* where it may have an open one; where it may be after Stop gave up       *)
(* waiting for it; where it has given up; where it is not connected yet.   *)
Served  == {"handshake", "hooked", "authed", "policy", "failing", "applied", "abandoned", "connected", "wait"}
Kept    == {"kept", "failed"} \cup Served
OpenPCs == {"dialled", "kept"} \cup Served
LastPCs == {"top", "dial", "policy", "applied", "abandoned", "connected", "wait", "closing", "done"}
GivenUp == {"failing", "failed", "selfstop", "selfwait", "done"}
Unready == {"handshake", "hooked", "authed", "policy", "applied", "abandoned"}

Before(pcs) == \E s \in Stoppers : stop[s] \in pcs

OpenIsMine ==
    /\ \A c \in Conns : closing[c] = "open" => loop.conn = c /\ loop.pc \in OpenPCs
    /\ loop.pc \in {"dialled"} \cup Kept => loop.conn \in Conns
    /\ loop.pc \in Kept => loop.mine = loop.conn
ServedClosed == loop.pc \in Served => closing[loop.conn] # "open"
LoopEnds == loop.pc = "done" \/ ("timeout" \in slips /\ loop.pc \in LastPCs)

StopOrder ==
    /\ flags.reconnect <=> ~flags.stopping
    /\ flags.cancelled => flags.stopping
    /\ \A s \in Stoppers : /\ stop[s] # "idle" => flags.stopping
                           /\ stop[s] \in {"lock", "close", "wait"} => halt
                           /\ stop[s] \in {"close", "wait"} => ServedClosed
LoopStopped     == flags.stopping /\ ~Before(FirstPCs) => halt /\ ServedClosed /\ LoopEnds
DataplaneClosed == flags.stopping /\ ~Before(FirstPCs \cup {"dataplane"}) => dp = {} /\ ~allowed /\ loop.pc # "policy"
FiltersRemoved  == flags.stopping /\ ~Before(FirstPCs \cup {"dataplane", "filters"}) => ~(ks /\ flags.ksOK)

(* Without Stop, a loop that has given up has said so.                     *)
GaveUp ==
    ~flags.stopping => /\ halt => loop.pc \in {"selfwait", "done"}
                       /\ loop.pc # "closing"
                       /\ loop.pc \in GivenUp => state = "idle" \/ "lateClose" \in slips
NotYetConnected == loop.pc \in Unready => state # "connected"

EngInv ==
    /\ EngTypeOK /\ OpenIsMine /\ StopOrder
    /\ LoopStopped /\ DataplaneClosed /\ FiltersRemoved
    /\ GaveUp /\ NotYetConnected /\ KillSwitchFollows

LEMMA EngTyped ==
  ASSUME EngTypeOK
  PROVE  /\ flags \in FlagSet /\ loop \in LoopSet /\ closing \in [Conns -> ConnStates]
         /\ stop \in [Stoppers -> StopPCs] /\ loop.pc \in LoopPCs
         /\ flags.stopping \in BOOLEAN /\ flags.cancelled \in BOOLEAN /\ flags.ksOK \in BOOLEAN
         /\ flags.reconnect \in BOOLEAN /\ flags.authOK \in BOOLEAN /\ flags.failFast \in BOOLEAN
         /\ halt \in BOOLEAN /\ allowed \in BOOLEAN /\ ks \in BOOLEAN
<1>1. flags \in FlagSet /\ loop \in LoopSet
  BY DEF EngTypeOK, FlagSet, LoopSet
<1>2. closing \in [Conns -> ConnStates] /\ stop \in [Stoppers -> StopPCs]
  BY DEF EngTypeOK, ConnStates, StopPCs
<1>3. loop.pc \in LoopPCs
  BY <1>1 DEF LoopSet
<1>4. /\ flags.stopping \in BOOLEAN /\ flags.cancelled \in BOOLEAN /\ flags.ksOK \in BOOLEAN
      /\ flags.reconnect \in BOOLEAN /\ flags.authOK \in BOOLEAN /\ flags.failFast \in BOOLEAN
  BY <1>1 DEF FlagSet
<1>5. halt \in BOOLEAN /\ allowed \in BOOLEAN /\ ks \in BOOLEAN
  BY DEF EngTypeOK
<1>. QED BY <1>1, <1>2, <1>3, <1>4, <1>5

LEMMA ConnsAre == \A n \in 0..MaxConn : n # 0 <=> n \in Conns
BY EngineAssumption DEF Conns

LEMMA GotoIs ==
  ASSUME EngTypeOK, NEW pc \in LoopPCs, Goto(pc)
  PROVE  loop' \in LoopSet /\ loop'.pc = pc /\ loop'.conn = loop.conn /\ loop'.mine = loop.mine
<1>1. PICK l \in LoopSet : l = loop
  BY EngTyped
<1>2. PICK m : m = [l EXCEPT !.pc = pc]
  OBVIOUS
<1>3. m \in LoopSet /\ m.pc = pc /\ m.conn = l.conn /\ m.mine = l.mine
  BY <1>2 DEF LoopSet
<1>. QED BY <1>1, <1>2, <1>3 DEF Goto

LEMMA CloseDoes ==
  ASSUME EngTypeOK, NEW c \in 0..MaxConn, Close(c)
  PROVE  /\ closing' \in [Conns -> ConnStates] /\ (c \in Conns => closing'[c] # "open")
         /\ \A d \in Conns : closing'[d] = "open" => closing[d] = "open"
<1>1. closing \in [Conns -> ConnStates]
  BY EngTyped
<1>2. CASE c # 0 /\ closing[c] = "open"
  <2>1. closing' = [closing EXCEPT ![c] = "begun"] /\ c \in Conns
    BY <1>2, ConnsAre DEF Close
  <2>. QED BY <1>1, <2>1 DEF ConnStates
<1>3. CASE ~(c # 0 /\ closing[c] = "open")
  BY <1>1, <1>3, ConnsAre DEF Close
<1>. QED BY <1>2, <1>3

(* Only ksOK changes, and what it says of the filters is true.             *)
KeepsFlags ==
    /\ flags'.stopping = flags.stopping /\ flags'.cancelled = flags.cancelled
    /\ flags'.reconnect = flags.reconnect

LEMMA KsOkIs ==
  ASSUME NEW r \in FlagSet, NEW v \in BOOLEAN, NEW q, q = [r EXCEPT !.ksOK = v]
  PROVE  /\ q \in FlagSet /\ q.ksOK = v /\ q.stopping = r.stopping /\ q.cancelled = r.cancelled
         /\ q.reconnect = r.reconnect
BY DEF FlagSet

LEMMA ProtectIs ==
  ASSUME EngTypeOK, Protect
  PROVE  /\ flags' \in FlagSet /\ KeepsFlags /\ ks' \in BOOLEAN /\ flags'.ksOK \in BOOLEAN
         /\ KillSwitch /\ flags'.ksOK => ks'
         /\ ~allowed => (ks' /\ flags'.ksOK => ks /\ flags.ksOK)
<1>0. flags \in FlagSet /\ ks \in BOOLEAN /\ flags.ksOK \in BOOLEAN
  BY EngTyped
<1>1. CASE ~KillSwitch
  BY <1>0, <1>1 DEF Protect, KeepsFlags
<1>2. CASE KillSwitch /\ allowed /\ ks' = TRUE /\ flags' = [flags EXCEPT !.ksOK = TRUE]
  BY <1>0, <1>2, KsOkIs DEF KeepsFlags
<1>3. CASE KillSwitch /\ ks' \in {ks, FALSE} /\ flags' = [flags EXCEPT !.ksOK = FALSE]
  BY <1>0, <1>3, KsOkIs DEF KeepsFlags
<1>. QED BY <1>1, <1>2, <1>3 DEF Protect, EnableFilters

LEMMA DisableIs ==
  ASSUME EngTypeOK, DisableFilters
  PROVE  flags' \in FlagSet /\ KeepsFlags /\ ks' \in BOOLEAN /\ flags'.ksOK \in BOOLEAN /\ ~(ks' /\ flags'.ksOK)
<1>0. flags \in FlagSet /\ ks \in BOOLEAN
  BY EngTyped
<1>1. CASE ks' = FALSE /\ flags' = [flags EXCEPT !.ksOK = TRUE]
  BY <1>0, <1>1, KsOkIs DEF KeepsFlags
<1>2. CASE UNCHANGED ks /\ flags' = [flags EXCEPT !.ksOK = FALSE]
  BY <1>0, <1>2, KsOkIs DEF KeepsFlags
<1>. QED BY <1>1, <1>2 DEF DisableFilters

(* A step of the loop, as far as callers of Stop depend on it: the loop    *)
(* that the first of them has left behind touches nothing any more.        *)
LEMMA LoopSteps ==
  ASSUME EngInv, UNCHANGED <<stop, halt>>, KeepsFlags,
         "timeout" \in slips => "timeout" \in slips',
         loop.pc # "done", flags.stopping /\ loop.pc \in LastPCs => loop'.pc \in LastPCs \ {"policy"},
         halt /\ ServedClosed => ServedClosed',
         flags.stopping /\ loop.pc \in LastPCs \ {"policy"} => UNCHANGED <<dp, allowed>>,
         flags.stopping /\ loop.pc \in LastPCs /\ ks' /\ flags'.ksOK => ks /\ flags.ksOK
  PROVE  StopOrder' /\ LoopStopped' /\ DataplaneClosed' /\ FiltersRemoved'
<1>0. flags'.stopping = flags.stopping /\ \A pcs : Before(pcs)' <=> Before(pcs)
  BY DEF Before, KeepsFlags
<1>1. StopOrder'
  BY DEF EngInv, StopOrder, KeepsFlags
<1>2. LoopStopped'
  BY <1>0 DEF EngInv, LoopStopped, LoopEnds
<1>3. flags.stopping /\ ~Before(FirstPCs) => loop.pc \in LastPCs
  BY DEF EngInv, LoopStopped, LoopEnds
<1>4. /\ Before(FirstPCs) => Before(FirstPCs \cup {"dataplane"})
      /\ Before(FirstPCs) => Before(FirstPCs \cup {"dataplane", "filters"})
  BY DEF Before
<1>5. DataplaneClosed'
  BY <1>0, <1>3, <1>4 DEF EngInv, DataplaneClosed
<1>6. FiltersRemoved'
  BY <1>0, <1>3, <1>4 DEF EngInv, FiltersRemoved
<1>. QED BY <1>1, <1>2, <1>5, <1>6

LEMMA LoopMoves ==
  ASSUME EngInv, UNCHANGED <<stop, halt, dp, allowed, ks, slips>>, KeepsFlags, flags'.ksOK = flags.ksOK,
         loop.pc # "done", flags.stopping /\ loop.pc \in LastPCs => loop'.pc \in LastPCs \ {"policy"},
         halt /\ ServedClosed => ServedClosed'
  PROVE  StopOrder' /\ LoopStopped' /\ DataplaneClosed' /\ FiltersRemoved'
BY LoopSteps

(* A step that leaves the flags and the connections alone.                 *)
OnlyLoop == UNCHANGED <<flags, active, hooked, halt, stop, dp, allowed, ks, slips>>

LEMMA TopIs ==
  ASSUME EngInv, Top
  PROVE  EngInv'
<1>1. loop.pc = "top" /\ OnlyLoop /\ UNCHANGED <<state, closing>>
  BY DEF Top, OnlyLoop
<1>2. loop' \in LoopSet /\ loop'.pc \in {"done", "dial"} /\ (loop'.pc = "done" <=> halt)
  BY EngTyped, GotoIs DEF EngInv, Top, LoopPCs
<1>3. EngTypeOK'
  BY <1>1, <1>2 DEF EngInv, EngTypeOK, LoopSet, OnlyLoop
<1>4. OpenIsMine' /\ NotYetConnected'
  BY <1>1, <1>2 DEF EngInv, OpenIsMine, NotYetConnected, OpenPCs, Kept, Served, Unready
<1>5. StopOrder' /\ LoopStopped' /\ DataplaneClosed' /\ FiltersRemoved'
  BY <1>1, <1>2, LoopMoves DEF OnlyLoop, KeepsFlags, LastPCs, ServedClosed, Served
<1>6. GaveUp' /\ KillSwitchFollows'
  BY <1>1, <1>2 DEF EngInv, GaveUp, GivenUp, KillSwitchFollows, OnlyLoop
<1>. QED BY <1>3, <1>4, <1>5, <1>6 DEF EngInv

LEMMA DialFailsIs ==
  ASSUME EngInv, NEW fatal \in BOOLEAN, DialFails(fatal)
  PROVE  EngInv'
<1>0. flags.authOK \in BOOLEAN /\ flags.failFast \in BOOLEAN /\ (flags.reconnect <=> ~flags.stopping)
  BY EngTyped DEF EngInv, StopOrder
<1>1. loop.pc = "dial" /\ OnlyLoop /\ UNCHANGED closing
  BY DEF DialFails, OnlyLoop
<1>2. PICK pc \in {"done", "top", "selfstop"} : Goto(pc) /\ (pc = "selfstop" => ~flags.stopping)
        /\ ((pc = "selfstop" \/ pc = "done") /\ ~flags.stopping => state' = "idle")
  BY <1>0 DEF DialFails, SelfStop, GivesUp
<1>3. state' \in {state, "idle"}
  BY DEF DialFails
<1>4. loop' \in LoopSet /\ loop'.pc = pc
  BY <1>2, GotoIs DEF EngInv, LoopPCs
<1>5. EngTypeOK'
  BY <1>1, <1>3, <1>4 DEF EngInv, EngTypeOK, LoopSet, OnlyLoop
<1>6. OpenIsMine' /\ NotYetConnected'
  BY <1>1, <1>3, <1>4 DEF EngInv, OpenIsMine, NotYetConnected, OpenPCs, Kept, Served, Unready
<1>7. StopOrder' /\ LoopStopped' /\ DataplaneClosed' /\ FiltersRemoved'
  <2>1. flags.stopping => pc \in LastPCs \ {"policy"}
    BY <1>2 DEF LastPCs
  <2>2. loop'.pc \notin Served
    BY <1>4 DEF Served
  <2>. QED BY <1>1, <1>2, <1>4, <2>1, <2>2, LoopMoves DEF OnlyLoop, KeepsFlags, ServedClosed
<1>8. GaveUp' /\ KillSwitchFollows'
  BY <1>1, <1>2, <1>3, <1>4 DEF EngInv, GaveUp, GivenUp, KillSwitchFollows, OnlyLoop
<1>. QED BY <1>5, <1>6, <1>7, <1>8 DEF EngInv

LEMMA DialledIs ==
  ASSUME EngInv, NEW c \in Conns, Dialled(c)
  PROVE  EngInv'
<1>0. loop \in LoopSet /\ closing \in [Conns -> ConnStates] /\ halt \in BOOLEAN /\ c \in 0..MaxConn
  BY EngTyped, EngineAssumption DEF EngInv, Conns
<1>1. loop.pc = "dial" /\ OnlyLoop /\ UNCHANGED state /\ closing[c] = "none"
  BY DEF Dialled, OnlyLoop
<1>2. PICK pc, conn :
        /\ pc = (IF halt THEN "done" ELSE "dialled") /\ conn = (IF halt THEN "over" ELSE "open")
        /\ loop' = [loop EXCEPT !.pc = pc, !.conn = c] /\ closing' = [closing EXCEPT ![c] = conn]
  BY DEF Dialled
<1>3. loop' \in LoopSet /\ loop'.pc = pc /\ loop'.conn = c
  BY <1>0, <1>2 DEF LoopSet, LoopPCs
<1>4. /\ closing' \in [Conns -> ConnStates] /\ closing'[c] = conn
      /\ \A d \in Conns : d # c => closing'[d] = closing[d]
  BY <1>0, <1>2 DEF ConnStates
<1>5. EngTypeOK'
  BY <1>1, <1>3, <1>4 DEF EngInv, EngTypeOK, LoopSet, OnlyLoop, ConnStates
<1>6. OpenIsMine' /\ NotYetConnected'
  BY <1>0, <1>1, <1>2, <1>3, <1>4
     DEF EngInv, OpenIsMine, NotYetConnected, OpenPCs, Kept, Served, Unready
<1>7. StopOrder' /\ LoopStopped' /\ DataplaneClosed' /\ FiltersRemoved'
  <2>1. loop'.pc \notin Served
    BY <1>2, <1>3 DEF Served
  <2>2. CASE halt
    BY <1>1, <1>2, <1>3, <2>1, <2>2, LoopMoves DEF OnlyLoop, KeepsFlags, ServedClosed, LastPCs
  <2>3. CASE ~halt
    <3>1. Before(FirstPCs) \/ ~flags.stopping
      BY <2>3 DEF EngInv, LoopStopped
    <3>. QED BY <1>1, <1>3, <2>1, <2>3, <3>1
       DEF OnlyLoop, EngInv, StopOrder, LoopStopped, DataplaneClosed, FiltersRemoved, Before,
           ServedClosed
  <2>. QED BY <1>0, <2>2, <2>3
<1>8. GaveUp' /\ KillSwitchFollows'
  BY <1>0, <1>1, <1>2, <1>3 DEF EngInv, GaveUp, GivenUp, KillSwitchFollows, OnlyLoop
<1>. QED BY <1>5, <1>6, <1>7, <1>8 DEF EngInv

LEMMA KeepIs ==
  ASSUME EngInv, Keep
  PROVE  EngInv'
<1>1. loop.pc = "dialled" /\ OnlyLoop /\ UNCHANGED <<state, closing>> /\ RMuFree
  BY DEF Keep, OnlyLoop
<1>2. loop' \in LoopSet /\ loop'.pc = "kept" /\ loop'.conn = loop.conn /\ loop'.mine = loop.conn
  BY EngTyped DEF EngInv, Keep, LoopSet, LoopPCs
<1>3. EngTypeOK'
  BY <1>1, <1>2 DEF EngInv, EngTypeOK, LoopSet, OnlyLoop
<1>4. OpenIsMine' /\ NotYetConnected'
  BY <1>1, <1>2 DEF EngInv, OpenIsMine, NotYetConnected, OpenPCs, Kept, Served, Unready
<1>5. StopOrder' /\ LoopStopped' /\ DataplaneClosed' /\ FiltersRemoved'
  BY <1>1, <1>2, LoopMoves DEF OnlyLoop, KeepsFlags, LastPCs, ServedClosed, Served
<1>6. GaveUp' /\ KillSwitchFollows'
  BY <1>1, <1>2 DEF EngInv, GaveUp, GivenUp, KillSwitchFollows, OnlyLoop
<1>. QED BY <1>3, <1>4, <1>5, <1>6 DEF EngInv

LEMMA ConnectingIs ==
  ASSUME EngInv, Connecting
  PROVE  EngInv'
<1>0. loop \in LoopSet /\ halt \in BOOLEAN /\ loop.conn \in Conns /\ loop.conn \in 0..MaxConn
  BY EngTyped DEF EngInv, Connecting, OpenIsMine, OpenPCs, Kept, LoopSet
<1>1. loop.pc = "kept" /\ OnlyLoop
  BY DEF Connecting, OnlyLoop
<1>mine. loop.mine = loop.conn
  BY <1>1 DEF EngInv, OpenIsMine, Kept
<1>2. CASE halt
  <2>1. Close(loop.conn) /\ Goto("closing") /\ UNCHANGED state
    BY <1>2 DEF Connecting
  <2>2. loop' \in LoopSet /\ loop'.pc = "closing"
    BY <2>1, GotoIs DEF EngInv, LoopPCs
  <2>3. /\ closing' \in [Conns -> ConnStates] /\ closing'[loop.conn] # "open"
        /\ \A d \in Conns : closing'[d] = "open" => closing[d] = "open"
    BY <1>0, <2>1, CloseDoes DEF EngInv
  <2>4. EngTypeOK'
    BY <1>1, <2>1, <2>2, <2>3 DEF EngInv, EngTypeOK, LoopSet, OnlyLoop, ConnStates
  <2>5. OpenIsMine' /\ NotYetConnected'
    BY <1>1, <2>2, <2>3 DEF EngInv, OpenIsMine, NotYetConnected, OpenPCs, Kept, Served, Unready
  <2>6. StopOrder' /\ LoopStopped' /\ DataplaneClosed' /\ FiltersRemoved'
    BY <1>1, <2>2, LoopMoves DEF OnlyLoop, KeepsFlags, LastPCs, ServedClosed, Served
  <2>7. GaveUp' /\ KillSwitchFollows'
    BY <1>1, <1>2, <2>1, <2>2 DEF EngInv, GaveUp, GivenUp, KillSwitchFollows, OnlyLoop
  <2>. QED BY <2>4, <2>5, <2>6, <2>7 DEF EngInv
<1>3. CASE ~halt
  <2>1. state' = "connecting" /\ Goto("handshake") /\ UNCHANGED closing
    BY <1>3 DEF Connecting
  <2>2. loop' \in LoopSet /\ loop'.pc = "handshake" /\ loop'.conn = loop.conn /\ loop'.mine = loop.mine
    BY <2>1, GotoIs DEF EngInv, LoopPCs
  <2>3. EngTypeOK'
    BY <1>1, <2>1, <2>2 DEF EngInv, EngTypeOK, LoopSet, OnlyLoop
  <2>4. OpenIsMine' /\ NotYetConnected'
    BY <1>0, <1>1, <1>mine, <2>1, <2>2
       DEF EngInv, OpenIsMine, NotYetConnected, OpenPCs, Kept, Served, Unready
  <2>5. StopOrder' /\ LoopStopped' /\ DataplaneClosed' /\ FiltersRemoved'
    BY <1>1, <1>3, <2>2, LoopMoves DEF OnlyLoop, KeepsFlags, LastPCs
  <2>6. GaveUp' /\ KillSwitchFollows'
    BY <1>1, <1>3, <2>1, <2>2 DEF EngInv, GaveUp, GivenUp, KillSwitchFollows, OnlyLoop
  <2>. QED BY <2>3, <2>4, <2>5, <2>6 DEF EngInv
<1>. QED BY <1>0, <1>2, <1>3

LEMMA HandshakeFailsIs ==
  ASSUME EngInv, HandshakeFails
  PROVE  EngInv'
<1>0. /\ loop \in LoopSet /\ flags \in FlagSet /\ loop.conn \in Conns /\ loop.conn \in 0..MaxConn
      /\ flags.authOK \in BOOLEAN /\ flags.failFast \in BOOLEAN /\ (flags.reconnect <=> ~flags.stopping)
  BY EngTyped DEF EngInv, HandshakeFails, OpenIsMine, OpenPCs, Kept, Served, LoopSet, StopOrder
<1>1. /\ loop.pc = "handshake" /\ UNCHANGED <<active, hooked, halt, stop, dp, allowed, ks, slips>>
      /\ Close(loop.conn)
  BY DEF HandshakeFails
<1>2. PICK fatal \in BOOLEAN, online \in BOOLEAN :
        /\ flags' = IF online /\ ~flags.authOK /\ state # "reconnecting"
                    THEN [flags EXCEPT !.rejects = IF flags.rejects < MaxRejects THEN flags.rejects + 1 ELSE flags.rejects]
                    ELSE flags
        /\ state' = IF GivesUp(fatal) THEN "idle" ELSE state
        /\ Goto(IF GivesUp(fatal) THEN SelfStop("wait") ELSE "wait")
  BY DEF HandshakeFails
<1>3. PICK pc \in {"selfstop", "wait"} : Goto(pc) /\ (pc = "selfstop" => ~flags.stopping /\ state' = "idle")
  BY <1>0, <1>2 DEF SelfStop
<1>4. flags' \in FlagSet /\ KeepsFlags /\ flags'.ksOK = flags.ksOK
  <2>1. PICK n \in 0..MaxRejects : n = IF flags.rejects < MaxRejects THEN flags.rejects + 1 ELSE flags.rejects
    <3>1. flags.rejects \in 0..MaxRejects
      BY <1>0 DEF FlagSet
    <3>. QED BY <3>1, EngineAssumption
  <2>2. PICK q : q = [flags EXCEPT !.rejects = n]
    OBVIOUS
  <2>3. /\ q \in FlagSet /\ q.ksOK = flags.ksOK /\ q.stopping = flags.stopping /\ q.cancelled = flags.cancelled
        /\ q.reconnect = flags.reconnect
    BY <1>0, <2>2 DEF FlagSet
  <2>4. flags' \in {q, flags}
    BY <1>2, <2>1, <2>2
  <2>. QED BY <1>0, <2>3, <2>4 DEF KeepsFlags
<1>5. loop' \in LoopSet /\ loop'.pc = pc /\ loop'.conn = loop.conn /\ loop'.mine = loop.mine
  BY <1>3, GotoIs DEF EngInv, LoopPCs
<1>6. /\ closing' \in [Conns -> ConnStates] /\ closing'[loop.conn] # "open"
      /\ \A d \in Conns : closing'[d] = "open" => closing[d] = "open"
  BY <1>0, <1>1, CloseDoes DEF EngInv
<1>7. state' \in {"idle", state}
  BY <1>2
<1>8. EngTypeOK'
  BY <1>1, <1>4, <1>5, <1>6, <1>7 DEF EngInv, EngTypeOK, LoopSet, FlagSet, ConnStates
<1>9. OpenIsMine' /\ NotYetConnected'
  BY <1>1, <1>0, <1>3, <1>5, <1>6
     DEF EngInv, OpenIsMine, NotYetConnected, OpenPCs, Kept, Served, Unready
<1>10. StopOrder' /\ LoopStopped' /\ DataplaneClosed' /\ FiltersRemoved'
  <2>1. loop.pc \notin LastPCs /\ ServedClosed'
    BY <1>1, <1>5, <1>6 DEF LastPCs, ServedClosed
  <2>. QED BY <1>1, <1>4, <2>1, LoopMoves
<1>11. GaveUp'
  BY <1>1, <1>3, <1>4, <1>5, <1>7 DEF EngInv, GaveUp, GivenUp, KeepsFlags
<1>12. KillSwitchFollows'
  <2>1. state # "connected"
    BY <1>1 DEF EngInv, NotYetConnected, Unready
  <2>. QED BY <1>1, <1>4, <1>7, <2>1 DEF EngInv, KillSwitchFollows, KeepsFlags
<1>. QED BY <1>8, <1>9, <1>10, <1>11, <1>12 DEF EngInv

LEMMA HandshakeOKIs ==
  ASSUME EngInv, HandshakeOK
  PROVE  EngInv'
<1>0. flags \in FlagSet /\ loop.conn \in Conns
  BY EngTyped DEF EngInv, HandshakeOK, OpenIsMine, OpenPCs, Kept, Served
<1>1. /\ loop.pc = "handshake" /\ UNCHANGED <<state, active, closing, halt, stop, dp, allowed, ks, slips>>
      /\ flags' = [flags EXCEPT !.rejects = 0] /\ hooked' = hooked \cup {loop.conn} /\ Goto("hooked")
  BY DEF HandshakeOK
<1>2. flags' \in FlagSet /\ KeepsFlags /\ flags'.ksOK = flags.ksOK
  <2>1. 0 \in 0..MaxRejects
    BY EngineAssumption
  <2>. QED BY <1>0, <1>1, <2>1 DEF FlagSet, KeepsFlags
<1>3. loop' \in LoopSet /\ loop'.pc = "hooked" /\ loop'.conn = loop.conn /\ loop'.mine = loop.mine
  BY <1>1, GotoIs DEF EngInv, LoopPCs
<1>4. EngTypeOK'
  BY <1>0, <1>1, <1>2, <1>3 DEF EngInv, EngTypeOK, LoopSet, FlagSet
<1>5. OpenIsMine' /\ NotYetConnected'
  BY <1>1, <1>3 DEF EngInv, OpenIsMine, NotYetConnected, OpenPCs, Kept, Served, Unready
<1>6. StopOrder' /\ LoopStopped' /\ DataplaneClosed' /\ FiltersRemoved'
  BY <1>1, <1>2, <1>3, LoopMoves DEF LastPCs, ServedClosed, Served
<1>7. GaveUp' /\ KillSwitchFollows'
  BY <1>1, <1>2, <1>3 DEF EngInv, GaveUp, GivenUp, KillSwitchFollows, KeepsFlags
<1>. QED BY <1>4, <1>5, <1>6, <1>7 DEF EngInv

LEMMA ActivateIs ==
  ASSUME EngInv, Activate
  PROVE  EngInv'
<1>0. flags \in FlagSet /\ loop.conn \in 0..MaxConn
  BY EngTyped DEF EngInv, LoopSet
<1>1. /\ loop.pc = "hooked" /\ UNCHANGED <<state, closing, hooked, halt, stop, dp, allowed, ks, slips>>
      /\ flags' = [flags EXCEPT !.authOK = TRUE, !.failFast = FALSE] /\ active' = loop.conn /\ Goto("authed")
  BY DEF Activate
<1>2. flags' \in FlagSet /\ KeepsFlags /\ flags'.ksOK = flags.ksOK
  BY <1>0, <1>1 DEF FlagSet, KeepsFlags
<1>3. loop' \in LoopSet /\ loop'.pc = "authed" /\ loop'.conn = loop.conn /\ loop'.mine = loop.mine
  BY <1>1, GotoIs DEF EngInv, LoopPCs
<1>4. EngTypeOK'
  BY <1>0, <1>1, <1>2, <1>3 DEF EngInv, EngTypeOK, LoopSet, FlagSet
<1>5. OpenIsMine' /\ NotYetConnected'
  BY <1>1, <1>3 DEF EngInv, OpenIsMine, NotYetConnected, OpenPCs, Kept, Served, Unready
<1>6. StopOrder' /\ LoopStopped' /\ DataplaneClosed' /\ FiltersRemoved'
  BY <1>1, <1>2, <1>3, LoopMoves DEF LastPCs, ServedClosed, Served
<1>7. GaveUp' /\ KillSwitchFollows'
  BY <1>1, <1>2, <1>3 DEF EngInv, GaveUp, GivenUp, KillSwitchFollows, KeepsFlags
<1>. QED BY <1>4, <1>5, <1>6, <1>7 DEF EngInv

LEMMA StartPolicyIs ==
  ASSUME EngInv, StartPolicy
  PROVE  EngInv'
<1>0. flags.cancelled => flags.stopping
  BY DEF EngInv, StopOrder
<1>1. loop.pc = "authed" /\ OnlyLoop /\ UNCHANGED <<state, closing>>
  BY DEF StartPolicy, OnlyLoop
<1>2. PICK pc \in {"wait", "policy"} : Goto(pc) /\ (pc = "wait" => flags.stopping)
  BY <1>0 DEF StartPolicy
<1>3. loop' \in LoopSet /\ loop'.pc = pc /\ loop'.conn = loop.conn /\ loop'.mine = loop.mine
  BY <1>2, GotoIs DEF EngInv, LoopPCs
<1>4. EngTypeOK'
  BY <1>1, <1>3 DEF EngInv, EngTypeOK, LoopSet, OnlyLoop
<1>5. OpenIsMine' /\ NotYetConnected'
  BY <1>1, <1>2, <1>3 DEF EngInv, OpenIsMine, NotYetConnected, OpenPCs, Kept, Served, Unready
<1>6. StopOrder' /\ LoopStopped' /\ DataplaneClosed' /\ FiltersRemoved'
  BY <1>1, <1>2, <1>3, LoopMoves DEF OnlyLoop, KeepsFlags, LastPCs, ServedClosed, Served
<1>7. GaveUp' /\ KillSwitchFollows'
  BY <1>1, <1>2, <1>3 DEF EngInv, GaveUp, GivenUp, KillSwitchFollows, OnlyLoop
<1>. QED BY <1>4, <1>5, <1>6, <1>7 DEF EngInv

LEMMA PolicyAppliedIs ==
  ASSUME EngInv, PolicyApplied
  PROVE  EngInv'
<1>1. /\ loop.pc = "policy" /\ UNCHANGED <<state, flags, active, closing, hooked, halt, stop, ks, slips>>
      /\ dp' = Dataplane /\ allowed' \in BOOLEAN /\ Goto("applied")
  BY DEF PolicyApplied
<1>2. loop' \in LoopSet /\ loop'.pc = "applied" /\ loop'.conn = loop.conn /\ loop'.mine = loop.mine
  BY <1>1, GotoIs DEF EngInv, LoopPCs
<1>3. EngTypeOK'
  BY <1>1, <1>2 DEF EngInv, EngTypeOK, LoopSet
<1>4. OpenIsMine' /\ NotYetConnected'
  BY <1>1, <1>2 DEF EngInv, OpenIsMine, NotYetConnected, OpenPCs, Kept, Served, Unready
<1>5. StopOrder' /\ LoopStopped' /\ DataplaneClosed' /\ FiltersRemoved'
  BY <1>1, <1>2, LoopSteps DEF KeepsFlags, LastPCs, ServedClosed, Served
<1>6. GaveUp' /\ KillSwitchFollows'
  BY <1>1, <1>2 DEF EngInv, GaveUp, GivenUp, KillSwitchFollows
<1>. QED BY <1>3, <1>4, <1>5, <1>6 DEF EngInv

LEMMA PolicyFailsIs ==
  ASSUME EngInv, PolicyFails
  PROVE  EngInv'
<1>0. flags.stopping \in BOOLEAN /\ allowed \in BOOLEAN
  BY EngTyped DEF EngInv
<1>1. loop.pc = "policy" /\ UNCHANGED <<flags, active, closing, hooked, halt, stop, ks, slips>>
  BY DEF PolicyFails
<1>2. dp' \subseteq Dataplane /\ allowed' \in BOOLEAN
  <2>1. dp' \subseteq Dataplane
    BY DEF PolicyFails, EngInv, EngTypeOK
  <2>2. allowed' = allowed \/ allowed' = ("tun" \in dp')
    BY Zenon DEF PolicyFails
  <2>3. CASE "tun" \in dp'
    BY <1>0, <2>1, <2>2, <2>3
  <2>4. CASE "tun" \notin dp'
    <3>1. ("tun" \in dp') = FALSE
      BY <2>4
    <3>2. allowed' \in {allowed, FALSE}
      BY <2>2, <3>1, Zenon
    <3>. QED BY <1>0, <2>1, <3>2
  <2>. QED BY <2>3, <2>4
<1>3. PICK pc \in {"wait", "failing"} :
        Goto(pc) /\ IF flags.stopping THEN pc = "wait" /\ UNCHANGED state ELSE pc = "failing" /\ state' = "idle"
  BY DEF PolicyFails
<1>4. loop' \in LoopSet /\ loop'.pc = pc /\ loop'.conn = loop.conn /\ loop'.mine = loop.mine
  BY <1>3, GotoIs DEF EngInv, LoopPCs
<1>5. EngTypeOK'
  BY <1>0, <1>1, <1>2, <1>3, <1>4 DEF EngInv, EngTypeOK, LoopSet
<1>6. OpenIsMine' /\ NotYetConnected'
  BY <1>1, <1>3, <1>4 DEF EngInv, OpenIsMine, NotYetConnected, OpenPCs, Kept, Served, Unready
<1>7. StopOrder' /\ LoopStopped' /\ DataplaneClosed' /\ FiltersRemoved'
  BY <1>0, <1>1, <1>3, <1>4, LoopSteps DEF KeepsFlags, LastPCs, ServedClosed, Served
<1>8. GaveUp' /\ KillSwitchFollows'
  BY <1>0, <1>1, <1>3, <1>4 DEF EngInv, GaveUp, GivenUp, KillSwitchFollows
<1>. QED BY <1>5, <1>6, <1>7, <1>8 DEF EngInv

LEMMA FailRoutesIs ==
  ASSUME EngInv, FailRoutes
  PROVE  EngInv'
<1>0. loop.conn \in 0..MaxConn /\ loop.conn \in Conns
  BY EngTyped DEF EngInv, FailRoutes, OpenIsMine, OpenPCs, Kept, Served, LoopSet
<1>1. /\ loop.pc = "failing" /\ UNCHANGED <<state, active, hooked, halt, stop, allowed, slips>>
      /\ Protect /\ Close(loop.conn) /\ Goto("failed")
  BY DEF FailRoutes
<1>2. dp' \subseteq Dataplane
  BY DEF FailRoutes, EngInv, EngTypeOK
<1>3. loop' \in LoopSet /\ loop'.pc = "failed" /\ loop'.conn = loop.conn /\ loop'.mine = loop.mine
  BY <1>1, GotoIs DEF EngInv, LoopPCs
<1>4. /\ flags' \in FlagSet /\ KeepsFlags /\ ks' \in BOOLEAN /\ flags'.ksOK \in BOOLEAN
      /\ KillSwitch /\ flags'.ksOK => ks'
  BY <1>1, ProtectIs DEF EngInv
<1>5. /\ closing' \in [Conns -> ConnStates] /\ closing'[loop.conn] # "open"
      /\ \A d \in Conns : closing'[d] = "open" => closing[d] = "open"
  BY <1>0, <1>1, CloseDoes DEF EngInv
<1>6. EngTypeOK'
  BY <1>1, <1>2, <1>3, <1>4, <1>5 DEF EngInv, EngTypeOK, LoopSet, FlagSet, ConnStates
<1>7. OpenIsMine' /\ NotYetConnected'
  BY <1>0, <1>1, <1>3, <1>5 DEF EngInv, OpenIsMine, NotYetConnected, OpenPCs, Kept, Served, Unready
<1>8. StopOrder' /\ LoopStopped' /\ DataplaneClosed' /\ FiltersRemoved'
  BY <1>1, <1>3, <1>4, LoopSteps DEF LastPCs, ServedClosed, Served
<1>9. GaveUp' /\ KillSwitchFollows'
  BY <1>1, <1>3, <1>4 DEF EngInv, GaveUp, GivenUp, KillSwitchFollows, KeepsFlags
<1>. QED BY <1>6, <1>7, <1>8, <1>9 DEF EngInv

LEMMA DataplaneDownIs ==
  ASSUME EngInv, DataplaneDown
  PROVE  EngInv'
<1>0. flags.reconnect <=> ~flags.stopping
  BY DEF EngInv, StopOrder
<1>1. loop.pc = "failed" /\ OnlyLoop /\ UNCHANGED <<state, closing>> /\ Closed(loop.conn)
  BY DEF DataplaneDown, OnlyLoop
<1>2. PICK pc \in {"wait", "selfstop"} : Goto(pc) /\ (pc = "wait" <=> flags.stopping)
  BY <1>0 DEF DataplaneDown, SelfStop
<1>3. loop' \in LoopSet /\ loop'.pc = pc /\ loop'.conn = loop.conn /\ loop'.mine = loop.mine
  BY <1>2, GotoIs DEF EngInv, LoopPCs
<1>4. EngTypeOK'
  BY <1>1, <1>3 DEF EngInv, EngTypeOK, LoopSet, OnlyLoop
<1>5. loop.conn \in Conns /\ loop.mine = loop.conn /\ closing[loop.conn] # "open"
  BY <1>1 DEF EngInv, OpenIsMine, OpenPCs, Kept, Served
<1>6. OpenIsMine' /\ NotYetConnected'
  BY <1>1, <1>2, <1>3, <1>5 DEF EngInv, OpenIsMine, NotYetConnected, OpenPCs, Kept, Served, Unready
<1>7. StopOrder' /\ LoopStopped' /\ DataplaneClosed' /\ FiltersRemoved'
  BY <1>1, <1>2, <1>3, <1>5, LoopMoves DEF OnlyLoop, KeepsFlags, LastPCs, ServedClosed
<1>8. GaveUp' /\ KillSwitchFollows'
  BY <1>1, <1>2, <1>3 DEF EngInv, GaveUp, GivenUp, KillSwitchFollows, OnlyLoop
<1>. QED BY <1>4, <1>6, <1>7, <1>8 DEF EngInv

LEMMA ConnectedIs ==
  ASSUME EngInv, Connected
  PROVE  EngInv'
<1>1. /\ loop.pc = "applied" /\ UNCHANGED <<flags, closing, hooked, halt, stop, dp, allowed, ks, slips>>
      /\ active' \in {active, 0}
  BY DEF Connected
<1>2. PICK pc \in {"connected", "abandoned"} :
        Goto(pc) /\ IF pc = "connected" THEN state' = "connected" ELSE UNCHANGED state
  BY DEF Connected
<1>3. loop' \in LoopSet /\ loop'.pc = pc /\ loop'.conn = loop.conn /\ loop'.mine = loop.mine
  BY <1>2, GotoIs DEF EngInv, LoopPCs
<1>4. EngTypeOK'
  <2>1. active' \in 0..MaxConn
    BY <1>1, EngineAssumption DEF EngInv, EngTypeOK
  <2>2. state' \in {"connected", state}
    BY <1>2
  <2>. QED BY <1>1, <1>3, <2>1, <2>2 DEF EngInv, EngTypeOK, LoopSet
<1>5. OpenIsMine' /\ NotYetConnected'
  BY <1>1, <1>2, <1>3 DEF EngInv, OpenIsMine, NotYetConnected, OpenPCs, Kept, Served, Unready
<1>6. StopOrder' /\ LoopStopped' /\ DataplaneClosed' /\ FiltersRemoved'
  BY <1>1, <1>2, <1>3, LoopMoves DEF KeepsFlags, LastPCs, ServedClosed, Served
<1>7. GaveUp' /\ KillSwitchFollows'
  BY <1>1, <1>2, <1>3 DEF EngInv, GaveUp, GivenUp, KillSwitchFollows
<1>. QED BY <1>4, <1>5, <1>6, <1>7 DEF EngInv

LEMMA AbandonedIs ==
  ASSUME EngInv, Abandoned
  PROVE  EngInv'
<1>0. flags \in FlagSet /\ flags.stopping \in BOOLEAN /\ ks \in BOOLEAN
  BY EngTyped DEF EngInv
<1>1. loop.pc = "abandoned" /\ Goto("wait") /\ UNCHANGED <<active, closing, hooked, halt, stop, dp, allowed, slips>>
  BY DEF Abandoned
<1>2. loop' \in LoopSet /\ loop'.pc = "wait" /\ loop'.conn = loop.conn /\ loop'.mine = loop.mine
  BY <1>1, GotoIs DEF EngInv, LoopPCs
<1>3. /\ flags' \in FlagSet /\ KeepsFlags /\ ks' \in BOOLEAN
      /\ flags.stopping => UNCHANGED <<state, ks, flags>>
      /\ ~flags.stopping => state' = "reconnecting" /\ (KillSwitch /\ flags'.ksOK => ks')
  BY <1>0, ProtectIs DEF Abandoned, EngInv, KeepsFlags
<1>4. EngTypeOK'
  BY <1>0, <1>1, <1>2, <1>3 DEF EngInv, EngTypeOK, LoopSet, FlagSet
<1>5. OpenIsMine' /\ NotYetConnected'
  BY <1>1, <1>2 DEF EngInv, OpenIsMine, NotYetConnected, OpenPCs, Kept, Served, Unready
<1>6. StopOrder' /\ LoopStopped' /\ DataplaneClosed' /\ FiltersRemoved'
  BY <1>0, <1>1, <1>2, <1>3, LoopSteps DEF LastPCs, ServedClosed, Served
<1>7. GaveUp' /\ KillSwitchFollows'
  BY <1>0, <1>1, <1>2, <1>3 DEF EngInv, GaveUp, GivenUp, KillSwitchFollows, KeepsFlags
<1>. QED BY <1>4, <1>5, <1>6, <1>7 DEF EngInv

LEMMA UnprotectIs ==
  ASSUME EngInv, Unprotect
  PROVE  EngInv'
<1>0. flags \in FlagSet /\ flags.stopping \in BOOLEAN /\ ks \in BOOLEAN
  BY EngTyped DEF EngInv
<1>1. loop.pc = "connected" /\ Goto("wait") /\ UNCHANGED <<state, active, closing, hooked, halt, stop, dp, allowed>>
  BY DEF Unprotect
<1>2. slips \subseteq slips' /\ slips' \subseteq slips \cup {"gap"} /\ (state = "reconnecting" => "gap" \in slips')
  BY DEF Unprotect
<1>3. loop' \in LoopSet /\ loop'.pc = "wait" /\ loop'.conn = loop.conn /\ loop'.mine = loop.mine
  BY <1>1, GotoIs DEF EngInv, LoopPCs
<1>4. /\ flags' \in FlagSet /\ KeepsFlags /\ ks' \in BOOLEAN
      /\ KillSwitch => ~(ks' /\ flags'.ksOK)
      /\ ~KillSwitch => UNCHANGED <<ks, flags>>
  BY <1>0, DisableIs DEF Unprotect, EngInv, KeepsFlags
<1>5. EngTypeOK'
  BY <1>0, <1>1, <1>2, <1>3, <1>4 DEF EngInv, EngTypeOK, LoopSet, FlagSet
<1>6. OpenIsMine' /\ NotYetConnected'
  BY <1>1, <1>3 DEF EngInv, OpenIsMine, NotYetConnected, OpenPCs, Kept, Served, Unready
<1>7. StopOrder' /\ LoopStopped' /\ DataplaneClosed' /\ FiltersRemoved'
  BY <1>0, <1>1, <1>2, <1>3, <1>4, LoopSteps, EngineAssumption DEF LastPCs, ServedClosed, Served
<1>8. GaveUp' /\ KillSwitchFollows'
  BY <1>0, <1>1, <1>2, <1>3, <1>4 DEF EngInv, GaveUp, GivenUp, KillSwitchFollows, KeepsFlags
<1>. QED BY <1>5, <1>6, <1>7, <1>8 DEF EngInv

LEMMA WaitEndsIs ==
  ASSUME EngInv, WaitEnds
  PROVE  EngInv'
<1>0. loop.conn \in 0..MaxConn /\ loop.conn \in Conns /\ halt \in BOOLEAN
  BY EngTyped DEF EngInv, WaitEnds, OpenIsMine, OpenPCs, Kept, Served, LoopSet
<1>1. loop.pc = "wait" /\ OnlyLoop /\ UNCHANGED state
  BY DEF WaitEnds, OnlyLoop
<1>2. /\ loop' \in LoopSet /\ loop'.pc \in {"closing", "top"} /\ (loop'.pc = "closing" => halt)
      /\ closing' \in [Conns -> ConnStates] /\ closing'[loop.conn] # "open"
      /\ \A d \in Conns : closing'[d] = "open" => closing[d] = "open"
  <2>1. CASE halt /\ Close(loop.conn) /\ Goto("closing")
    <3>1. loop' \in LoopSet /\ loop'.pc = "closing"
      BY <2>1, GotoIs DEF EngInv, LoopPCs
    <3>. QED BY <1>0, <2>1, <3>1, CloseDoes DEF EngInv
  <2>2. CASE closing[loop.conn] # "open" /\ loop' = [pc |-> "top", conn |-> 0, mine |-> 0] /\ UNCHANGED closing
    <3>1. loop' \in LoopSet /\ loop'.pc = "top"
      BY <2>2, EngineAssumption DEF LoopSet, LoopPCs
    <3>. QED BY <2>2, <3>1, EngTyped DEF EngInv
  <2>. QED BY <2>1, <2>2 DEF WaitEnds
<1>3. EngTypeOK'
  BY <1>1, <1>2 DEF EngInv, EngTypeOK, LoopSet, OnlyLoop, ConnStates
<1>4. OpenIsMine' /\ NotYetConnected'
  BY <1>1, <1>2 DEF EngInv, OpenIsMine, NotYetConnected, OpenPCs, Kept, Served, Unready
<1>5. StopOrder' /\ LoopStopped' /\ DataplaneClosed' /\ FiltersRemoved'
  BY <1>1, <1>2, LoopMoves DEF OnlyLoop, KeepsFlags, LastPCs, ServedClosed, Served
<1>6. GaveUp' /\ KillSwitchFollows'
  BY <1>1, <1>2 DEF EngInv, GaveUp, GivenUp, KillSwitchFollows, OnlyLoop
<1>. QED BY <1>3, <1>4, <1>5, <1>6 DEF EngInv

LEMMA LoopReturnsIs ==
  ASSUME EngInv, LoopReturns
  PROVE  EngInv'
<1>1. loop.pc = "closing" /\ Goto("done") /\ OnlyLoop /\ UNCHANGED <<state, closing>>
  BY DEF LoopReturns, OnlyLoop
<1>2. loop' \in LoopSet /\ loop'.pc = "done"
  BY <1>1, GotoIs DEF EngInv, LoopPCs
<1>3. EngTypeOK'
  BY <1>1, <1>2 DEF EngInv, EngTypeOK, LoopSet, OnlyLoop
<1>4. OpenIsMine' /\ NotYetConnected'
  BY <1>1, <1>2 DEF EngInv, OpenIsMine, NotYetConnected, OpenPCs, Kept, Served, Unready
<1>5. StopOrder' /\ LoopStopped' /\ DataplaneClosed' /\ FiltersRemoved'
  BY <1>1, <1>2, LoopMoves DEF OnlyLoop, KeepsFlags, LastPCs, ServedClosed, Served
<1>6. GaveUp' /\ KillSwitchFollows'
  BY <1>1, <1>2 DEF EngInv, GaveUp, GivenUp, KillSwitchFollows, OnlyLoop
<1>. QED BY <1>3, <1>4, <1>5, <1>6 DEF EngInv

LEMMA StopsItselfIs ==
  ASSUME EngInv, LoopStopsItself
  PROVE  EngInv'
<1>0. loop.mine \in 0..MaxConn /\ halt \in BOOLEAN /\ flags.stopping \in BOOLEAN
  BY EngTyped DEF EngInv, LoopSet
<1>1. UNCHANGED <<state, flags, active, hooked, stop, dp, allowed, ks, slips>> /\ loop.pc \in {"selfstop", "selfwait"}
  BY DEF LoopStopsItself
<1>2. /\ loop' \in LoopSet /\ loop'.pc \in {"selfwait", "done"} /\ halt' \in BOOLEAN /\ (halt => halt')
      /\ closing' \in [Conns -> ConnStates] /\ \A d \in Conns : closing'[d] = "open" => closing[d] = "open"
  <2>1. CASE loop.pc = "selfstop" /\ halt' = TRUE /\ Close(loop.mine) /\ Goto("selfwait")
    <3>1. loop' \in LoopSet /\ loop'.pc = "selfwait"
      BY <2>1, GotoIs DEF EngInv, LoopPCs
    <3>. QED BY <1>0, <2>1, <3>1, CloseDoes DEF EngInv
  <2>2. CASE Goto("done") /\ UNCHANGED <<halt, closing>>
    <3>1. loop' \in LoopSet /\ loop'.pc = "done"
      BY <2>2, GotoIs DEF EngInv, LoopPCs
    <3>. QED BY <1>0, <2>2, <3>1, EngTyped DEF EngInv
  <2>. QED BY <2>1, <2>2 DEF LoopStopsItself
<1>3. EngTypeOK'
  BY <1>1, <1>2 DEF EngInv, EngTypeOK, LoopSet, ConnStates
<1>4. OpenIsMine' /\ NotYetConnected'
  BY <1>1, <1>2 DEF EngInv, OpenIsMine, NotYetConnected, OpenPCs, Kept, Served, Unready
<1>5. ServedClosed'
  BY <1>2 DEF ServedClosed, Served
<1>6. flags.stopping => Before(FirstPCs)
  BY <1>1 DEF EngInv, LoopStopped, LoopEnds, LastPCs
<1>7. StopOrder' /\ LoopStopped' /\ DataplaneClosed' /\ FiltersRemoved'
  BY <1>1, <1>2, <1>5, <1>6
     DEF EngInv, StopOrder, LoopStopped, DataplaneClosed, FiltersRemoved, Before
<1>8. GaveUp' /\ KillSwitchFollows'
  BY <1>1, <1>2 DEF EngInv, GaveUp, GivenUp, KillSwitchFollows
<1>. QED BY <1>3, <1>4, <1>7, <1>8 DEF EngInv

(* What ends a connection, and what its OnClose does.                      *)
LEMMA NetworkLostIs ==
  ASSUME EngInv, NEW c \in Conns, NetworkLost(c)
  PROVE  EngInv'
<1>0. c \in 0..MaxConn /\ flags.stopping \in BOOLEAN
  BY EngTyped, EngineAssumption DEF EngInv, Conns
<1>1. UNCHANGED <<state, flags, active, hooked, loop, halt, stop, dp, allowed, ks, slips>> /\ Close(c)
  BY DEF NetworkLost
<1>2. closing' \in [Conns -> ConnStates] /\ \A d \in Conns : closing'[d] = "open" => closing[d] = "open"
  BY <1>0, <1>1, CloseDoes DEF EngInv
<1>3. EngTypeOK'
  BY <1>1, <1>2 DEF EngInv, EngTypeOK, ConnStates
<1>4. OpenIsMine' /\ NotYetConnected' /\ (ServedClosed => ServedClosed')
  BY <1>1, <1>2 DEF EngInv, OpenIsMine, NotYetConnected, ServedClosed, Kept
<1>5. StopOrder' /\ LoopStopped' /\ DataplaneClosed' /\ FiltersRemoved'
  BY <1>1, <1>4
     DEF EngInv, StopOrder, LoopStopped, DataplaneClosed, FiltersRemoved, Before, LoopEnds
<1>6. GaveUp' /\ KillSwitchFollows'
  BY <1>1 DEF EngInv, GaveUp, KillSwitchFollows
<1>. QED BY <1>3, <1>4, <1>5, <1>6 DEF EngInv

LEMMA OnCloseIs ==
  ASSUME EngInv, NEW c \in Conns, OnClose(c)
  PROVE  EngInv'
<1>1. /\ closing[c] = "begun" /\ UNCHANGED <<state, flags, hooked, loop, halt, stop, dp, allowed, ks, slips>>
      /\ active' \in {active, 0}
  BY DEF OnClose
<1>2. PICK how \in {"held", "over"} : closing' = [closing EXCEPT ![c] = how]
  BY DEF OnClose
<1>3. closing' \in [Conns -> ConnStates] /\ \A d \in Conns : closing'[d] = "open" => closing[d] = "open"
  BY <1>2, EngTyped DEF EngInv, ConnStates
<1>4. EngTypeOK'
  <2>1. active' \in 0..MaxConn
    BY <1>1, EngineAssumption DEF EngInv, EngTypeOK
  <2>. QED BY <1>1, <1>3, <2>1 DEF EngInv, EngTypeOK, ConnStates
<1>5. OpenIsMine' /\ NotYetConnected' /\ (ServedClosed => ServedClosed')
  BY <1>1, <1>3 DEF EngInv, OpenIsMine, NotYetConnected, ServedClosed, Kept
<1>6. StopOrder' /\ LoopStopped' /\ DataplaneClosed' /\ FiltersRemoved'
  BY <1>1, <1>5
     DEF EngInv, StopOrder, LoopStopped, DataplaneClosed, FiltersRemoved, Before, LoopEnds
<1>7. GaveUp' /\ KillSwitchFollows'
  BY <1>1 DEF EngInv, GaveUp, KillSwitchFollows
<1>. QED BY <1>4, <1>5, <1>6, <1>7 DEF EngInv

LEMMA OnCloseProtectsIs ==
  ASSUME EngInv, NEW c \in Conns, OnCloseProtects(c)
  PROVE  EngInv'
<1>1. /\ closing[c] = "held" /\ UNCHANGED <<active, hooked, loop, halt, stop, dp, allowed>>
      /\ Protect /\ state' = "reconnecting" /\ closing' = [closing EXCEPT ![c] = "over"]
  BY DEF OnCloseProtects
<1>2. /\ slips' \subseteq slips \cup {"lateClose"} /\ ("timeout" \in slips => "timeout" \in slips')
      /\ loop.pc \in GivenUp => "lateClose" \in slips'
  BY DEF OnCloseProtects, GivenUp
<1>3. closing' \in [Conns -> ConnStates] /\ \A d \in Conns : closing'[d] = "open" => closing[d] = "open"
  BY <1>1, EngTyped DEF EngInv, ConnStates
<1>4. /\ flags' \in FlagSet /\ KeepsFlags /\ ks' \in BOOLEAN
      /\ KillSwitch /\ flags'.ksOK => ks'
      /\ ~allowed => (ks' /\ flags'.ksOK => ks /\ flags.ksOK)
  BY <1>1, ProtectIs DEF EngInv
<1>5. EngTypeOK'
  BY <1>1, <1>2, <1>3, <1>4 DEF EngInv, EngTypeOK, FlagSet, ConnStates
<1>6. OpenIsMine' /\ NotYetConnected' /\ (ServedClosed => ServedClosed')
  BY <1>1, <1>3 DEF EngInv, OpenIsMine, NotYetConnected, ServedClosed, Kept
<1>7. StopOrder' /\ LoopStopped' /\ DataplaneClosed' /\ FiltersRemoved'
  <2>0. flags'.stopping = flags.stopping /\ \A pcs : Before(pcs)' <=> Before(pcs)
    BY <1>1, <1>4 DEF Before, KeepsFlags
  <2>1. StopOrder'
    BY <1>1, <1>4, <1>6 DEF EngInv, StopOrder, KeepsFlags
  <2>2. LoopStopped'
    BY <1>1, <1>2, <1>6, <2>0 DEF EngInv, LoopStopped, LoopEnds
  <2>3. DataplaneClosed'
    BY <1>1, <2>0 DEF EngInv, DataplaneClosed
  <2>4. Before(FirstPCs \cup {"dataplane"}) => Before(FirstPCs \cup {"dataplane", "filters"})
    BY DEF Before
  <2>5. FiltersRemoved'
    BY <1>4, <2>0, <2>4 DEF EngInv, DataplaneClosed, FiltersRemoved
  <2>. QED BY <2>1, <2>2, <2>3, <2>5
<1>8. GaveUp' /\ KillSwitchFollows'
  BY <1>1, <1>2, <1>4 DEF EngInv, GaveUp, KillSwitchFollows, KeepsFlags
<1>. QED BY <1>5, <1>6, <1>7, <1>8 DEF EngInv

(* The steps of Stop.                                                      *)
LEMMA StepIs ==
  ASSUME EngTypeOK, NEW s \in Stoppers, NEW pc \in StopPCs, Step(s, pc)
  PROVE  /\ stop' \in [Stoppers -> StopPCs] /\ stop'[s] = pc
         /\ \A t \in Stoppers : t # s => stop'[t] = stop[t]
BY EngTyped DEF Step

(* While one caller is before a statement, whatever the others do.         *)
LEMMA BeforeMe ==
  ASSUME NEW s \in Stoppers, NEW pcs, stop[s] \in pcs
  PROVE  Before(pcs)
BY DEF Before

(* A caller that moves between places outside pcs.                         *)
LEMMA BeforeSame ==
  ASSUME NEW s \in Stoppers, NEW pcs, stop[s] \notin pcs, stop'[s] \notin pcs,
         \A t \in Stoppers : t # s => stop'[t] = stop[t]
  PROVE  Before(pcs)' <=> Before(pcs)
BY DEF Before

(* Once Stop has begun, only its own conjuncts say anything.               *)
LEMMA Stopping ==
  ASSUME EngInv, flags'.stopping, UNCHANGED <<loop>>, state' \in {"idle", state}
  PROVE  NotYetConnected' /\ GaveUp' /\ KillSwitchFollows'
BY DEF EngInv, NotYetConnected, GaveUp, KillSwitchFollows

LEMMA StopBeginsIs ==
  ASSUME EngInv, NEW s \in Stoppers, StopBegins(s)
  PROVE  EngInv'
<1>0. flags \in FlagSet /\ flags.stopping \in BOOLEAN /\ (flags.reconnect <=> ~flags.stopping)
  BY EngTyped DEF EngInv, StopOrder
<1>1. /\ stop[s] = "idle" /\ UNCHANGED <<active, closing, hooked, loop, halt, dp, allowed, ks, slips>>
      /\ flags' = [flags EXCEPT !.stopping = TRUE, !.reconnect = FALSE] /\ state' = "idle"
  BY DEF StopBegins, At
<1>2. PICK pc \in {"cancel", "clear2"} : Step(s, pc) /\ (pc = "clear2" <=> flags.stopping)
  BY <1>0 DEF StopBegins
<1>3. /\ stop' \in [Stoppers -> StopPCs] /\ stop'[s] = pc
      /\ \A t \in Stoppers : t # s => stop'[t] = stop[t]
  BY <1>2, StepIs DEF EngInv, StopPCs
<1>4. /\ flags' \in FlagSet /\ flags'.stopping /\ ~flags'.reconnect
      /\ flags'.stopping \in BOOLEAN /\ flags'.reconnect \in BOOLEAN /\ flags'.ksOK = flags.ksOK
  BY <1>0, <1>1 DEF FlagSet
<1>5. EngTypeOK'
  BY <1>1, <1>3, <1>4 DEF EngInv, EngTypeOK, FlagSet, StopPCs
<1>6. OpenIsMine' /\ NotYetConnected' /\ GaveUp' /\ KillSwitchFollows'
  BY <1>1, <1>4, Stopping DEF EngInv, OpenIsMine
<1>7. StopOrder'
  BY <1>1, <1>2, <1>3, <1>4 DEF EngInv, StopOrder, ServedClosed
<1>8. LoopStopped' /\ DataplaneClosed' /\ FiltersRemoved'
  <2>1. CASE flags.stopping
    <3>1. stop[s] = "idle" /\ stop'[s] = "clear2"
      BY <1>1, <1>2, <1>3, <2>1
    <3>2. /\ Before(FirstPCs)' <=> Before(FirstPCs)
          /\ Before(FirstPCs \cup {"dataplane"})' <=> Before(FirstPCs \cup {"dataplane"})
          /\ Before(FirstPCs \cup {"dataplane", "filters"})' <=> Before(FirstPCs \cup {"dataplane", "filters"})
      BY <1>3, <3>1, BeforeSame DEF FirstPCs
    <3>. QED BY <1>1, <1>4, <2>1, <3>2
       DEF EngInv, LoopStopped, DataplaneClosed, FiltersRemoved, LoopEnds, ServedClosed
  <2>2. CASE ~flags.stopping
    <3>1. stop'[s] = "cancel"
      BY <1>2, <1>3, <2>2
    <3>2. Before(FirstPCs)' /\ Before(FirstPCs \cup {"dataplane"})' /\ Before(FirstPCs \cup {"dataplane", "filters"})'
      BY <3>1 DEF Before, FirstPCs
    <3>. QED BY <3>2 DEF LoopStopped, DataplaneClosed, FiltersRemoved
  <2>. QED BY <1>0, <2>1, <2>2
<1>. QED BY <1>5, <1>6, <1>7, <1>8 DEF EngInv

LEMMA CancelIs ==
  ASSUME EngInv, NEW s \in Stoppers, Cancel(s)
  PROVE  EngInv'
<1>0. flags \in FlagSet /\ flags.stopping \in BOOLEAN /\ (flags.reconnect <=> ~flags.stopping)
  BY EngTyped DEF EngInv, StopOrder
<1>1. /\ stop[s] = "cancel" /\ UNCHANGED <<state, active, closing, hooked, loop, halt, dp, allowed, ks, slips>>
      /\ flags' = [flags EXCEPT !.cancelled = TRUE] /\ Step(s, "clear")
  BY DEF Cancel, At
<1>2. /\ stop' \in [Stoppers -> StopPCs] /\ stop'[s] = "clear"
      /\ \A t \in Stoppers : t # s => stop'[t] = stop[t]
  BY <1>1, StepIs DEF EngInv, StopPCs
<1>3. flags.stopping
  BY <1>1 DEF EngInv, StopOrder
<1>4. /\ flags' \in FlagSet /\ flags'.stopping = flags.stopping /\ flags'.reconnect = flags.reconnect
      /\ flags'.cancelled = TRUE
  BY <1>0, <1>1 DEF FlagSet
<1>5. EngTypeOK'
  BY <1>1, <1>2, <1>4 DEF EngInv, EngTypeOK, FlagSet, StopPCs
<1>6. OpenIsMine' /\ NotYetConnected' /\ GaveUp' /\ KillSwitchFollows'
  BY <1>1, <1>3, <1>4, Stopping DEF EngInv, OpenIsMine
<1>7. StopOrder'
  BY <1>0, <1>1, <1>2, <1>3, <1>4 DEF EngInv, StopOrder, ServedClosed
<1>8. Before(FirstPCs)' /\ Before(FirstPCs \cup {"dataplane"})' /\ Before(FirstPCs \cup {"dataplane", "filters"})'
  BY <1>2 DEF Before, FirstPCs
<1>9. LoopStopped' /\ DataplaneClosed' /\ FiltersRemoved'
  BY <1>8 DEF LoopStopped, DataplaneClosed, FiltersRemoved
<1>. QED BY <1>5, <1>6, <1>7, <1>9 DEF EngInv

LEMMA ClearActiveIs ==
  ASSUME EngInv, NEW s \in Stoppers, ClearActive(s)
  PROVE  EngInv'
<1>1. /\ stop[s] \in {"clear", "clear2"} /\ UNCHANGED <<state, flags, closing, hooked, loop, halt, dp, allowed, ks, slips>>
      /\ active' = 0
  BY DEF ClearActive
<1>2. PICK pc \in {"halt", "dataplane"} : Step(s, pc) /\ (pc = "halt" <=> stop[s] = "clear")
  BY DEF ClearActive, At
<1>3. /\ stop' \in [Stoppers -> StopPCs] /\ stop'[s] = pc
      /\ \A t \in Stoppers : t # s => stop'[t] = stop[t]
  BY <1>2, StepIs DEF EngInv, StopPCs
<1>4. flags.stopping
  BY <1>1 DEF EngInv, StopOrder
<1>5. EngTypeOK'
  BY <1>1, <1>3, EngineAssumption DEF EngInv, EngTypeOK, StopPCs
<1>6. OpenIsMine' /\ NotYetConnected' /\ GaveUp' /\ KillSwitchFollows'
  BY <1>1, <1>4, Stopping DEF EngInv, OpenIsMine
<1>7. StopOrder'
  BY <1>1, <1>2, <1>3, <1>4 DEF EngInv, StopOrder, ServedClosed
<1>8. Before(FirstPCs)' <=> Before(FirstPCs)
  <2>1. CASE stop[s] = "clear"
    BY <1>2, <1>3, <2>1 DEF Before, FirstPCs
  <2>2. CASE stop[s] = "clear2"
    BY <1>2, <1>3, <2>2, BeforeSame DEF FirstPCs
  <2>. QED BY <1>1, <2>1, <2>2
<1>9. Before(FirstPCs \cup {"dataplane"})' /\ Before(FirstPCs \cup {"dataplane", "filters"})'
  BY <1>2, <1>3 DEF Before, FirstPCs
<1>10. LoopStopped' /\ DataplaneClosed' /\ FiltersRemoved'
  BY <1>1, <1>8, <1>9
     DEF EngInv, LoopStopped, DataplaneClosed, FiltersRemoved, LoopEnds, ServedClosed
<1>. QED BY <1>5, <1>6, <1>7, <1>10 DEF EngInv

LEMMA StopLoopIs ==
  ASSUME EngInv, NEW s \in Stoppers, StopLoop(s)
  PROVE  EngInv'
<1>0. loop.mine \in 0..MaxConn /\ halt \in BOOLEAN
  BY EngTyped DEF EngInv, LoopSet
<1>1. /\ UNCHANGED <<state, flags, active, hooked, loop, dp, allowed, ks, slips>>
      /\ stop[s] \in {"halt", "lock", "close"}
  BY DEF StopLoop, At
<1>2. flags.stopping /\ (stop[s] \in {"lock", "close"} => halt)
  BY <1>1 DEF EngInv, StopOrder
<1>3. PICK pc \in {"lock", "close", "wait"} :
        /\ Step(s, pc) /\ halt' /\ halt' \in BOOLEAN
        /\ closing' \in [Conns -> ConnStates] /\ \A d \in Conns : closing'[d] = "open" => closing[d] = "open"
        /\ pc # "lock" => ServedClosed'
  <2>1. CASE stop[s] = "halt" /\ halt' = TRUE /\ Step(s, "lock") /\ UNCHANGED closing
    BY <2>1, EngTyped DEF EngInv
  <2>2. CASE stop[s] = "lock" /\ Close(loop.mine) /\ Step(s, "close") /\ UNCHANGED halt
    <3>1. /\ closing' \in [Conns -> ConnStates] /\ (loop.mine \in Conns => closing'[loop.mine] # "open")
          /\ \A d \in Conns : closing'[d] = "open" => closing[d] = "open"
      BY <1>0, <2>2, CloseDoes DEF EngInv
    <3>2. loop.pc \in Served => loop.mine = loop.conn /\ loop.conn \in Conns
      BY DEF EngInv, OpenIsMine, Kept
    <3>. QED BY <1>0, <1>1, <1>2, <2>2, <3>1, <3>2 DEF ServedClosed
  <2>3. CASE stop[s] = "close" /\ Step(s, "wait") /\ UNCHANGED <<halt, closing>>
    <3>1. ServedClosed
      BY <2>3 DEF EngInv, StopOrder
    <3>. QED BY <1>0, <1>1, <1>2, <2>3, <3>1, EngTyped DEF ServedClosed, EngInv
  <2>. QED BY <2>1, <2>2, <2>3 DEF StopLoop, At
<1>4. /\ stop' \in [Stoppers -> StopPCs] /\ stop'[s] = pc
      /\ \A t \in Stoppers : t # s => stop'[t] = stop[t]
  BY <1>3, StepIs DEF EngInv, StopPCs
<1>5. EngTypeOK'
  BY <1>1, <1>3, <1>4 DEF EngInv, EngTypeOK, StopPCs, ConnStates
<1>6. OpenIsMine' /\ NotYetConnected' /\ GaveUp' /\ KillSwitchFollows' /\ (ServedClosed => ServedClosed')
  BY <1>1, <1>2, <1>3, Stopping DEF EngInv, OpenIsMine, ServedClosed, Kept
<1>7. StopOrder'
  BY <1>1, <1>2, <1>3, <1>4, <1>6 DEF EngInv, StopOrder
<1>8. Before(FirstPCs)' /\ Before(FirstPCs \cup {"dataplane"})' /\ Before(FirstPCs \cup {"dataplane", "filters"})'
  BY <1>3, <1>4 DEF Before, FirstPCs
<1>9. LoopStopped' /\ DataplaneClosed' /\ FiltersRemoved'
  BY <1>8 DEF LoopStopped, DataplaneClosed, FiltersRemoved
<1>. QED BY <1>5, <1>6, <1>7, <1>9 DEF EngInv

LEMMA LoopGoneIs ==
  ASSUME EngInv, NEW s \in Stoppers, LoopGone(s)
  PROVE  EngInv'
<1>1. /\ stop[s] = "wait" /\ UNCHANGED <<state, flags, active, closing, hooked, loop, halt, dp, allowed, ks>>
      /\ Step(s, "dataplane")
  BY DEF LoopGone, At
<1>2. LoopEnds' /\ slips' \subseteq slips \cup {"timeout"}
  BY <1>1 DEF LoopGone, LoopEnds, LastPCs
<1>3. /\ stop' \in [Stoppers -> StopPCs] /\ stop'[s] = "dataplane"
      /\ \A t \in Stoppers : t # s => stop'[t] = stop[t]
  BY <1>1, StepIs DEF EngInv, StopPCs
<1>4. flags.stopping /\ halt /\ ServedClosed
  BY <1>1 DEF EngInv, StopOrder
<1>5. EngTypeOK'
  BY <1>1, <1>2, <1>3 DEF EngInv, EngTypeOK, StopPCs
<1>6. OpenIsMine' /\ NotYetConnected' /\ GaveUp' /\ KillSwitchFollows'
  BY <1>1, <1>4, Stopping DEF EngInv, OpenIsMine
<1>7. StopOrder'
  BY <1>1, <1>3, <1>4 DEF EngInv, StopOrder, ServedClosed
<1>8. LoopStopped'
  BY <1>1, <1>2, <1>4 DEF LoopStopped, ServedClosed
<1>9. Before(FirstPCs \cup {"dataplane"})' /\ Before(FirstPCs \cup {"dataplane", "filters"})'
  BY <1>3 DEF Before, FirstPCs
<1>10. DataplaneClosed' /\ FiltersRemoved'
  BY <1>9 DEF DataplaneClosed, FiltersRemoved
<1>. QED BY <1>5, <1>6, <1>7, <1>8, <1>10 DEF EngInv

LEMMA CloseDataplaneIs ==
  ASSUME EngInv, NEW s \in Stoppers, CloseDataplane(s)
  PROVE  EngInv'
<1>1. /\ stop[s] = "dataplane" /\ UNCHANGED <<state, flags, active, closing, hooked, loop, halt, ks, slips>>
      /\ dp' = {} /\ allowed' = FALSE /\ Step(s, "filters") /\ loop.pc # "policy"
  BY DEF CloseDataplane, At, RtMuFree
<1>2. /\ stop' \in [Stoppers -> StopPCs] /\ stop'[s] = "filters"
      /\ \A t \in Stoppers : t # s => stop'[t] = stop[t]
  BY <1>1, StepIs DEF EngInv, StopPCs
<1>3. flags.stopping
  BY <1>1 DEF EngInv, StopOrder
<1>4. EngTypeOK'
  BY <1>1, <1>2 DEF EngInv, EngTypeOK, StopPCs
<1>5. OpenIsMine' /\ NotYetConnected' /\ GaveUp' /\ KillSwitchFollows'
  BY <1>1, <1>3, Stopping DEF EngInv, OpenIsMine
<1>6. StopOrder'
  BY <1>1, <1>2, <1>3 DEF EngInv, StopOrder, ServedClosed
<1>7. Before(FirstPCs)' <=> Before(FirstPCs)
  BY <1>1, <1>2, BeforeSame DEF FirstPCs
<1>8. Before(FirstPCs \cup {"dataplane", "filters"})'
  BY <1>2 DEF Before, FirstPCs
<1>9. LoopStopped' /\ DataplaneClosed' /\ FiltersRemoved'
  BY <1>1, <1>7, <1>8
     DEF EngInv, LoopStopped, DataplaneClosed, FiltersRemoved, LoopEnds, ServedClosed
<1>. QED BY <1>4, <1>5, <1>6, <1>9 DEF EngInv

LEMMA RemoveFiltersIs ==
  ASSUME EngInv, NEW s \in Stoppers, RemoveFilters(s)
  PROVE  EngInv'
<1>1. /\ stop[s] = "filters" /\ UNCHANGED <<state, active, closing, hooked, loop, halt, dp, allowed, slips>>
      /\ DisableFilters /\ Step(s, "stopped")
  BY DEF RemoveFilters, At
<1>2. /\ stop' \in [Stoppers -> StopPCs] /\ stop'[s] = "stopped"
      /\ \A t \in Stoppers : t # s => stop'[t] = stop[t]
  BY <1>1, StepIs DEF EngInv, StopPCs
<1>3. flags' \in FlagSet /\ KeepsFlags /\ ks' \in BOOLEAN /\ ~(ks' /\ flags'.ksOK)
  BY <1>1, DisableIs DEF EngInv
<1>4. flags.stopping /\ flags'.stopping
  BY <1>1, <1>3 DEF EngInv, StopOrder, KeepsFlags
<1>5. EngTypeOK'
  BY <1>1, <1>2, <1>3 DEF EngInv, EngTypeOK, StopPCs, FlagSet
<1>6. OpenIsMine' /\ NotYetConnected' /\ GaveUp' /\ KillSwitchFollows'
  BY <1>1, <1>4, Stopping DEF EngInv, OpenIsMine
<1>7. StopOrder'
  BY <1>1, <1>2, <1>3, <1>4 DEF EngInv, StopOrder, ServedClosed, KeepsFlags
<1>8. /\ Before(FirstPCs)' <=> Before(FirstPCs)
      /\ Before(FirstPCs \cup {"dataplane"})' <=> Before(FirstPCs \cup {"dataplane"})
  BY <1>1, <1>2, BeforeSame DEF FirstPCs
<1>9. LoopStopped' /\ DataplaneClosed' /\ FiltersRemoved'
  BY <1>1, <1>3, <1>4, <1>8
     DEF EngInv, LoopStopped, DataplaneClosed, FiltersRemoved, LoopEnds, ServedClosed
<1>. QED BY <1>5, <1>6, <1>7, <1>9 DEF EngInv

LEMMA EngStarts == EngInit => EngInv
<1>. SUFFICES ASSUME EngInit PROVE EngInv
  OBVIOUS
<1>0. loop = [pc |-> "top", conn |-> 0, mine |-> 0] /\ stop = [s \in Stoppers |-> "idle"] /\ halt = FALSE
  BY DEF EngInit
<1>1. PICK fast \in BOOLEAN :
        flags = [stopping |-> FALSE, cancelled |-> FALSE, authOK |-> FALSE, failFast |-> fast,
                 rejects |-> 0, reconnect |-> TRUE, ksOK |-> TRUE]
  BY DEF EngInit
<1>2. flags \in FlagSet /\ loop \in LoopSet
  BY <1>0, <1>1, EngineAssumption DEF FlagSet, LoopSet, LoopPCs
<1>3. EngTypeOK
  BY <1>2, EngineAssumption DEF EngInit, EngTypeOK, FlagSet, LoopSet
<1>4. OpenIsMine /\ NotYetConnected /\ GaveUp /\ KillSwitchFollows
  BY <1>0
     DEF EngInit, OpenIsMine, NotYetConnected, GaveUp, KillSwitchFollows, Kept, Served,
         Unready, GivenUp
<1>5. StopOrder /\ LoopStopped /\ DataplaneClosed /\ FiltersRemoved
  BY <1>0, <1>1 DEF StopOrder, LoopStopped, DataplaneClosed, FiltersRemoved
<1>. QED BY <1>3, <1>4, <1>5 DEF EngInv

LEMMA EngLoopSteps == EngInv /\ LoopStep => EngInv'
<1>. SUFFICES ASSUME EngInv, LoopStep PROVE EngInv'
  OBVIOUS
<1>1. CASE Top \/ Keep \/ Connecting \/ HandshakeFails \/ HandshakeOK \/ Activate
  BY <1>1, TopIs, KeepIs, ConnectingIs, HandshakeFailsIs, HandshakeOKIs, ActivateIs
<1>2. CASE DialFails(TRUE) \/ DialFails(FALSE) \/ \E c \in Conns : Dialled(c)
  BY <1>2, DialFailsIs, DialledIs
<1>3. CASE StartPolicy \/ PolicyApplied \/ PolicyFails \/ FailRoutes \/ DataplaneDown
  BY <1>3, StartPolicyIs, PolicyAppliedIs, PolicyFailsIs, FailRoutesIs, DataplaneDownIs
<1>4. CASE Connected \/ Abandoned \/ Unprotect \/ WaitEnds \/ LoopReturns \/ LoopStopsItself
  BY <1>4, ConnectedIs, AbandonedIs, UnprotectIs, WaitEndsIs, LoopReturnsIs, StopsItselfIs
<1>. QED BY <1>1, <1>2, <1>3, <1>4 DEF LoopStep

LEMMA EngSteps == EngInv /\ [EngNext]_engVars => EngInv'
<1>. SUFFICES ASSUME EngInv, [EngNext]_engVars PROVE EngInv'
  OBVIOUS
<1>1. CASE LoopStep
  BY <1>1, EngLoopSteps
<1>2. CASE CloseStep \/ \E c \in Conns : NetworkLost(c)
  BY <1>2, OnCloseIs, OnCloseProtectsIs, NetworkLostIs DEF CloseStep
<1>3. ASSUME NEW s \in Stoppers, StopStep(s) PROVE EngInv'
  BY <1>3, StopBeginsIs, CancelIs, ClearActiveIs, StopLoopIs, LoopGoneIs, CloseDataplaneIs, RemoveFiltersIs
     DEF StopStep
<1>4. CASE UNCHANGED engVars
  BY <1>4
     DEF engVars, EngInv, EngTypeOK, OpenIsMine, StopOrder, LoopStopped, DataplaneClosed,
         FiltersRemoved,
              GaveUp, NotYetConnected, KillSwitchFollows, ServedClosed, LoopEnds, Before
<1>. QED BY <1>1, <1>2, <1>3, <1>4 DEF EngNext

(* When every Stop that was called has returned, the machine is as it was, *)
(* however Stop raced the loop, its connections and the other callers.     *)
THEOREM EngineClean == EngSpec => []StoppedIsClean
<1>1. EngInv => StoppedIsClean
  <2>. SUFFICES ASSUME EngInv, StopsOver PROVE
        /\ dp = {} /\ (active # 0 => closing[active] # "open") /\ (ks => ~flags.ksOK)
        /\ "timeout" \in slips \/ loop.pc = "done"
    BY DEF StoppedIsClean
  <2>0. flags.ksOK \in BOOLEAN /\ ks \in BOOLEAN /\ active \in 0..MaxConn
    BY EngTyped DEF EngInv, EngTypeOK
  <2>1. flags.stopping
    BY DEF StopsOver, At, EngInv, StopOrder
  <2>2. ~Before(FirstPCs) /\ ~Before(FirstPCs \cup {"dataplane"}) /\ ~Before(FirstPCs \cup {"dataplane", "filters"})
    BY DEF StopsOver, Before, FirstPCs
  <2>3. dp = {} /\ (ks => ~flags.ksOK) /\ ServedClosed /\ LoopEnds
    BY <2>0, <2>1, <2>2 DEF EngInv, LoopStopped, DataplaneClosed, FiltersRemoved
  <2>4. ASSUME active # 0, closing[active] = "open" PROVE FALSE
    <3>1. active \in Conns
      BY <2>0, <2>4, ConnsAre
    <3>2. loop.conn = active /\ loop.pc \in OpenPCs
      BY <2>4, <3>1 DEF EngInv, OpenIsMine
    <3>3. loop.pc \in LastPCs
      BY <2>3 DEF LoopEnds, LastPCs
    <3>4. loop.pc \in Served
      BY <3>2, <3>3 DEF OpenPCs, LastPCs, Served
    <3>. QED BY <2>3, <2>4, <3>2, <3>4 DEF ServedClosed
  <2>. QED BY <2>3, <2>4 DEF LoopEnds
<1>. QED BY <1>1, EngStarts, EngSteps, PTL DEF EngSpec

(* What the state of an engine says of the kill switch and of its loop is  *)
(* true, but for the two exceptions the properties name.                   *)
THEOREM StatusKept == EngSpec => []StatusTrue
<1>1. EngInv => StatusTrue
  BY DEF EngInv, StatusTrue, GaveUp, GivenUp, ReconnectingHasLoop
<1>. QED BY <1>1, EngStarts, EngSteps, PTL DEF EngSpec

-----------------------------------------------------------------------------
(***************************************************************************)
(* The desktop: who has an engine.  A task of the operations queue runs    *)
(* exactly while the queue is busy, there is one of them, and it has every *)
(* engine that is new or up and not mounted (OwnInv).                      *)
(***************************************************************************)
Op(t) == t.kind # "login"
Live(e) == engine[e] \in {"new", "up"} /\ e \notin late
Fates == {"none", "new", "up", "down"}

TaskShape(t) == t = [kind |-> t.kind, todo |-> t.todo, then |-> t.then, gen |-> t.gen]
TaskOK(t) ==
    /\ TaskShape(t) /\ t.kind \in {"stop", "restart", "login"}
    /\ t.todo = <<>> \/ \E e \in Engines : t.todo = <<e>>
    /\ t.kind = "restart" /\ t.then \notin {"stop", "up", "failed"} => t.todo = <<>>

QueueShape == /\ queue = [busy |-> queue.busy, gen |-> queue.gen, pending |-> queue.pending]
              /\ queue.busy \in BOOLEAN

DesktopShape ==
    /\ QueueShape /\ mounted \in 0..MaxEngines /\ engine \in [Engines -> Fates]
    /\ late \subseteq Engines /\ via \subseteq Engines

TasksInv == /\ \A t \in tasks : TaskOK(t)
            /\ \A s, t \in tasks : Op(s) /\ Op(t) => s = t

LoginsKnown == \A t \in tasks : t.kind = "login" => \E e \in Engines : t.todo = <<e>> /\ engine[e] # "none"

(* One operation, and it has the engine that is not mounted.               *)
OwnInv ==
    /\ DesktopShape /\ TasksInv /\ LoginsKnown
    /\ queue.busy = TRUE => mounted = 0 /\ \E t \in tasks : Op(t)
    /\ queue.busy = FALSE => \A t \in tasks : ~Op(t)
    /\ \A e \in Engines : Live(e) => e = mounted \/ \E t \in tasks : Op(t) /\ t.todo = <<e>>

LEMMA OneItem ==
    /\ \A e, d : <<e>> = <<d>> => e = d
    /\ \A e : <<e>> # <<>> /\ Head(<<e>>) = e /\ Tail(<<e>>) = <<>> /\ <<e>>[1] = e
<1>1. \A e, d : <<e>> = <<d>> => e = d
  <2> TAKE e, d
  <2> HAVE <<e>> = <<d>>
  <2>1. <<e>>[1] = <<d>>[1]
    OBVIOUS
  <2> QED
    BY <2>1
<1>2. \A e : <<e>> # <<>> /\ Head(<<e>>) = e /\ Tail(<<e>>) = <<>> /\ <<e>>[1] = e
  OBVIOUS
<1> QED
  BY <1>1, <1>2

LEMMA PresentIs ==
    /\ Present(0) = <<>>
    /\ \A e \in 0..MaxEngines : Present(e) = <<>> \/ (\E d \in Engines : d = e /\ Present(e) = <<d>>)
BY DEF Present, Engines

LEMMA EnginesAre == 0 \notin Engines /\ \A e \in Engines : e \in 0..MaxEngines /\ e # 0
BY GuiAssumption DEF Engines, GuiAssumption

LEMMA StopTaskIs ==
    ASSUME NEW todo, NEW then, NEW n, n = StopTask(todo, then)
    PROVE  TaskShape(n) /\ n.kind = "stop" /\ n.todo = todo /\ n.then = then
BY DEF StopTask, TaskShape

LEMMA RestartTaskIs ==
    ASSUME NEW old, NEW st, NEW gen, NEW n, n = RestartTask(old, st, gen)
    PROVE  TaskShape(n) /\ n.kind = "restart" /\ n.todo = Present(old) /\ n.then = st /\ n.gen = gen
BY DEF RestartTask, TaskShape

LEMMA LoginTaskIs ==
    ASSUME NEW e, NEW st, NEW n, n = LoginTask(e, st)
    PROVE  TaskShape(n) /\ n.kind = "login" /\ n.todo = <<e>> /\ n.then = st
BY DEF LoginTask, TaskShape

LEMMA OwnRuns ==
    ASSUME OwnInv, NEW t \in tasks, Op(t)
    PROVE  /\ queue.busy = TRUE /\ mounted = 0 /\ TaskOK(t)
           /\ \A e \in Engines : Live(e) => t.todo = <<e>>
<1>1. queue.busy = TRUE /\ mounted = 0 /\ TaskOK(t)
  BY DEF OwnInv, TasksInv, DesktopShape, QueueShape
<1>2. \A e \in Engines : Live(e) => t.todo = <<e>>
  BY <1>1, EnginesAre DEF OwnInv, TasksInv
<1> QED
  BY <1>1, <1>2

LEMMA OwnRests ==
    ASSUME OwnInv, queue.busy = FALSE
    PROVE  /\ \A t \in tasks : ~Op(t) /\ TaskOK(t)
           /\ \A e \in Engines : Live(e) => e = mounted
BY DEF OwnInv, TasksInv

(* A step after which an operation runs, whose task is n.                  *)
LEMMA OwnBusy ==
    ASSUME DesktopShape', TasksInv', LoginsKnown', queue'.busy = TRUE, mounted' = 0,
           NEW n \in tasks', Op(n), \A e \in Engines : Live(e)' => n.todo = <<e>>
    PROVE  OwnInv'
BY DEF OwnInv

(* A step after which none runs.                                           *)
LEMMA OwnIdle ==
    ASSUME DesktopShape', TasksInv', LoginsKnown', queue'.busy = FALSE,
           \A t \in tasks' : ~Op(t), \A e \in Engines : Live(e)' => e = mounted'
    PROVE  OwnInv'
BY DEF OwnInv

(* The tasks after a goroutine has gone on to n, n was begun, or t ended.  *)
LEMMA TaskGoesOn ==
    ASSUME TasksInv, NEW t \in tasks, NEW n, TaskOK(n), Op(n) => Op(t),
           tasks' = (tasks \ {t}) \cup {n}
    PROVE  /\ TasksInv' /\ n \in tasks'
           /\ \A s \in tasks' : s.kind = "login" => s = n \/ s \in tasks
           /\ (\A s \in tasks : ~Op(s)) => \A s \in tasks' : ~Op(s)
           /\ (Op(t) /\ ~Op(n)) => \A s \in tasks' : ~Op(s)
BY DEF TasksInv

LEMMA TaskBegins ==
    ASSUME TasksInv, NEW n, TaskOK(n), ~Op(n) \/ \A t \in tasks : ~Op(t), tasks' = tasks \cup {n}
    PROVE  /\ TasksInv' /\ n \in tasks'
           /\ \A s \in tasks' : s.kind = "login" => s = n \/ s \in tasks
           /\ (~Op(n) /\ \A s \in tasks : ~Op(s)) => \A s \in tasks' : ~Op(s)
BY DEF TasksInv

LEMMA TaskEnds ==
    ASSUME TasksInv, NEW t \in tasks, tasks' = tasks \ {t}
    PROVE  /\ TasksInv' /\ tasks' \subseteq tasks
           /\ Op(t) => \A s \in tasks' : ~Op(s)
           /\ (\A s \in tasks : ~Op(s)) => \A s \in tasks' : ~Op(s)
BY DEF TasksInv

(* Logins stay known: an engine that was created remains so.               *)
LEMMA LoginsStay ==
    ASSUME LoginsKnown, \A e \in Engines : engine[e] # "none" => engine'[e] # "none",
           \A s \in tasks' : s.kind = "login" => s \in tasks
    PROVE  LoginsKnown'
BY DEF LoginsKnown

LEMMA LoginsGrow ==
    ASSUME LoginsKnown, \A e \in Engines : engine[e] # "none" => engine'[e] # "none",
           NEW n, NEW d \in Engines, n.todo = <<d>>, engine'[d] # "none",
           \A s \in tasks' : s.kind = "login" => s = n \/ s \in tasks
    PROVE  LoginsKnown'
BY DEF LoginsKnown

-----------------------------------------------------------------------------
(* The queue and the engine operations.                                    *)

LEMMA PendingIs ==
    ASSUME DesktopShape, NEW intent, SetPending(intent)
    PROVE  QueueShape' /\ queue'.busy = TRUE /\ queue.busy = TRUE
<1>1. CASE queue' = queue
  BY <1>1 DEF DesktopShape, QueueShape, SetPending
<1>2. CASE queue' = [queue EXCEPT !.pending = intent, !.gen = @ + 1]
  <2>1. PICK gen : gen = queue.gen + 1
    OBVIOUS
  <2>2. queue' = [queue EXCEPT !.pending = intent, !.gen = gen]
    BY <1>2, <2>1 DEF DesktopShape, QueueShape
  <2> QED
    BY <2>2 DEF DesktopShape, QueueShape, SetPending
<1> QED
  BY <1>1, <1>2 DEF SetPending

LEMMA BusyIs ==
    ASSUME DesktopShape, NEW b \in BOOLEAN, queue' = [queue EXCEPT !.busy = b]
    PROVE  QueueShape' /\ queue'.busy = b /\ queue'.pending = queue.pending
BY DEF DesktopShape, QueueShape

LEMMA StoppedIs ==
    ASSUME DesktopShape, NEW e \in Engines, NEW ics, Stopped(e, ics)
    PROVE  /\ engine' \in [Engines -> Fates] /\ engine'[e] = "down" /\ via' = via \ {e}
           /\ \A d \in Engines \ {e} : engine'[d] = engine[d]
BY DEF Stopped, DesktopShape, Fates

LEMMA StartedIs ==
    ASSUME DesktopShape, NEW e \in Engines, Started(e)
    PROVE  /\ engine' \in [Engines -> Fates] /\ engine'[e] = "up"
           /\ late' = IF engine[e] = "down" THEN late \cup {e} ELSE late
           /\ \A d \in Engines \ {e} : engine'[d] = engine[d]
BY DEF Started, DesktopShape, Fates

LEMMA LaunchIs ==
    ASSUME DesktopShape, NEW e \in Engines, Launch(e)
    PROVE  /\ engine' \in [Engines -> Fates] /\ engine[e] = "none" /\ engine'[e] = "new"
           /\ mounted' = e /\ \A d \in Engines \ {e} : engine'[d] = engine[d]
BY DEF Launch, DesktopShape, Fates

-----------------------------------------------------------------------------
(* The user's steps                                                        *)

LEMMA ShapeStays ==
    ASSUME OwnInv, QueueShape', mounted' \in 0..MaxEngines, UNCHANGED <<engine, late, via>>
    PROVE  /\ DesktopShape' /\ \A e \in Engines : Live(e)' <=> Live(e)
           /\ \A e \in Engines : engine[e] # "none" => engine'[e] # "none"
BY DEF OwnInv, DesktopShape, Live

LEMMA MountedIs ==
    ASSUME OwnInv
    PROVE  /\ mounted \in 0..MaxEngines /\ 0 \in 0..MaxEngines
           /\ \A e \in Engines : e = mounted => Present(mounted) = <<e>>
<1>1. mounted \in 0..MaxEngines /\ 0 \in 0..MaxEngines
  BY GuiAssumption DEF OwnInv, DesktopShape, GuiAssumption
<1>2. \A e \in Engines : Present(e) = <<e>>
  BY EnginesAre DEF Present
<1> QED
  BY <1>1, <1>2

(* An idle desktop starts an operation, whose task gets the mounted engine. *)
LEMMA OwnTakes ==
    ASSUME OwnInv, queue.busy = FALSE, queue' = [queue EXCEPT !.busy = TRUE], mounted' = 0,
           NEW n, TaskOK(n), Op(n), n.todo = Present(mounted),
           tasks' = tasks \cup {n}, UNCHANGED <<engine, late, via>>
    PROVE  OwnInv'
<1>1. QueueShape' /\ queue'.busy = TRUE
  BY BusyIs DEF OwnInv
<1>2. /\ DesktopShape' /\ \A e \in Engines : Live(e)' <=> Live(e)
      /\ \A e \in Engines : engine[e] # "none" => engine'[e] # "none"
  BY <1>1, ShapeStays, MountedIs
<1>3. (\A t \in tasks : ~Op(t)) /\ \A e \in Engines : Live(e) => e = mounted
  BY OwnRests
<1>4. TasksInv' /\ n \in tasks' /\ \A s \in tasks' : s.kind = "login" => s = n \/ s \in tasks
  BY <1>3, TaskBegins DEF OwnInv
<1>5. LoginsKnown'
  BY <1>2, <1>4, LoginsStay DEF OwnInv, Op
<1>6. \A e \in Engines : Live(e)' => n.todo = <<e>>
  BY <1>2, <1>3, MountedIs
<1> QED
  BY <1>1, <1>2, <1>4, <1>5, <1>6, OwnBusy

LEMMA TaskOfMounted ==
    ASSUME OwnInv, NEW n, n.todo = Present(mounted), TaskShape(n), n.kind = "stop" \/ (n.kind = "restart" /\ n.then = "stop")
    PROVE  TaskOK(n) /\ Op(n)
BY MountedIs, PresentIs DEF TaskOK, Op

LEMMA OwnOperates ==
    ASSUME OwnInv, NEW intent, NEW n, Operate(intent, n), TaskOK(n), Op(n), n.todo = Present(mounted)
    PROVE  OwnInv'
<1>1. CASE /\ ~queue.busy
           /\ queue' = [queue EXCEPT !.busy = TRUE]
           /\ mounted' = 0
           /\ tasks' = tasks \cup {n}
  <2>1. queue.busy = FALSE
    BY <1>1 DEF OwnInv, DesktopShape, QueueShape
  <2> QED
    BY <1>1, <2>1, OwnTakes DEF Operate
<1>2. CASE SetPending(intent) /\ UNCHANGED <<mounted, tasks>>
  <2>1. QueueShape' /\ queue'.busy = TRUE /\ queue.busy = TRUE
    BY <1>2, PendingIs DEF OwnInv
  <2>2. UNCHANGED <<engine, late, via>>
    BY DEF Operate
  <2>3. DesktopShape' /\ \A e \in Engines : Live(e)' <=> Live(e)
    BY <1>2, <2>1, <2>2, ShapeStays, MountedIs
  <2> QED
    BY <1>2, <2>1, <2>2, <2>3 DEF OwnInv, TasksInv, LoginsKnown
<1> QED
  BY <1>1, <1>2 DEF Operate

LEMMA OwnRequests ==
    ASSUME OwnInv, Logout \/ Quit \/ Reconnect \/ DataplaneFailed
    PROVE  OwnInv'
<1>1. PICK intent, n : /\ Operate(intent, n)
                       /\ \/ \E then : n = StopTask(Present(mounted), then)
                          \/ \E gen : n = RestartTask(mounted, "stop", gen)
  BY DEF Logout, Quit, Reconnect, DataplaneFailed
<1>2. n.todo = Present(mounted) /\ TaskShape(n) /\ (n.kind = "stop" \/ (n.kind = "restart" /\ n.then = "stop"))
  <2>1. CASE \E then : n = StopTask(Present(mounted), then)
    <3>1. PICK then, todo : n = StopTask(todo, then) /\ todo = Present(mounted)
      BY <2>1
    <3> QED
      BY <3>1, StopTaskIs
  <2>2. CASE \E gen : n = RestartTask(mounted, "stop", gen)
    <3>1. PICK gen, st : n = RestartTask(mounted, st, gen) /\ st = "stop"
      BY <2>2
    <3> QED
      BY <3>1, RestartTaskIs
  <2> QED
    BY <1>1, <2>1, <2>2
<1> QED
  BY <1>1, <1>2, TaskOfMounted, OwnOperates

(* An engine that is launched while none is mounted and no operation runs. *)
LEMMA OwnLaunches ==
    ASSUME OwnInv, QueueShape', queue'.busy = FALSE, TasksInv', \A t \in tasks' : ~Op(t),
           \A e \in Engines : ~Live(e), NEW e \in Engines, Launch(e), NEW n, n.todo = <<e>>,
           \A s \in tasks' : s.kind = "login" => s = n \/ s \in tasks,
           UNCHANGED <<late, via>>
    PROVE  OwnInv'
<1>1. /\ engine' \in [Engines -> Fates] /\ engine[e] = "none" /\ engine'[e] = "new"
      /\ mounted' = e /\ \A d \in Engines \ {e} : engine'[d] = engine[d]
  BY LaunchIs DEF OwnInv
<1>2. DesktopShape'
  BY <1>1, EnginesAre DEF OwnInv, DesktopShape
<1>3. \A d \in Engines : engine[d] # "none" => engine'[d] # "none"
  BY <1>1
<1>4. LoginsKnown'
  BY <1>1, <1>3, LoginsGrow DEF OwnInv
<1>5. \A d \in Engines : Live(d)' => d = mounted'
  BY <1>1 DEF Live
<1> QED
  BY <1>2, <1>4, <1>5, OwnIdle

LEMMA OwnConnects ==
    ASSUME OwnInv, Connect
    PROVE  OwnInv'
<1>1. queue.busy = FALSE /\ UNCHANGED <<via, late>>
  BY DEF Connect, OwnInv, DesktopShape, QueueShape
<1>2. (\A t \in tasks : ~Op(t)) /\ \A e \in Engines : Live(e) => e = mounted
  BY <1>1, OwnRests
<1>3. CASE /\ mounted = 0
           /\ \E e \in Engines : Launch(e) /\ tasks' = tasks \cup {LoginTask(e, "start")}
           /\ UNCHANGED queue
  <2>1. PICK e \in Engines : Launch(e) /\ tasks' = tasks \cup {LoginTask(e, "start")}
    BY <1>3
  <2>2. PICK n, st : n = LoginTask(e, st) /\ st = "start"
    OBVIOUS
  <2>3. TaskOK(n) /\ ~Op(n) /\ n.todo = <<e>>
    BY <2>2, LoginTaskIs DEF TaskOK, Op
  <2>4. tasks' = tasks \cup {n}
    BY <2>1, <2>2
  <2>5. /\ TasksInv' /\ \A s \in tasks' : s.kind = "login" => s = n \/ s \in tasks
        /\ \A s \in tasks' : ~Op(s)
    BY <1>2, <2>3, <2>4, TaskBegins DEF OwnInv
  <2>6. QueueShape' /\ queue'.busy = FALSE
    BY <1>1, <1>3 DEF OwnInv, DesktopShape, QueueShape
  <2>7. \A d \in Engines : ~Live(d)
    BY <1>2, <1>3, EnginesAre
  <2> QED
    BY <1>1, <2>1, <2>3, <2>5, <2>6, <2>7, OwnLaunches
<1>4. CASE /\ queue' = [queue EXCEPT !.busy = TRUE]
           /\ mounted' = 0
           /\ tasks' = tasks \cup {StopTask(Present(mounted), "retry")}
           /\ UNCHANGED engine
  <2>1. PICK todo, then : todo = Present(mounted) /\ then = "retry"
    OBVIOUS
  <2>2. PICK n : n = StopTask(todo, then)
    OBVIOUS
  <2>3. TaskShape(n) /\ n.kind = "stop" /\ n.todo = Present(mounted)
    BY <2>1, <2>2, StopTaskIs
  <2>4. TaskOK(n) /\ Op(n)
    BY <2>3, TaskOfMounted
  <2>5. tasks' = tasks \cup {n}
    BY <1>4, <2>1, <2>2
  <2> QED
    BY <1>1, <1>4, <2>3, <2>4, <2>5, OwnTakes
<1> QED
  BY <1>3, <1>4 DEF Connect

-----------------------------------------------------------------------------
(* The background goroutines                                               *)

LEMMA ShapeHolds ==
    ASSUME OwnInv, engine' \in [Engines -> Fates], QueueShape', mounted' \in 0..MaxEngines,
           late' \subseteq Engines, via' \subseteq Engines
    PROVE  DesktopShape'
BY DEF DesktopShape

LEMMA SameQueue ==
    ASSUME OwnInv, UNCHANGED <<queue, mounted>>
    PROVE  QueueShape' /\ mounted' \in 0..MaxEngines
BY DEF OwnInv, DesktopShape, QueueShape

(* A step of the running operation after which it still runs.              *)
LEMMA OwnGoesOn ==
    ASSUME OwnInv, NEW t \in tasks, Op(t), NEW n, TaskOK(n), Op(n), tasks' = (tasks \ {t}) \cup {n},
           DesktopShape', queue'.busy = TRUE, mounted' = 0,
           \A e \in Engines : engine[e] # "none" => engine'[e] # "none",
           \A e \in Engines : Live(e)' => n.todo = <<e>>
    PROVE  OwnInv'
<1>1. /\ TasksInv' /\ n \in tasks'
      /\ \A s \in tasks' : s.kind = "login" => s = n \/ s \in tasks
  BY TaskGoesOn DEF OwnInv
<1>2. LoginsKnown'
  BY <1>1, LoginsStay DEF OwnInv, Op
<1> QED
  BY <1>1, <1>2, OwnBusy

(* Stop of an engine: it is not live, the others are as they were.         *)
LEMMA StopLeaves ==
    ASSUME OwnInv, NEW e \in Engines, NEW ics, Stopped(e, ics), late' = late
    PROVE  /\ engine' \in [Engines -> Fates] /\ via' \subseteq Engines /\ late' \subseteq Engines
           /\ \A d \in Engines : engine[d] # "none" => engine'[d] # "none"
           /\ \A d \in Engines : Live(d)' => Live(d) /\ d # e
<1>1. /\ engine' \in [Engines -> Fates] /\ engine'[e] = "down" /\ via' = via \ {e}
      /\ \A d \in Engines \ {e} : engine'[d] = engine[d]
  BY StoppedIs DEF OwnInv
<1>2. via' \subseteq Engines /\ late' \subseteq Engines
  BY <1>1 DEF OwnInv, DesktopShape
<1>3. \A d \in Engines : Live(d)' => Live(d) /\ d # e
  BY <1>1 DEF Live
<1>4. \A d \in Engines : engine[d] # "none" => engine'[d] # "none"
  BY <1>1
<1> QED
  BY <1>1, <1>2, <1>3, <1>4

LEMMA OwnStopNext ==
    ASSUME OwnInv, NEW t \in tasks, StopNext(t)
    PROVE  OwnInv'
<1>1. /\ Op(t) /\ t.kind = "stop" /\ t.todo # <<>> /\ Stopped(Head(t.todo), "disable")
      /\ tasks' = (tasks \ {t}) \cup {[t EXCEPT !.todo = Tail(@)]}
      /\ UNCHANGED <<queue, mounted, late>>
  BY DEF StopNext, Op
<1>2. queue.busy = TRUE /\ mounted = 0 /\ TaskOK(t) /\ \A e \in Engines : Live(e) => t.todo = <<e>>
  BY <1>1, OwnRuns
<1>3. PICK e \in Engines : t.todo = <<e>>
  BY <1>1, <1>2 DEF TaskOK
<1>4. PICK ics : ics = "disable"
  OBVIOUS
<1>5. Stopped(e, ics)
  BY <1>1, <1>3, <1>4, OneItem
<1>6. /\ engine' \in [Engines -> Fates] /\ via' \subseteq Engines /\ late' \subseteq Engines
      /\ \A d \in Engines : engine[d] # "none" => engine'[d] # "none"
      /\ \A d \in Engines : Live(d)' => Live(d) /\ d # e
  BY <1>1, <1>5, StopLeaves
<1>7. PICK n : n = [t EXCEPT !.todo = <<>>]
  OBVIOUS
<1>8. tasks' = (tasks \ {t}) \cup {n}
  <2>1. [t EXCEPT !.todo = Tail(@)] = [t EXCEPT !.todo = Tail(t.todo)]
    BY <1>2 DEF TaskOK, TaskShape
  <2>2. Tail(t.todo) = <<>>
    BY <1>3, OneItem
  <2> QED
    BY <1>1, <1>7, <2>1, <2>2
<1>9. TaskOK(n) /\ Op(n)
  BY <1>1, <1>2, <1>7 DEF TaskOK, TaskShape, Op
<1>10. \A d \in Engines : ~Live(d)'
  BY <1>2, <1>3, <1>6, OneItem
<1>11. DesktopShape'
  BY <1>1, <1>6, SameQueue, ShapeHolds
<1> QED
  BY <1>1, <1>2, <1>6, <1>8, <1>9, <1>10, <1>11, OwnGoesOn

(* A queued intent: what the operation held is given to the task that      *)
(* stops it.                                                               *)
LEMMA OwnDispatches ==
    ASSUME OwnInv, NEW t \in tasks, Op(t), NEW orphan \in 0..MaxEngines, Present(orphan) = t.todo,
           Dispatch(t, orphan), UNCHANGED <<engine, via, late>>
    PROVE  OwnInv'
<1>1. queue.busy = TRUE /\ mounted = 0 /\ TaskOK(t) /\ \A e \in Engines : Live(e) => t.todo = <<e>>
  BY OwnRuns
<1>2. PICK then : then = CASE queue.pending = "logout" -> "login"
                           [] queue.pending = "quit" -> "quit"
                           [] queue.pending = "reconnect" -> "restart"
  OBVIOUS
<1>3. PICK todo : todo = Orphaned(orphan)
  OBVIOUS
<1>4. todo = t.todo
  <2>1. Present(mounted) = <<>>
    BY <1>1, PresentIs
  <2>2. t.todo \in Seq(Engines)
    <3>1. <<>> \in Seq(Engines) /\ \A e \in Engines : <<e>> \in Seq(Engines)
      OBVIOUS
    <3> QED
      BY <1>1, <3>1 DEF TaskOK
  <2>3. <<>> \o t.todo = t.todo
    BY <2>2
  <2> QED
    BY <1>3, <2>1, <2>3 DEF Orphaned
<1>5. PICK n : n = StopTask(todo, then)
  OBVIOUS
<1>6. TaskShape(n) /\ n.kind = "stop" /\ n.todo = t.todo
  BY <1>4, <1>5, StopTaskIs
<1>7. TaskOK(n) /\ Op(n)
  BY <1>1, <1>6 DEF TaskOK, Op
<1>8. tasks' = (tasks \ {t}) \cup {n} /\ mounted' = 0 /\ queue' = [queue EXCEPT !.pending = "none"]
  BY <1>2, <1>3, <1>5, Zenon DEF Dispatch
<1>9. QueueShape' /\ queue'.busy = TRUE
  BY <1>1, <1>8 DEF OwnInv, DesktopShape, QueueShape
<1>10. /\ DesktopShape' /\ \A e \in Engines : Live(e)' <=> Live(e)
       /\ \A e \in Engines : engine[e] # "none" => engine'[e] # "none"
  BY <1>8, <1>9, ShapeStays, MountedIs
<1> QED
  BY <1>1, <1>6, <1>7, <1>8, <1>9, <1>10, OwnGoesOn

(* The operation ends and holds nothing.                                   *)
LEMMA OwnEnds ==
    ASSUME OwnInv, NEW t \in tasks, Op(t), tasks' = tasks \ {t}, QueueShape', queue'.busy = FALSE,
           mounted' \in 0..MaxEngines, \A e \in Engines : Live(e) => e = mounted',
           UNCHANGED <<engine, late, via>>
    PROVE  OwnInv'
<1>1. TasksInv' /\ tasks' \subseteq tasks /\ \A s \in tasks' : ~Op(s)
  BY TaskEnds DEF OwnInv
<1>2. /\ DesktopShape' /\ \A e \in Engines : Live(e)' <=> Live(e)
      /\ \A e \in Engines : engine[e] # "none" => engine'[e] # "none"
  BY ShapeStays
<1>3. LoginsKnown'
  BY <1>1, <1>2, LoginsStay DEF OwnInv
<1> QED
  BY <1>1, <1>2, <1>3, OwnIdle

LEMMA EndOpIs ==
    ASSUME OwnInv, EndOp
    PROVE  QueueShape' /\ queue'.busy = FALSE
BY DEF OwnInv, DesktopShape, QueueShape, EndOp

LEMMA OwnStopDone ==
    ASSUME OwnInv, NEW t \in tasks, StopDone(t)
    PROVE  OwnInv'
<1>1. /\ Op(t) /\ t.kind = "stop" /\ t.todo = <<>> /\ UNCHANGED <<via, late>>
  BY DEF StopDone, Op
<1>2. queue.busy = TRUE /\ mounted = 0 /\ TaskOK(t) /\ \A e \in Engines : ~Live(e)
  <2>1. queue.busy = TRUE /\ mounted = 0 /\ TaskOK(t) /\ \A e \in Engines : Live(e) => t.todo = <<e>>
    BY <1>1, OwnRuns
  <2> QED
    BY <1>1, <2>1, OneItem
<1>3. 0 \in 0..MaxEngines /\ \A e \in Engines : e # 0
  BY EnginesAre, MountedIs
<1>4. CASE Dispatch(t, 0) /\ UNCHANGED engine
  <2>1. PICK orphan \in 0..MaxEngines : orphan = 0
    BY <1>3
  <2>2. Dispatch(t, orphan) /\ Present(orphan) = t.todo
    BY <1>1, <1>4, <2>1, PresentIs
  <2> QED
    BY <1>1, <1>4, <2>2, OwnDispatches
<1>5. CASE Leave(t)
  <2>1. /\ tasks' = {} /\ mounted' = 0 /\ EndOp
        /\ engine' = [e \in Engines |-> IF e = mounted THEN "down" ELSE engine[e]]
    BY <1>5 DEF Leave
  <2>2. QueueShape' /\ queue'.busy = FALSE
    BY <2>1, EndOpIs
  <2>3. \A e \in Engines : engine'[e] = engine[e]
    BY <1>2, <1>3, <2>1
  <2>4. engine' \in [Engines -> Fates]
    BY <2>1, <2>3 DEF OwnInv, DesktopShape
  <2>5. DesktopShape'
    BY <1>1, <1>3, <2>1, <2>2, <2>4 DEF OwnInv, DesktopShape
  <2>6. \A e \in Engines : ~Live(e)'
    BY <1>1, <1>2, <2>3 DEF Live
  <2> QED
    BY <2>1, <2>2, <2>5, <2>6 DEF OwnInv, TasksInv, LoginsKnown
<1>6. CASE EndOp /\ tasks' = tasks \ {t} /\ UNCHANGED <<mounted, engine>>
  <2>1. QueueShape' /\ queue'.busy = FALSE
    BY <1>6, EndOpIs
  <2> QED
    BY <1>1, <1>2, <1>3, <1>6, <2>1, OwnEnds
<1>7. CASE /\ tasks' = (tasks \ {t}) \cup {RestartTask(0, "stop", queue.gen)}
           /\ UNCHANGED <<queue, mounted, engine>>
  <2>1. PICK old, st, gen : old = 0 /\ st = "stop" /\ gen = queue.gen
    OBVIOUS
  <2>2. PICK n : n = RestartTask(old, st, gen)
    OBVIOUS
  <2>3. TaskShape(n) /\ n.kind = "restart" /\ n.todo = <<>>
    BY <2>1, <2>2, RestartTaskIs, PresentIs
  <2>4. TaskOK(n) /\ Op(n) /\ tasks' = (tasks \ {t}) \cup {n}
    BY <1>7, <2>1, <2>2, <2>3 DEF TaskOK, Op
  <2>5. /\ DesktopShape' /\ \A e \in Engines : Live(e)' <=> Live(e)
        /\ \A e \in Engines : engine[e] # "none" => engine'[e] # "none"
    BY <1>1, <1>7, ShapeStays, SameQueue
  <2> QED
    BY <1>1, <1>2, <1>7, <2>4, <2>5, OwnGoesOn
<1>8. CASE /\ EndOp
           /\ \E e \in Engines : Launch(e) /\ tasks' = (tasks \ {t}) \cup {LoginTask(e, "start")}
  <2>1. PICK e \in Engines : Launch(e) /\ tasks' = (tasks \ {t}) \cup {LoginTask(e, "start")}
    BY <1>8
  <2>2. PICK n, st : n = LoginTask(e, st) /\ st = "start"
    OBVIOUS
  <2>3. TaskOK(n) /\ ~Op(n) /\ n.todo = <<e>>
    BY <2>2, LoginTaskIs DEF TaskOK, Op
  <2>4. tasks' = (tasks \ {t}) \cup {n}
    BY <2>1, <2>2
  <2>5. /\ TasksInv' /\ \A s \in tasks' : s.kind = "login" => s = n \/ s \in tasks
        /\ \A s \in tasks' : ~Op(s)
    BY <1>1, <2>3, <2>4, TaskGoesOn DEF OwnInv
  <2>6. QueueShape' /\ queue'.busy = FALSE
    BY <1>8, EndOpIs
  <2> QED
    BY <1>1, <1>2, <2>1, <2>3, <2>5, <2>6, OwnLaunches
<1> QED
  BY <1>4, <1>5, <1>6, <1>7, <1>8 DEF StopDone

LEMMA OwnRestartStage ==
    ASSUME OwnInv, NEW t \in tasks, RestartStage(t)
    PROVE  OwnInv'
<1>1. /\ Op(t) /\ t.kind = "restart" /\ t.then \in {"stop", "stopped", "waited"}
      /\ UNCHANGED <<queue, mounted, late>>
  BY DEF RestartStage, Op
<1>2. queue.busy = TRUE /\ mounted = 0 /\ TaskOK(t) /\ \A e \in Engines : Live(e) => t.todo = <<e>>
  BY <1>1, OwnRuns
<1>3. PICK old, st, gen : old = 0 /\ tasks' = (tasks \ {t}) \cup {RestartTask(old, st, gen)}
  BY DEF RestartStage
<1>4. PICK n : n = RestartTask(old, st, gen)
  OBVIOUS
<1>5. TaskShape(n) /\ n.kind = "restart" /\ n.todo = <<>>
  BY <1>3, <1>4, RestartTaskIs, PresentIs
<1>6. TaskOK(n) /\ Op(n) /\ tasks' = (tasks \ {t}) \cup {n}
  BY <1>3, <1>4, <1>5 DEF TaskOK, Op
<1>7. /\ DesktopShape' /\ \A e \in Engines : ~Live(e)'
      /\ \A e \in Engines : engine[e] # "none" => engine'[e] # "none"
  <2>1. CASE t.todo = <<>> /\ UNCHANGED <<engine, via>>
    <3>1. \A e \in Engines : ~Live(e)
      BY <1>2, <2>1, OneItem
    <3> QED
      BY <1>1, <2>1, <3>1, ShapeStays, SameQueue
  <2>2. CASE t.todo # <<>> /\ Stopped(Head(t.todo), "preserve")
    <3>1. PICK e \in Engines : t.todo = <<e>>
      BY <1>2, <2>2 DEF TaskOK
    <3>2. PICK ics : ics = "preserve"
      OBVIOUS
    <3>3. Stopped(e, ics)
      BY <2>2, <3>1, <3>2, OneItem
    <3>4. /\ engine' \in [Engines -> Fates] /\ via' \subseteq Engines /\ late' \subseteq Engines
          /\ \A d \in Engines : engine[d] # "none" => engine'[d] # "none"
          /\ \A d \in Engines : Live(d)' => Live(d) /\ d # e
      BY <1>1, <3>3, StopLeaves
    <3>5. \A d \in Engines : ~Live(d)'
      BY <1>2, <3>1, <3>4, OneItem
    <3> QED
      BY <1>1, <3>4, <3>5, SameQueue, ShapeHolds
  <2>3. t.then # "stop" => t.todo = <<>>
    BY <1>1, <1>2 DEF TaskOK
  <2> QED
    BY <2>1, <2>2, <2>3 DEF RestartStage
<1> QED
  BY <1>1, <1>2, <1>6, <1>7, OwnGoesOn

LEMMA OwnRestartStart ==
    ASSUME OwnInv, NEW t \in tasks, RestartStart(t)
    PROVE  OwnInv'
<1>1. /\ Op(t) /\ t.kind = "restart" /\ t.then = "start" /\ UNCHANGED <<queue, mounted, via>>
  BY DEF RestartStart, Op
<1>2. queue.busy = TRUE /\ mounted = 0 /\ TaskOK(t) /\ \A e \in Engines : Live(e) => t.todo = <<e>>
  BY <1>1, OwnRuns
<1>3. \A e \in Engines : ~Live(e)
  BY <1>1, <1>2, OneItem DEF TaskOK
<1>4. ASSUME NEW e \in Engines, NEW st, NEW gen, st \in {"up", "failed"}, engine[e] = "none",
             engine' \in [Engines -> Fates], engine'[e] # "none", late' = late,
             \A d \in Engines \ {e} : engine'[d] = engine[d],
             tasks' = (tasks \ {t}) \cup {RestartTask(e, st, gen)}
      PROVE  OwnInv'
  <2>1. PICK n : n = RestartTask(e, st, gen)
    OBVIOUS
  <2>2. Present(e) = <<e>>
    BY EnginesAre DEF Present
  <2>3. TaskShape(n) /\ n.kind = "restart" /\ n.todo = <<e>> /\ n.then = st
    BY <2>1, <2>2, RestartTaskIs
  <2>4. TaskOK(n) /\ Op(n) /\ tasks' = (tasks \ {t}) \cup {n}
    BY <1>4, <2>1, <2>3 DEF TaskOK, Op
  <2>5. \A d \in Engines : Live(d)' => n.todo = <<d>>
    BY <1>3, <1>4, <2>3 DEF Live
  <2>6. \A d \in Engines : engine[d] # "none" => engine'[d] # "none"
    BY <1>4
  <2>7. late' \subseteq Engines /\ via' \subseteq Engines
    BY <1>1, <1>4 DEF OwnInv, DesktopShape
  <2>8. DesktopShape'
    BY <1>1, <1>4, <2>7, SameQueue, ShapeHolds
  <2> QED
    BY <1>1, <1>2, <2>4, <2>5, <2>6, <2>8, OwnGoesOn
<1>5. CASE \E e \in Engines :
             /\ engine[e] = "none" /\ \A d \in Engines : d < e => engine[d] # "none"
             /\ \/ /\ Started(e)
                   /\ tasks' = (tasks \ {t}) \cup {RestartTask(e, "up", t.gen)}
                \/ /\ engine' = [engine EXCEPT ![e] = "new"]
                   /\ tasks' = (tasks \ {t}) \cup {RestartTask(e, "failed", t.gen)}
                   /\ UNCHANGED late
  <2>1. PICK e \in Engines :
             /\ engine[e] = "none"
             /\ \/ /\ Started(e)
                   /\ tasks' = (tasks \ {t}) \cup {RestartTask(e, "up", t.gen)}
                \/ /\ engine' = [engine EXCEPT ![e] = "new"]
                   /\ tasks' = (tasks \ {t}) \cup {RestartTask(e, "failed", t.gen)}
                   /\ UNCHANGED late
    BY <1>5
  <2>2. CASE /\ Started(e)
             /\ tasks' = (tasks \ {t}) \cup {RestartTask(e, "up", t.gen)}
    <3>1. PICK st, gen : st = "up" /\ gen = t.gen
      OBVIOUS
    <3>2. /\ engine' \in [Engines -> Fates] /\ engine'[e] = "up" /\ late' = late
          /\ \A d \in Engines \ {e} : engine'[d] = engine[d]
      BY <2>1, <2>2, StartedIs DEF OwnInv
    <3>3. tasks' = (tasks \ {t}) \cup {RestartTask(e, st, gen)} /\ st \in {"up", "failed"}
      BY <2>2, <3>1
    <3> QED
      BY <1>4, <2>1, <3>2, <3>3
  <2>3. CASE /\ engine' = [engine EXCEPT ![e] = "new"]
             /\ tasks' = (tasks \ {t}) \cup {RestartTask(e, "failed", t.gen)}
             /\ UNCHANGED late
    <3>1. PICK st, gen : st = "failed" /\ gen = t.gen
      OBVIOUS
    <3>2. /\ engine' \in [Engines -> Fates] /\ engine'[e] = "new"
          /\ \A d \in Engines \ {e} : engine'[d] = engine[d]
      BY <2>3 DEF OwnInv, DesktopShape, Fates
    <3>3. tasks' = (tasks \ {t}) \cup {RestartTask(e, st, gen)} /\ st \in {"up", "failed"} /\ late' = late
      BY <2>3, <3>1
    <3> QED
      BY <1>4, <2>1, <3>2, <3>3
  <2> QED
    BY <2>1, <2>2, <2>3
<1>6. CASE /\ tasks' = (tasks \ {t}) \cup {RestartTask(0, "failed", t.gen)}
           /\ UNCHANGED <<engine, late>>
  <2>1. PICK old, st, gen : old = 0 /\ st = "failed" /\ gen = t.gen
    OBVIOUS
  <2>2. PICK n : n = RestartTask(old, st, gen)
    OBVIOUS
  <2>3. TaskShape(n) /\ n.kind = "restart" /\ n.todo = <<>>
    BY <2>1, <2>2, RestartTaskIs, PresentIs
  <2>4. TaskOK(n) /\ Op(n) /\ tasks' = (tasks \ {t}) \cup {n}
    BY <1>6, <2>1, <2>2, <2>3 DEF TaskOK, Op
  <2>5. /\ DesktopShape' /\ \A e \in Engines : Live(e)' <=> Live(e)
        /\ \A e \in Engines : engine[e] # "none" => engine'[e] # "none"
    BY <1>1, <1>6, ShapeStays, SameQueue
  <2> QED
    BY <1>1, <1>2, <1>3, <2>4, <2>5, OwnGoesOn
<1> QED
  BY <1>5, <1>6 DEF RestartStart

LEMMA OwnRestartDone ==
    ASSUME OwnInv, NEW t \in tasks, RestartDone(t)
    PROVE  OwnInv'
<1>1. PICK new : new = IF t.todo = <<>> THEN 0 ELSE Head(t.todo)
  OBVIOUS
<1>2. PICK mount : mount = (queue.gen = t.gen /\ t.then = "up")
  OBVIOUS
<1>3. /\ Op(t) /\ t.kind = "restart" /\ UNCHANGED <<engine, via, late>>
      /\ \/ Dispatch(t, new)
         \/ /\ mounted' = new
            /\ queue' = [queue EXCEPT !.busy = FALSE]
            /\ tasks' = tasks \ {t}
         \/ /\ new # 0
            /\ tasks' = (tasks \ {t}) \cup {StopTask(<<new>>, "idle")}
            /\ UNCHANGED <<queue, mounted>>
         \/ /\ new = 0
            /\ queue' = [queue EXCEPT !.busy = FALSE]
            /\ tasks' = tasks \ {t}
            /\ UNCHANGED mounted
  <2>1. t.kind = "restart" /\ UNCHANGED <<engine, via, late>>
    BY DEF RestartDone
  <2>2. \/ Dispatch(t, new)
        \/ /\ mounted' = new
           /\ queue' = [queue EXCEPT !.busy = FALSE]
           /\ tasks' = tasks \ {t}
        \/ /\ new # 0
           /\ tasks' = (tasks \ {t}) \cup {StopTask(<<new>>, "idle")}
           /\ UNCHANGED <<queue, mounted>>
        \/ /\ new = 0
           /\ queue' = [queue EXCEPT !.busy = FALSE]
           /\ tasks' = tasks \ {t}
           /\ UNCHANGED mounted
    BY <1>1, <1>2, Zenon DEF RestartDone
  <2> QED
    BY <2>1, <2>2 DEF Op
<1>4. queue.busy = TRUE /\ mounted = 0 /\ TaskOK(t) /\ \A e \in Engines : Live(e) => t.todo = <<e>>
  BY <1>3, OwnRuns
<1>5. /\ new \in 0..MaxEngines /\ Present(new) = t.todo
      /\ \A e \in Engines : t.todo = <<e>> <=> new = e
  <2>1. CASE t.todo = <<>>
    BY <1>1, <2>1, OneItem, PresentIs, MountedIs, EnginesAre
  <2>2. CASE \E e \in Engines : t.todo = <<e>>
    <3>1. PICK e \in Engines : t.todo = <<e>>
      BY <2>2
    <3>2. new = e
      BY <1>1, <3>1, OneItem
    <3>3. Present(e) = <<e>> /\ e \in 0..MaxEngines
      BY EnginesAre DEF Present
    <3> QED
      BY <3>1, <3>2, <3>3, OneItem
  <2> QED
    BY <1>4, <2>1, <2>2 DEF TaskOK
<1>6. CASE Dispatch(t, new)
  BY <1>3, <1>5, <1>6, OwnDispatches
<1>7. CASE /\ mounted' = new
           /\ queue' = [queue EXCEPT !.busy = FALSE]
           /\ tasks' = tasks \ {t}
  <2>1. QueueShape' /\ queue'.busy = FALSE
    BY <1>7, BusyIs DEF OwnInv
  <2>2. \A e \in Engines : Live(e) => e = mounted'
    BY <1>4, <1>5, <1>7
  <2> QED
    BY <1>3, <1>5, <1>7, <2>1, <2>2, OwnEnds
<1>8. CASE /\ new # 0
           /\ tasks' = (tasks \ {t}) \cup {StopTask(<<new>>, "idle")}
           /\ UNCHANGED <<queue, mounted>>
  <2>1. PICK todo, then : todo = <<new>> /\ then = "idle"
    OBVIOUS
  <2>2. PICK n : n = StopTask(todo, then)
    OBVIOUS
  <2>3. TaskShape(n) /\ n.kind = "stop" /\ n.todo = todo
    BY <2>2, StopTaskIs
  <2>4. todo = t.todo
    BY <1>5, <1>8, <2>1 DEF Present
  <2>5. TaskOK(n) /\ Op(n) /\ tasks' = (tasks \ {t}) \cup {n}
    BY <1>4, <1>8, <2>1, <2>2, <2>3, <2>4 DEF TaskOK, Op
  <2>6. /\ DesktopShape' /\ \A e \in Engines : Live(e)' <=> Live(e)
        /\ \A e \in Engines : engine[e] # "none" => engine'[e] # "none"
    BY <1>3, <1>8, ShapeStays, SameQueue
  <2>7. \A e \in Engines : Live(e)' => n.todo = <<e>>
    BY <1>4, <2>3, <2>4, <2>6
  <2> QED
    BY <1>3, <1>4, <1>8, <2>5, <2>6, <2>7, OwnGoesOn
<1>9. CASE /\ new = 0
           /\ queue' = [queue EXCEPT !.busy = FALSE]
           /\ tasks' = tasks \ {t}
           /\ UNCHANGED mounted
  <2>1. QueueShape' /\ queue'.busy = FALSE
    BY <1>9, BusyIs DEF OwnInv
  <2>2. \A e \in Engines : Live(e) => e = mounted'
    BY <1>4, <1>5, <1>9
  <2> QED
    BY <1>3, <1>4, <1>5, <1>9, <2>1, <2>2, OwnEnds
<1> QED
  BY <1>3, <1>6, <1>7, <1>8, <1>9

(* A login goroutine goes on or ends while the desktop stays as it is.     *)
LEMMA LoginHas ==
    ASSUME OwnInv, NEW t \in tasks, t.kind = "login"
    PROVE  \E e \in Engines : t.todo = <<e>> /\ t.todo[1] = e /\ engine[e] # "none"
BY OneItem DEF OwnInv, LoginsKnown

LEMMA OpsStay ==
    ASSUME OwnInv, NEW t \in tasks, ~Op(t), DesktopShape', TasksInv', LoginsKnown',
           UNCHANGED <<queue, mounted>>,
           \A s \in tasks : Op(s) => s \in tasks', \A s \in tasks' : Op(s) => s \in tasks,
           \A e \in Engines : Live(e)' => Live(e)
    PROVE  OwnInv'
BY DEF OwnInv

LEMMA LoginGoesOn ==
    ASSUME OwnInv, NEW t \in tasks, t.kind = "login", NEW e \in Engines, NEW n, TaskShape(n), n.kind = "login",
           n.todo = <<e>>, tasks' = (tasks \ {t}) \cup {n}, UNCHANGED <<queue, mounted>>,
           engine' \in [Engines -> Fates], late' \subseteq Engines, via' \subseteq Engines,
           engine'[e] # "none", \A d \in Engines : engine[d] # "none" => engine'[d] # "none",
           \A d \in Engines : Live(d)' => Live(d)
    PROVE  OwnInv'
<1>1. TaskOK(n) /\ ~Op(n) /\ ~Op(t)
  BY DEF TaskOK, Op
<1>2. /\ TasksInv' /\ \A s \in tasks' : s.kind = "login" => s = n \/ s \in tasks
  BY <1>1, TaskGoesOn DEF OwnInv
<1>3. LoginsKnown'
  BY <1>2, LoginsGrow DEF OwnInv
<1>4. DesktopShape'
  BY SameQueue, ShapeHolds
<1> QED
  BY <1>1, <1>2, <1>3, <1>4, OpsStay

LEMMA OwnLoginStart ==
    ASSUME OwnInv, NEW t \in tasks, LoginStart(t)
    PROVE  OwnInv'
<1>1. t.kind = "login" /\ UNCHANGED <<queue, mounted, via>>
  BY DEF LoginStart
<1>2. PICK e \in Engines : t.todo[1] = e /\ engine[e] # "none"
  BY <1>1, LoginHas
<1>3. Started(e) /\ tasks' = (tasks \ {t}) \cup {LoginTask(e, "wait")}
  BY <1>2 DEF LoginStart
<1>4. PICK st, n : st = "wait" /\ n = LoginTask(e, st)
  OBVIOUS
<1>5. TaskShape(n) /\ n.kind = "login" /\ n.todo = <<e>> /\ tasks' = (tasks \ {t}) \cup {n}
  BY <1>3, <1>4, LoginTaskIs
<1>6. /\ engine' \in [Engines -> Fates] /\ engine'[e] = "up"
      /\ late' = IF engine[e] = "down" THEN late \cup {e} ELSE late
      /\ \A d \in Engines \ {e} : engine'[d] = engine[d]
  BY <1>3, StartedIs DEF OwnInv
<1>7. late' \subseteq Engines /\ via' \subseteq Engines
  BY <1>1, <1>6 DEF OwnInv, DesktopShape
<1>8. engine[e] \in Fates
  BY DEF OwnInv, DesktopShape
<1>9. \A d \in Engines : Live(d)' => Live(d)
  BY <1>2, <1>6, <1>8 DEF Live, Fates
<1>10. engine'[e] # "none" /\ \A d \in Engines : engine[d] # "none" => engine'[d] # "none"
  BY <1>6
<1> QED
  BY <1>1, <1>5, <1>6, <1>7, <1>9, <1>10, LoginGoesOn

LEMMA OwnLoginRefused ==
    ASSUME OwnInv, NEW t \in tasks, LoginRefused(t)
    PROVE  OwnInv'
<1>1. t.kind = "login" /\ UNCHANGED <<queue, mounted, late>>
  BY DEF LoginRefused
<1>2. PICK e \in Engines : t.todo[1] = e /\ engine[e] # "none"
  BY <1>1, LoginHas
<1>3. PICK st, ics, n : st = "refused" /\ ics = "disable" /\ n = LoginTask(e, st)
  OBVIOUS
<1>4. Stopped(e, ics) /\ tasks' = (tasks \ {t}) \cup {n}
  BY <1>2, <1>3 DEF LoginRefused
<1>5. TaskShape(n) /\ n.kind = "login" /\ n.todo = <<e>>
  BY <1>3, LoginTaskIs
<1>6. /\ engine' \in [Engines -> Fates] /\ via' \subseteq Engines /\ late' \subseteq Engines
      /\ \A d \in Engines : engine[d] # "none" => engine'[d] # "none"
      /\ \A d \in Engines : Live(d)' => Live(d) /\ d # e
  BY <1>1, <1>4, StopLeaves
<1> QED
  BY <1>1, <1>2, <1>4, <1>5, <1>6, LoginGoesOn

LEMMA OwnLoginEnds ==
    ASSUME OwnInv, NEW t \in tasks, t.kind = "login", tasks' = tasks \ {t},
           UNCHANGED <<queue, mounted, engine, via, late>>
    PROVE  OwnInv'
<1>1. ~Op(t)
  BY DEF Op
<1>2. TasksInv' /\ tasks' \subseteq tasks
  BY TaskEnds DEF OwnInv
<1>3. /\ DesktopShape' /\ \A e \in Engines : Live(e)' <=> Live(e)
      /\ \A e \in Engines : engine[e] # "none" => engine'[e] # "none"
  BY ShapeStays, SameQueue
<1>4. LoginsKnown'
  BY <1>2, <1>3, LoginsStay DEF OwnInv
<1> QED
  BY <1>1, <1>2, <1>3, <1>4, OpsStay

LEMMA OwnLoginFailed ==
    ASSUME OwnInv, NEW t \in tasks, LoginFailed(t)
    PROVE  OwnInv'
<1>1. t.kind = "login" /\ UNCHANGED <<engine, via, late>>
  BY DEF LoginFailed
<1>2. PICK e \in Engines : t.todo = <<e>> /\ t.todo[1] = e
  BY <1>1, LoginHas
<1>3. CASE tasks' = tasks \ {t} /\ UNCHANGED <<queue, mounted>>
  BY <1>1, <1>3, OwnLoginEnds
<1>4. CASE /\ mounted = t.todo[1] /\ ~queue.busy
           /\ mounted' = 0
           /\ queue' = [queue EXCEPT !.busy = TRUE]
           /\ tasks' = (tasks \ {t}) \cup {StopTask(t.todo, "idle")}
  <2>1. PICK todo, then : todo = t.todo /\ then = "idle"
    OBVIOUS
  <2>2. PICK n : n = StopTask(todo, then)
    OBVIOUS
  <2>3. TaskShape(n) /\ n.kind = "stop" /\ n.todo = <<e>>
    BY <1>2, <2>1, <2>2, StopTaskIs
  <2>4. TaskOK(n) /\ Op(n) /\ tasks' = (tasks \ {t}) \cup {n}
    BY <1>4, <2>1, <2>2, <2>3 DEF TaskOK, Op
  <2>5. queue.busy = FALSE
    BY <1>4 DEF OwnInv, DesktopShape, QueueShape
  <2>6. (\A s \in tasks : ~Op(s)) /\ \A d \in Engines : Live(d) => d = mounted
    BY <2>5, OwnRests
  <2>7. QueueShape' /\ queue'.busy = TRUE
    BY <1>4, BusyIs DEF OwnInv
  <2>8. /\ DesktopShape' /\ \A d \in Engines : Live(d)' <=> Live(d)
        /\ \A d \in Engines : engine[d] # "none" => engine'[d] # "none"
    BY <1>1, <1>4, <2>7, ShapeStays, MountedIs
  <2>9. /\ TasksInv' /\ n \in tasks' /\ \A s \in tasks' : s.kind = "login" => s \in tasks
    BY <2>4, <2>6 DEF OwnInv, TasksInv, Op
  <2>10. LoginsKnown'
    BY <2>8, <2>9, LoginsStay DEF OwnInv
  <2>11. \A d \in Engines : Live(d)' => n.todo = <<d>>
    BY <1>2, <1>4, <2>3, <2>6, <2>8
  <2> QED
    BY <1>4, <2>4, <2>7, <2>8, <2>9, <2>10, <2>11, OwnBusy
<1> QED
  BY <1>3, <1>4 DEF LoginFailed

LEMMA OwnSame ==
    ASSUME OwnInv, UNCHANGED <<queue, mounted, engine, tasks, late>>, via' \subseteq Engines
    PROVE  OwnInv'
BY DEF OwnInv, DesktopShape, QueueShape, TasksInv, LoginsKnown, Live

LEMMA OwnSteps ==
    ASSUME OwnInv, [GuiNext]_guiVars
    PROVE  OwnInv'
<1>1. CASE UNCHANGED guiVars
  BY <1>1, OwnSame DEF guiVars, OwnInv, DesktopShape
<1>2. CASE User
  <2>1. CASE ShowLogin
    BY <2>1, OwnSame DEF ShowLogin, OwnInv, DesktopShape
  <2> QED
    BY <1>2, <2>1, OwnConnects, OwnRequests DEF User
<1>3. CASE Background
  <2>1. PICK t \in tasks : \/ StopNext(t) \/ StopDone(t) \/ RestartStage(t) \/ RestartStart(t)
                           \/ RestartDone(t) \/ LoginStart(t) \/ LoginRefused(t) \/ LoginFailed(t)
                           \/ LoginOK(t)
    BY <1>3 DEF Background
  <2>2. CASE LoginOK(t)
    BY <2>2, OwnLoginEnds DEF LoginOK
  <2> QED
    BY <2>1, <2>2, OwnStopNext, OwnStopDone, OwnRestartStage, OwnRestartStart, OwnRestartDone,
       OwnLoginStart, OwnLoginRefused, OwnLoginFailed
<1>4. CASE \E e \in Engines : SetUpVia(e)
  BY <1>4, OwnSame DEF SetUpVia, OwnInv, DesktopShape
<1> QED
  BY <1>1, <1>2, <1>3, <1>4 DEF GuiNext

LEMMA OwnStarts == GuiInit => OwnInv
<1> SUFFICES ASSUME GuiInit PROVE OwnInv
  OBVIOUS
<1>1. DesktopShape
  BY GuiAssumption DEF GuiInit, DesktopShape, QueueShape, Fates, GuiAssumption
<1>2. \A e \in Engines : ~Live(e)
  BY DEF GuiInit, Live
<1> QED
  BY <1>1, <1>2 DEF GuiInit, OwnInv, TasksInv, LoginsKnown

LEMMA OwnMeans == OwnInv => EnginesOwned
<1> SUFFICES ASSUME OwnInv PROVE EnginesOwned
  OBVIOUS
<1>1. PICK up : up = {e \in Engines : engine[e] = "up" /\ e \notin late}
  OBVIOUS
<1>2. \A e \in up : e \in Engines /\ Live(e)
  BY <1>1 DEF Live
<1>3. \E x : up \subseteq {x}
  <2>1. CASE queue.busy = FALSE
    BY <1>2, <2>1, OwnRests
  <2>2. CASE queue.busy = TRUE
    <3>1. PICK t \in tasks : Op(t)
      BY <2>2 DEF OwnInv
    <3>2. \A e \in Engines : Live(e) => t.todo = <<e>>
      BY <3>1, OwnRuns
    <3> QED
      BY <1>2, <3>2, OneItem
  <2> QED
    BY <2>1, <2>2 DEF OwnInv, DesktopShape, QueueShape
<1>4. Cardinality(up) <= 1
  <2>1. PICK x : up = {} \/ up = {x}
    BY <1>3
  <2>2. Cardinality({}) = 0 /\ Cardinality({x}) = 1
    BY FS_EmptySet, FS_Singleton
  <2> QED
    BY <2>1, <2>2
<1>5. \A e \in up : e = mounted \/ \E t \in tasks : Contains(t.todo, e)
  <2>1. \A e \in Engines : Contains(<<e>>, e)
    BY DEF Contains
  <2> QED
    BY <1>2, <2>1 DEF OwnInv
<1> QED
  BY <1>1, <1>4, <1>5 DEF EnginesOwned

(* vpnOperations, login, logout, reconnection and quit, however intents cross *)
(* the operation under way and logins are cancelled: no engine dials that is *)
(* neither mounted nor in the hands of the goroutine that will stop it.    *)
THEOREM OwnedKept == GuiSpec => []EnginesOwned
<1>1. GuiInit => OwnInv
  BY OwnStarts
<1>2. OwnInv /\ [GuiNext]_guiVars => OwnInv'
  BY OwnSteps
<1>3. OwnInv => EnginesOwned
  BY OwnMeans
<1> QED
  BY <1>1, <1>2, <1>3, PTL DEF GuiSpec

-----------------------------------------------------------------------------
(* Requests in the queue.                                                  *)

(* setPending and endOp: a queue that is idle has no request in it but for *)
(* those left by operations that never look at it.                         *)
THEOREM ServedKept == GuiSpec => []IntentServed
<1> DEFINE Inv == QueueShape /\ IntentServed
<1>1. GuiInit => Inv
  BY DEF GuiInit, QueueShape, IntentServed
<1>2. Inv /\ [GuiNext]_guiVars => Inv'
  <2> SUFFICES ASSUME QueueShape, IntentServed, [GuiNext]_guiVars
               PROVE  QueueShape' /\ IntentServed'
    OBVIOUS
  <2>1. CASE UNCHANGED <<queue, unserved>>
    BY <2>1 DEF QueueShape, IntentServed
  <2>2. CASE queue' = [queue EXCEPT !.busy = TRUE] /\ UNCHANGED unserved
    BY <2>2 DEF QueueShape, IntentServed
  <2>3. CASE \E intent : SetPending(intent) /\ UNCHANGED unserved
    <3>1. PICK intent : SetPending(intent) /\ UNCHANGED unserved
      BY <2>3
    <3>2. CASE queue' = [queue EXCEPT !.pending = intent, !.gen = @ + 1]
      <4>1. PICK gen : gen = queue.gen + 1
        OBVIOUS
      <4>2. queue' = [queue EXCEPT !.pending = intent, !.gen = gen]
        BY <3>2, <4>1 DEF QueueShape
      <4> QED
        BY <3>1, <4>2 DEF QueueShape, IntentServed, SetPending
    <3>3. CASE queue' = queue
      BY <3>1, <3>3 DEF QueueShape, IntentServed
    <3> QED
      BY <3>1, <3>2, <3>3 DEF SetPending
  <2>4. CASE queue' = [queue EXCEPT !.pending = "none"]
    BY <2>4 DEF QueueShape, IntentServed
  <2>5. CASE EndOp
    BY <2>5 DEF EndOp, QueueShape, IntentServed
  <2>6. CASE queue.pending = "none" /\ queue' = [queue EXCEPT !.busy = FALSE]
    BY <2>6 DEF QueueShape, IntentServed
  <2>7. CASE User
    BY <2>1, <2>2, <2>3, <2>7
    DEF User, Connect, Logout, Quit, Reconnect, ShowLogin, DataplaneFailed, Operate
  <2>8. CASE Background
    <3>1. PICK t \in tasks : \/ StopNext(t) \/ StopDone(t) \/ RestartStage(t) \/ RestartStart(t)
                             \/ RestartDone(t) \/ LoginStart(t) \/ LoginRefused(t) \/ LoginFailed(t)
                             \/ LoginOK(t)
      BY <2>8 DEF Background
    <3>2. CASE StopNext(t) \/ RestartStage(t) \/ RestartStart(t) \/ LoginStart(t) \/ LoginRefused(t) \/ LoginOK(t)
      BY <2>1, <3>2 DEF StopNext, RestartStage, RestartStart, LoginStart, LoginRefused, LoginOK
    <3>3. CASE StopDone(t)
      BY <2>1, <2>4, <2>5, <3>3 DEF StopDone, Dispatch, Leave
    <3>4. CASE RestartDone(t)
      <4>1. \/ UNCHANGED <<queue, unserved>> \/ queue' = [queue EXCEPT !.pending = "none"]
            \/ (queue.pending = "none" /\ queue' = [queue EXCEPT !.busy = FALSE])
        BY <3>4, Zenon DEF RestartDone, Dispatch
      <4> QED
        BY <2>1, <2>4, <2>6, <4>1
    <3>5. CASE LoginFailed(t)
      BY <2>1, <2>2, <3>5 DEF LoginFailed
    <3> QED
      BY <3>1, <3>2, <3>3, <3>4, <3>5
  <2>9. CASE \E e \in Engines : SetUpVia(e)
    BY <2>1, <2>9 DEF SetUpVia
  <2> QED
    BY <2>1, <2>7, <2>8, <2>9 DEF GuiNext, guiVars
<1>3. Inv => IntentServed
  OBVIOUS
<1> QED
  BY <1>1, <1>2, <1>3, PTL DEF GuiSpec

-----------------------------------------------------------------------------
(* Connection sharing.                                                     *)

SharedInv ==
    ~quit => /\ \A e \in via : engine[e] = "up"
             /\ shared => kept \/ via # {}

LEMMA SharedStops ==
    ASSUME OwnInv, SharedInv, NEW e \in Engines, NEW ics, ics \in {"disable", "preserve"}, Stopped(e, ics),
           UNCHANGED quit
    PROVE  SharedInv'
<1>1. /\ engine' \in [Engines -> Fates] /\ engine'[e] = "down" /\ via' = via \ {e}
      /\ \A d \in Engines \ {e} : engine'[d] = engine[d]
  BY StoppedIs DEF OwnInv
<1>2. via \subseteq Engines
  BY DEF OwnInv, DesktopShape
<1>3. quit \/ \A d \in via' : engine'[d] = "up"
  BY <1>1, <1>2 DEF SharedInv
<1>4. shared' = (shared /\ ~(e \in via /\ ics = "disable")) /\ kept' = (kept \/ (e \in via /\ ics = "preserve"))
  BY DEF Stopped
<1>5. quit \/ (shared' => kept' \/ via' # {})
  BY <1>1, <1>4 DEF SharedInv
<1> QED
  BY <1>3, <1>5 DEF SharedInv

(* Engines that were not up change, those with sharing stay up.            *)
LEMMA SharedSame ==
    ASSUME SharedInv, UNCHANGED <<via, shared, kept>>, quit => quit',
           \A e \in via : engine[e] = "up" => engine'[e] = "up"
    PROVE  SharedInv'
BY DEF SharedInv

LEMMA SharedStarts ==
    ASSUME OwnInv, NEW e \in Engines, Started(e)
    PROVE  \A d \in via : engine[d] = "up" => engine'[d] = "up"
<1>1. /\ engine'[e] = "up" /\ \A d \in Engines \ {e} : engine'[d] = engine[d]
  BY StartedIs DEF OwnInv
<1> QED
  BY <1>1 DEF OwnInv, DesktopShape

LEMMA SharedCreates ==
    ASSUME OwnInv, NEW e \in Engines, engine[e] = "none", engine' = [engine EXCEPT ![e] = "new"]
    PROVE  \A d \in via : engine[d] = "up" => engine'[d] = "up"
BY DEF OwnInv, DesktopShape

LEMMA SharedSteps ==
    ASSUME OwnInv, SharedInv, [GuiNext]_guiVars
    PROVE  SharedInv'
<1>1. CASE UNCHANGED <<via, shared, kept, quit, engine>>
  BY <1>1, SharedSame
<1>2. CASE User
  <2>1. CASE Connect
    BY <1>1, <2>1, SharedSame, SharedCreates DEF Connect, Launch
  <2> QED
    BY <1>1, <1>2, <2>1 DEF User, Logout, Quit, Reconnect, ShowLogin, DataplaneFailed, Operate
<1>3. CASE Background
  <2>1. PICK t \in tasks : \/ StopNext(t) \/ StopDone(t) \/ RestartStage(t) \/ RestartStart(t)
                           \/ RestartDone(t) \/ LoginStart(t) \/ LoginRefused(t) \/ LoginFailed(t)
                           \/ LoginOK(t)
    BY <1>3 DEF Background
  <2>2. ASSUME t.todo # <<>>
        PROVE  \E e \in Engines : t.todo = <<e>>
    BY <2>2 DEF OwnInv, TasksInv, TaskOK
  <2>3. CASE StopNext(t)
    <3>1. PICK e, ics : e \in Engines /\ Head(t.todo) = e /\ ics = "disable"
      BY <2>2, <2>3, OneItem DEF StopNext
    <3> QED
      BY <2>3, <3>1, SharedStops DEF StopNext
  <2>4. CASE RestartStage(t)
    <3>1. CASE t.todo # <<>> /\ Stopped(Head(t.todo), "preserve")
      <4>1. PICK e, ics : e \in Engines /\ Head(t.todo) = e /\ ics = "preserve"
        BY <2>2, <3>1, OneItem
      <4> QED
        BY <2>4, <3>1, <4>1, SharedStops DEF RestartStage
    <3> QED
      BY <1>1, <2>4, <3>1 DEF RestartStage
  <2>5. CASE RestartStart(t)
    <3>1. UNCHANGED <<via, shared, kept, quit>>
      BY <2>5 DEF RestartStart
    <3>2. \/ engine' = engine \/ (\E e \in Engines : Started(e))
          \/ \E e \in Engines : engine[e] = "none" /\ engine' = [engine EXCEPT ![e] = "new"]
      BY <2>5 DEF RestartStart
    <3> QED
      BY <3>1, <3>2, SharedSame, SharedStarts, SharedCreates
  <2>6. CASE StopDone(t)
    <3>1. CASE Leave(t)
      BY <3>1 DEF Leave, SharedInv
    <3>2. UNCHANGED <<via, shared, kept>>
      BY <2>6 DEF StopDone
    <3>3. CASE UNCHANGED <<engine, quit>>
      BY <1>1, <3>2, <3>3
    <3>4. CASE (\E e \in Engines : Launch(e)) /\ UNCHANGED quit
      BY <3>2, <3>4, SharedSame, SharedCreates DEF Launch
    <3> QED
      BY <2>6, <3>1, <3>3, <3>4 DEF StopDone, Dispatch
  <2>7. CASE RestartDone(t)
    BY <1>1, <2>7, Zenon DEF RestartDone, Dispatch
  <2>8. CASE LoginStart(t) \/ LoginRefused(t)
    <3>1. PICK e \in Engines : t.todo[1] = e
      BY <2>8, LoginHas DEF LoginStart, LoginRefused
    <3>2. CASE LoginStart(t)
      BY <3>1, <3>2, SharedSame, SharedStarts DEF LoginStart
    <3>3. CASE LoginRefused(t)
      <4>1. PICK ics : ics = "disable"
        OBVIOUS
      <4> QED
        BY <3>1, <3>3, <4>1, SharedStops DEF LoginRefused
    <3> QED
      BY <2>8, <3>2, <3>3
  <2>9. CASE LoginFailed(t) \/ LoginOK(t)
    BY <1>1, <2>9 DEF LoginFailed, LoginOK
  <2> QED
    BY <2>1, <2>3, <2>4, <2>5, <2>6, <2>7, <2>8, <2>9
<1>4. CASE \E e \in Engines : SetUpVia(e)
  BY <1>4 DEF SetUpVia, SharedInv
<1> QED
  BY <1>1, <1>2, <1>3, <1>4 DEF GuiNext, guiVars

LEMMA SharedMeans == OwnInv /\ SharedInv => LoggedOutUnshared
BY DEF SharedInv, LoggedOutUnshared, OwnInv, DesktopShape

(* Stop, StopKeepICS and the via exit: a desktop with no engine and no     *)
(* operation under way shares nothing, unless a HardRestart kept ICS and its *)
(* successor never set it up.                                              *)
THEOREM UnsharedKept == GuiSpec => []LoggedOutUnshared
<1>1. GuiInit => OwnInv /\ SharedInv
  <2>1. GuiInit => SharedInv
    BY DEF GuiInit, SharedInv
  <2> QED
    BY <2>1, OwnStarts
<1>2. (OwnInv /\ SharedInv) /\ [GuiNext]_guiVars => (OwnInv /\ SharedInv)'
  BY OwnSteps, SharedSteps
<1>3. OwnInv /\ SharedInv => LoggedOutUnshared
  BY SharedMeans
<1> QED
  BY <1>1, <1>2, <1>3, PTL DEF GuiSpec

=============================================================================
