------------------------------ MODULE NetShare ------------------------------
(***************************************************************************)
(* What the Windows client changes on the machine it runs on: the Wintun   *)
(* adapter and its IPv4 addresses (tun, winnet), and the via exit          *)
(* (clientapp/via_exit.go, netstack, winnet), which lets the VPN into the  *)
(* local networks through a NetNat rule or, where there is no WinNAT,      *)
(* through Internet connection sharing (ICS).                              *)
(*                                                                         *)
(* rt.mu is held while a policy is applied and while the runtime is        *)
(* closed, so the code is one thread; it is cut where Windows, a cancelled *)
(* context or the end of the process come between: around the PowerShell   *)
(* scripts.  Windows gives a shared adapter the address 192.168.137.1 some *)
(* time after sharing was enabled, and may leave it there after it was     *)
(* disabled.  Sharing, rules and addresses outlive the process.            *)
(***************************************************************************)
EXTENDS Naturals, Sequences, FiniteSets, SequencesExt

CONSTANTS Nics,        \* the machine's adapters towards its networks
          NoNic,       \* none of them
          LanList,     \* local_lans, in the order of client.yaml
          VpnIPs,      \* addresses the server gives
          VpnSubnets,  \* values of vpn_subnet
          MaxEngines,  \* bound: engines that open the device
          MaxMoves     \* bound: changes of the routes to the LANs, or of vpn_subnet

ASSUME NetAssumption == "192.168.137.1" \notin VpnIPs

VARIABLES
    host,   \* the machine: edition, natural (the adapter towards each LAN), moves
    wintun, \* the adapter: there, addrs, skip (SkipAsSource), prefix, default
    share,  \* ICS as Windows has it: pub, prv (the TUN), coming (137 is not there yet)
    rule,   \* the prefix of the NetNat rule
    proc,   \* this process: warmed, snap, pair, noWinNat, engines
    run,    \* the runtime: open, ip, lans, preferred, ph, sub, plan, via, pref, cut
    slips   \* why the machine is not as the client means it to be

netVars == <<host, wintun, share, rule, proc, run, slips>>

Ics == "192.168.137.1"
NoRule == "no rule"
Lans == ToSet(LanList)
Unshared == [pub |-> NoNic, prv |-> FALSE, coming |-> FALSE]
NoExit == [mode |-> "none", sub |-> NoRule, plan |-> NoNic]
NewProc == [warmed |-> FALSE, snap |-> <<>>, pair |-> NoNic, noWinNat |-> FALSE]
NewRun == [open |-> FALSE, ip |-> NoRule, lans |-> FALSE, preferred |-> NoNic, ph |-> "off",
           sub |-> NoRule, plan |-> NoNic, via |-> NoExit, pref |-> "none", cut |-> FALSE]
NoAdapter == [there |-> FALSE, addrs |-> {}, skip |-> {}, prefix |-> 32, default |-> FALSE]

NetInit ==
    /\ host \in [edition : {"home", "pro"}, natural : [Lans -> Nics], moves : {0},
                 engines : {0}]
    /\ wintun = NoAdapter
    /\ share = Unshared
    /\ rule = NoRule
    /\ proc = NewProc
    /\ run = NewRun
    /\ slips = {}

Shared(s) == s.pub # NoNic \/ s.prv
Residue(w) == Ics \in w.addrs               \* HasICSResidue
HasExit == run.via.mode # "none"
Busy == run.ph \in {"setup", "cold", "prefer"}
Owned == {"kept", "cut", "killed"}          \* slips that a new owner takes back
Excused == Owned \cup {"failed", "mispaired"}

(* The pair that will be disabled is not the one that is shared.           *)
Mispaired(s, pair) == IF Shared(s) /\ pair \notin {NoNic, s.pub} THEN {"mispaired"} ELSE {}

(* What is no longer true once nothing is shared and no rule is there.     *)
Settled(sl, s, r) == IF Shared(s) \/ r # NoRule THEN sl ELSE sl \ Excused

----------------------------------------------------------------------------
(* The addresses of the adapter *)

Deleted(w, ips) == [w EXCEPT !.addrs = @ \ ips, !.skip = @ \ ips]

(* replaceInterfaceIPv4: every other address is deleted, 137 only if it is *)
(* not to be kept; the wanted one is created, or created anew if its       *)
(* prefix is wrong.  A new address is a source.                            *)
Replace(w, v, prefix, keep) ==
    LET kept == Deleted(w, w.addrs \ ({v} \cup (IF keep THEN {Ics} ELSE {})))
    IN  [kept EXCEPT !.addrs = @ \cup {v}, !.prefix = prefix,
                     !.skip = IF v \in w.addrs /\ w.prefix = prefix THEN @ ELSE @ \ {v}]

(* Mutant of SetOnIndex: the prefix is that of the policy.                 *)
PolicyPrefix(w, v) == Replace(w, v, 32, Residue(w))

(* SetInterfaceIPv4OnIndex while IP Helper works: beside 137 the prefix is *)
(* 24, or the NAT of ICS stops.                                            *)
SetOnIndex(w, v) == Replace(w, v, IF Residue(w) THEN 24 ELSE 32, Residue(w))

(* A Replace that fails has deleted some and created nothing.              *)
HalfReplaced(w, v) ==
    {Deleted(w, gone) : gone \in SUBSET (w.addrs \ {Ics})}

(* Its fallbacks: netsh replaces every static address, PowerShell keeps    *)
(* 137; both with the prefix of the policy, 32.                            *)
Netsh(w, v) == [w EXCEPT !.addrs = {v}, !.skip = {}, !.prefix = 32]
AssignPS(w, v) == Replace(w, v, 32, TRUE)

(* assignIPv4: what may come of it, with what is wrong about it.  When     *)
(* nothing worked it goes on if the address is there all the same.         *)
Assign(w, v) ==
    {<<SetOnIndex(w, v), {}>>}
      \cup UNION {{<<Netsh(h, v), {}>>,
                   <<AssignPS(h, v), IF Residue(h) THEN {"narrow"} ELSE {}>>,
                   <<h, {"stale"}>>} : h \in HalfReplaced(w, v)}

(* ApplyPreferVPNSkipAsSource and its scripts: the VPN address is a        *)
(* source, 137 is not; the route 0.0.0.0/0 that ICS adds is deleted, which *)
(* may fail and is not reported: "route".  Without 137 the script waits for it, *)
(* then deletes stale addresses too and sets a missing one with prefix 32. *)
Sources(w, v) == [w EXCEPT !.skip = (@ \ {v}) \cup (w.addrs \cap {Ics})]
Scrub(w) == [w EXCEPT !.default = FALSE]
FullPrefer(w, v) ==
    Sources(Replace(w, v, IF v \in w.addrs THEN w.prefix ELSE 32, TRUE), v)

Preferred(w) == {<<w, "route">>, <<Scrub(w), "ok">>}

Prefer(w, v, cut) ==
    {<<w, "warn">>, <<Scrub(w), "warn">>}
      \cup (IF {v, Ics} \subseteq w.addrs THEN Preferred(Sources(w, v)) ELSE {})
      \cup (IF Residue(w) \/ cut THEN {} ELSE Preferred(FullPrefer(w, v)))

----------------------------------------------------------------------------
(* Scripts that end sharing: best effort, a failure is only logged.  The   *)
(* address 137 goes with it or stays.                                      *)

Unset(w) == {w, Deleted(w, {Ics})}

DisableAll(w, s) ==
    {[w |-> x, s |-> Unshared, slip |-> {}] : x \in Unset(w)}
      \cup {[w |-> w, s |-> s, slip |-> {"failed"}]}

DisablePair(w, s, pub) ==
    {[w |-> x, s |-> [pub |-> IF s.pub = pub THEN NoNic ELSE s.pub, prv |-> FALSE,
                      coming |-> FALSE], slip |-> {}] : x \in Unset(w)}
      \cup {[w |-> w, s |-> s, slip |-> {"failed"}]}

(* Mutant of DisableSession: the context that Stop has cancelled is used. *)
DisableUnlessCut(w, s, pair, cut) ==
    IF cut THEN {[w |-> w, s |-> s, slip |-> {}]} ELSE DisableAll(w, s)

(* DisableICSSessionContext, with a context that nobody cancels: the pair  *)
(* that was remembered, all if 137 is still there or none was remembered.  *)
DisableSession(w, s, pair, cut) ==
    IF pair = NoNic THEN DisableAll(w, s)
    ELSE UNION {IF Residue(d.w) THEN DisableAll(d.w, d.s) ELSE {d} : d \in DisablePair(w, s, pair)}

(* teardownViaExitLocked; the rule is removed in either way.               *)
RulesAfterRemove == IF proc.noWinNat THEN {rule} ELSE {NoRule, rule}

TeardownVia(preserve, thenRun) ==
    IF ~HasExit
    THEN /\ run' = thenRun
         /\ UNCHANGED <<wintun, share, rule, proc, slips>>
    ELSE /\ rule' \in RulesAfterRemove
         /\ \E d \in IF preserve THEN {[w |-> wintun, s |-> share, slip |-> {}]}
                     ELSE DisableSession(wintun, share, proc.pair, run.cut) :
              /\ wintun' = d.w /\ share' = d.s
              /\ slips' = Settled(slips \cup d.slip
                                    \cup (IF rule' # NoRule THEN {"failed"} ELSE {})
                                    \cup (IF preserve /\ Shared(share) THEN {"kept"} ELSE {}),
                                  d.s, rule')
         /\ proc' = [proc EXCEPT !.pair = IF preserve THEN @ ELSE NoNic]
         /\ run' = thenRun

----------------------------------------------------------------------------
(* The device *)

(* warmupPlatform, when the login window is shown, holds the adapter.      *)
Warmup ==
    /\ ~proc.warmed /\ ~run.open
    /\ wintun' = [wintun EXCEPT !.there = TRUE]
    /\ proc' = [proc EXCEPT !.warmed = TRUE]
    /\ UNCHANGED <<host, share, rule, run, slips>>

(* openPlatform: takes the warmed adapter, opens the one that is there or  *)
(* creates one; the first policy of an engine.                             *)
OpenDevice(v) ==
    /\ run.ph = "off" /\ host.engines < MaxEngines
    /\ host' = [host EXCEPT !.engines = @ + 1]
    /\ proc' = [proc EXCEPT !.warmed = FALSE]
    /\ \E a \in Assign(wintun, v), lans \in BOOLEAN, preferred \in Nics \cup {NoNic} :
         /\ wintun' = [a[1] EXCEPT !.there = TRUE]
         /\ slips' = (slips \ {"stale", "narrow", "late"}) \cup a[2]
         /\ run' = IF v \in a[1].addrs
                   THEN [NewRun EXCEPT !.open = TRUE, !.ip = v, !.lans = lans, !.ph = "open",
                                       !.preferred = IF lans THEN preferred ELSE NoNic]
                   ELSE NewRun                                       \* the device is closed
    /\ UNCHANGED <<share, rule>>

(* The session does not start: the handle is closed, and an adapter that   *)
(* this process has just created goes with it.                             *)
OpenFails ==
    /\ run.ph = "off" /\ host.engines < MaxEngines
    /\ host' = [host EXCEPT !.engines = @ + 1]
    /\ proc' = [proc EXCEPT !.warmed = FALSE]
    /\ wintun' \in IF wintun.addrs = {} THEN {wintun, NoAdapter} ELSE {wintun}
    /\ UNCHANGED <<share, rule, run, slips>>

(* A new address on the open device.  The via exit is not set up again.    *)
SoftMove(v) ==
    /\ run.ph \in {"open", "up"} /\ run.ip # v /\ ~run.cut
    /\ \/ \E p \in Prefer(Replace(wintun, v, IF Residue(wintun) THEN 24 ELSE 32, TRUE), v, FALSE) :
            /\ wintun' = p[1]
            /\ run' = [run EXCEPT !.ip = v, !.pref = p[2]]
            /\ slips' = slips \ {"stale", "narrow", "late"}
       \/ /\ wintun' \in HalfReplaced(wintun, v)
          /\ run' = [run EXCEPT !.ph = "failed"]
          /\ slips' = slips \cup {"stale"}
    /\ UNCHANGED <<host, share, rule, proc>>

----------------------------------------------------------------------------
(* The egress: which adapter leads to a LAN *)

(* CollectEgressSnapshot keeps what it has seen for 30 seconds, which may  *)
(* have passed or not.                                                     *)
Snapshots == {host.natural} \cup (IF proc.snap = <<>> THEN {} ELSE {proc.snap})

(* resolveICSBindings: a LAN whose adapter is not found has none, or the   *)
(* configured one.                                                         *)
Bindings(snap, found) ==
    [l \in Lans |-> IF l \in found THEN snap[l] ELSE run.preferred]

(* PlanICSByOutboundPreferred: the configured adapter, if a LAN is behind  *)
(* it, or that of the first LAN which has one; other LANs are skipped.     *)
PlanICS(b) ==
    LET bound == SelectSeq(LanList, LAMBDA l : b[l] # NoNic)
        first == IF run.preferred # NoNic THEN run.preferred
                 ELSE IF bound = <<>> THEN NoNic ELSE b[Head(bound)]
    IN  IF \E l \in Lans : b[l] = first THEN first ELSE NoNic

----------------------------------------------------------------------------
(* setupViaExitLocked *)

(* Without local_lans sharing that an earlier engine left is ended, if its *)
(* address is on the adapter: one script disables all and deletes all      *)
(* addresses but the VPN's.                                                *)
ViaOff ==
    /\ run.ph = "open" /\ ~run.lans
    /\ run' = [run EXCEPT !.ph = "up"]
    /\ IF ~Residue(wintun) THEN UNCHANGED <<wintun, share, slips>>
       ELSE \/ /\ share' = Unshared
               /\ wintun' = Replace(wintun, run.ip, wintun.prefix, FALSE)
               /\ slips' = Settled(slips, Unshared, rule)
            \/ /\ slips' = slips \cup {"failed"}
               /\ UNCHANGED <<wintun, share>>
    /\ UNCHANGED <<host, rule, proc>>

(* Stack.Setup with forward_only: a failure leaves an exit that only       *)
(* forwards.  A cancelled one leaves none.                                 *)
Up(mode, pref) ==
    [run EXCEPT !.ph = "up", !.via = [mode |-> mode, sub |-> run.sub, plan |-> run.plan],
                !.sub = NoRule, !.plan = NoNic, !.pref = pref]
OnlyForward == [Up("forward", "none") EXCEPT !.via.plan = NoNic]
NoVia(ph) == [run EXCEPT !.ph = ph, !.via = NoExit, !.sub = NoRule, !.plan = NoNic, !.pref = "none"]
Aborted == NoVia("aborted")

(* A policy with the fingerprint of the one before changes nothing; else   *)
(* what there is makes place, and ICS stays for the new one to use.        *)
BeginVia(s) ==
    /\ run.lans /\ ~run.cut
    /\ \/ run.ph = "open" /\ UNCHANGED host
       \/ /\ run.ph = "up" /\ run.via.sub # s /\ host.moves < MaxMoves
          /\ host' = [host EXCEPT !.moves = @ + 1]
    /\ TeardownVia(TRUE, [NoVia("setup") EXCEPT !.sub = s])

(* The registry cannot be written: the only error that is not swallowed.   *)
ForwardFails ==
    /\ run.ph = "setup" /\ ~run.cut
    /\ run' = NoVia("failed")
    /\ UNCHANGED <<host, wintun, share, rule, proc, slips>>

(* setupWinNAT: a rule with the same prefix is used; another, or one that  *)
(* could not be looked up, is removed, which may fail, and a new one made. *)
WinNAT ==
    /\ run.ph = "setup" /\ ~run.cut
    /\ host.edition = "pro" /\ ~proc.noWinNat
    /\ \/ /\ rule' = run.sub
          /\ run' = Up("rule", "none")
          /\ slips' = slips \ Owned
          /\ UNCHANGED proc
       \/ /\ rule' \in {rule, NoRule}                                \* New-NetNat fails
          /\ \E class \in {"unavailable", "other"} :
               /\ proc' = [proc EXCEPT !.noWinNat = class = "unavailable"]
               /\ run' = IF class = "other" THEN OnlyForward ELSE run
          /\ slips' = IF rule' # NoRule THEN slips \cup {"failed"} ELSE slips
    /\ UNCHANGED <<host, wintun, share>>

(* A home edition, or New-NetNat says that there is no WinNAT: remembered, *)
(* and a rule is not removed either from then on.                          *)
NoWinNAT ==
    /\ run.ph = "setup" /\ ~run.cut
    /\ host.edition # "pro" /\ ~proc.noWinNat
    /\ proc' = [proc EXCEPT !.noWinNat = TRUE]
    /\ UNCHANGED <<host, wintun, share, rule, run, slips>>

(* reuseLiveICS: the address 137 is taken for sharing that is on, and the  *)
(* adapter that the plan wants for the one that is shared.                 *)
ReuseLive(snap, plan) ==
    /\ run' = [run EXCEPT !.ph = "prefer", !.plan = plan]
    /\ proc' = [proc EXCEPT !.snap = snap, !.pair = plan]
    /\ slips' = (slips \ {"mispaired"})
                  \cup (IF share.pub = plan /\ share.prv THEN {} ELSE {"mispaired"})

(* setupICSForLANs up to its script.                                       *)
IcsPlan ==
    /\ run.ph = "setup" /\ ~run.cut /\ proc.noWinNat
    /\ \E snap \in Snapshots, found \in SUBSET Lans :
         LET plan == PlanICS(Bindings(snap, found))
             resolved == [proc EXCEPT !.snap = snap]
         IN  \/ /\ plan = NoNic \/ run.preferred # NoNic   \* or that one is not there
                /\ run' = OnlyForward /\ proc' = resolved
                /\ slips' = slips \ Owned
             \/ /\ plan # NoNic /\ Residue(wintun)
                /\ ReuseLive(snap, plan)
             \/ /\ plan # NoNic /\ ~Residue(wintun)
                /\ run' = [run EXCEPT !.ph = "cold", !.plan = plan] /\ proc' = resolved
                /\ UNCHANGED slips
    /\ UNCHANGED <<host, wintun, share, rule>>

(* enableICSCold: SharedAccess is restarted, all sharing is disabled, then *)
(* the two adapters are shared, in one order and then in the other.        *)
Enabled(pub) == [pub |-> pub, prv |-> TRUE, coming |-> TRUE]
Public(pub) == [pub |-> pub, prv |-> FALSE, coming |-> FALSE]
Private == [pub |-> NoNic, prv |-> TRUE, coming |-> TRUE]

EnableCold ==
    /\ run.ph = "cold"
    /\ share' = Enabled(run.plan)
    /\ proc' = [proc EXCEPT !.pair = run.plan]
    /\ run' = [run EXCEPT !.ph = "prefer"]
    /\ slips' = slips \ {"mispaired"}
    /\ UNCHANGED <<host, wintun, rule>>

EnableFails ==
    /\ run.ph = "cold" /\ ~run.cut
    /\ share' \in {share, Unshared, Public(run.plan)}
    /\ run' = OnlyForward
    /\ slips' = (slips \ Owned) \cup Mispaired(share', proc.pair)
    /\ UNCHANGED <<host, wintun, rule, proc>>

(* The script is killed wherever it is; nothing remembers what it did.     *)
EnableKilled ==
    /\ run.ph = "cold" /\ run.cut
    /\ share' \in {share, Unshared, Public(run.plan), Private, Enabled(run.plan)}
    /\ run' = Aborted
    /\ slips' = Settled(slips \cup {"cut"} \cup Mispaired(share', proc.pair), share', rule)
    /\ UNCHANGED <<host, wintun, rule, proc>>

(* applyPreferVPNAfterICS: a failure is logged and the exit is up.         *)
PreferVPN ==
    /\ run.ph = "prefer"
    /\ \E p \in Prefer(wintun, run.ip, run.cut) :
         /\ wintun' = p[1]
         /\ run' = Up("ics", p[2])
    /\ slips' = slips \ (Owned \cup {"late"})
    /\ UNCHANGED <<host, share, rule, proc>>

(* Setup checks its context before every stage.                            *)
SetupCut ==
    /\ run.ph = "setup" /\ run.cut
    /\ run' = Aborted
    /\ UNCHANGED <<host, wintun, share, rule, proc, slips>>

----------------------------------------------------------------------------
(* Stop, failures and the machine *)

Cancel ==
    /\ Busy /\ ~run.cut
    /\ run' = [run EXCEPT !.cut = TRUE]
    /\ UNCHANGED <<host, wintun, share, rule, proc, slips>>

(* dataplaneFailed.                                                        *)
ClearFailed ==
    /\ run.ph = "failed"
    /\ TeardownVia(FALSE, NoVia("aborted"))
    /\ UNCHANGED host

(* Stop, or the StopKeepICS of a manual reconnect: the exit is closed with *)
(* a context of its own, the device keeps the adapter.                     *)
Stop(preserve) ==
    /\ run.open /\ ~Busy
    /\ TeardownVia(preserve, NewRun)
    /\ UNCHANGED host

(* The process ends, or is killed; an adapter it has created may go.       *)
ClientEnds ==
    /\ proc # NewProc \/ run # NewRun
    /\ proc' = NewProc
    /\ run' = NewRun
    /\ \/ UNCHANGED <<wintun, share>>
       \/ wintun' = NoAdapter /\ share' = [share EXCEPT !.prv = FALSE, !.coming = FALSE]
    /\ slips' = IF HasExit \/ Busy THEN Settled(slips \cup {"killed"}, share', rule)
                ELSE Settled(slips, share', rule)
    /\ UNCHANGED <<host, rule>>

(* Windows gives the shared adapter its address and a default route.       *)
IcsArrives ==
    /\ share.coming /\ wintun.there
    /\ share' = [share EXCEPT !.coming = FALSE]
    /\ wintun' = [wintun EXCEPT !.addrs = @ \cup {Ics}, !.skip = @ \ {Ics},
                                !.prefix = 24, !.default = TRUE]
    /\ slips' = IF run.ph \in {"cold", "prefer"} THEN slips ELSE slips \cup {"late"}
    /\ UNCHANGED <<host, rule, proc, run>>

(* The machine changes networks.                                           *)
NicMoves ==
    /\ host.moves < MaxMoves
    /\ \E n \in [Lans -> Nics] :
         n # host.natural /\ host' = [host EXCEPT !.natural = n, !.moves = @ + 1]
    /\ UNCHANGED <<wintun, share, rule, proc, run, slips>>

NetNext ==
    \/ Warmup \/ OpenFails \/ (\E v \in VpnIPs : OpenDevice(v) \/ SoftMove(v))
    \/ ViaOff \/ (\E s \in VpnSubnets : BeginVia(s))
    \/ ForwardFails \/ WinNAT \/ NoWinNAT \/ IcsPlan
    \/ EnableCold \/ EnableFails \/ EnableKilled \/ PreferVPN \/ SetupCut
    \/ Cancel \/ ClearFailed \/ (\E p \in BOOLEAN : Stop(p)) \/ ClientEnds
    \/ IcsArrives \/ NicMoves

NetSpec == NetInit /\ [][NetNext]_netVars

----------------------------------------------------------------------------
(* Properties *)

(* Sharing and rules have an owner: while an adapter of this machine is    *)
(* shared or the rule is there, an exit that will end it is up or being    *)
(* set up, unless StopKeepICS kept it, a cancelled Setup or a killed       *)
(* process left it, a script failed, or reuse_live took another adapter    *)
(* for the one that is shared.  And an exit over ICS has just the adapter  *)
(* of its plan shared, with the same last exception.                       *)
ShareTrue ==
    /\ Shared(share) \/ rule # NoRule => HasExit \/ Busy \/ slips \cap Excused # {}
    /\ run.via.mode = "ics" /\ "mispaired" \notin slips
         => share.pub = run.via.plan /\ share.prv
    /\ run.via.mode = "rule" => rule = run.via.sub

(* An open device has the address of the policy and none of an earlier     *)
(* one, whatever sequence of engines, moves and fallbacks came before,     *)
(* unless every way to set it failed.  Beside the address of ICS, once it  *)
(* was preferred, the VPN's is the source, there is no default route into  *)
(* the tunnel, and the prefix is the one that keeps NAT alive unless       *)
(* PowerShell set it; the exception is an address that came late.          *)
SourceTrue ==
    /\ run.open /\ "stale" \notin slips => run.ip \in wintun.addrs /\ wintun.addrs \subseteq {run.ip, Ics}
    /\ run.via.mode = "ics" /\ run.pref # "warn" /\ {"late", "stale"} \cap slips = {} /\ Residue(wintun)
         => /\ run.ip \notin wintun.skip /\ Ics \in wintun.skip
            /\ wintun.default => run.pref = "route"
            /\ wintun.prefix = 24 \/ "narrow" \in slips
=============================================================================
