---------------------------- MODULE LanRegistry ----------------------------
(***************************************************************************)
(* What an account with local networks (a via) reports of them, in the     *)
(* table client_lan_registry, in its session (ExitLANs) and in the routes  *)
(* of the members that reach these networks through it; and session_stats. *)
(* Handshakes, the disconnect handler, a sync message and a restart of the *)
(* server interleave.  How a session displaces another is one step here:   *)
(* SessionMgr has the inside.                                              *)
(***************************************************************************)
EXTENDS Naturals, FiniteSets

CONSTANTS Lans,      \* local networks, each a prefix
          Via,       \* the account that reports them
          Member,    \* an account with a route to each of them
          LanConns,  \* connections
          NoLan,     \* no connection
          Owner,     \* Owner[c]: the account of connection c
          MaxSyncs   \* lan_registry messages, at most

ASSUME LanAssumption == NoLan \notin LanConns /\ Via # Member /\ Owner \in [LanConns -> {Via, Member}]

VARIABLES
    lanRows,   \* client_lan_registry of Via
    lanStat,   \* session_stats of Via: no row, connected or not
    lanSess,   \* m.sessions: the connection, ExitLANs and ViaRoutes
    lanHs,     \* per connection: how far its handshake is, with what it has read
    lanLeft,   \* per connection: the rest of its disconnect handler
    lanSync,   \* the lan_registry message being handled
    syncs,     \* bound
    lanSlips   \* what the exceptions of the property are about

lanVars == <<lanRows, lanStat, lanSess, lanHs, lanLeft, lanSync, syncs, lanSlips>>

Offline == [conn |-> NoLan, lans |-> {}, vias |-> {}]
Online(u) == lanSess[u] # Offline
NewHs == [pc |-> "new", lans |-> {}, vias |-> {}]
NoSync == [pc |-> "idle", lans |-> {}]

LanInit ==
    /\ lanRows = {}
    /\ lanStat = "none"
    /\ lanSess = [u \in {Via, Member} |-> Offline]
    /\ lanHs = [c \in LanConns |-> NewHs]
    /\ lanLeft = [c \in LanConns |-> "none"]
    /\ lanSync = NoSync
    /\ syncs = 0
    /\ lanSlips = {}

HsGoes(c, pc) == lanHs' = [lanHs EXCEPT ![c].pc = pc]

(* A handshake of u has written its rows and is not registered yet.        *)
Crossing(u) == \E c \in LanConns : Owner[c] = u /\ lanHs[c].pc \in {"rows", "policy", "exit"}

(* What becomes of the reader of a session that ends: it goes on to the    *)
(* end of RegisterVPN, or of HandleInbound.                                *)
Kicked(hs) == IF hs.pc = "online" THEN [NewHs EXCEPT !.pc = "off"] ELSE hs

----------------------------------------------------------------------------
(* handshakeSession *)

(* applyLANRegistry: the table holds what this handshake reports, or       *)
(* nothing, before anybody knows whether it will be accepted.              *)
Report(c) ==
    /\ lanHs[c].pc = "new"
    /\ \E nets \in SUBSET Lans :
          lanRows' = IF Owner[c] = Via THEN nets ELSE lanRows
    /\ HsGoes(c, "rows")
    /\ UNCHANGED <<lanStat, lanSess, lanLeft, lanSync, syncs, lanSlips>>

(* ResolveClientPolicy: a route is stale when its network has no row; that *)
(* the via is online is concluded from its vpn_ip, which a fixed account   *)
(* always has.                                                             *)
Resolve(c) ==
    /\ lanHs[c].pc = "rows"
    /\ lanHs' = [lanHs EXCEPT ![c].pc = "policy",
                              ![c].vias = IF Owner[c] = Member THEN lanRows ELSE {}]
    /\ lanSlips' = IF /\ Owner[c] = Member /\ lanRows # {}
                      /\ ~Online(Via) /\ ~Crossing(Via)
                      /\ \A d \in LanConns : lanLeft[d] = "none"
                   THEN lanSlips \cup {"ghost"} ELSE lanSlips
    /\ UNCHANGED <<lanRows, lanStat, lanSess, lanLeft, lanSync, syncs>>

LoadExitLANs(c) ==
    /\ lanHs[c].pc = "policy"
    /\ lanHs' = [lanHs EXCEPT ![c].pc = "exit", ![c].lans = IF Owner[c] = Via THEN lanRows ELSE {}]
    /\ UNCHANGED <<lanRows, lanStat, lanSess, lanLeft, lanSync, syncs, lanSlips>>

(* RegisterVPN: an earlier session is displaced without its handler.       *)
RegisterLan(c) ==
    /\ lanHs[c].pc = "exit"
    /\ LET u == Owner[c]
           old == lanSess[u].conn
       IN  /\ lanSess' = [lanSess EXCEPT ![u] =
                 [conn |-> c, lans |-> lanHs[c].lans, vias |-> lanHs[c].vias]]
           /\ lanHs' = [d \in LanConns |->
                 CASE d = c -> [lanHs[c] EXCEPT !.pc = "stat"]
                   [] d = old -> Kicked(lanHs[d])
                   [] OTHER -> lanHs[d]]
           /\ lanSlips' = lanSlips \cup
                 (IF u = Via /\ lanHs[c].lans # lanRows THEN {"crossed"} ELSE {})
    /\ UNCHANGED <<lanRows, lanStat, lanLeft, lanSync, syncs>>

(* The policy cannot be resolved, or the account is online already.        *)
Refused(c) ==
    /\ Owner[c] = Via /\ lanHs[c].pc \in {"rows", "exit"}
    /\ lanHs[c].pc = "exit" => Online(Via)
    /\ lanHs' = [lanHs EXCEPT ![c] = [NewHs EXCEPT !.pc = "off"]]
    /\ lanSlips' = lanSlips \cup {"refused"}
    /\ UNCHANGED <<lanRows, lanStat, lanSess, lanLeft, lanSync, syncs>>

(* The end of RegisterVPN: session_stats.  The connection is gone if the   *)
(* session was kicked meanwhile.                                           *)
StatUp(c) ==
    /\ lanHs[c].pc = "stat"
    /\ lanStat' = IF Owner[c] = Via THEN "up" ELSE lanStat
    /\ HsGoes(c, IF lanSess[Owner[c]].conn = c THEN "online" ELSE "off")
    /\ lanSlips' = lanSlips \cup
          (IF Owner[c] = Via /\ lanSess[Via].conn # c THEN {"lateStat"} ELSE {})
    /\ UNCHANGED <<lanRows, lanSess, lanLeft, lanSync, syncs>>

(* HandleInbound: a packet of the session has been decrypted; noteInboundRx *)
(* writes session_stats, of a session that may have ended meanwhile.       *)
Inbound(c) ==
    /\ lanHs[c].pc = "online" /\ Owner[c] = Via /\ lanSess[Via].conn = c
    /\ HsGoes(c, "flush")
    /\ UNCHANGED <<lanRows, lanStat, lanSess, lanLeft, lanSync, syncs, lanSlips>>

StatRx(c) ==
    /\ lanHs[c].pc = "flush"
    /\ lanStat' = "up"
    /\ HsGoes(c, IF lanSess[Via].conn = c THEN "online" ELSE "off")
    /\ lanSlips' = lanSlips \cup (IF Online(Via) THEN {} ELSE {"lateStat"})
    /\ UNCHANGED <<lanRows, lanSess, lanLeft, lanSync, syncs>>

----------------------------------------------------------------------------
(* The session ends: RemoveIfConn and KickUser, and the disconnect handler *)

Ends(u) ==
    /\ lanLeft' = [lanLeft EXCEPT ![lanSess[u].conn] = IF u = Via THEN "stat" ELSE "none"]
    /\ lanSess' = [lanSess EXCEPT ![u] = Offline]

Lose(c) ==
    /\ lanHs[c].pc \in {"online", "flush"} /\ lanSess[Owner[c]].conn = c
    /\ lanHs' = [lanHs EXCEPT ![c] = Kicked(@)]
    /\ Ends(Owner[c])
    /\ UNCHANGED <<lanRows, lanStat, lanSync, syncs, lanSlips>>

KickLan(u) ==
    /\ Online(u)
    /\ Ends(u)
    /\ lanHs' = [lanHs EXCEPT ![lanSess[u].conn] = Kicked(@)]
    /\ UNCHANGED <<lanRows, lanStat, lanSync, syncs, lanSlips>>

(* recordDisconnect, after the lock was released.                          *)
StatDown(c) ==
    /\ lanLeft[c] = "stat"
    /\ lanStat' = "down"
    /\ lanLeft' = [lanLeft EXCEPT ![c] = "rows"]
    /\ lanSlips' = lanSlips \cup (IF Online(Via) THEN {"lateStat"} ELSE {})
    /\ UNCHANGED <<lanRows, lanSess, lanHs, lanSync, syncs>>

(* Mutant of ClearRows: the rows stay. *)
KeepRows(c) ==
    /\ lanLeft[c] = "rows"
    /\ lanLeft' = [lanLeft EXCEPT ![c] = "none"]
    /\ UNCHANGED <<lanRows, lanStat, lanSess, lanHs, lanSync, syncs, lanSlips>>

(* ClearClientLANRegistry, whoever wrote the rows.                         *)
ClearRows(c) ==
    /\ lanLeft[c] = "rows"
    /\ lanLeft' = [lanLeft EXCEPT ![c] = "none"]
    /\ lanRows' = {}
    /\ lanSlips' = lanSlips \cup (IF Online(Via) \/ Crossing(Via) THEN {"late"} ELSE {})
    /\ UNCHANGED <<lanStat, lanSess, lanHs, lanSync, syncs>>

----------------------------------------------------------------------------
(* applyLANRegistrySync: a message of an established connection of Via.    *)
(* Whether the session is this connection's is not asked.                  *)

SyncGoes(pc, nets) == lanSync' = [pc |-> pc, lans |-> nets]

(* AllowLANRegistrySync looks for a session under m.mu, and lets it go.    *)
SyncAllowed(c) ==
    /\ lanSync.pc = "idle" /\ lanHs[c].pc = "online" /\ Owner[c] = Via
    /\ Online(Via) /\ syncs < MaxSyncs
    /\ syncs' = syncs + 1
    /\ SyncGoes("write", {})
    /\ UNCHANGED <<lanRows, lanStat, lanSess, lanHs, lanLeft, lanSlips>>

(* Rows are held by somebody who will take them back. *)
Held == Online(Via) \/ Crossing(Via) \/ \E c \in LanConns : lanLeft[c] # "none"

(* applyLANRegistry, whoever is online by now.                             *)
SyncRows ==
    /\ lanSync.pc = "write"
    /\ \E nets \in SUBSET Lans : lanRows' = nets
    /\ SyncGoes("reload", {})
    /\ lanSlips' = lanSlips \cup (IF Held THEN {} ELSE {"lateSync"})
    /\ UNCHANGED <<lanStat, lanSess, lanHs, lanLeft, syncs>>

(* ReloadExitLANs: loadExitLANs reads the table, then the lock is taken.   *)
SyncLoad ==
    /\ lanSync.pc = "reload"
    /\ SyncGoes("set", lanRows)
    /\ UNCHANGED <<lanRows, lanStat, lanSess, lanHs, lanLeft, syncs, lanSlips>>

SyncReload ==
    /\ lanSync.pc = "set"
    /\ IF Online(Via)
       THEN /\ lanSess' = [lanSess EXCEPT ![Via].lans = lanSync.lans]
            /\ lanSlips' = lanSlips \cup (IF lanSync.lans = lanRows THEN {} ELSE {"crossed"})
       ELSE UNCHANGED <<lanSess, lanSlips>>
    /\ SyncGoes("list", {})
    /\ UNCHANGED <<lanRows, lanStat, lanHs, lanLeft, syncs>>

SyncList ==
    /\ lanSync.pc = "list"
    /\ SyncGoes("prune", lanRows)
    /\ UNCHANGED <<lanRows, lanStat, lanSess, lanHs, lanLeft, syncs, lanSlips>>

(* PruneViaRoutesAfterRegistry: a member that loses a route is kicked.     *)
SyncPrune ==
    /\ lanSync.pc = "prune"
    /\ lanSess' = [lanSess EXCEPT ![Member].vias = @ \cap lanSync.lans]
    /\ IF lanSess'[Member] = lanSess[Member] THEN lanSync' = NoSync ELSE SyncGoes("kick", {})
    /\ UNCHANGED <<lanRows, lanStat, lanHs, lanLeft, syncs, lanSlips>>

SyncKick ==
    /\ lanSync.pc = "kick"
    /\ lanSync' = NoSync
    /\ IF Online(Member)
       THEN Ends(Member) /\ lanHs' = [lanHs EXCEPT ![lanSess[Member].conn] = Kicked(@)]
       ELSE UNCHANGED <<lanSess, lanLeft, lanHs>>
    /\ UNCHANGED <<lanRows, lanStat, syncs, lanSlips>>

----------------------------------------------------------------------------

(* The tables survive, nobody clears client_lan_registry at boot.  A       *)
(* connection that was used can be used again.                             *)
LanRestart ==
    /\ \E c \in LanConns : lanHs[c].pc # "new"
    /\ "restart" \notin lanSlips
    /\ lanSess' = [u \in {Via, Member} |-> Offline]
    /\ lanHs' = [c \in LanConns |-> NewHs]
    /\ lanLeft' = [c \in LanConns |-> "none"]
    /\ lanSync' = NoSync
    /\ lanSlips' = lanSlips \cup {"restart"}
    /\ UNCHANGED <<lanRows, lanStat, syncs>>

LanNext ==
    \/ \E c \in LanConns :
          \/ Report(c) \/ Resolve(c) \/ LoadExitLANs(c) \/ RegisterLan(c) \/ Refused(c)
          \/ StatUp(c) \/ Inbound(c) \/ StatRx(c) \/ Lose(c) \/ StatDown(c) \/ ClearRows(c) \/ SyncAllowed(c)
    \/ \E u \in {Via, Member} : KickLan(u)
    \/ SyncRows \/ SyncLoad \/ SyncReload \/ SyncList \/ SyncPrune \/ SyncKick \/ LanRestart

LanSpec == LanInit /\ [][LanNext]_lanVars

----------------------------------------------------------------------------
(* Properties *)

LanTypeOK ==
    /\ lanRows \subseteq Lans
    /\ lanStat \in {"none", "up", "down"}
    /\ lanSess \in [{Via, Member} -> [conn : LanConns \cup {NoLan}, lans : SUBSET Lans, vias : SUBSET Lans]]
    /\ lanHs \in [LanConns -> [pc : {"new", "rows", "policy", "exit", "stat", "online", "flush", "off"},
                               lans : SUBSET Lans, vias : SUBSET Lans]]
    /\ lanLeft \in [LanConns -> {"none", "stat", "rows"}]
    /\ lanSync \in [pc : {"idle", "write", "reload", "set", "list", "prune", "kick"}, lans : SUBSET Lans]
    /\ lanSlips \subseteq {"ghost", "crossed", "refused", "lateStat", "late", "lateSync", "restart"}

(* The networks an online via may send from are the rows the others' routes *)
(* depend on.  Exceptions: a disconnect handler that runs late clears the  *)
(* rows of the next session, a handshake that is refused has written its   *)
(* own, a sync crosses a registration or a clearing.                       *)
ExitLansRegistered ==
    Online(Via) /\ lanSync.pc \notin {"reload", "set"} /\ ~Crossing(Via) =>
        lanSess[Via].lans = lanRows \/ lanSlips \cap {"late", "refused", "crossed"} # {}

(* A member gets routes through a via only while the via is online, being  *)
(* registered or being signed off: rows are cleared when it leaves.  The   *)
(* exceptions: a refused handshake, a handler that crosses a handshake, a  *)
(* sync that was allowed and writes when the via is gone, and a restart,   *)
(* which leaves the rows of who was online.                                *)
RoutesLive == "ghost" \in lanSlips => lanSlips \cap {"refused", "restart", "late", "lateSync"} # {}

(* session_stats says whether an account is online, unless an ended session *)
(* writes after the next one, its reader after its end, or the server      *)
(* restarted.                                                              *)
StatsFollow ==
    (/\ \A c \in LanConns : lanLeft[c] = "none" /\ (Owner[c] = Via => lanHs[c].pc \notin {"stat", "flush"})
     /\ lanSlips \cap {"lateStat", "restart"} = {})
        => (lanStat = "up" <=> Online(Via))

LanRowsAgree == ExitLansRegistered /\ RoutesLive /\ StatsFollow
=============================================================================
